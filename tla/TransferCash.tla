---------------------------- MODULE TransferCash ----------------------------
(***************************************************************************)
(* The transfer_cash and get_transfer_status tools of                      *)
(* skills/baselane-mcp/src/baselane_mcp/server.py, on top of               *)
(* execute_transfer: one tool call submits, lets the Fold 7 helper answer  *)
(* an SMS challenge, submits once more, and turns the outcome into a       *)
(* report.  Processes outside Server call execute_transfer directly.       *)
(***************************************************************************)
EXTENDS InternalTransfer

CONSTANT Server  \* the processes that serve the tools

ASSUME ToolAssumption == Server \subseteq Proc

VARIABLES
    stage,   \* where a tool call is
    report,  \* the status of the last transfer_cash report
    seen     \* the status of the last get_transfer_status report

toolVars == <<stage, report, seen>>
allVars  == <<vars, toolVars>>

Stage  == {"idle", "first", "mfa", "verified", "second"}
Report == {"none", "completed", "already_completed", "auth_required", "mfa_pending",
           "authentication_required", "validation_error", "reconciliation_required", "error"}

ToolInit ==
    /\ Init
    /\ stage = [p \in Server |-> "idle"]
    /\ report = [p \in Server |-> "none"]
    /\ seen = [p \in Server |-> "none"]

-----------------------------------------------------------------------------
(* transfer_cash.                                                          *)

To(p, s, r) ==
    /\ stage' = [stage EXCEPT ![p] = s]
    /\ report' = [report EXCEPT ![p] = r]
    /\ UNCHANGED seen

\* Not a dry run, the browser session is verified: the first submit().
Begin(p, t) ==
    /\ stage[p] = "idle"
    /\ Call(p, t)
    /\ To(p, "first", "none")

\* The session is not verified, or the token belongs to another plan.
Refuse(p) ==
    /\ stage[p] = "idle" /\ pc[p] = "idle"
    /\ \/ To(p, "idle", "auth_required") /\ UNCHANGED vars
       \/ To(p, "idle", "validation_error") /\ CallWrongToken(p)

\* What the except clauses make of the result of a submit().
ReportOf(r) ==
    CASE r = "challenge" -> "authentication_required"
      [] r = "invalid"   -> "validation_error"
      [] r = "uncertain" -> "reconciliation_required"
      [] OTHER           -> r

\* submit() has returned or raised.  The first challenge goes to the helper when
\* the call asks for that and the bank account is known.
Outcome(p) ==
    /\ stage[p] \in {"first", "second"} /\ pc[p] = "idle"
    /\ \/ stage[p] = "first" /\ result[p] = "challenge" /\ To(p, "mfa", "none")
       \/ To(p, "idle", ReportOf(result[p]))
    /\ UNCHANGED vars

\* _complete_fold7_mfa.  A helper that did not report verified may have had its
\* code accepted all the same.
HelperVerifies(p) ==
    /\ stage[p] = "mfa"
    /\ otpOk' = TRUE
    /\ To(p, "verified", "none")
    /\ UNCHANGED <<recordVars, callVars, orphan, working, moved>>

HelperFails(p) ==
    /\ stage[p] = "mfa"
    /\ otpOk' \in {otpOk, TRUE}
    /\ To(p, "idle", "mfa_pending")
    /\ UNCHANGED <<recordVars, callVars, orphan, working, moved>>

\* The second submit(), of the same plan.
Resubmit(p) ==
    /\ stage[p] = "verified"
    /\ pc' = [pc EXCEPT ![p] = "waiting"]
    /\ result' = [result EXCEPT ![p] = "none"]
    /\ To(p, "second", "none")
    /\ UNCHANGED <<recordVars, tok, posts, otpSeen, wire, bankVars>>

ServerDies(p) ==
    /\ stage[p] # "idle"
    /\ Crash(p) \/ (pc[p] = "idle" /\ UNCHANGED vars)
    /\ To(p, "idle", "none")

-----------------------------------------------------------------------------
(* get_transfer_status.                                                    *)

BugReadUnlocked(p) == TRUE
MayRead(p) == LockFree(p)

\* get_transfer_state holds the flock of the state file while it reads it.
GetStatus(p, t) ==
    /\ stage[p] = "idle" /\ MayRead(p)
    /\ seen' = [seen EXCEPT ![p] = disk[FileOf[p]][t]]
    /\ UNCHANGED <<vars, stage, report>>

-----------------------------------------------------------------------------
InnerStep(p) == (Acquire(p) \/ ProcStep(p)) /\ UNCHANGED toolVars

ToolStep(p) == Outcome(p) \/ HelperVerifies(p) \/ HelperFails(p) \/ Resubmit(p)

ToolNext ==
    \/ \E p \in Server, t \in Token : Begin(p, t) \/ GetStatus(p, t)
    \/ \E p \in Server : Refuse(p) \/ ToolStep(p) \/ ServerDies(p)
    \/ \E p \in Proc : InnerStep(p)
    \/ \E p \in Proc \ Server :
        /\ (\E t \in Token : Call(p, t)) \/ Crash(p)
        /\ UNCHANGED toolVars
    \/ Bank /\ UNCHANGED toolVars

ToolSpec == ToolInit /\ [][ToolNext]_allVars

\* Every subprocess a tool call waits for has a timeout; see InternalTransfer
\* for the lock.
ToolFairSpec ==
    /\ ToolSpec
    /\ \A p \in Server : WF_allVars(ToolStep(p))
    /\ \A p \in Proc :
        /\ WF_allVars(ProcStep(p) /\ UNCHANGED toolVars)
        /\ SF_allVars(Acquire(p) /\ UNCHANGED toolVars)

-----------------------------------------------------------------------------
(* Properties.                                                             *)

ToolTypeOK ==
    /\ TypeOK
    /\ stage \in [Server -> Stage]
    /\ report \in [Server -> Report]
    /\ seen \in [Server -> {"none"} \cup Status]

\* A report of completed or already_completed is only given when the cash of
\* the plan moved, and moved once, whichever of the two submissions or of the
\* other processes moved it.
ReportedDoneIsMoved ==
    \A p \in Server :
        report[p] \in {"completed", "already_completed"} => moved[tok[p]] = 1

\* get_transfer_status says submitting only of a submission whose process has
\* died or given up: one that still runs holds the lock, so nobody reconciles a
\* transfer that is about to be confirmed.
SubmittingIsAbandoned ==
    [][\A p \in Server, t \in Token :
        GetStatus(p, t) /\ seen'[p] = "submitting" => ~Submitting(FileOf[p], t)]_allVars

\* Every tool call ends in a report, through both submissions and the helper.
ToolReturns == \A p \in Server : stage[p] # "idle" ~> stage[p] = "idle"
=============================================================================
