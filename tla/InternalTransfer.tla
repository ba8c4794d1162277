-------------------------- MODULE InternalTransfer --------------------------
(***************************************************************************)
(* execute_transfer of skills/baselane-mcp/src/baselane_mcp/transfers.py:  *)
(* the durable state machine that submits one exactly confirmed internal   *)
(* cash transfer, together with what it talks to: the node bridge          *)
(* (scripts/baselane_graphql_via_cdp.js), which may post one mutation over *)
(* several routes, and Baselane, which is external.                        *)
(*                                                                         *)
(* Processes (the MCP server, the settlement scripts, the interest sweep)  *)
(* share a state file through flock.  A token stands for one normalized    *)
(* plan: the token is the digest of the plan, so equal plans have equal    *)
(* tokens and nothing else of the plan matters here.                       *)
(***************************************************************************)
EXTENDS Naturals

CONSTANTS
    Proc,        \* processes that call execute_transfer
    Token,       \* confirmation tokens, one per normalized plan
    StateFile,   \* durable state files
    FileOf,      \* the state_path each process passes
    MaxPosts,    \* routes over which one bridge call may post the mutation
    Dedup,       \* whether Baselane honours x-idempotency-key
    OrphanLimit, \* bound: nobody calls while more abandoned posts are out
    NoProc       \* the holder of a free lock

ASSUME ConstantsAssumption ==
    /\ FileOf \in [Proc -> StateFile]
    /\ MaxPosts \in Nat \ {0}
    /\ Dedup \in BOOLEAN
    /\ OrphanLimit \in Nat
    /\ NoProc \notin Proc

VARIABLES
    disk,     \* disk[f][t]: the status recorded for t in state file f
    lock,     \* lock[f]: the process that holds f's flock
    pc,       \* where a process is in execute_transfer
    tok,      \* the token a process was called with
    mem,      \* mem[p]: the dictionary p loaded; every write dumps all of it
    posts,    \* posts the bridge has made in the current call
    otpSeen,  \* an OTP error is in the text the bridge has logged
    wire,     \* the bridge's live post and its reply
    result,   \* what the last call returned or raised
    orphan,   \* posts nobody waits for that Baselane has not received
    working,  \* posts nobody waits for that Baselane has accepted
    moved,    \* how often Baselane moved the cash of a token
    otpOk     \* the bank's SMS gate is open for the browser session

recordVars == <<disk, lock, mem>>
callVars   == <<pc, tok, posts, otpSeen, wire, result>>
bankVars   == <<orphan, working, moved, otpOk>>
vars       == <<recordVars, callVars, bankVars>>

-----------------------------------------------------------------------------
(* Statuses of a record, phases of a call, replies.                        *)

RetrySafe == {"authentication_challenge", "rejected"}
Blocking  == {"submitting", "verification_failed"}
BugRetryInterrupted == {"absent", "submitting"} \cup RetrySafe
Open      == {"absent"} \cup RetrySafe
Status    == {"absent", "completed"} \cup RetrySafe \cup Blocking

\* What is recorded when nobody can tell whether the cash moved.
BugUnknownIsRejected  == "rejected"
BugUnknownIsCompleted == "completed"
Unknown == "verification_failed"

\* createTransfer answered with data: the receipt agrees with the plan,
\* disagrees, has an amount _parse_amount refuses, or is not there at all.
Receipt    == {"receipt", "mismatch", "bad_amount", "no_receipt"}
\* createTransfer answered with GraphQL errors.
ErrorReply == {"otp", "in_progress", "refused"}
Wire       == {"none", "sent", "working"} \cup Receipt \cup ErrorReply

\* The return values and exceptions of execute_transfer: challenge is
\* TransferAuthenticationRequired, invalid TransferValidationError, uncertain
\* TransferStateError, error the base TransferError.
Result == {"none", "completed", "already_completed", "challenge",
           "invalid", "uncertain", "error"}

Nothing        == [t \in Token |-> "absent"]
Record(p)      == disk[FileOf[p]][tok[p]]
InSection(p)   == pc[p] \in {"loaded", "bridge"}
InProgress(t)  == working[t] > 0 \/ \E p \in Proc : tok[p] = t /\ wire[p] = "working"
Submitting(f, t) == \E p \in Proc : FileOf[p] = f /\ tok[p] = t /\ pc[p] = "bridge"

Init ==
    /\ disk = [f \in StateFile |-> Nothing]
    /\ lock = [f \in StateFile |-> NoProc]
    /\ pc = [p \in Proc |-> "idle"]
    /\ tok \in [Proc -> Token]
    /\ mem = [p \in Proc |-> Nothing]
    /\ posts = [p \in Proc |-> 0]
    /\ otpSeen = [p \in Proc |-> FALSE]
    /\ wire = [p \in Proc |-> "none"]
    /\ result = [p \in Proc |-> "none"]
    /\ orphan = [t \in Token |-> 0]
    /\ working = [t \in Token |-> 0]
    /\ moved = [t \in Token |-> 0]
    /\ otpOk \in BOOLEAN

-----------------------------------------------------------------------------
(* The call up to the submission.                                          *)

\* A caller asks for t with the matching confirmation token and waits for the
\* flock, or passes another token and is refused before anything is read.
Call(p, t) ==
    /\ pc[p] = "idle" /\ orphan[t] + working[t] <= OrphanLimit
    /\ pc' = [pc EXCEPT ![p] = "waiting"]
    /\ tok' = [tok EXCEPT ![p] = t]
    /\ result' = [result EXCEPT ![p] = "none"]
    /\ UNCHANGED <<recordVars, posts, otpSeen, wire, bankVars>>

CallWrongToken(p) ==
    /\ pc[p] = "idle"
    /\ result' = [result EXCEPT ![p] = "invalid"]
    /\ UNCHANGED <<recordVars, pc, tok, posts, otpSeen, wire, bankVars>>

BugIgnoreLock(p) == TRUE
LockFree(p) == lock[FileOf[p]] = NoProc

\* _state_lock and _load_state.
Acquire(p) ==
    /\ pc[p] = "waiting"
    /\ LockFree(p)
    /\ lock' = [lock EXCEPT ![FileOf[p]] = p]
    /\ mem' = [mem EXCEPT ![p] = disk[FileOf[p]]]
    /\ pc' = [pc EXCEPT ![p] = "loaded"]
    /\ UNCHANGED <<disk, tok, posts, otpSeen, wire, result, bankVars>>

BugKeepLock(p) == UNCHANGED lock
Unlock(p) == lock' = [lock EXCEPT ![FileOf[p]] = NoProc]

\* Leaving the with block: the lock goes, the caller gets r, locals are gone.
Return(p, r) ==
    /\ Unlock(p)
    /\ pc' = [pc EXCEPT ![p] = "idle"]
    /\ mem' = [mem EXCEPT ![p] = Nothing]
    /\ posts' = [posts EXCEPT ![p] = 0]
    /\ otpSeen' = [otpSeen EXCEPT ![p] = FALSE]
    /\ wire' = [wire EXCEPT ![p] = "none"]
    /\ result' = [result EXCEPT ![p] = r]
    /\ UNCHANGED tok

\* A record that is completed, or that may have moved cash, ends the call.
ReturnPrior(p) ==
    /\ pc[p] = "loaded"
    /\ \/ mem[p][tok[p]] = "completed" /\ Return(p, "already_completed")
       \/ mem[p][tok[p]] \in Blocking /\ Return(p, "uncertain")
    /\ UNCHANGED <<disk, bankVars>>

\* The account query fails, an account is not eligible, or the balance does
\* not cover the amount: the record keeps its prior status.
PreflightFails(p) ==
    /\ pc[p] = "loaded"
    /\ mem[p][tok[p]] \in Open
    /\ \E r \in {"invalid", "uncertain", "error"} : Return(p, r)
    /\ UNCHANGED <<disk, bankVars>>

\* _write_state dumps the whole dictionary with p's new status for its token.
Dump(p, s) == [mem[p] EXCEPT ![tok[p]] = s]
Write(p, s) == disk' = [disk EXCEPT ![FileOf[p]] = Dump(p, s)]

\* Preflight passed: "submitting" is durable before the bridge is started.
BeginSubmission(p) ==
    /\ pc[p] = "loaded"
    /\ mem[p][tok[p]] \in Open
    /\ Write(p, "submitting")
    /\ mem' = [mem EXCEPT ![p] = Dump(p, "submitting")]
    /\ pc' = [pc EXCEPT ![p] = "bridge"]
    /\ UNCHANGED <<lock, tok, posts, otpSeen, wire, result, bankVars>>

-----------------------------------------------------------------------------
(* The bridge: one route after the other posts the same mutation.          *)

BugOneRouteMore(p) == posts[p] <= MaxPosts
RouteLeft(p) == posts[p] < MaxPosts

Post(p) ==
    /\ pc[p] = "bridge" /\ wire[p] = "none" /\ RouteLeft(p)
    /\ wire' = [wire EXCEPT ![p] = "sent"]
    /\ posts' = [posts EXCEPT ![p] = @ + 1]
    /\ UNCHANGED <<recordVars, pc, tok, otpSeen, result, bankVars>>

\* n more posts of t, and the live one of p, are left to themselves.
Abandon(p, n) ==
    LET t == tok[p] IN
    /\ orphan' = [orphan EXCEPT ![t] = @ + n + IF wire[p] = "sent" THEN 1 ELSE 0]
    /\ working' = [working EXCEPT ![t] = @ + IF wire[p] = "working" THEN 1 ELSE 0]
    /\ UNCHANGED <<moved, otpOk>>

\* The fetch is aborted, answers with a status other than 200, or its reply is
\* lost: the bridge logs that and goes on to the next route.
GiveUp(p) ==
    /\ pc[p] = "bridge" /\ wire[p] # "none"
    /\ Abandon(p, 0)
    /\ wire' = [wire EXCEPT ![p] = "none"]
    /\ UNCHANGED <<recordVars, pc, tok, posts, otpSeen, result>>

\* GraphQL errors on a route with captured headers or through Playwright: the
\* bridge logs them and goes on to the next route.
LogErrors(p) ==
    /\ pc[p] = "bridge" /\ wire[p] \in ErrorReply
    /\ otpSeen' = [otpSeen EXCEPT ![p] = @ \/ wire[p] = "otp"]
    /\ wire' = [wire EXCEPT ![p] = "none"]
    /\ UNCHANGED <<recordVars, pc, tok, posts, result, bankVars>>

-----------------------------------------------------------------------------
(* The end of the submission: classification, the last write, the return.  *)

Conclude(p, s, r) ==
    /\ Write(p, s)
    /\ Return(p, r)

\* The bridge printed createTransfer data.  Neither a missing receipt nor an
\* amount that cannot be parsed is followed by a write.
ReceiptArrives(p) ==
    /\ pc[p] = "bridge"
    /\ \/ wire[p] = "receipt"    /\ Conclude(p, "completed", "completed")
       \/ wire[p] = "mismatch"   /\ Conclude(p, "verification_failed", "uncertain")
       \/ wire[p] = "bad_amount" /\ Return(p, "invalid")   /\ UNCHANGED disk
       \/ wire[p] = "no_receipt" /\ Return(p, "uncertain") /\ UNCHANGED disk
    /\ UNCHANGED bankVars

\* A route inside the page prints the errors of its reply: only they are read.
ErrorsArrive(p) ==
    /\ pc[p] = "bridge"
    /\ \/ wire[p] = "otp"         /\ Conclude(p, "authentication_challenge", "challenge")
       \/ wire[p] = "in_progress" /\ Conclude(p, Unknown, "uncertain")
       \/ wire[p] = "refused"     /\ Conclude(p, "rejected", "invalid")
    /\ UNCHANGED bankVars

\* No route is left or usable: the bridge exits with everything it logged, and
\* OTP text anywhere in the log makes it an OTP rejection.
BridgeFails(p) ==
    /\ pc[p] = "bridge" /\ wire[p] = "none"
    /\ IF otpSeen[p] THEN Conclude(p, "authentication_challenge", "challenge")
                     ELSE Conclude(p, Unknown, "uncertain")
    /\ UNCHANGED bankVars

\* subprocess.run kills the bridge after 90 seconds.
BridgeTimesOut(p) ==
    /\ pc[p] = "bridge"
    /\ Abandon(p, 0)
    /\ Conclude(p, Unknown, "uncertain")

\* The process dies.  The kernel drops the flock; a bridge it had started
\* lives on and may still post over the routes it has not tried.
Crash(p) ==
    /\ pc[p] # "idle"
    /\ \E n \in 0 .. (IF pc[p] = "bridge" THEN MaxPosts - posts[p] ELSE 0) : Abandon(p, n)
    /\ lock' = [f \in StateFile |-> IF lock[f] = p THEN NoProc ELSE lock[f]]
    /\ pc' = [pc EXCEPT ![p] = "idle"]
    /\ mem' = [mem EXCEPT ![p] = Nothing]
    /\ posts' = [posts EXCEPT ![p] = 0]
    /\ otpSeen' = [otpSeen EXCEPT ![p] = FALSE]
    /\ wire' = [wire EXCEPT ![p] = "none"]
    /\ result' = [result EXCEPT ![p] = "none"]
    /\ UNCHANGED <<disk, tok>>

-----------------------------------------------------------------------------
(* Baselane (external): the SMS gate, then the idempotency key, then the   *)
(* transfer itself.                                                        *)

BugNoKeySent(t) == TRUE
Fresh(t) == Dedup => moved[t] = 0 /\ ~InProgress(t)

BankReceives(p) ==
    LET t == tok[p] IN
    /\ wire[p] = "sent"
    /\ \E reply \in {"otp", "receipt", "in_progress", "refused", "working"} :
        /\ CASE reply = "otp"         -> ~otpOk
             [] reply = "receipt"     -> otpOk /\ Dedup /\ moved[t] > 0
             [] reply = "in_progress" -> otpOk /\ Dedup /\ moved[t] = 0 /\ InProgress(t)
             [] OTHER                 -> otpOk /\ Fresh(t)
        /\ wire' = [wire EXCEPT ![p] = reply]
    /\ UNCHANGED <<recordVars, pc, tok, posts, otpSeen, result, bankVars>>

BankSettles(p) ==
    /\ wire[p] = "working"
    /\ moved' = [moved EXCEPT ![tok[p]] = @ + 1]
    /\ \E reply \in Receipt : wire' = [wire EXCEPT ![p] = reply]
    /\ UNCHANGED <<recordVars, pc, tok, posts, otpSeen, result, orphan, working, otpOk>>

OrphanReceived(t) ==
    /\ orphan[t] > 0
    /\ orphan' = [orphan EXCEPT ![t] = @ - 1]
    /\ \/ UNCHANGED working
       \/ otpOk /\ Fresh(t) /\ working' = [working EXCEPT ![t] = @ + 1]
    /\ UNCHANGED <<recordVars, callVars, moved, otpOk>>

OrphanSettles(t) ==
    /\ working[t] > 0
    /\ working' = [working EXCEPT ![t] = @ - 1]
    /\ moved' = [moved EXCEPT ![t] = @ + 1]
    /\ UNCHANGED <<recordVars, callVars, orphan, otpOk>>

\* A code is verified in the browser session, or its short-lived token ends.
OtpChanges ==
    /\ otpOk' = ~otpOk
    /\ UNCHANGED <<recordVars, callVars, orphan, working, moved>>

-----------------------------------------------------------------------------
ProcStep(p) ==
    \/ ReturnPrior(p) \/ PreflightFails(p) \/ BeginSubmission(p)
    \/ Post(p) \/ GiveUp(p) \/ LogErrors(p)
    \/ ReceiptArrives(p) \/ ErrorsArrive(p) \/ BridgeFails(p) \/ BridgeTimesOut(p)

Bank ==
    \/ \E p \in Proc : BankReceives(p) \/ BankSettles(p)
    \/ \E t \in Token : OrphanReceived(t) \/ OrphanSettles(t)
    \/ OtpChanges

Next ==
    \/ \E p \in Proc, t \in Token : Call(p, t)
    \/ \E p \in Proc : CallWrongToken(p) \/ Acquire(p) \/ ProcStep(p) \/ Crash(p)
    \/ Bank

Spec == Init /\ [][Next]_vars

\* A live process keeps running (every wait of the bridge and of the account
\* query has a timeout), and flock does not pass a waiter over for ever.
Fairness == \A p \in Proc : WF_vars(ProcStep(p)) /\ SF_vars(Acquire(p))

FairSpec == Spec /\ Fairness
-----------------------------------------------------------------------------
(* Properties.                                                             *)

TypeOK ==
    /\ disk \in [StateFile -> [Token -> Status]]
    /\ lock \in [StateFile -> Proc \cup {NoProc}]
    /\ pc \in [Proc -> {"idle", "waiting", "loaded", "bridge"}]
    /\ tok \in [Proc -> Token]
    /\ mem \in [Proc -> [Token -> Status]]
    /\ posts \in [Proc -> 0 .. MaxPosts]
    /\ otpSeen \in [Proc -> BOOLEAN]
    /\ wire \in [Proc -> Wire]
    /\ result \in [Proc -> Result]
    /\ orphan \in [Token -> Nat]
    /\ working \in [Token -> Nat]
    /\ moved \in [Token -> Nat]
    /\ otpOk \in BOOLEAN

\* Baselane never moves the cash of one plan twice, however calls, crashes,
\* timeouts, abandoned posts and retries of execute_transfer interleave.
AtMostOnce == \A t \in Token : moved[t] <= 1

\* A post of t that nobody has answered may still move cash.
InFlight(t) ==
    \/ orphan[t] + working[t] > 0
    \/ \E p \in Proc : tok[p] = t /\ wire[p] \in {"sent", "working"}

\* What get_transfer_state calls retry_safe or not_found: no state file holds a
\* blocking record of t, so a retry is allowed.  Then the cash of t has not
\* moved, and no post is out that could still move it.
OpenMeansNotMoved ==
    \A t \in Token :
        (\A f \in StateFile : disk[f][t] \in Open) => moved[t] = 0 /\ ~InFlight(t)

\* A completed record, which makes every later call return already_completed,
\* is only written when the cash did move.
CompletedMeansMoved ==
    \A f \in StateFile, t \in Token : disk[f][t] = "completed" => moved[t] > 0

\* What a call learned is never lost: a step changes no completed and no
\* verification_failed record, and only the process that is in the bridge for a
\* submitting record changes that one (each write dumps a whole dictionary, so a
\* stale one would erase other processes' records).
VerdictsDurable ==
    [][\A f \in StateFile, t \in Token :
        /\ disk[f][t] \in {"completed", "verification_failed"} => disk'[f][t] = disk[f][t]
        /\ disk[f][t] = "submitting" /\ ~Submitting(f, t) => disk'[f][t] = disk[f][t]]_vars

\* A caller that waits for the flock gets an answer, unless its process dies.
CallReturns == \A p \in Proc : pc[p] = "waiting" ~> pc[p] = "idle"

\* The comment in execute_transfer and recovery-and-mutations.md: Baselane
\* asked for the code before it created a transfer, so nothing was moved.
ChallengeMeansNotMoved ==
    \A f \in StateFile, t \in Token :
        disk[f][t] = "authentication_challenge" /\ ~Submitting(f, t) => moved[t] = 0

-----------------------------------------------------------------------------
(* The promise to a caller: see TransferPromise.                           *)

\* The verdict the state files together give on a plan.
Verdict ==
    [t \in Token |->
        IF \E f \in StateFile : disk[f][t] = "completed" THEN "done"
        ELSE IF \E f \in StateFile : disk[f][t] \in Blocking THEN "pending"
        ELSE "open"]

Promise == INSTANCE TransferPromise WITH verdict <- Verdict

\* execute_transfer implements the abstract promise.
KeepsPromise == Promise!Spec
=============================================================================
