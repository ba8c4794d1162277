----------------------------- MODULE NativeSplits -----------------------------
(***************************************************************************)
(* The native splits of Baselane's transactions.  Under the source-        *)
(* pipeline lock a sync exports the ledger and the source index, plans     *)
(* which transactions to split, has scripts/baselane_apply_native_splits.py*)
(* split them through scripts/baselane_do_split.js, reconciles the plan    *)
(* with the apply report and overlays the ledger with the planned          *)
(* children.  The monthly statements plan without the lock and apply with  *)
(* it.  What was applied is remembered in a state file and in the report.  *)
(*                                                                         *)
(* A transaction is the record the rules make of it; the children a rule   *)
(* gives it are one split, named by its digest.                            *)
(***************************************************************************)
EXTENDS Naturals, Sequences, FiniteSets

CONSTANTS
    Txn,          \* transactions the rules match
    Digest,       \* splits the rules may give them
    None, Torn,   \* no split; a file cut off while it was written
    Retry,        \* whether the page may navigate or close under a mutation
    BareReply,    \* whether a reply may carry neither a split nor errors
    Prompt,       \* whether a post nobody waits for arrives before the next preflight
    SplitLimit    \* bound: splits Baselane makes of one transaction

ASSUME SplitAssumption ==
    /\ None \notin Digest /\ {None, Torn} \cap Txn = {} /\ None # Torn
    /\ {Retry, BareReply, Prompt} \subseteq BOOLEAN
    /\ SplitLimit \in Nat

VARIABLES
    splits,  \* splits[t]: the splits Baselane has made of t
    pending, \* transactions that have not posted
    rules,   \* the split the rules give today
    ledger,  \* ledger[t]: what stands for t in the local ledger
    index,   \* index[t]: how t is listed in the source index
    plan,    \* the plan file
    state,   \* the state file: state[t] is the split recorded as applied
    report,  \* the apply report
    lock,    \* the holder of the source-pipeline lock
    step,    \* what the holder does next
    fresh,   \* whether the sync has exported the ledger
    audit,   \* the pending transactions its audit found
    mem,     \* the state the apply script has in memory
    todo,    \* the actions it has not executed: a split of each, or None
    job,     \* the transaction its executor works on
    wire,    \* the executor's mutation and its reply
    done,    \* what the apply script will report
    verdict, \* the status of that report so far
    late,    \* posts nobody waits for
    again,   \* transactions whose mutation was posted a second time
    outcome, \* "ok" once the last sync has ended ok
    dry      \* the report a dry run without the lock is about to write

baselane == <<splits, pending, late, again>>
files    == <<ledger, index, plan, state, report>>
script   == <<mem, todo, job, wire, done, verdict>>
holder   == <<lock, step, fresh, audit>>
vars     == <<baselane, rules, files, holder, script, outcome, dry>>

Free == "free"
Marks    == [Txn -> Digest \cup {None}]
NoMarks  == [t \in Txn |-> None]
Record   == [split : Digest, pending : BOOLEAN, handled : BOOLEAN]
NoRecord == [t \in Txn |-> None]
Plans    == [Txn -> Record \cup {None}]
\* The actions that were executed, and those found applied or still pending.
Actions   == [executed : Marks, settled : Marks]
NoActions == [executed |-> NoMarks, settled |-> NoMarks]
\* Of a report: all these actions, and those that are read as executed.
Report    == [actions : Marks, executed : Marks]
NoReport  == [actions |-> NoMarks, executed |-> NoMarks]

Init ==
    /\ splits = [t \in Txn |-> <<>>] /\ pending \in SUBSET Txn /\ late = {} /\ again = {}
    /\ rules \in Digest
    /\ ledger = [t \in Txn |-> {}] /\ index = [t \in Txn |-> "absent"]
    /\ plan = NoRecord
    /\ state = NoMarks /\ report = NoReport
    /\ lock = Free /\ step = "idle" /\ fresh = FALSE /\ audit = {}
    /\ mem = NoMarks /\ todo = NoMarks /\ job = None /\ wire = "none"
    /\ done = NoActions /\ verdict = "ok"
    /\ outcome = "none" /\ dry = None

Goto(s) == step' = s /\ UNCHANGED <<lock, fresh, audit>>

\* The holder ends, and the lock goes with its process.
End(o) ==
    /\ lock' = Free /\ step' = "idle" /\ fresh' = FALSE /\ audit' = {}
    /\ mem' = NoMarks /\ todo' = NoMarks /\ job' = None /\ wire' = "none"
    /\ done' = NoActions /\ verdict' = "ok"
    /\ outcome' = IF lock = "sync" THEN o ELSE outcome

-----------------------------------------------------------------------------
(* Baselane and the operators (external).                                  *)

TransactionPosts(t) ==
    /\ t \in pending /\ pending' = pending \ {t}
    /\ UNCHANGED <<splits, late, again, rules, files, holder, script, outcome>>

RulesEdited ==
    /\ rules' \in Digest \ {rules}
    /\ UNCHANGED <<baselane, files, holder, script, outcome>>

-----------------------------------------------------------------------------
(* The plan.                                                               *)

\* A record for each row that is not split yet, and for each pending
\* transaction of the audit that the index does not list.
PlanOf(pendingRows) ==
    [t \in Txn |->
        IF index[t] # "absent" \/ t \in pendingRows
        THEN [split |-> rules, handled |-> FALSE,
              pending |-> index[t] = "pending" \/ (index[t] = "absent" /\ t \in pendingRows)]
        ELSE None]

\* A record whose split the apply report has settled no longer asks for one.
Reconciled(p) ==
    IF report = Torn THEN p
    ELSE [t \in Txn |->
            IF p[t] # None /\ p[t].split = report.actions[t]
            THEN [p[t] EXCEPT !.handled = TRUE] ELSE p[t]]

\* The statements plan before and after their apply, without the lock.
StatementsPlan ==
    /\ plan' \in {PlanOf({}), Reconciled(PlanOf({}))}
    /\ UNCHANGED <<baselane, rules, ledger, index, state, report, holder, script, outcome>>

-----------------------------------------------------------------------------
(* The sync up to the apply script.                                        *)

SyncBegins ==
    /\ lock = Free
    /\ lock' = "sync" /\ step' = "export" /\ UNCHANGED <<fresh, audit>>
    /\ outcome' = "none"
    /\ UNCHANGED <<baselane, rules, files, script>>

\* The ledger is written anew: a split transaction is listed by its children,
\* a pending one may be missing.  When the export guard objects the ledger
\* stays as it is, and the splits are planned all the same.
Export ==
    /\ step = "export"
    /\ \/ /\ ledger' \in [Txn -> {{}, {"parent"}, {"native"}}]
          /\ \A t \in Txn : \/ ledger'[t] = IF splits[t] = <<>> THEN {"parent"} ELSE {"native"}
                            \/ t \in pending /\ ledger'[t] = {}
          /\ fresh' = TRUE /\ step' = "index"
       \/ fresh' = FALSE /\ step' = "plan" /\ UNCHANGED ledger
    /\ UNCHANGED <<baselane, rules, index, plan, state, report, lock, audit, script, outcome>>

RefreshIndex ==
    /\ step = "index"
    /\ index' \in [Txn -> {"absent", "posted", "pending"}]
    /\ \A t \in Txn : IF splits[t] # <<>> THEN index'[t] = "absent"
                      ELSE IF t \in pending THEN index'[t] \in {"absent", "pending"}
                      ELSE index'[t] = "posted"
    /\ Goto("plan")
    /\ UNCHANGED <<baselane, rules, ledger, plan, state, report, script, outcome>>

\* The audit of pending transactions, and the plan.
SyncPlans ==
    /\ step = "plan"
    /\ audit' = pending
    /\ plan' = PlanOf(pending)
    /\ step' = "apply" /\ UNCHANGED <<lock, fresh>>
    /\ UNCHANGED <<baselane, rules, ledger, index, state, report, script, outcome>>

\* A step of the sync fails: the run ends in review or failed.
SyncFails ==
    /\ lock = "sync" /\ step \in {"export", "index", "plan", "reconcile", "overlay"}
    /\ End("none")
    /\ UNCHANGED <<baselane, rules, files>>

-----------------------------------------------------------------------------
(* The apply script.                                                       *)

\* The statements run it on the plan file they find, if the lock is free.
StatementsApply ==
    /\ lock = Free
    /\ lock' = "statements" /\ step' = "apply" /\ UNCHANGED <<fresh, audit>>
    /\ UNCHANGED <<baselane, rules, files, script, outcome>>

\* load_state and hydrate_state_from_report: what cannot be read is empty, and
\* the last report, if it was ok, restores the actions it executed.
Remembered ==
    LET known == IF state = Torn THEN NoMarks ELSE state IN
    [t \in Txn |-> IF known[t] = None /\ report # Torn THEN report.executed[t] ELSE known[t]]

Blocked(p, m) == \E t \in Txn : p[t] # None /\ p[t].handled /\ p[t].split # m[t]

Settled(p, m) ==
    [t \in Txn |-> IF p[t] # None /\ p[t].split = m[t] THEN m[t] ELSE None]

\* The report of a run that applies nothing.
ReportAlone ==
    IF plan = Torn THEN NoReport
    ELSE [actions |-> Settled(plan, Remembered), executed |-> NoMarks]

\* The statements, and the weekly job, call the script where the apply is
\* switched off: it reads and reports without the lock.
DryRunReads ==
    /\ dry = None
    /\ dry' = ReportAlone
    /\ UNCHANGED <<baselane, rules, files, holder, script, outcome>>

\* The report is torn while the dry run writes it, and stays so if it dies.
DryRunReports ==
    /\ dry # None
    /\ \/ report' = dry /\ dry' = None
       \/ report' = Torn /\ dry' \in {dry, None}
    /\ UNCHANGED <<baselane, rules, ledger, index, plan, state, holder, script, outcome>>

\* What the sync does after the apply script; the statements are done.
AfterApply ==
    IF lock = "sync"
    THEN /\ Goto("reconcile") /\ mem' = NoMarks /\ todo' = NoMarks
         /\ done' = NoActions /\ verdict' = "ok" /\ UNCHANGED <<job, wire, outcome>>
    ELSE End("none")

\* There is no plan, there is no session, or the apply is switched off: the
\* script only reports.
ReportOnly ==
    /\ step = "apply"
    /\ report' = ReportAlone
    /\ AfterApply
    /\ UNCHANGED <<baselane, rules, ledger, index, plan, state>>

ApplyReads ==
    /\ step = "apply" /\ plan # Torn
    /\ mem' = Remembered
    /\ todo' = [t \in Txn |->
                  IF plan[t] # None /\ ~plan[t].handled /\ plan[t].split # Remembered[t]
                  THEN plan[t].split ELSE None]
    /\ done' = [NoActions EXCEPT !.settled = Settled(plan, Remembered)]
    /\ verdict' = IF Blocked(plan, Remembered) THEN "review" ELSE "ok"
    /\ Goto("work")
    /\ UNCHANGED <<baselane, rules, files, job, wire, outcome>>

BugNotOnlyReady(t) == plan[t] # None
Ready(t) == todo[t] # None

Launch(t) ==
    /\ step = "work" /\ job = None /\ verdict # "failed" /\ Ready(t)
    /\ job' = t /\ wire' = "preflight"
    /\ UNCHANGED <<baselane, rules, files, holder, mem, todo, done, verdict, outcome>>

BugStateIsEnough(t) == TRUE
Unsplit(t) == splits[t] = <<>>

MayRead == Prompt => late = {}

\* The executor reads the parent immediately before it posts.
PreflightPasses(t) ==
    /\ job = t /\ wire = "preflight" /\ MayRead
    /\ t \notin pending /\ Unsplit(t)
    /\ wire' = "sent"
    /\ UNCHANGED <<baselane, rules, files, holder, mem, todo, job, done, verdict, outcome>>

BugPendingTriedAgain(t) == todo
Skipped(t) == [todo EXCEPT ![t] = None]

\* A parent that is pending, for the preflight or for the mutation's errors, is
\* deferred and the next action is tried.
Defers(t) ==
    /\ job = t /\ ((wire = "preflight" /\ t \in pending) \/ wire = "errors")
    /\ done' = [done EXCEPT !.settled[t] = todo[t]]
    /\ todo' = Skipped(t)
    /\ job' = None /\ wire' = "none"
    /\ UNCHANGED <<baselane, rules, files, holder, mem, verdict, outcome>>

Post == [txn |-> job, split |-> todo[job], again |-> wire = "resent"]

\* Nobody waits for the post any more, if one is under way.
Abandon == late' = IF wire \in {"sent", "resent"} THEN late \cup {Post} ELSE late

\* The preflight refuses or cannot be read, the reply carries errors or does
\* not come, or the executor is timed out: the loop breaks.  When the page
\* navigates or closes under the mutation it is posted again from another page,
\* without another preflight.
ActionBreaks ==
    /\ job # None
    /\ Abandon
    /\ \/ verdict' = "failed" /\ job' = None /\ wire' = "none" /\ UNCHANGED again
       \/ /\ Retry /\ wire = "sent" /\ wire' = "resent" /\ again' = again \cup {job}
          /\ UNCHANGED <<verdict, job>>
    /\ UNCHANGED <<splits, pending, rules, files, holder, mem, todo, done, outcome>>

BugAnyReplyCounts == {"ok", "bare", "errors"}
Accepted == {"ok", "bare"}

\* The executor has exited with 0, and the state is written.
RecordApplied ==
    /\ wire \in Accepted
    /\ mem' = [mem EXCEPT ![job] = todo[job]]
    /\ state' = mem'
    /\ done' = [done EXCEPT !.executed[job] = todo[job]]
    /\ todo' = [todo EXCEPT ![job] = None]
    /\ job' = None /\ wire' = "none"
    /\ UNCHANGED <<baselane, rules, ledger, index, plan, report, holder, verdict, outcome>>

\* The executed actions of a report that is not ok are never restored.
ReportDone ==
    [actions  |-> [t \in Txn |-> IF done.executed[t] = None THEN done.settled[t] ELSE done.executed[t]],
     executed |-> IF verdict = "ok" THEN done.executed ELSE NoMarks]

\* The state once more, and the report; a failure ends the sync's run.
ApplyEnds ==
    /\ step = "work" /\ job = None /\ (verdict = "failed" \/ todo = NoMarks)
    /\ state' = IF mem = NoMarks THEN state ELSE mem
    /\ report' = ReportDone
    /\ IF verdict = "failed" THEN End("none") ELSE AfterApply
    /\ UNCHANGED <<baselane, rules, ledger, index, plan>>

-----------------------------------------------------------------------------
(* The sync after the apply script.                                        *)

Reconcile ==
    /\ step = "reconcile"
    /\ plan' = Reconciled(PlanOf(audit))
    /\ Goto("overlay")
    /\ UNCHANGED <<baselane, rules, ledger, index, state, report, script, outcome>>

BugParentStays(t) == ledger[t]
WithoutParent(t) == ledger[t] \ {"parent"}

\* The parent of a planned transaction gives way to its children; a pending
\* transaction that has neither gets them; what fits neither case blocks.
OverlayBlocked(t) ==
    plan[t] # None /\ ~plan[t].pending /\ {"parent", plan[t].split} \cap ledger[t] = {}

Overlaid(t) ==
    IF plan[t] = None THEN ledger[t]
    ELSE WithoutParent(t) \cup {plan[t].split}

Overlay ==
    /\ step = "overlay" /\ plan # Torn
    /\ IF \E t \in Txn : OverlayBlocked(t)
       THEN End("none") /\ UNCHANGED ledger
       ELSE /\ ledger' \in {[t \in Txn |-> Overlaid(t)], ledger}
            /\ End(IF fresh THEN "ok" ELSE "none")
    /\ UNCHANGED <<baselane, rules, index, plan, state, report>>

\* A process dies.  A file it was writing is old, new or torn; its executor
\* lives on, and posts if its preflight passes.
Crash ==
    /\ lock # Free
    /\ \/ Abandon
       \/ /\ wire = "preflight" /\ MayRead /\ job \notin pending /\ Unsplit(job)
          /\ late' = late \cup {Post}
    /\ state' \in IF wire \in Accepted \/ (step = "work" /\ job = None)
                  THEN {state, mem, Torn} ELSE {state}
    /\ report' \in IF step \in {"apply", "work"} /\ job = None THEN {report, Torn} ELSE {report}
    /\ plan' \in IF step \in {"plan", "reconcile"} THEN {plan, Torn} ELSE {plan}
    /\ End("none")
    /\ UNCHANGED <<splits, pending, again, rules, ledger, index>>

-----------------------------------------------------------------------------
(* Baselane (external): createOrUpdateSplitTx.                             *)

SplitMade(t, d) ==
    /\ Len(splits[t]) < SplitLimit
    /\ splits' = [splits EXCEPT ![t] = Append(@, d)]

BankAnswers ==
    /\ wire \in {"sent", "resent"}
    /\ \/ SplitMade(job, todo[job]) /\ wire' = "ok"
       \/ wire' = "errors" /\ UNCHANGED splits
       \/ BareReply /\ wire' = "bare" /\ UNCHANGED splits
    /\ UNCHANGED <<pending, late, again, rules, files, holder, mem, todo, job, done, verdict, outcome>>

LateArrives ==
    \E l \in late :
        /\ late' = late \ {l}
        /\ (SplitMade(l.txn, l.split) \/ UNCHANGED splits)
        /\ UNCHANGED <<pending, again, rules, files, holder, script, outcome>>

-----------------------------------------------------------------------------
HolderStep ==
    /\ UNCHANGED dry
    /\ \/ Export \/ RefreshIndex \/ SyncPlans \/ SyncFails
       \/ ReportOnly \/ ApplyReads
       \/ \E t \in Txn : Launch(t) \/ PreflightPasses(t) \/ Defers(t)
       \/ ActionBreaks \/ RecordApplied \/ ApplyEnds
       \/ Reconcile \/ Overlay

Next ==
    \/ HolderStep \/ DryRunReads \/ DryRunReports
    \/ /\ UNCHANGED dry
       /\ \/ Crash \/ SyncBegins \/ StatementsApply \/ StatementsPlan
          \/ RulesEdited \/ \E t \in Txn : TransactionPosts(t)
          \/ BankAnswers \/ LateArrives

Spec == Init /\ [][Next]_vars

\* Every subprocess of a run has a timeout, so its holder always goes on.
FairSpec == Spec /\ WF_vars(HolderStep)

-----------------------------------------------------------------------------
(* Properties.                                                             *)

TypeOK ==
    /\ splits \in [Txn -> UNION {[1 .. n -> Digest] : n \in 0 .. SplitLimit}]
    /\ pending \in SUBSET Txn /\ rules \in Digest
    /\ ledger \in [Txn -> SUBSET ({"parent", "native"} \cup Digest)]
    /\ index \in [Txn -> {"absent", "posted", "pending"}] /\ audit \in SUBSET Txn
    /\ plan \in Plans \cup {Torn}
    /\ state \in Marks \cup {Torn}
    /\ report \in Report \cup {Torn} /\ dry \in Report \cup {None}
    /\ lock \in {Free, "sync", "statements"} /\ fresh \in BOOLEAN
    /\ step \in {"idle", "export", "index", "plan", "apply", "work", "reconcile", "overlay"}
    /\ mem \in Marks /\ todo \in Marks /\ job \in Txn \cup {None}
    /\ wire \in {"none", "preflight", "sent", "resent", "ok", "errors", "bare"}
    /\ job # None => todo[job] # None
    /\ done \in Actions /\ verdict \in {"ok", "review", "failed"}
    /\ late \in SUBSET [txn : Txn, split : Digest, again : BOOLEAN] /\ again \in SUBSET Txn
    /\ outcome \in {"none", "ok"}

\* A transaction whose mutation no page posted a second time is never split
\* twice, although the record of its split may be lost with a crash, a torn
\* state file, a timeout or a changed rule.
SplitAtMostOnce == \A t \in Txn \ again : Len(splits[t]) <= 1

\* What the state file records as applied, Baselane has split that way.
RecordedIsSplit ==
    state # Torn => \A t \in Txn : state[t] # None =>
        splits[t] # <<>> /\ \A i \in DOMAIN splits[t] : splits[t][i] = state[t]

\* After a sync that ends ok no transaction is in the ledger twice, as parent,
\* as native children and as overlaid children.
OkCountsOnce == outcome = "ok" => \A t \in Txn : Cardinality(ledger[t]) <= 1

\* A run that holds the lock lets go of it.
LockIsFreed == lock # Free ~> lock = Free
=============================================================================
