---------------------------- MODULE AccrualApply ----------------------------
(***************************************************************************)
(* scripts/baselane_apply_monthly_accruals_live.py --apply: a run compares *)
(* the accruals of one month in the ledger with the live transactions of   *)
(* Baselane, by marker, and updates or creates what differs through the    *)
(* node bridge, updates one by one, then creates in batches.  Unlike       *)
(* createTransfer these mutations carry no idempotency key.                *)
(*                                                                         *)
(* Amount, merchant, property, tag and note of an accrual are one value.   *)
(***************************************************************************)
EXTENDS Naturals, Sequences, FiniteSets, Bags

CONSTANTS
    Run,       \* processes that run the script
    Marker,    \* markers of the month's accruals
    Value,     \* values of an accrual
    BatchSize, \* MAX_CREATE_ALIASES: 5 in the code
    MaxPosts,  \* routes over which one bridge call may post the mutation
    Prompt,    \* whether a post that was abandoned arrives before the next query
    RowLimit,  \* bound: live rows per marker
    Free, Sync \* holders of the pipeline lock that are not runs

ASSUME AccrualAssumption ==
    /\ IsFiniteSet(Marker)
    /\ BatchSize \in Nat \ {0} /\ MaxPosts \in Nat \ {0} /\ RowLimit \in Nat \ {0, 1}
    /\ Prompt \in BOOLEAN
    /\ {Free, Sync} \cap Run = {} /\ Free # Sync

VARIABLES
    ledger,   \* the accruals of the general ledger
    rows,     \* rows[m]: the live transactions that carry marker m
    pipeline, \* the holder of the source-pipeline lock
    apply,    \* the holder of the apply lock
    pc,       \* where a run is
    approved, \* the targets whose digest a run was started with
    targets,  \* the targets a run has read
    plan,     \* the actions a run has not done yet
    body,     \* the actions of the mutation a run is posting
    posts,    \* posts the bridge has made of it
    wire,     \* the bridge's live post and its reply
    late,     \* bodies of posts nobody waits for
    outcome   \* how the last run ended

world  == <<ledger, rows, late>>
locks  == <<pipeline, apply>>
bridge == <<body, posts, wire>>
locals == <<pc, approved, targets, plan, bridge>>
vars   == <<world, locks, locals, outcome>>

Accruals == [Marker -> Value]
\* A row of the old marker kind "pm" stands for the accrual of kind "pm_dao".
Row      == [value : Value, legacy : BOOLEAN]
Action   == [kind : {"update", "create"}, marker : Marker, value : Value, index : {0, 1}]
Outcome  == {"none", "deferred", "error", "blocked", "ok"}

Init ==
    /\ ledger \in Accruals
    /\ rows \in [Marker -> {<<>>} \cup {<<r>> : r \in Row}
                                   \cup {<<r, r>> : r \in [value : Value, legacy : {FALSE}]}]
    /\ pipeline = Free /\ apply = Free
    /\ pc = [p \in Run |-> "idle"]
    /\ approved = [p \in Run |-> <<>>] /\ targets = approved
    /\ plan = [p \in Run |-> {}] /\ body = [p \in Run |-> {}]
    /\ posts = [p \in Run |-> 0] /\ wire = [p \in Run |-> "none"]
    /\ late = EmptyBag
    /\ outcome = [p \in Run |-> "none"]

-----------------------------------------------------------------------------
(* The ledger's other writer.                                              *)

\* The export of the ledger holds the pipeline lock while it rewrites it.
SyncBegins ==
    /\ pipeline = Free /\ pipeline' = Sync
    /\ UNCHANGED <<world, apply, locals, outcome>>

SyncEnds ==
    /\ pipeline = Sync /\ pipeline' = Free
    /\ ledger' \in Accruals
    /\ UNCHANGED <<rows, late, apply, locals, outcome>>

-----------------------------------------------------------------------------
(* A run up to its plan.                                                   *)

\* A dry run has shown the digest of the ledger's targets.
Start(p) ==
    /\ pc[p] = "idle"
    /\ approved' = [approved EXCEPT ![p] = ledger]
    /\ pc' = [pc EXCEPT ![p] = "pipeline"]
    /\ outcome' = [outcome EXCEPT ![p] = "none"]
    /\ UNCHANGED <<world, locks, targets, plan, bridge>>

\* The run is over: the with statements release what it holds.
End(p, o) ==
    /\ pipeline' = IF pipeline = p THEN Free ELSE pipeline
    /\ apply' = IF apply = p THEN Free ELSE apply
    /\ pc' = [pc EXCEPT ![p] = "idle"]
    /\ approved' = [approved EXCEPT ![p] = <<>>]
    /\ targets' = [targets EXCEPT ![p] = <<>>]
    /\ plan' = [plan EXCEPT ![p] = {}]
    /\ body' = [body EXCEPT ![p] = {}]
    /\ posts' = [posts EXCEPT ![p] = 0]
    /\ wire' = [wire EXCEPT ![p] = "none"]
    /\ outcome' = [outcome EXCEPT ![p] = o]

BugNoPipelineLock(p) == TRUE
PipelineFree(p) == pipeline = Free

\* exclusive_pipeline_lock does not wait.
TakePipelineLock(p) ==
    /\ pc[p] = "pipeline"
    /\ \/ /\ PipelineFree(p)
          /\ pipeline' = p
          /\ pc' = [pc EXCEPT ![p] = "apply"]
          /\ UNCHANGED <<world, apply, approved, targets, plan, bridge, outcome>>
       \/ ~PipelineFree(p) /\ End(p, "deferred") /\ UNCHANGED world

\* exclusive_apply_lock does.
TakeApplyLock(p) ==
    /\ pc[p] = "apply" /\ apply = Free
    /\ apply' = p
    /\ pc' = [pc EXCEPT ![p] = "read"]
    /\ UNCHANGED <<world, pipeline, approved, targets, plan, bridge, outcome>>

BugDigestUnchecked(p) == TRUE
DigestMatches(p) == ledger = approved[p]

\* read_targets, and the comparison of their digest with the approved one.
ReadTargets(p) ==
    /\ pc[p] = "read"
    /\ \/ /\ DigestMatches(p)
          /\ targets' = [targets EXCEPT ![p] = ledger]
          /\ pc' = [pc EXCEPT ![p] = "query"]
          /\ UNCHANGED <<world, locks, approved, plan, bridge, outcome>>
       \/ ~DigestMatches(p) /\ End(p, "error") /\ UNCHANGED world

BugFirstMatchCounts(m) == FALSE
Ambiguous(m) == Len(rows[m]) > 1

\* skip, update in place, or create.
PlanFor(p) ==
    LET wanted(m) == [value |-> targets[p][m], legacy |-> FALSE]
        action(k, m, i) == [kind |-> k, marker |-> m, value |-> targets[p][m], index |-> i]
    IN  {action("update", m, 1) : m \in {n \in Marker : rows[n] # <<>> /\ rows[n][1] # wanted(n)}}
        \cup {action("create", m, 0) : m \in {n \in Marker : rows[n] = <<>>}}

\* The live rows of the month are read, and the actions planned.  An issue with
\* any target, a duplicate marker or an id that is not resolved, blocks all.
Query(p) ==
    /\ pc[p] = "query" /\ (Prompt => late = EmptyBag)
    /\ \/ /\ ~ \E m \in Marker : Ambiguous(m)
          /\ plan' = [plan EXCEPT ![p] = PlanFor(p)]
          /\ pc' = [pc EXCEPT ![p] = "mutate"]
          /\ UNCHANGED <<world, locks, approved, targets, bridge, outcome>>
       \/ End(p, "blocked") /\ UNCHANGED world
       \/ End(p, "error") /\ UNCHANGED world

-----------------------------------------------------------------------------
(* The mutations, posted by the bridge over one route after the other.     *)

BugBatchTooLarge(n) == BatchSize + 1
BatchLimit(n) == IF n < BatchSize THEN n ELSE BatchSize

\* The updates one by one, then the creates BatchSize at a time.
NextBodies(p) ==
    LET updates == {a \in plan[p] : a.kind = "update"} IN
    IF updates # {} THEN {{a} : a \in updates}
    ELSE {b \in SUBSET plan[p] : Cardinality(b) = BatchLimit(Cardinality(plan[p]))}

RouteLeft(p) == posts[p] < MaxPosts

Post(p) ==
    /\ pc[p] = "mutate" /\ plan[p] # {} /\ wire[p] = "none" /\ RouteLeft(p)
    /\ body' \in {[body EXCEPT ![p] = b] : b \in IF posts[p] = 0 THEN NextBodies(p) ELSE {body[p]}}
    /\ posts' = [posts EXCEPT ![p] = @ + 1]
    /\ wire' = [wire EXCEPT ![p] = "sent"]
    /\ UNCHANGED <<world, locks, pc, approved, targets, plan, outcome>>

\* n more posts, and the live one, are left to themselves.
Abandon(p, n) ==
    LET k == n + (IF wire[p] = "sent" THEN 1 ELSE 0) IN
    late' = IF k = 0 THEN late ELSE late (+) [b \in {body[p]} |-> k]

\* An abort, a status other than 200, a reply that is lost, or GraphQL errors
\* on a route with captured headers or through Playwright: the next route is tried.
GiveUp(p) ==
    /\ wire[p] # "none"
    /\ Abandon(p, 0)
    /\ wire' = [wire EXCEPT ![p] = "none"]
    /\ UNCHANGED <<ledger, rows, locks, pc, approved, targets, plan, body, posts, outcome>>

BugPlanKept(p) == plan[p]
Remaining(p) == plan[p] \ body[p]

Done(p) ==
    /\ wire[p] = "ok"
    /\ plan' = [plan EXCEPT ![p] = Remaining(p)]
    /\ body' = [body EXCEPT ![p] = {}]
    /\ posts' = [posts EXCEPT ![p] = 0]
    /\ wire' = [wire EXCEPT ![p] = "none"]
    /\ UNCHANGED <<world, locks, pc, approved, targets, outcome>>

\* GraphQL errors from a route inside the page, no route left or usable, or the
\* timeout of the call: a RuntimeError ends the run.
MutationFails(p) ==
    /\ pc[p] = "mutate" /\ plan[p] # {}
    /\ Abandon(p, 0)
    /\ End(p, "error")
    /\ UNCHANGED <<ledger, rows>>

ReportOk(p) ==
    /\ pc[p] = "mutate" /\ plan[p] = {}
    /\ End(p, "ok")
    /\ UNCHANGED world

\* A bridge that runs lives on and may post over the routes it has left; one
\* that has not posted yet is started with any of the next bodies.
Crash(p) ==
    /\ pc[p] # "idle"
    /\ \/ body[p] # {} /\ \E n \in 0 .. MaxPosts - posts[p] : Abandon(p, n)
       \/ body[p] = {} /\ UNCHANGED late
       \/ /\ body[p] = {} /\ plan[p] # {}
          /\ \E b \in NextBodies(p), n \in 1 .. MaxPosts : late' = late (+) [c \in {b} |-> n]
    /\ End(p, "none")
    /\ UNCHANGED <<ledger, rows>>

-----------------------------------------------------------------------------
(* Baselane (external): each action of a body is carried out or refused.   *)

After(done) ==
    [m \in Marker |->
        IF \E a \in done : a.marker = m
        THEN LET a == CHOOSE b \in done : b.marker = m
                 r == [value |-> a.value, legacy |-> FALSE]
             IN  IF a.kind = "create" THEN Append(rows[m], r)
                                      ELSE [rows[m] EXCEPT ![a.index] = r]
        ELSE rows[m]]

WithinLimit == \A m \in Marker : Len(rows'[m]) <= RowLimit

BankAnswers(p) ==
    /\ wire[p] = "sent"
    /\ \E done \in SUBSET body[p] :
        /\ rows' = After(done) /\ WithinLimit
        /\ wire' = [wire EXCEPT ![p] = IF done = body[p] THEN "ok" ELSE "errors"]
    /\ UNCHANGED <<ledger, late, locks, pc, approved, targets, plan, body, posts, outcome>>

LateArrives ==
    \E b \in BagToSet(late) :
        /\ late' = late (-) SetToBag({b})
        /\ \E done \in SUBSET b : rows' = After(done) /\ WithinLimit
        /\ UNCHANGED <<ledger, locks, locals, outcome>>

-----------------------------------------------------------------------------
Next ==
    \/ SyncBegins \/ SyncEnds \/ LateArrives
    \/ \E p \in Run :
        \/ Start(p) \/ TakePipelineLock(p) \/ TakeApplyLock(p) \/ ReadTargets(p) \/ Query(p)
        \/ Post(p) \/ GiveUp(p) \/ Done(p) \/ MutationFails(p) \/ ReportOk(p) \/ Crash(p)
        \/ BankAnswers(p)

Spec == Init /\ [][Next]_vars

-----------------------------------------------------------------------------
(* Properties.                                                             *)

TypeOK ==
    /\ ledger \in Accruals
    /\ rows \in [Marker -> UNION {[1 .. n -> Row] : n \in 0 .. RowLimit}]
    /\ pipeline \in Run \cup {Free, Sync}
    /\ apply \in Run \cup {Free}
    /\ pc \in [Run -> {"idle", "pipeline", "apply", "read", "query", "mutate"}]
    /\ approved \in [Run -> Accruals \cup {<<>>}]
    /\ targets \in [Run -> Accruals \cup {<<>>}]
    /\ plan \in [Run -> SUBSET Action] /\ body \in [Run -> SUBSET Action]
    /\ \A p \in Run : body[p] \subseteq plan[p] /\ Cardinality(body[p]) <= BatchSize
    /\ posts \in [Run -> 0 .. MaxPosts]
    /\ wire \in [Run -> {"none", "sent", "ok", "errors"}]
    /\ IsABag(late)
    /\ outcome \in [Run -> Outcome]

\* The script is described as idempotent: it never adds a row for a marker that
\* has a live row, whatever runs, crashes and partly refused batches precede.
NoNewDuplicate ==
    [][\A m \in Marker : Len(rows'[m]) > Len(rows[m]) => rows[m] = <<>>]_vars

\* A run reports ok only when each accrual of the ledger, as it is at that
\* moment, has exactly one live row with the ledger's value.
OkIsCurrent ==
    [][\A p \in Run :
        outcome'[p] = "ok" /\ outcome[p] # "ok" =>
            \A m \in Marker : rows[m] = <<[value |-> ledger[m], legacy |-> FALSE]>>]_vars

\* Nothing is posted but the targets the digest stands for, although the ledger
\* may be rewritten between the approval and the run.
PostsAsApproved ==
    \A p \in Run : \A a \in body[p] : a.value = approved[p][a.marker]
=============================================================================
