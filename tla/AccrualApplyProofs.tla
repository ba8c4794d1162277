------------------------- MODULE AccrualApplyProofs -------------------------
(* Theorems about AccrualApply, for all values of its constants.           *)
EXTENDS AccrualApply, FiniteSetTheorems, SequenceTheorems, TLAPS

\* The sequences of at most N elements, as TLC can enumerate them.
LEMMA BoundedSeq ==
    ASSUME NEW S, NEW N \in Nat
    PROVE  UNION {[1 .. n -> S] : n \in 0 .. N} = {s \in Seq(S) : Len(s) <= N}
<1>1. ASSUME NEW n \in 0 .. N, NEW s \in [1 .. n -> S] PROVE s \in Seq(S) /\ Len(s) = n
  BY <1>1
<1>2. ASSUME NEW s \in Seq(S), Len(s) <= N PROVE s \in [1 .. Len(s) -> S] /\ Len(s) \in 0 .. N
  BY <1>2
<1> QED
  BY <1>1, <1>2

(***************************************************************************)
(* Rows, plans and bodies.                                                 *)
(***************************************************************************)

Rows == [Marker -> UNION {[1 .. n -> Row] : n \in 0 .. RowLimit}]

LEMMA RowsAre == Rows = [Marker -> {s \in Seq(Row) : Len(s) <= RowLimit}]
<1>1. RowLimit \in Nat
  BY AccrualAssumption
<1> QED
  BY <1>1, BoundedSeq DEF Rows

\* Whatever Baselane carries out of a body, the rows keep their type.
LEMMA AfterTypes ==
    ASSUME rows \in Rows, NEW done \in SUBSET Action, rows' = After(done), WithinLimit
    PROVE  rows' \in Rows
<1> DEFINE Fits(s) == s \in Seq(Row) /\ Len(s) <= RowLimit
<1>1. ASSUME NEW m \in Marker PROVE rows'[m] \in Seq(Row)
  <2>1. rows[m] \in Seq(Row)
    BY RowsAre
  <2>2. CASE \E a \in done : a.marker = m
    <3> DEFINE a == CHOOSE b \in done : b.marker = m
               r == [value |-> a.value, legacy |-> FALSE]
    <3>1. a \in Action /\ r \in Row
      BY <2>2 DEF Action, Row
    <3>2. rows'[m] = IF a.kind = "create" THEN Append(rows[m], r) ELSE [rows[m] EXCEPT ![a.index] = r]
      BY <2>2 DEF After
    <3> HIDE DEF a, r
    <3>3. Append(rows[m], r) \in Seq(Row)
      BY <2>1, <3>1, AppendProperties
    <3>4. [rows[m] EXCEPT ![a.index] = r] \in Seq(Row)
      <4> DEFINE e == [rows[m] EXCEPT ![a.index] = r]
      <4>1. PICK n \in Nat : rows[m] \in [1 .. n -> Row]
        BY <2>1
      <4>2. e \in [1 .. n -> Row]
        BY <3>1, <4>1
      <4> HIDE DEF e
      <4>3. e \in Seq(Row)
        BY <4>2
      <4> QED
        BY <4>3 DEF e
    <3> QED
      BY <3>2, <3>3, <3>4
  <2>3. CASE ~ \E a \in done : a.marker = m
    BY <2>1, <2>3 DEF After
  <2> QED
    BY <2>2, <2>3
<1>2. \A m \in Marker : Fits(rows'[m])
  BY <1>1 DEF WithinLimit
<1>3. rows' = [m \in Marker |-> rows'[m]]
  BY DEF After
<1> HIDE DEF Fits
<1>4. rows' \in [Marker -> {s \in Seq(Row) : Len(s) <= RowLimit}]
  BY <1>2, <1>3 DEF Fits
<1> QED
  BY <1>4, RowsAre

\* What the live rows say may be done about the target of an action.
Planned(a) ==
    /\ a.kind = "create" => rows[a.marker] = <<>>
    /\ a.kind = "update" => a.index = 1 /\ \E x \in Row : rows[a.marker] = <<x>>

OnePerMarker(S) == \A a, b \in S : a.marker = b.marker => a = b

\* Actions that may be done, are: their targets have one row with their value.
LEMMA AfterPlanned ==
    ASSUME rows \in Rows, NEW done \in SUBSET Action, OnePerMarker(done),
           \A a \in done : Planned(a)
    PROVE  /\ \A a \in done : After(done)[a.marker] = <<[value |-> a.value, legacy |-> FALSE]>>
           /\ \A m \in Marker : (\A a \in done : a.marker # m) => After(done)[m] = rows[m]
<1>1. ASSUME NEW a \in done
      PROVE  After(done)[a.marker] = <<[value |-> a.value, legacy |-> FALSE]>>
  <2> DEFINE r == [value |-> a.value, legacy |-> FALSE]
  <2>1. a.marker \in Marker /\ a.kind \in {"create", "update"}
    BY DEF Action
  <2>2. (CHOOSE b \in done : b.marker = a.marker) = a
    BY DEF OnePerMarker
  <2>3. After(done)[a.marker] = IF a.kind = "create" THEN Append(rows[a.marker], r)
                                ELSE [rows[a.marker] EXCEPT ![a.index] = r]
    BY <2>1, <2>2 DEF After
  <2> HIDE DEF r
  <2>4. CASE a.kind = "create"
    <3>1. rows[a.marker] = <<>>
      BY <2>4 DEF Planned
    <3>2. Append(<<>>, r) = <<r>>
      OBVIOUS
    <3> QED
      BY <2>3, <2>4, <3>1, <3>2 DEF r
  <2>5. CASE a.kind = "update"
    <3>1. PICK x \in Row : a.index = 1 /\ rows[a.marker] = <<x>>
      BY <2>5 DEF Planned
    <3>2. [<<x>> EXCEPT ![1] = r] = <<r>>
      OBVIOUS
    <3> QED
      BY <2>3, <2>5, <3>1, <3>2 DEF r
  <2> QED
    BY <2>1, <2>4, <2>5
<1>2. ASSUME NEW m \in Marker, \A a \in done : a.marker # m PROVE After(done)[m] = rows[m]
  BY <1>2 DEF After
<1> QED
  BY <1>1, <1>2

\* A body is some of the plan, not nothing and not more than a batch.
LEMMA BodyTypes ==
    ASSUME NEW p \in Run, IsFiniteSet(plan[p]), plan[p] # {}, NEW b \in NextBodies(p)
    PROVE  b \in SUBSET plan[p] /\ b # {} /\ Cardinality(b) <= BatchSize
<1> DEFINE updates == {a \in plan[p] : a.kind = "update"}
<1>1. CASE updates # {}
  <2>1. PICK a \in updates : b = {a}
    BY <1>1 DEF NextBodies
  <2>2. Cardinality({a}) = 1
    BY FS_Singleton
  <2> QED
    BY <2>1, <2>2, AccrualAssumption
<1>2. CASE updates = {}
  <2>1. b \in SUBSET plan[p] /\ Cardinality(b) = BatchLimit(Cardinality(plan[p]))
    BY <1>2 DEF NextBodies
  <2>2. Cardinality(plan[p]) \in Nat /\ Cardinality(plan[p]) # 0
    BY FS_CardinalityType, FS_EmptySet
  <2>3. Cardinality(b) # 0 /\ Cardinality(b) <= BatchSize
    BY <2>1, <2>2, AccrualAssumption DEF BatchLimit
  <2> QED
    BY <2>1, <2>3, FS_EmptySet
<1> QED
  BY <1>1, <1>2

\* A plan has one action per marker, and it is what the live rows call for.
LEMMA PlanTypes ==
    ASSUME NEW p \in Run, targets[p] \in Accruals, rows \in Rows
    PROVE  /\ PlanFor(p) \in SUBSET Action /\ IsFiniteSet(PlanFor(p))
           /\ \A a \in PlanFor(p) : a.value = targets[p][a.marker]
<1> DEFINE U == {n \in Marker : rows[n] # <<>> /\ rows[n][1] # [value |-> targets[p][n], legacy |-> FALSE]}
           C == {n \in Marker : rows[n] = <<>>}
           u(m) == [kind |-> "update", marker |-> m, value |-> targets[p][m], index |-> 1]
           c(m) == [kind |-> "create", marker |-> m, value |-> targets[p][m], index |-> 0]
<1>1. PlanFor(p) = {u(m) : m \in U} \cup {c(m) : m \in C}
  BY DEF PlanFor
<1>2. IsFiniteSet(U) /\ IsFiniteSet(C)
  BY AccrualAssumption, FS_Subset
<1>3. IsFiniteSet({u(m) : m \in U}) /\ IsFiniteSet({c(m) : m \in C})
  <2> HIDE DEF u, c, U, C
  <2>1. [m \in U |-> u(m)] \in Surjection(U, {u(m) : m \in U})
    BY DEF Surjection
  <2>2. [m \in C |-> c(m)] \in Surjection(C, {c(m) : m \in C})
    BY DEF Surjection
  <2> QED
    BY <1>2, <2>1, <2>2, FS_Surjection
<1>4. IsFiniteSet(PlanFor(p))
  <2> HIDE DEF u, c, U, C
  <2> QED
    BY <1>1, <1>3, FS_Union
<1>5. \A m \in Marker : targets[p][m] \in Value
  BY DEF Accruals
<1>6. ASSUME NEW a \in PlanFor(p) PROVE a \in Action /\ a.value = targets[p][a.marker]
  <2>1. PICK m \in Marker : a = u(m) \/ a = c(m)
    BY <1>1
  <2>2. u(m) \in Action /\ c(m) \in Action
    BY <1>5, <2>1 DEF Action
  <2> QED
    BY <2>1, <2>2
<1> QED
  BY <1>4, <1>6

\* What nobody waits for is bodies of actions.
LateOK == IsABag(late) /\ BagToSet(late) \subseteq SUBSET Action

LEMMA AbandonTypes ==
    ASSUME LateOK, NEW p \in Run, body[p] \in SUBSET Action, NEW n \in Nat, Abandon(p, n)
    PROVE  LateOK'
<1> DEFINE k == n + (IF wire[p] = "sent" THEN 1 ELSE 0)
<1>1. k \in Nat /\ late' = IF k = 0 THEN late ELSE late (+) [b \in {body[p]} |-> k]
  BY DEF Abandon
<1> QED
  BY <1>1 DEF LateOK, IsABag, BagToSet, (+)

(***************************************************************************)
(* Type correctness, and the shape of a run.                               *)
(***************************************************************************)

Holding == {"apply", "read", "query", "mutate"}

\* A run that is past the pipeline lock holds it, so the ledger stays what it
\* was when the digest was compared; what it plans are the approved targets.
RunInv ==
    /\ \A p \in Run : pc[p] \in Holding <=> pipeline = p
    /\ \A p \in Run : pc[p] # "mutate" => plan[p] = {}
    /\ \A p \in Run : IsFiniteSet(plan[p])
    /\ \A p \in Run : body[p] = {} <=> posts[p] = 0
    /\ \A p \in Run : wire[p] # "none" => posts[p] # 0
    /\ \A p \in Run : pc[p] \in {"query", "mutate"} => targets[p] = approved[p] /\ targets[p] = ledger
    /\ \A p \in Run, a \in Action : a \in plan[p] => a.value = targets[p][a.marker]
    /\ LateOK

LEMMA EmptyIsFinite == IsFiniteSet({}) /\ Cardinality({}) = 0
  BY FS_EmptySet

LEMMA TypeInit == Init => TypeOK /\ RunInv
<1> SUFFICES ASSUME Init PROVE TypeOK /\ RunInv
  OBVIOUS
<1> USE AccrualAssumption
<1>1. rows \in Rows
  <2>1. ASSUME NEW m \in Marker PROVE rows[m] \in {s \in Seq(Row) : Len(s) <= RowLimit}
    <3>1. rows[m] \in {<<>>} \cup {<<r>> : r \in Row} \cup {<<r, r>> : r \in Row}
      BY DEF Init, Row
    <3>2. RowLimit \in Nat /\ RowLimit >= 2
      OBVIOUS
    <3>3. <<>> \in Seq(Row) /\ Len(<<>>) = 0
      OBVIOUS
    <3>4. ASSUME NEW r \in Row
          PROVE  /\ <<r>> \in Seq(Row) /\ Len(<<r>>) = 1
                 /\ <<r, r>> \in Seq(Row) /\ Len(<<r, r>>) = 2
      OBVIOUS
    <3>5. rows[m] = <<>> \/ \E r \in Row : rows[m] = <<r>> \/ rows[m] = <<r, r>>
      BY <3>1
    <3>6. rows[m] \in Seq(Row) /\ Len(rows[m]) \in {0, 1, 2}
      BY <3>3, <3>4, <3>5
    <3>7. ASSUME NEW n \in {0, 1, 2} PROVE n <= RowLimit
      BY <3>2
    <3>8. Len(rows[m]) <= RowLimit
      BY <3>6, <3>7
    <3> QED
      BY <3>6, <3>8
  <2>2. rows = [m \in Marker |-> rows[m]]
    BY DEF Init
  <2> QED
    BY <2>1, <2>2, RowsAre
<1>2. LateOK
  BY DEF Init, LateOK, IsABag, BagToSet, EmptyBag, SetToBag
<1>3. TypeOK
  BY <1>1, <1>2, EmptyIsFinite DEF Init, TypeOK, Rows, Outcome, LateOK
<1>4. RunInv
  BY <1>2, EmptyIsFinite DEF Init, RunInv, Holding
<1> QED
  BY <1>3, <1>4

\* The end of a run disturbs no other run.
LEMMA EndKeeps ==
    ASSUME TypeOK, RunInv, NEW p \in Run, NEW o \in Outcome, End(p, o),
           UNCHANGED <<ledger, rows>>, LateOK'
    PROVE  TypeOK' /\ RunInv'
<1> USE AccrualAssumption
<1>1. /\ pipeline' \in {pipeline, Free} /\ apply' \in {apply, Free}
      /\ pipeline' = IF pipeline = p THEN Free ELSE pipeline
      /\ pc' = [pc EXCEPT ![p] = "idle"]
      /\ approved' = [approved EXCEPT ![p] = <<>>] /\ targets' = [targets EXCEPT ![p] = <<>>]
      /\ plan' = [plan EXCEPT ![p] = {}] /\ body' = [body EXCEPT ![p] = {}]
      /\ posts' = [posts EXCEPT ![p] = 0] /\ wire' = [wire EXCEPT ![p] = "none"]
      /\ outcome' = [outcome EXCEPT ![p] = o]
  BY DEF End
<1>2. TypeOK'
  BY <1>1, EmptyIsFinite DEF TypeOK, LateOK
<1>3. RunInv'
  BY <1>1, EmptyIsFinite DEF TypeOK, RunInv, Holding
<1> QED
  BY <1>2, <1>3

LEMMA TypeStep == TypeOK /\ RunInv /\ [Next]_vars => TypeOK' /\ RunInv'
<1> SUFFICES ASSUME TypeOK, RunInv, [Next]_vars PROVE TypeOK' /\ RunInv'
  OBVIOUS
<1> USE AccrualAssumption
<1>0. rows \in Rows
  BY DEF TypeOK, Rows
<1>1. CASE SyncBegins
  <2>1. TypeOK'
    BY <1>1 DEF SyncBegins, TypeOK, world, locals, bridge
  <2> QED
    BY <1>1, <2>1 DEF SyncBegins, TypeOK, RunInv, LateOK, world, locals, bridge
<1>2. CASE SyncEnds
  <2>1. TypeOK'
    BY <1>2 DEF SyncEnds, TypeOK, locals, bridge
  <2>2. \A p \in Run : pc[p] \notin Holding
    BY <1>2 DEF SyncEnds, RunInv
  <2> QED
    BY <1>2, <2>1, <2>2 DEF SyncEnds, TypeOK, RunInv, LateOK, locals, bridge, Holding
<1>3. CASE LateArrives
  <2>1. PICK b \in BagToSet(late) :
            /\ late' = late (-) SetToBag({b})
            /\ UNCHANGED <<ledger, locks, locals, outcome>>
            /\ \E done \in SUBSET b : rows' = After(done) /\ WithinLimit
    BY <1>3 DEF LateArrives
  <2>2. LateOK'
    BY <2>1 DEF RunInv, LateOK, IsABag, (-), SetToBag, BagToSet
  <2>3. rows' \in Rows
    <3>1. PICK done \in SUBSET b : rows' = After(done) /\ WithinLimit
      BY <2>1
    <3>2. done \in SUBSET Action
      BY DEF RunInv, LateOK
    <3> QED
      BY <1>0, <3>1, <3>2, AfterTypes
  <2>4. TypeOK'
    BY <2>1, <2>2, <2>3 DEF TypeOK, LateOK, Rows, locks, locals, bridge
  <2> QED
    BY <2>1, <2>2, <2>4 DEF RunInv, locks, locals, bridge
<1>4. ASSUME NEW p \in Run, Start(p) PROVE TypeOK' /\ RunInv'
  <2>1. TypeOK'
    BY <1>4 DEF Start, TypeOK, world, locks, bridge, Outcome
  <2> QED
    BY <1>4, <2>1 DEF Start, TypeOK, RunInv, LateOK, Holding, world, locks, bridge
<1>5. ASSUME NEW p \in Run, TakePipelineLock(p) PROVE TypeOK' /\ RunInv'
  <2>1. CASE End(p, "deferred") /\ UNCHANGED world
    BY <2>1, EndKeeps DEF world, Outcome, RunInv, LateOK
  <2>2. CASE ~ (End(p, "deferred") /\ UNCHANGED world)
    <3>1. TypeOK'
      BY <1>5, <2>2 DEF TakePipelineLock, TypeOK, world, bridge
    <3> QED
      BY <1>5, <2>2, <3>1 DEF TakePipelineLock, PipelineFree, TypeOK, RunInv, LateOK, Holding, world, bridge
  <2> QED
    BY <2>1, <2>2
<1>6. ASSUME NEW p \in Run, TakeApplyLock(p) PROVE TypeOK' /\ RunInv'
  <2>1. TypeOK'
    BY <1>6 DEF TakeApplyLock, TypeOK, world, bridge
  <2> QED
    BY <1>6, <2>1 DEF TakeApplyLock, TypeOK, RunInv, LateOK, Holding, world, bridge
<1>7. ASSUME NEW p \in Run, ReadTargets(p) PROVE TypeOK' /\ RunInv'
  <2>1. CASE End(p, "error") /\ UNCHANGED world
    BY <2>1, EndKeeps DEF world, Outcome, RunInv, LateOK
  <2>2. CASE ~ (End(p, "error") /\ UNCHANGED world)
    <3>1. TypeOK'
      <4>1. /\ pc' = [pc EXCEPT ![p] = "query"] /\ targets' = [targets EXCEPT ![p] = ledger]
            /\ UNCHANGED <<ledger, rows, late, pipeline, apply, approved, plan, body, posts, wire, outcome>>
        BY <1>7, <2>2 DEF ReadTargets, world, locks, bridge
      <4>2. targets' \in [Run -> Accruals \cup {<<>>}]
        BY <4>1 DEF TypeOK
      <4>3. pc' \in [Run -> {"idle", "pipeline", "apply", "read", "query", "mutate"}]
        BY <4>1 DEF TypeOK
      <4> QED
        BY <4>1, <4>2, <4>3 DEF TypeOK
    <3> QED
      <4>1. /\ pc[p] = "read" /\ ledger = approved[p] /\ targets' = [targets EXCEPT ![p] = ledger]
            /\ pc' = [pc EXCEPT ![p] = "query"]
            /\ UNCHANGED <<ledger, late, pipeline, approved, plan, body, posts, wire>>
        BY <1>7, <2>2 DEF ReadTargets, DigestMatches, world, locks, bridge
      <4>2. plan[p] = {} /\ \A q \in Run \ {p} : targets'[q] = targets[q] /\ pc'[q] = pc[q]
        BY <4>1 DEF RunInv, LateOK, TypeOK
      <4>3. targets'[p] = ledger /\ pc'[p] = "query"
        BY <4>1 DEF TypeOK
      <4> QED
        <5>1. \A q \in Run : pc'[q] \in Holding <=> pipeline' = q
          BY <4>1, <4>2, <4>3 DEF RunInv, Holding
        <5>2. \A q \in Run : pc'[q] \in {"query", "mutate"} => targets'[q] = approved'[q] /\ targets'[q] = ledger'
          BY <4>1, <4>2, <4>3 DEF RunInv
        <5>3. \A q \in Run, a \in Action : a \in plan'[q] => a.value = targets'[q][a.marker]
          BY <4>1, <4>2 DEF RunInv
        <5>4. LateOK'
          BY <4>1 DEF RunInv, LateOK
        <5>5. \A q \in Run : pc'[q] # "mutate" => plan'[q] = {}
          BY <4>1, <4>2, <4>3 DEF RunInv
        <5>6. \A q \in Run : /\ IsFiniteSet(plan'[q]) /\ (body'[q] = {} <=> posts'[q] = 0)
                             /\ (wire'[q] # "none" => posts'[q] # 0)
          BY <4>1 DEF RunInv
        <5> QED
          BY <3>1, <5>1, <5>2, <5>3, <5>4, <5>5, <5>6 DEF RunInv
  <2> QED
    BY <2>1, <2>2
<1>8. ASSUME NEW p \in Run, Query(p) PROVE TypeOK' /\ RunInv'
  <2>1. CASE \E o \in {"blocked", "error"} : End(p, o) /\ UNCHANGED world
    BY <2>1, EndKeeps DEF world, Outcome, RunInv, LateOK
  <2>2. CASE ~ (\E o \in {"blocked", "error"} : End(p, o) /\ UNCHANGED world)
    <3>1. /\ plan' = [plan EXCEPT ![p] = PlanFor(p)] /\ pc' = [pc EXCEPT ![p] = "mutate"]
          /\ pc[p] = "query"
          /\ UNCHANGED <<world, locks, approved, targets, bridge, outcome>>
      BY <1>8, <2>2 DEF Query
    <3>2. targets[p] \in Accruals
      BY <3>1 DEF RunInv, LateOK, TypeOK
    <3>3. /\ PlanFor(p) \in SUBSET Action /\ IsFiniteSet(PlanFor(p))
          /\ \A a \in PlanFor(p) : a.value = targets[p][a.marker]
      BY <1>0, <3>2, PlanTypes
    <3>4. plan[p] = {} /\ body[p] = {}
      BY <3>1 DEF RunInv, LateOK, TypeOK
    <3>5. TypeOK'
      BY <3>1, <3>3, <3>4 DEF TypeOK, world, locks, bridge
    <3> QED
      BY <3>1, <3>3, <3>4, <3>5 DEF TypeOK, RunInv, LateOK, Holding, world, locks, bridge
  <2> QED
    BY <2>1, <2>2
<1>9. ASSUME NEW p \in Run, Post(p) PROVE TypeOK' /\ RunInv'
  <2>1. PICK b \in IF posts[p] = 0 THEN NextBodies(p) ELSE {body[p]} : body' = [body EXCEPT ![p] = b]
    BY <1>9 DEF Post
  <2>2. b \in SUBSET plan[p] /\ b # {} /\ Cardinality(b) <= BatchSize
    <3>1. plan[p] # {} /\ IsFiniteSet(plan[p])
      BY <1>9 DEF Post, RunInv
    <3>2. CASE posts[p] = 0
      BY <2>1, <3>1, <3>2, BodyTypes
    <3>3. CASE posts[p] # 0
      BY <2>1, <3>3 DEF RunInv, LateOK, TypeOK
    <3> QED
      BY <3>2, <3>3
  <2>3. posts[p] < MaxPosts /\ posts[p] \in Nat /\ MaxPosts \in Nat
    BY <1>9 DEF Post, RouteLeft, TypeOK
  <2>4. /\ posts' = [posts EXCEPT ![p] = @ + 1] /\ wire' = [wire EXCEPT ![p] = "sent"]
        /\ UNCHANGED <<world, locks, pc, approved, targets, plan, outcome>>
    BY <1>9 DEF Post
  <2>5. TypeOK'
    BY <2>1, <2>2, <2>3, <2>4 DEF TypeOK, world, locks
  <2> QED
    BY <2>1, <2>2, <2>3, <2>4, <2>5 DEF TypeOK, RunInv, LateOK, world, locks
<1>10. ASSUME NEW p \in Run, GiveUp(p) PROVE TypeOK' /\ RunInv'
  <2>1. LateOK'
    BY <1>10, AbandonTypes DEF GiveUp, TypeOK, RunInv
  <2>2. TypeOK'
    BY <1>10, <2>1 DEF GiveUp, TypeOK, LateOK, locks
  <2> QED
    BY <1>10, <2>1, <2>2 DEF GiveUp, TypeOK, RunInv, LateOK, locks
<1>11. ASSUME NEW p \in Run, Done(p) PROVE TypeOK' /\ RunInv'
  <2>1. Remaining(p) \in SUBSET plan[p] /\ IsFiniteSet(Remaining(p))
    BY FS_Subset DEF Remaining, RunInv
  <2>2. TypeOK'
    BY <1>11, <2>1, EmptyIsFinite DEF Done, TypeOK, world, locks
  <2> QED
    BY <1>11, <2>1, <2>2 DEF Done, TypeOK, RunInv, LateOK, world, locks
<1>12. ASSUME NEW p \in Run, MutationFails(p) \/ ReportOk(p) \/ Crash(p) PROVE TypeOK' /\ RunInv'
  <2>1. \E o \in Outcome : End(p, o)
    BY <1>12 DEF MutationFails, ReportOk, Crash, Outcome
  <2>2. UNCHANGED <<ledger, rows>>
    BY <1>12 DEF MutationFails, ReportOk, Crash, world
  <2>3. LateOK'
    <3>0. LateOK /\ body[p] \in SUBSET Action /\ plan[p] \in SUBSET Action /\ posts[p] \in 0 .. MaxPosts
      BY DEF RunInv, LateOK, TypeOK
    <3>1. ASSUME NEW n \in Nat, Abandon(p, n) PROVE LateOK'
      BY <3>0, <3>1, AbandonTypes
    <3>2. ASSUME NEW b \in NextBodies(p), NEW n \in 1 .. MaxPosts, plan[p] # {},
                 late' = late (+) [c \in {b} |-> n]
          PROVE  LateOK'
      <4>1. b \in SUBSET Action
        BY <3>0, <3>2, BodyTypes DEF RunInv
      <4> QED
        BY <3>0, <3>2, <4>1 DEF LateOK, IsABag, BagToSet, (+)
    <3>3. CASE UNCHANGED late
      BY <3>0, <3>3 DEF LateOK
    <3>4. CASE ReportOk(p)
      BY <3>3, <3>4 DEF ReportOk, world
    <3>5. CASE MutationFails(p)
      BY <3>1, <3>5 DEF MutationFails
    <3>6. CASE Crash(p)
      <4>1. \A n \in 0 .. MaxPosts - posts[p] : n \in Nat
        BY <3>0
      <4> QED
        BY <3>1, <3>2, <3>3, <3>6, <4>1 DEF Crash
    <3> QED
      BY <1>12, <3>4, <3>5, <3>6
  <2> QED
    BY <2>1, <2>2, <2>3, EndKeeps
<1>13. ASSUME NEW p \in Run, BankAnswers(p) PROVE TypeOK' /\ RunInv'
  <2>1. rows' \in Rows
    <3>1. PICK done \in SUBSET body[p] : rows' = After(done) /\ WithinLimit
      BY <1>13 DEF BankAnswers
    <3>2. done \in SUBSET Action
      BY DEF TypeOK
    <3> QED
      BY <1>0, <3>1, <3>2, AfterTypes
  <2>2. wire' \in [Run -> {"none", "sent", "ok", "errors"}] /\ \A q \in Run : wire'[q] # "none" => wire[q] # "none"
    BY <1>13 DEF BankAnswers, TypeOK
  <2>3. TypeOK'
    BY <1>13, <2>1, <2>2 DEF BankAnswers, TypeOK, Rows, locks
  <2> QED
    BY <1>13, <2>2, <2>3 DEF BankAnswers, RunInv, LateOK, locks
<1>14. CASE UNCHANGED vars
  <2>1. TypeOK'
    BY <1>14 DEF vars, TypeOK, world, locks, locals, bridge
  <2> QED
    BY <1>14, <2>1 DEF vars, RunInv, LateOK, world, locks, locals, bridge
<1> QED
  BY <1>1, <1>2, <1>3, <1>4, <1>5, <1>6, <1>7, <1>8, <1>9, <1>10, <1>11, <1>12, <1>13, <1>14 DEF Next

LEMMA TypeAlways == Spec => [](TypeOK /\ RunInv)
  BY TypeInit, TypeStep, PTL DEF Spec

\* Every variable keeps its type, and no body exceeds a batch, whatever the
\* constants are.
THEOREM TypeCorrect == Spec => []TypeOK
  BY TypeAlways, PTL

\* What is posted is what was approved: the digest is compared under the
\* pipeline lock, and the lock is kept to the end.
THEOREM ApprovedIsPosted == Spec => []PostsAsApproved
<1>1. TypeOK /\ RunInv => PostsAsApproved
  <2> SUFFICES ASSUME TypeOK, RunInv, NEW p \in Run, NEW a \in body[p]
               PROVE  a.value = approved[p][a.marker]
    BY DEF PostsAsApproved
  <2>1. a \in plan[p] /\ a \in Action
    BY DEF TypeOK
  <2>2. pc[p] = "mutate"
    BY <2>1 DEF RunInv
  <2> QED
    BY <2>1, <2>2 DEF RunInv
<1> QED
  BY <1>1, TypeAlways, PTL

(***************************************************************************)
(* One route, and abandoned posts that arrive before the next query: the   *)
(* plan of a run stays true of the live rows until it is carried out.      *)
(***************************************************************************)

OneRoutePrompt == MaxPosts = 1 /\ Prompt

\* The bag of one body.
Just(b) == SetToBag({b})

\* The one live row that an accrual of p asks for.
Wanted(p, m) == <<[value |-> targets[p][m], legacy |-> FALSE]>>

\* What Baselane may still be asked, or has been asked and has not answered.
Ahead(p) == IF posts[p] = 0 \/ wire[p] = "sent" THEN plan[p] ELSE plan[p] \ body[p]

\* What the rows are to a run that is past its plan.
TrueOf(p) ==
    /\ OnePerMarker(plan[p])
    /\ \A a \in Ahead(p) : Planned(a)
    /\ \A m \in Marker : (\A a \in plan[p] : a.marker # m) => rows[m] = Wanted(p, m)
    /\ wire[p] = "ok" => \A a \in body[p] : rows[a.marker] = Wanted(p, a.marker)
    /\ late # EmptyBag => posts[p] # 0 /\ wire[p] = "none" /\ late = Just(body[p])

PlanInv == \A p \in Run : pc[p] = "mutate" => TrueOf(p)

\* At most one body is late, and it is still true of the rows.
LateInv ==
    late # EmptyBag => \E b \in SUBSET Action : /\ late = Just(b) /\ OnePerMarker(b)
                                               /\ \A a \in b : Planned(a)

CurrentInv == PlanInv /\ LateInv

LEMMA CurrentInit == Init => CurrentInv
  BY DEF Init, CurrentInv, PlanInv, LateInv

\* Only one run is past its plan.
LEMMA OneMutates ==
    ASSUME RunInv, NEW p \in Run, NEW q \in Run, pc[p] = "mutate", pc[q] = "mutate"
    PROVE  p = q
  BY DEF RunInv, Holding

\* One late body arrives, and none is left.
LEMMA LastArrives ==
    ASSUME NEW b, late = Just(b)
    PROVE  BagToSet(late) = {b} /\ late (-) SetToBag({b}) = EmptyBag
  BY DEF Just, SetToBag, BagToSet, (-), EmptyBag

\* What an abandoned post leaves behind when nothing was late before.
LEMMA FirstLate ==
    ASSUME NEW b, late = EmptyBag
    PROVE  late (+) [c \in {b} |-> 1] = Just(b)
  BY DEF Just, SetToBag, (+), EmptyBag

LEMMA OneLate == \A b : Just(b) # EmptyBag
  BY DEF Just, SetToBag, EmptyBag

\* The plan of a run is true of the rows it was made from.
LEMMA PlanIsTrue ==
    ASSUME TypeOK, NEW p \in Run, targets[p] \in Accruals, ~ \E m \in Marker : Ambiguous(m)
    PROVE  /\ OnePerMarker(PlanFor(p))
           /\ \A a \in PlanFor(p) : Planned(a)
           /\ \A m \in Marker : (\A a \in PlanFor(p) : a.marker # m) => rows[m] = Wanted(p, m)
<1> DEFINE w(m) == [value |-> targets[p][m], legacy |-> FALSE]
           U == {n \in Marker : rows[n] # <<>> /\ rows[n][1] # w(n)}
           C == {n \in Marker : rows[n] = <<>>}
           u(m) == [kind |-> "update", marker |-> m, value |-> targets[p][m], index |-> 1]
           c(m) == [kind |-> "create", marker |-> m, value |-> targets[p][m], index |-> 0]
<1>1. PlanFor(p) = {u(m) : m \in U} \cup {c(m) : m \in C}
  BY DEF PlanFor
<1>2. ASSUME NEW m \in Marker, rows[m] # <<>>
      PROVE  rows[m][1] \in Row /\ rows[m] = <<rows[m][1]>>
  <2>1. rows \in Rows
    BY DEF TypeOK, Rows
  <2>2. rows[m] \in Seq(Row) /\ ~ Len(rows[m]) > 1
    BY <2>1, RowsAre DEF Ambiguous
  <2>3. Len(rows[m]) \in Nat /\ Len(rows[m]) # 0
    BY <1>2, <2>2, EmptySeq
  <2>4. Len(rows[m]) = 1
    <3>1. ASSUME NEW n \in Nat, n # 0, ~ n > 1 PROVE n = 1
      BY <3>1
    <3> QED
      BY <2>2, <2>3, <3>1
  <2> QED
    BY <2>2, <2>4
<1>3. ASSUME NEW a \in PlanFor(p) PROVE Planned(a)
  <2>1. CASE \E m \in U : a = u(m)
    BY <1>2, <2>1 DEF Planned
  <2>2. CASE \E m \in C : a = c(m)
    BY <2>2 DEF Planned
  <2> QED
    BY <1>1, <2>1, <2>2
<1>4. ASSUME NEW m \in Marker, \A a \in PlanFor(p) : a.marker # m PROVE rows[m] = Wanted(p, m)
  <2>1. m \notin U /\ m \notin C
    <3>1. u(m).marker = m /\ c(m).marker = m
      OBVIOUS
    <3> HIDE DEF u, c, U, C
    <3> QED
      BY <1>1, <1>4, <3>1
  <2> QED
    BY <1>2, <2>1 DEF Wanted
<1>5. OnePerMarker(PlanFor(p))
  <2>1. ASSUME NEW a \in PlanFor(p)
        PROVE  \/ a.marker \in U /\ a = u(a.marker)
               \/ a.marker \in C /\ a = c(a.marker)
    <3>1. CASE \E m \in U : a = u(m)
      BY <3>1
    <3>2. CASE \E m \in C : a = c(m)
      BY <3>2
    <3> QED
      BY <1>1, <3>1, <3>2
  <2>2. \A m \in U : m \notin C
    OBVIOUS
  <2> HIDE DEF u, c, U, C
  <2> QED
    BY <2>1, <2>2 DEF OnePerMarker
<1> QED
  BY <1>3, <1>4, <1>5

\* A step that disturbs no run past its plan, nor the rows or what is late.
LEMMA QuietIsCurrent ==
    ASSUME TypeOK, CurrentInv, UNCHANGED <<rows, late>>,
           \A q \in Run : pc'[q] = "mutate" =>
               /\ pc[q] = "mutate" /\ plan'[q] = plan[q] /\ body'[q] = body[q]
               /\ wire'[q] = wire[q] /\ posts'[q] = posts[q] /\ targets'[q] = targets[q]
    PROVE  CurrentInv'
<1>1. \A a : Planned(a)' <=> Planned(a)
  BY DEF Planned
<1>2. ASSUME NEW q \in Run, pc'[q] = "mutate" PROVE TrueOf(q)'
  <2>1. /\ pc[q] = "mutate" /\ Ahead(q)' = Ahead(q)
        /\ plan'[q] = plan[q] /\ body'[q] = body[q] /\ wire'[q] = wire[q] /\ posts'[q] = posts[q]
        /\ \A m : Wanted(q, m)' = Wanted(q, m)
    BY <1>2 DEF Ahead, Wanted
  <2>2. TrueOf(q)
    BY <2>1 DEF CurrentInv, PlanInv
  <2> QED
    BY <1>1, <2>1, <2>2 DEF TrueOf
<1>3. LateInv'
  BY <1>1 DEF CurrentInv, LateInv
<1> QED
  BY <1>2, <1>3 DEF CurrentInv, PlanInv

\* A run that ends leaves behind nothing, what was late, or its one body.
LEMMA EndIsCurrent ==
    ASSUME TypeOK, RunInv, CurrentInv, NEW p \in Run, NEW o \in Outcome, End(p, o), UNCHANGED <<ledger, rows>>,
           \/ UNCHANGED late
           \/ pc[p] = "mutate" /\ \E b \in SUBSET plan[p] :
                  b \subseteq Ahead(p) /\ late = EmptyBag /\ late' = Just(b)
    PROVE  CurrentInv'
<1>1. \A q \in Run : q # p => /\ pc'[q] = pc[q] /\ plan'[q] = plan[q] /\ body'[q] = body[q]
                             /\ targets'[q] = targets[q] /\ posts'[q] = posts[q] /\ wire'[q] = wire[q]
  BY DEF End, TypeOK
<1>2. pc'[p] = "idle"
  BY DEF End, TypeOK
<1>3. CASE UNCHANGED late
  BY <1>1, <1>2, <1>3, QuietIsCurrent
<1>4. CASE ~ UNCHANGED late
  <2>1. PICK b \in SUBSET plan[p] : b \subseteq Ahead(p) /\ late' = Just(b)
    BY <1>4
  <2>2. pc[p] = "mutate" /\ \A q \in Run : pc'[q] # "mutate"
    BY <1>1, <1>2, <1>4, OneMutates
  <2>3. b \in SUBSET Action /\ OnePerMarker(b) /\ \A a \in b : Planned(a)
    BY <2>1, <2>2 DEF TypeOK, CurrentInv, PlanInv, TrueOf, OnePerMarker
  <2> QED
    BY <2>1, <2>2, <2>3 DEF CurrentInv, PlanInv, LateInv, Planned
<1> QED
  BY <1>3, <1>4

\* Over one route, an abandoned post is the only late one.
LEMMA AbandonIsCurrent ==
    ASSUME OneRoutePrompt, TypeOK, RunInv, CurrentInv, NEW p \in Run, pc[p] = "mutate", Abandon(p, 0)
    PROVE  \/ late' = late /\ wire[p] # "sent"
           \/ wire[p] = "sent" /\ late = EmptyBag /\ late' = Just(body[p])
<1>1. CASE wire[p] # "sent"
  BY <1>1 DEF Abandon
<1>2. CASE wire[p] = "sent"
  <2>1. late = EmptyBag
    BY <1>2 DEF CurrentInv, PlanInv, TrueOf
  <2>2. late' = late (+) [b \in {body[p]} |-> 1]
    BY <1>2 DEF Abandon
  <2> QED
    BY <1>2, <2>1, <2>2, FirstLate
<1> QED
  BY <1>1, <1>2

LEMMA CurrentStep ==
    OneRoutePrompt /\ TypeOK /\ RunInv /\ CurrentInv /\ [Next]_vars => CurrentInv'
<1> SUFFICES ASSUME OneRoutePrompt, TypeOK, RunInv, CurrentInv, [Next]_vars PROVE CurrentInv'
  OBVIOUS
<1>0. rows \in Rows
  BY DEF TypeOK, Rows
<1>1. CASE SyncBegins \/ SyncEnds \/ UNCHANGED vars
  BY <1>1, QuietIsCurrent DEF SyncBegins, SyncEnds, vars, world, locals, bridge
<1>2. CASE LateArrives
  <2>a. PICK b \in BagToSet(late) :
            /\ late' = late (-) SetToBag({b}) /\ \E done \in SUBSET b : rows' = After(done)
            /\ UNCHANGED <<ledger, locks, locals, outcome>>
    BY <1>2 DEF LateArrives
  <2>b. PICK done \in SUBSET b : rows' = After(done)
    BY <2>a
  <2>1. /\ late' = late (-) SetToBag({b}) /\ rows' = After(done)
        /\ UNCHANGED <<ledger, locks, locals, outcome>>
    BY <2>a, <2>b
  <2>2. PICK c \in SUBSET Action : late = Just(c) /\ OnePerMarker(c) /\ \A a \in c : Planned(a)
    <3>1. late # EmptyBag
      BY <2>1 DEF BagToSet, EmptyBag, SetToBag
    <3> QED
      BY <3>1 DEF CurrentInv, LateInv
  <2>3. c = b /\ late' = EmptyBag
    BY <2>1, <2>2, LastArrives
  <2>4. /\ \A a \in done : rows'[a.marker] = <<[value |-> a.value, legacy |-> FALSE]>>
        /\ \A m \in Marker : (\A a \in done : a.marker # m) => rows'[m] = rows[m]
    BY <1>0, <2>1, <2>2, <2>3, AfterPlanned DEF OnePerMarker
  <2>5. LateInv'
    BY <2>3 DEF LateInv
  <2>6. ASSUME NEW q \in Run, pc'[q] = "mutate" PROVE TrueOf(q)'
    <3>1. /\ pc[q] = "mutate" /\ plan' = plan /\ body' = body /\ wire' = wire
          /\ posts' = posts /\ targets' = targets
      BY <2>1, <2>6 DEF locals, bridge
    <3>2. TrueOf(q) /\ late # EmptyBag
      BY <2>2, <3>1, OneLate DEF CurrentInv, PlanInv
    <3>3. posts[q] # 0 /\ wire[q] = "none" /\ late = Just(body[q])
      BY <3>2 DEF TrueOf
    <3>4. c = body[q] /\ done \subseteq body[q] /\ body[q] \subseteq plan[q] /\ plan[q] \in SUBSET Action
      <4>1. BagToSet(late) = {c}
        BY <2>2, LastArrives
      <4>2. BagToSet(late) = {body[q]}
        BY <3>3, LastArrives
      <4> QED
        BY <2>3, <4>1, <4>2 DEF TypeOK
    <3>5. Ahead(q) = plan[q] \ body[q] /\ Ahead(q)' = Ahead(q)
      BY <3>1, <3>3 DEF Ahead
    <3>6. \A a \in Ahead(q) : Planned(a)'
      <4>1. ASSUME NEW a \in Ahead(q) PROVE rows'[a.marker] = rows[a.marker] /\ Planned(a)
        <5>1. a.marker \in Marker /\ \A d \in done : d.marker # a.marker
          BY <3>2, <3>4, <3>5 DEF TrueOf, OnePerMarker, Action
        <5> QED
          BY <2>4, <3>2, <5>1 DEF TrueOf
      <4> QED
        BY <4>1 DEF Planned
    <3>7. \A m \in Marker : (\A a \in plan[q] : a.marker # m) => rows'[m] = Wanted(q, m)
      BY <2>4, <3>2, <3>4 DEF TrueOf
    <3>8. \A m : Wanted(q, m)' = Wanted(q, m)
      BY <3>1 DEF Wanted
    <3> QED
      BY <2>3, <3>1, <3>2, <3>3, <3>5, <3>6, <3>7, <3>8 DEF TrueOf
  <2> QED
    BY <2>5, <2>6 DEF CurrentInv, PlanInv
<1>3. ASSUME NEW p \in Run, Start(p) \/ TakeApplyLock(p) PROVE CurrentInv'
  BY <1>3, QuietIsCurrent DEF Start, TakeApplyLock, TypeOK, world, bridge
<1>4. ASSUME NEW p \in Run, NEW o \in Outcome, End(p, o), UNCHANGED world PROVE CurrentInv'
  BY <1>4, EndIsCurrent DEF world
<1>5. ASSUME NEW p \in Run, TakePipelineLock(p) PROVE CurrentInv'
  <2>1. CASE End(p, "deferred") /\ UNCHANGED world
    BY <1>4, <2>1 DEF Outcome
  <2>2. CASE ~ (End(p, "deferred") /\ UNCHANGED world)
    BY <1>5, <2>2, QuietIsCurrent DEF TakePipelineLock, TypeOK, world, bridge
  <2> QED
    BY <2>1, <2>2
<1>6. ASSUME NEW p \in Run, ReadTargets(p) PROVE CurrentInv'
  <2>1. CASE End(p, "error") /\ UNCHANGED world
    BY <1>4, <2>1 DEF Outcome
  <2>2. CASE ~ (End(p, "error") /\ UNCHANGED world)
    BY <1>6, <2>2, QuietIsCurrent DEF ReadTargets, TypeOK, world, bridge
  <2> QED
    BY <2>1, <2>2
<1>7. ASSUME NEW p \in Run, Query(p) PROVE CurrentInv'
  <2>1. CASE \E o \in {"blocked", "error"} : End(p, o) /\ UNCHANGED world
    BY <1>4, <2>1 DEF Outcome
  <2>2. CASE ~ (\E o \in {"blocked", "error"} : End(p, o) /\ UNCHANGED world)
    <3>1. /\ plan' = [plan EXCEPT ![p] = PlanFor(p)] /\ pc' = [pc EXCEPT ![p] = "mutate"]
          /\ pc[p] = "query" /\ late = EmptyBag /\ ~ \E m \in Marker : Ambiguous(m)
          /\ UNCHANGED <<rows, late, targets, body, posts, wire>>
      BY <1>7, <2>2 DEF Query, OneRoutePrompt, world, bridge
    <3>2. targets[p] \in Accruals
      BY <3>1 DEF RunInv, TypeOK
    <3>3. /\ OnePerMarker(PlanFor(p)) /\ \A a \in PlanFor(p) : Planned(a)
          /\ \A m \in Marker : (\A a \in PlanFor(p) : a.marker # m) => rows[m] = Wanted(p, m)
      BY <3>1, <3>2, PlanIsTrue
    <3>4. ASSUME NEW q \in Run, pc'[q] = "mutate" PROVE q = p
      BY <3>1, <3>4 DEF TypeOK, RunInv, Holding
    <3>5. plan'[p] = PlanFor(p) /\ plan[p] = {}
      BY <3>1 DEF TypeOK, RunInv
    <3>6. posts[p] = 0 /\ wire[p] = "none"
      BY <3>1, <3>5 DEF TypeOK, RunInv
    <3>7. Ahead(p)' = PlanFor(p)
      BY <3>1, <3>5, <3>6 DEF Ahead
    <3>8. \A x : (Planned(x)' <=> Planned(x)) /\ Wanted(p, x)' = Wanted(p, x)
      BY <3>1 DEF Planned, Wanted
    <3>9. TrueOf(p)'
      BY <3>1, <3>3, <3>5, <3>6, <3>7, <3>8 DEF TrueOf
    <3>10. LateInv'
      BY <3>1 DEF LateInv
    <3> QED
      BY <3>4, <3>9, <3>10 DEF CurrentInv, PlanInv
  <2> QED
    BY <2>1, <2>2
<1>8. ASSUME NEW p \in Run, Post(p) PROVE CurrentInv'
  <2>1. /\ pc[p] = "mutate" /\ posts[p] = 0 /\ wire' = [wire EXCEPT ![p] = "sent"]
        /\ UNCHANGED <<rows, late, pc, targets, plan>>
    BY <1>8 DEF Post, RouteLeft, OneRoutePrompt, TypeOK, world
  <2>2. ASSUME NEW q \in Run, pc'[q] = "mutate" PROVE q = p
    BY <2>1, <2>2, OneMutates
  <2>3. TrueOf(p)
    BY <2>1 DEF CurrentInv, PlanInv
  <2>4. late = EmptyBag /\ wire'[p] = "sent" /\ Ahead(p) = plan[p] /\ Ahead(p)' = plan[p]
    BY <2>1, <2>3 DEF TrueOf, Ahead, TypeOK
  <2>5. \A x : (Planned(x)' <=> Planned(x)) /\ Wanted(p, x)' = Wanted(p, x)
    BY <2>1 DEF Planned, Wanted
  <2>6. TrueOf(p)'
    BY <2>1, <2>3, <2>4, <2>5 DEF TrueOf
  <2>7. LateInv'
    BY <2>1, <2>4 DEF LateInv
  <2> QED
    BY <2>2, <2>6, <2>7 DEF CurrentInv, PlanInv
<1>9. ASSUME NEW p \in Run, GiveUp(p) PROVE CurrentInv'
  <2>1. /\ wire[p] # "none" /\ Abandon(p, 0) /\ wire' = [wire EXCEPT ![p] = "none"]
        /\ UNCHANGED <<rows, pc, targets, plan, body, posts>>
    BY <1>9 DEF GiveUp
  <2>2. pc[p] = "mutate" /\ posts[p] # 0 /\ body[p] # {} /\ body[p] \subseteq plan[p] /\ plan[p] \in SUBSET Action
    BY <2>1 DEF RunInv, TypeOK
  <2>3. ASSUME NEW q \in Run, pc'[q] = "mutate" PROVE q = p
    BY <2>1, <2>2, <2>3, OneMutates
  <2>4. TrueOf(p) /\ LateInv
    BY <2>2 DEF CurrentInv, PlanInv
  <2>5. wire'[p] = "none" /\ Ahead(p)' = plan[p] \ body[p] /\ Ahead(p)' \subseteq Ahead(p)
    BY <2>1, <2>2 DEF Ahead, TypeOK
  <2>6. \A x : (Planned(x)' <=> Planned(x)) /\ Wanted(p, x)' = Wanted(p, x)
    BY <2>1 DEF Planned, Wanted
  <2>7. late = EmptyBag
    BY <2>1, <2>4 DEF TrueOf
  <2>8. late' = EmptyBag \/ (wire[p] = "sent" /\ late' = Just(body[p]))
    <3>1. Abandon(p, 0) /\ pc[p] = "mutate"
      BY <2>1, <2>2
    <3>2. \/ late' = late /\ wire[p] # "sent"
          \/ wire[p] = "sent" /\ late = EmptyBag /\ late' = Just(body[p])
      BY <3>1, AbandonIsCurrent
    <3> QED
      BY <2>7, <3>2
  <2>9. TrueOf(p)'
    BY <2>1, <2>2, <2>4, <2>5, <2>6, <2>8 DEF TrueOf
  <2>10. LateInv'
    <3>1. CASE late' = EmptyBag
      BY <3>1 DEF LateInv
    <3>2. CASE wire[p] = "sent" /\ late' = Just(body[p])
      <4>1. body[p] \in SUBSET Action /\ OnePerMarker(body[p]) /\ \A a \in body[p] : Planned(a)
        BY <2>2, <2>4, <3>2 DEF TrueOf, Ahead, OnePerMarker
      <4> QED
        BY <2>6, <3>2, <4>1 DEF LateInv
    <3> QED
      BY <2>8, <3>1, <3>2
  <2> QED
    BY <2>3, <2>9, <2>10 DEF CurrentInv, PlanInv
<1>10. ASSUME NEW p \in Run, Done(p) PROVE CurrentInv'
  <2>1. /\ wire[p] = "ok" /\ plan' = [plan EXCEPT ![p] = plan[p] \ body[p]]
        /\ body' = [body EXCEPT ![p] = {}] /\ posts' = [posts EXCEPT ![p] = 0]
        /\ wire' = [wire EXCEPT ![p] = "none"] /\ UNCHANGED <<rows, late, pc, targets>>
    BY <1>10 DEF Done, Remaining, world
  <2>2. pc[p] = "mutate" /\ posts[p] # 0
    BY <2>1 DEF RunInv, TypeOK
  <2>3. ASSUME NEW q \in Run, pc'[q] = "mutate" PROVE q = p
    BY <2>1, <2>2, <2>3, OneMutates
  <2>4. TrueOf(p)
    BY <2>2 DEF CurrentInv, PlanInv
  <2>5. plan'[p] = plan[p] \ body[p] /\ body'[p] = {} /\ Ahead(p)' = plan[p] \ body[p] /\ Ahead(p) = plan[p] \ body[p]
    BY <2>1, <2>2 DEF Ahead, TypeOK
  <2>6. \A x : (Planned(x)' <=> Planned(x)) /\ Wanted(p, x)' = Wanted(p, x)
    BY <2>1 DEF Planned, Wanted
  <2>7. late = EmptyBag /\ wire'[p] = "none"
    BY <2>1, <2>4 DEF TrueOf, TypeOK
  <2>8. ASSUME NEW m \in Marker, \A a \in plan'[p] : a.marker # m PROVE rows'[m] = Wanted(p, m)
    <3>1. CASE \E a \in body[p] : a.marker = m
      BY <2>1, <2>4, <3>1 DEF TrueOf
    <3>2. CASE \A a \in body[p] : a.marker # m
      BY <2>1, <2>4, <2>5, <2>8, <3>2 DEF TrueOf
    <3> QED
      BY <3>1, <3>2
  <2>9. TrueOf(p)'
    BY <2>1, <2>4, <2>5, <2>6, <2>7, <2>8 DEF TrueOf, OnePerMarker
  <2>10. LateInv'
    BY <2>1, <2>7 DEF LateInv
  <2> QED
    BY <2>3, <2>9, <2>10 DEF CurrentInv, PlanInv
<1>11. ASSUME NEW p \in Run, MutationFails(p) PROVE CurrentInv'
  <2>1. pc[p] = "mutate" /\ Abandon(p, 0) /\ End(p, "error") /\ UNCHANGED <<ledger, rows>>
    BY <1>11 DEF MutationFails
  <2>2. late' = late \/ (wire[p] = "sent" /\ late = EmptyBag /\ late' = Just(body[p]))
    BY <2>1, AbandonIsCurrent
  <2>3. body[p] \subseteq plan[p] /\ (wire[p] = "sent" => body[p] \subseteq Ahead(p))
    BY DEF Ahead, TypeOK
  <2> QED
    BY <2>1, <2>2, <2>3, EndIsCurrent DEF Outcome
<1>12. ASSUME NEW p \in Run, ReportOk(p) PROVE CurrentInv'
  BY <1>4, <1>12 DEF ReportOk, Outcome
<1>13. ASSUME NEW p \in Run, Crash(p) PROVE CurrentInv'
  <2>1. End(p, "none") /\ UNCHANGED <<ledger, rows>> /\ "none" \in Outcome
    BY <1>13 DEF Crash, Outcome
  <2>2. CASE UNCHANGED late
    BY <2>1, <2>2, EndIsCurrent
  <2>3. CASE body[p] # {} /\ \E n \in 0 .. MaxPosts - posts[p] : Abandon(p, n)
    <3>1. posts[p] # 0 /\ plan[p] # {} /\ pc[p] = "mutate"
      BY <2>3 DEF RunInv, TypeOK
    <3>2. posts[p] = 1
      BY <3>1 DEF TypeOK, OneRoutePrompt
    <3>3. Abandon(p, 0)
      BY <2>3, <3>2 DEF OneRoutePrompt
    <3>4. late' = late \/ (wire[p] = "sent" /\ late = EmptyBag /\ late' = Just(body[p]))
      BY <3>1, <3>3, AbandonIsCurrent
    <3>5. body[p] \subseteq plan[p] /\ (wire[p] = "sent" => body[p] \subseteq Ahead(p))
      BY DEF Ahead, TypeOK
    <3> QED
      BY <2>1, <3>1, <3>4, <3>5, EndIsCurrent
  <2>4. CASE /\ body[p] = {} /\ plan[p] # {}
             /\ \E b \in NextBodies(p), n \in 1 .. MaxPosts : late' = late (+) [c \in {b} |-> n]
    <3>1. PICK b \in NextBodies(p) : late' = late (+) [c \in {b} |-> 1]
      BY <2>4 DEF OneRoutePrompt
    <3>2. pc[p] = "mutate" /\ posts[p] = 0
      BY <2>4 DEF RunInv, TypeOK
    <3>3. late = EmptyBag /\ Ahead(p) = plan[p]
      BY <3>2 DEF CurrentInv, PlanInv, TrueOf, Ahead
    <3>4. b \in SUBSET plan[p]
      BY <2>4, BodyTypes DEF RunInv
    <3>5. late' = Just(b)
      BY <3>1, <3>3, FirstLate
    <3> QED
      BY <2>1, <3>2, <3>3, <3>4, <3>5, EndIsCurrent
  <2> QED
    BY <1>13, <2>2, <2>3, <2>4 DEF Crash
<1>14. ASSUME NEW p \in Run, BankAnswers(p) PROVE CurrentInv'
  <2>1. PICK done \in SUBSET body[p] :
            /\ rows' = After(done)
            /\ wire' = [wire EXCEPT ![p] = IF done = body[p] THEN "ok" ELSE "errors"]
    BY <1>14 DEF BankAnswers
  <2>2. wire[p] = "sent" /\ UNCHANGED <<late, pc, targets, plan, body, posts>>
    BY <1>14 DEF BankAnswers
  <2>3. pc[p] = "mutate" /\ posts[p] # 0 /\ body[p] \subseteq plan[p] /\ plan[p] \in SUBSET Action
    BY <2>2 DEF RunInv, TypeOK
  <2>4. ASSUME NEW q \in Run, pc'[q] = "mutate" PROVE q = p
    BY <2>2, <2>3, <2>4, OneMutates
  <2>5. TrueOf(p)
    BY <2>3 DEF CurrentInv, PlanInv
  <2>6. Ahead(p) = plan[p] /\ Ahead(p)' = plan[p] \ body[p] /\ late = EmptyBag
    BY <2>1, <2>2, <2>3, <2>5 DEF Ahead, TrueOf, TypeOK
  <2>7. OnePerMarker(done) /\ done \in SUBSET Action /\ \A a \in done : Planned(a)
    BY <2>3, <2>5, <2>6 DEF TrueOf, OnePerMarker
  <2>8. /\ \A a \in done : rows'[a.marker] = <<[value |-> a.value, legacy |-> FALSE]>>
        /\ \A m \in Marker : (\A a \in done : a.marker # m) => rows'[m] = rows[m]
    BY <1>0, <2>1, <2>7, AfterPlanned
  <2>9. \A a \in Ahead(p)' : Planned(a)'
    <3>1. ASSUME NEW a \in Ahead(p)' PROVE rows'[a.marker] = rows[a.marker] /\ Planned(a)
      <4>1. a.marker \in Marker /\ \A d \in done : d.marker # a.marker
        BY <2>3, <2>5, <2>6, <3>1 DEF TrueOf, OnePerMarker, Action
      <4> QED
        BY <2>5, <2>6, <2>8, <4>1 DEF TrueOf
    <3> QED
      BY <3>1 DEF Planned
  <2>10. \A m \in Marker : (\A a \in plan[p] : a.marker # m) => rows'[m] = Wanted(p, m)
    BY <2>3, <2>5, <2>8 DEF TrueOf
  <2>11. ASSUME wire'[p] = "ok", NEW a \in body[p] PROVE rows'[a.marker] = Wanted(p, a.marker)
    <3>1. done = body[p]
      BY <2>1, <2>11 DEF TypeOK
    <3>2. a.value = targets[p][a.marker]
      BY <2>3 DEF RunInv
    <3> QED
      BY <2>8, <3>1, <3>2 DEF Wanted
  <2>12. \A m : Wanted(p, m)' = Wanted(p, m)
    BY <2>2 DEF Wanted
  <2>13. TrueOf(p)'
    BY <2>2, <2>5, <2>6, <2>9, <2>10, <2>11, <2>12 DEF TrueOf
  <2>14. LateInv'
    BY <2>2, <2>6 DEF LateInv
  <2> QED
    BY <2>4, <2>13, <2>14 DEF CurrentInv, PlanInv
<1> QED
  BY <1>1, <1>2, <1>3, <1>5, <1>6, <1>7, <1>8, <1>9, <1>10, <1>11, <1>12, <1>13, <1>14 DEF Next

LEMMA CurrentAlways == OneRoutePrompt => (Spec => [](TypeOK /\ RunInv /\ CurrentInv))
<1>1. SUFFICES ASSUME OneRoutePrompt PROVE Spec => [](TypeOK /\ RunInv /\ CurrentInv)
  OBVIOUS
<1>2. TypeOK /\ RunInv /\ CurrentInv /\ [Next]_vars => (TypeOK /\ RunInv /\ CurrentInv)'
  BY <1>1, TypeStep, CurrentStep
<1> QED
  BY <1>2, TypeInit, CurrentInit, PTL DEF Spec

\* Over one route, with abandoned posts arriving before the next query, no run
\* ever adds a row for a marker that has one.
THEOREM NoDuplicates == OneRoutePrompt => (Spec => NoNewDuplicate)
<1> DEFINE Grown == \A m \in Marker : Len(rows'[m]) > Len(rows[m]) => rows[m] = <<>>
<1>1. ASSUME OneRoutePrompt PROVE TypeOK /\ RunInv /\ CurrentInv /\ [Next]_vars => [Grown]_vars
  <2> SUFFICES ASSUME TypeOK, RunInv, CurrentInv, [Next]_vars, rows' # rows PROVE Grown
    <3>1. CASE rows' = rows
      <4>1. \A m \in Marker : ~ Len(rows'[m]) > Len(rows[m])
        <5>1. ASSUME NEW m \in Marker PROVE Len(rows[m]) \in Nat
          BY <5>1, RowsAre DEF TypeOK, Rows
        <5> QED
          BY <3>1, <5>1
      <4> QED
        BY <4>1
    <3> QED
      BY <3>1
  <2>0. rows \in Rows
    BY DEF TypeOK, Rows
  <2>1. PICK done \in SUBSET Action :
            rows' = After(done) /\ OnePerMarker(done) /\ \A a \in done : Planned(a)
    <3>1. CASE LateArrives
      <4>1. PICK b \in BagToSet(late) : \E d \in SUBSET b : rows' = After(d)
        BY <3>1 DEF LateArrives
      <4>2. PICK d \in SUBSET b : rows' = After(d)
        BY <4>1
      <4>3. late # EmptyBag
        BY <4>1 DEF BagToSet, EmptyBag, SetToBag
      <4>4. PICK c \in SUBSET Action : late = Just(c) /\ OnePerMarker(c) /\ \A a \in c : Planned(a)
        BY <4>3 DEF CurrentInv, LateInv
      <4>5. b = c
        BY <4>4, LastArrives
      <4> QED
        BY <4>2, <4>4, <4>5 DEF OnePerMarker
    <3>2. ASSUME NEW p \in Run, BankAnswers(p)
          PROVE  \E d \in SUBSET Action : rows' = After(d) /\ OnePerMarker(d) /\ \A a \in d : Planned(a)
      <4>1. PICK d \in SUBSET body[p] : rows' = After(d)
        BY <3>2 DEF BankAnswers
      <4>2. wire[p] = "sent" /\ body[p] \subseteq plan[p] /\ plan[p] \in SUBSET Action
        BY <3>2 DEF BankAnswers, TypeOK
      <4>3. pc[p] = "mutate"
        BY <4>2 DEF RunInv, TypeOK
      <4>4. TrueOf(p) /\ Ahead(p) = plan[p]
        BY <4>2, <4>3 DEF CurrentInv, PlanInv, Ahead
      <4> QED
        BY <4>1, <4>2, <4>4 DEF TrueOf, OnePerMarker
    <3>3. LateArrives \/ \E p \in Run : BankAnswers(p)
      BY DEF Next, vars, world, SyncBegins, SyncEnds, Start, TakePipelineLock, TakeApplyLock, ReadTargets,
             Query, Post, GiveUp, Done, MutationFails, ReportOk, Crash
    <3> QED
      BY <3>1, <3>2, <3>3
  <2>2. /\ \A a \in done : rows'[a.marker] = <<[value |-> a.value, legacy |-> FALSE]>>
        /\ \A m \in Marker : (\A a \in done : a.marker # m) => rows'[m] = rows[m]
    BY <2>0, <2>1, AfterPlanned
  <2> SUFFICES ASSUME NEW m \in Marker, Len(rows'[m]) > Len(rows[m]) PROVE rows[m] = <<>>
    OBVIOUS
  <2>3. Len(rows[m]) \in Nat
    BY <2>0, RowsAre
  <2>4. PICK a \in done : a.marker = m
    BY <2>2, <2>3
  <2>5. Len(rows'[m]) = 1
    <3>1. \A x : Len(<<x>>) = 1
      OBVIOUS
    <3> QED
      BY <2>2, <2>4, <3>1
  <2>6. CASE a.kind = "create"
    BY <2>1, <2>4, <2>6 DEF Planned
  <2>7. CASE a.kind = "update"
    <3>1. PICK x \in Row : rows[m] = <<x>>
      BY <2>1, <2>4, <2>7 DEF Planned
    <3>2. Len(rows[m]) = 1
      BY <3>1
    <3> QED
      BY <2>5, <3>2
  <2> QED
    BY <2>6, <2>7 DEF Action
<1>2. ASSUME OneRoutePrompt PROVE Spec => NoNewDuplicate
  <2>1. TypeOK /\ RunInv /\ CurrentInv /\ [Next]_vars => [Grown]_vars
    BY <1>1, <1>2
  <2>2. Spec => [](TypeOK /\ RunInv /\ CurrentInv)
    BY <1>2, CurrentAlways
  <2> QED
    BY <2>1, <2>2, PTL DEF Spec, NoNewDuplicate
<1> QED
  BY <1>2

\* And what a run reports ok is so: every accrual of the ledger has the one row
\* that it asks for, at the moment of the report.
THEOREM OkMeansCurrent == OneRoutePrompt => (Spec => OkIsCurrent)
<1> DEFINE Current == \A p \in Run :
        outcome'[p] = "ok" /\ outcome[p] # "ok" =>
            \A m \in Marker : rows[m] = <<[value |-> ledger[m], legacy |-> FALSE]>>
<1>1. TypeOK /\ RunInv /\ CurrentInv /\ [Next]_vars => [Current]_vars
  <2> SUFFICES ASSUME TypeOK, RunInv, CurrentInv, [Next]_vars,
                      NEW q \in Run, outcome'[q] = "ok", outcome[q] # "ok", NEW m \in Marker
               PROVE  rows[m] = <<[value |-> ledger[m], legacy |-> FALSE]>>
    OBVIOUS
  <2>1. ReportOk(q)
    <3>1. ASSUME NEW p \in Run, NEW o \in Outcome, o # "ok", End(p, o) PROVE FALSE
      BY <3>1 DEF End, TypeOK
    <3>2. ASSUME NEW p \in Run, ReportOk(p) PROVE p = q
      BY <3>2 DEF ReportOk, End, TypeOK
    <3>3. PICK p \in Run :
              \/ Start(p) \/ TakePipelineLock(p) \/ TakeApplyLock(p) \/ ReadTargets(p) \/ Query(p)
              \/ Post(p) \/ GiveUp(p) \/ Done(p) \/ MutationFails(p) \/ ReportOk(p) \/ Crash(p)
              \/ BankAnswers(p)
      BY DEF Next, vars, SyncBegins, SyncEnds, LateArrives
    <3>4. ~ Start(p)
      BY DEF Start, TypeOK
    <3>5. /\ ~ TakeApplyLock(p) /\ ~ Post(p) /\ ~ GiveUp(p) /\ ~ Done(p) /\ ~ BankAnswers(p)
      BY DEF TakeApplyLock, Post, GiveUp, Done, BankAnswers
    <3>6. ~ TakePipelineLock(p) /\ ~ ReadTargets(p) /\ ~ Query(p) /\ ~ MutationFails(p) /\ ~ Crash(p)
      BY <3>1 DEF TakePipelineLock, ReadTargets, Query, MutationFails, Crash, Outcome
    <3> QED
      BY <3>2, <3>3, <3>4, <3>5, <3>6
  <2>2. pc[q] = "mutate" /\ plan[q] = {}
    BY <2>1 DEF ReportOk
  <2>3. rows[m] = Wanted(q, m)
    BY <2>2 DEF CurrentInv, PlanInv, TrueOf
  <2>4. targets[q] = ledger
    BY <2>2 DEF RunInv
  <2> QED
    BY <2>3, <2>4 DEF Wanted
<1>2. ASSUME OneRoutePrompt PROVE Spec => OkIsCurrent
  <2>1. Spec => [](TypeOK /\ RunInv /\ CurrentInv)
    BY <1>2, CurrentAlways
  <2> QED
    BY <1>1, <2>1, PTL DEF Spec, OkIsCurrent
<1> QED
  BY <1>2

=============================================================================
