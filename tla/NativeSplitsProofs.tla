------------------------- MODULE NativeSplitsProofs -------------------------
(* Theorems about NativeSplits, for all values of its constants.           *)
EXTENDS NativeSplits, FiniteSetTheorems, SequenceTheorems, TLAPS

\* The sequences of at most N elements, as TLC can enumerate them.
LEMMA BoundedSeq ==
    ASSUME NEW S, NEW N \in Nat
    PROVE  UNION {[1 .. n -> S] : n \in 0 .. N} = {s \in Seq(S) : Len(s) <= N}
<1>1. ASSUME NEW n \in 0 .. N, NEW s \in [1 .. n -> S] PROVE s \in Seq(S) /\ Len(s) = n
  BY <1>1
<1>2. ASSUME NEW s \in Seq(S), Len(s) <= N PROVE s \in [1 .. Len(s) -> S] /\ Len(s) \in 0 .. N
  BY <1>2
<1> QED
  BY <1>1, <1>2

(***************************************************************************)
(* What a split changes, and the plans.                                    *)
(***************************************************************************)

Splits == [Txn -> UNION {[1 .. n -> Digest] : n \in 0 .. SplitLimit}]
Ledgers == [Txn -> SUBSET ({"parent", "native"} \cup Digest)]
Indexes == [Txn -> {"absent", "posted", "pending"}]
Posts   == [txn : Txn, split : Digest, again : BOOLEAN]

LEMMA SplitAppends ==
    ASSUME splits \in Splits, NEW t \in Txn, NEW d \in Digest, SplitMade(t, d)
    PROVE  /\ splits' \in Splits
           /\ \A u \in Txn \ {t} : splits'[u] = splits[u]
           /\ splits'[t] # <<>>
           /\ \A i \in DOMAIN splits'[t] : splits'[t][i] = d \/ (i \in DOMAIN splits[t] /\ splits'[t][i] = splits[t][i])
           /\ splits[t] = <<>> => Len(splits'[t]) <= 1
<1>1. SplitLimit \in Nat
  BY SplitAssumption
<1> DEFINE M == {s \in Seq(Digest) : Len(s) <= SplitLimit}
           a == Append(splits[t], d)
<1>2. Splits = [Txn -> M]
  BY <1>1, BoundedSeq DEF Splits
<1>3. splits[t] \in Seq(Digest) /\ Len(splits[t]) \in Nat /\ Len(splits[t]) < SplitLimit
  BY <1>2 DEF SplitMade
<1>4. /\ a \in Seq(Digest) /\ a # <<>> /\ Len(a) = Len(splits[t]) + 1
      /\ \A i \in 1 .. Len(splits[t]) : a[i] = splits[t][i]
      /\ a[Len(splits[t]) + 1] = d
  BY <1>3, AppendProperties
<1>5. a \in M /\ DOMAIN a = 1 .. Len(splits[t]) + 1 /\ DOMAIN splits[t] = 1 .. Len(splits[t])
  BY <1>1, <1>3, <1>4
<1>6. \A i \in DOMAIN a : a[i] = d \/ (i \in DOMAIN splits[t] /\ a[i] = splits[t][i])
  BY <1>3, <1>4, <1>5
<1>7. splits' = [splits EXCEPT ![t] = a]
  BY DEF SplitMade
<1>8. splits[t] = <<>> => Len(a) <= 1
  BY <1>4
<1> HIDE DEF a, M
<1>9. splits' \in [Txn -> M] /\ splits'[t] = a /\ \A u \in Txn \ {t} : splits'[u] = splits[u]
  BY <1>2, <1>5, <1>7
<1> QED
  BY <1>2, <1>4, <1>6, <1>8, <1>9

LEMMA PlanTypes ==
    ASSUME TypeOK, NEW S \in SUBSET Txn
    PROVE  PlanOf(S) \in Plans /\ Reconciled(PlanOf(S)) \in Plans
<1>1. PlanOf(S) \in Plans
  BY DEF PlanOf, Plans, Record, TypeOK
<1>2. ASSUME NEW p \in Plans PROVE Reconciled(p) \in Plans
  <2>1. ASSUME NEW t \in Txn, p[t] # None PROVE [p[t] EXCEPT !.handled = TRUE] \in Record
    BY <2>1 DEF Plans, Record
  <2> QED
    BY <2>1 DEF Reconciled, Plans
<1> QED
  BY <1>1, <1>2

LEMMA RememberedTypes ==
    ASSUME TypeOK
    PROVE  Remembered \in Marks
  BY DEF TypeOK, Report, Remembered, Marks, NoMarks

\* What a run that applies nothing reports.
LEMMA ReportAloneTypes ==
    ASSUME TypeOK
    PROVE  ReportAlone \in Report /\ ReportAlone.executed = NoMarks
<1>1. NoMarks \in Marks /\ Settled(plan, Remembered) \in Marks
  BY RememberedTypes DEF NoMarks, Settled, Marks
<1>2. PICK a \in Marks : ReportAlone = [actions |-> a, executed |-> NoMarks]
  BY <1>1 DEF ReportAlone, NoReport
<1> QED
  BY <1>1, <1>2 DEF Report

\* What a run that applies its plan reports.
LEMMA ReportDoneTypes ==
    ASSUME done \in Actions
    PROVE  ReportDone \in Report /\ ReportDone.executed \in {done.executed, NoMarks}
<1>1. PICK e \in Marks, f \in Marks : done = [executed |-> e, settled |-> f]
  BY DEF Actions
<1>2. [t \in Txn |-> IF e[t] = None THEN f[t] ELSE e[t]] \in Marks
  BY DEF Marks
<1>3. PICK a \in Marks, x \in Marks :
          ReportDone = [actions |-> a, executed |-> x] /\ x \in {e, NoMarks}
  <2>1. NoMarks \in Marks
    BY DEF NoMarks, Marks
  <2> QED
    BY <1>1, <1>2, <2>1 DEF ReportDone
<1> QED
  BY <1>1, <1>3 DEF Report

(***************************************************************************)
(* Type correctness, and the shape of a run.                               *)
(***************************************************************************)

\* TypeOK with its sets by name, but for what a dry run is about to write.
TypeNamed ==
    /\ splits \in Splits /\ pending \in SUBSET Txn /\ rules \in Digest
    /\ ledger \in Ledgers /\ index \in Indexes /\ audit \in SUBSET Txn
    /\ plan \in Plans \cup {Torn} /\ state \in Marks \cup {Torn} /\ report \in Report \cup {Torn}
    /\ lock \in {Free, "sync", "statements"} /\ fresh \in BOOLEAN
    /\ step \in {"idle", "export", "index", "plan", "apply", "work", "reconcile", "overlay"}
    /\ mem \in Marks /\ todo \in Marks /\ job \in Txn \cup {None}
    /\ wire \in {"none", "preflight", "sent", "resent", "ok", "errors", "bare"}
    /\ job # None => todo[job] # None
    /\ done \in Actions /\ verdict \in {"ok", "review", "failed"}
    /\ late \in SUBSET Posts /\ again \in SUBSET Txn
    /\ outcome \in {"none", "ok"}

\* Who holds the lock works, the executor works for who holds it, and only a
\* sync exports and overlays.
ShapeInv ==
    /\ lock = Free <=> step = "idle"
    /\ job # None <=> wire # "none"
    /\ job # None => step = "work"
    /\ lock = "statements" => step \in {"apply", "work"}
    /\ lock = "sync" => outcome = "none"

LEMMA EndTypes ==
    ASSUME TypeNamed, NEW o \in {"none", "ok"}, End(o)
    PROVE  /\ lock' = Free /\ step' = "idle" /\ fresh' \in BOOLEAN /\ audit' \in SUBSET Txn
           /\ mem' \in Marks /\ todo' \in Marks /\ job' = None /\ wire' = "none"
           /\ done' \in Actions /\ verdict' \in {"ok", "review", "failed"}
           /\ outcome' \in {"none", "ok"}
           /\ ShapeInv'
<1>1. NoMarks \in Marks /\ NoActions \in Actions
  BY DEF Marks, NoMarks, NoActions, Actions
<1>2. lock' = Free /\ step' = "idle" /\ job' = None /\ wire' = "none"
  BY DEF End
<1>3. ShapeInv'
  BY <1>2 DEF ShapeInv, Free
<1> QED
  BY <1>1, <1>3 DEF End, TypeNamed

LEMMA AfterApplyTypes ==
    ASSUME TypeNamed, ShapeInv, job = None, lock # Free, AfterApply
    PROVE  /\ lock' \in {Free, "sync", "statements"} /\ fresh' \in BOOLEAN /\ audit' \in SUBSET Txn
           /\ step' \in {"idle", "reconcile"}
           /\ mem' \in Marks /\ todo' \in Marks /\ job' = None /\ wire' = "none"
           /\ done' \in Actions /\ verdict' \in {"ok", "review", "failed"}
           /\ outcome' \in {"none", "ok"}
           /\ ShapeInv'
<1>1. CASE lock = "sync"
  BY <1>1 DEF AfterApply, Goto, TypeNamed, ShapeInv, Marks, NoMarks, NoActions, Actions, Free
<1>2. CASE lock # "sync"
  <2>1. End("none")
    BY <1>2 DEF AfterApply
  <2> QED
    BY <2>1, EndTypes
<1> QED
  BY <1>1, <1>2

LEMMA TypeInit == Init => TypeOK /\ ShapeInv
<1> SUFFICES ASSUME Init PROVE TypeOK /\ ShapeInv
  OBVIOUS
<1>1. splits \in Splits
  <2>1. <<>> \in {s \in Seq(Digest) : Len(s) <= SplitLimit}
    BY SplitAssumption
  <2> QED
    BY <2>1, BoundedSeq, SplitAssumption DEF Init, Splits
<1>2. plan \in Plans /\ state \in Marks /\ mem \in Marks /\ todo \in Marks
  BY DEF Init, NoRecord, NoMarks, Plans, Marks
<1>3. done \in Actions /\ report \in Report
  BY DEF Init, NoReport, NoActions, NoMarks, Marks, Actions, Report
<1> QED
  BY <1>1, <1>2, <1>3 DEF Init, TypeOK, ShapeInv, Splits, Free

LEMMA PostTypes ==
    ASSUME TypeOK, ShapeInv, wire # "none"
    PROVE  job \in Txn /\ todo[job] \in Digest /\ Post \in Posts
<1>1. job \in Txn /\ todo[job] \in Digest
  BY DEF TypeOK, ShapeInv, Marks
<1> QED
  BY <1>1 DEF Posts, Post

LEMMA TypeStep == TypeOK /\ ShapeInv /\ [Next]_vars => TypeOK' /\ ShapeInv'
<1> SUFFICES ASSUME TypeOK, ShapeInv, [Next]_vars
             PROVE  TypeOK' /\ ShapeInv'
  OBVIOUS
<1>24. dry' \in Report \cup {None}
  <2>1. dry \in Report \cup {None}
    BY DEF TypeOK
  <2>2. DryRunReads => dry' \in Report
    BY ReportAloneTypes DEF DryRunReads
  <2> QED
    BY <2>1, <2>2 DEF Next, HolderStep, DryRunReports, vars
<1> SUFFICES TypeNamed' /\ ShapeInv'
  BY <1>24 DEF TypeOK, TypeNamed, Splits, Ledgers, Indexes, Posts
<1> USE SplitAssumption
<1>0. TypeNamed
  BY DEF TypeOK, TypeNamed, Splits, Ledgers, Indexes, Posts
<1>1. CASE Export
  <2>1. /\ step = "export" /\ step' \in {"index", "plan"} /\ fresh' \in BOOLEAN
        /\ UNCHANGED <<baselane, rules, index, plan, state, report, lock, audit, script, outcome>>
    BY <1>1 DEF Export
  <2>2. ledger' \in Ledgers
    BY <1>1 DEF Export, TypeOK, Ledgers
  <2> QED
    BY <1>0, <2>1, <2>2 DEF TypeNamed, ShapeInv, baselane, script, Free
<1>2. CASE RefreshIndex
  BY <1>0, <1>2 DEF RefreshIndex, Goto, TypeNamed, Indexes, ShapeInv, baselane, script, Free
<1>3. CASE SyncPlans
  <2>1. plan' \in Plans
    BY <1>3, PlanTypes DEF SyncPlans, TypeOK
  <2> QED
    BY <1>0, <1>3, <2>1 DEF SyncPlans, TypeNamed, ShapeInv, baselane, script, Free
<1>4. CASE SyncFails
  <2>1. End("none")
    BY <1>4 DEF SyncFails
  <2> QED
    BY <1>0, <1>4, <2>1, EndTypes DEF SyncFails, TypeNamed, baselane, files
<1>5. CASE ReportOnly
  <2>1. job = None /\ lock # Free
    BY <1>5 DEF ReportOnly, ShapeInv
  <2>2. report' \in Report
    BY <1>5, ReportAloneTypes DEF ReportOnly
  <2>3. AfterApply /\ UNCHANGED <<baselane, rules, ledger, index, plan, state>>
    BY <1>5 DEF ReportOnly
  <2> QED
    BY <1>0, <2>1, <2>2, <2>3, AfterApplyTypes DEF TypeNamed, baselane
<1>6. CASE ApplyReads
  <2>1. Remembered \in Marks
    BY RememberedTypes
  <2>2. todo' \in Marks
    BY <1>6 DEF ApplyReads, TypeOK, Plans, Record, Marks
  <2>3. [NoActions EXCEPT !.settled = Settled(plan, Remembered)] \in Actions
    <3>1. Settled(plan, Remembered) \in Marks
      BY <2>1 DEF Settled, Marks
    <3> QED
      BY <3>1 DEF NoActions, NoMarks, Marks, Actions
  <2>4. step = "apply" /\ job = None
    BY <1>6 DEF ApplyReads, ShapeInv
  <2>5. /\ mem' = Remembered /\ done' \in Actions /\ verdict' \in {"ok", "review"} /\ step' = "work"
        /\ UNCHANGED <<baselane, rules, files, job, wire, outcome, lock, fresh, audit>>
    BY <1>6, <2>3 DEF ApplyReads, Goto
  <2> QED
    BY <1>0, <2>1, <2>2, <2>4, <2>5 DEF TypeNamed, ShapeInv, baselane, files, Free
<1>7. ASSUME NEW t \in Txn, Launch(t) PROVE TypeNamed' /\ ShapeInv'
  <2>1. TypeNamed'
    BY <1>0, <1>7 DEF Launch, Ready, TypeNamed, baselane, files, holder
  <2> QED
    BY <1>7, <2>1 DEF Launch, Ready, ShapeInv, holder, Free
<1>8. ASSUME NEW t \in Txn, PreflightPasses(t) PROVE TypeNamed' /\ ShapeInv'
  <2>1. TypeNamed'
    BY <1>0, <1>8 DEF PreflightPasses, TypeNamed, baselane, files, holder
  <2> QED
    BY <1>8, <2>1 DEF PreflightPasses, ShapeInv, holder
<1>9. ASSUME NEW t \in Txn, Defers(t) PROVE TypeNamed' /\ ShapeInv'
  <2>1. todo' \in Marks /\ done' \in Actions
    BY <1>9 DEF Defers, Skipped, TypeOK, Marks, Actions
  <2>2. TypeNamed'
    BY <1>0, <1>9, <2>1 DEF Defers, TypeNamed, baselane, files, holder
  <2> QED
    BY <1>9, <2>2 DEF Defers, ShapeInv, holder
<1>10. CASE ActionBreaks
  <2>1. late' \in SUBSET Posts
    BY <1>10, PostTypes DEF ActionBreaks, Abandon, TypeOK, Posts
  <2>2. job \in Txn
    BY <1>10 DEF ActionBreaks, TypeOK
  <2>3. TypeNamed'
    BY <1>0, <1>10, <2>1, <2>2 DEF ActionBreaks, TypeNamed, files, holder
  <2> QED
    BY <1>10, <2>3 DEF ActionBreaks, ShapeInv, holder
<1>11. CASE RecordApplied
  <2>1. job \in Txn /\ todo[job] \in Digest
    BY <1>11, PostTypes DEF RecordApplied, Accepted
  <2>2. mem' \in Marks /\ todo' \in Marks /\ done' \in Actions
    BY <1>11, <2>1 DEF RecordApplied, TypeOK, Marks, Actions
  <2>3. TypeNamed'
    BY <1>0, <1>11, <2>2 DEF RecordApplied, TypeNamed, baselane, holder
  <2> QED
    BY <1>11, <2>3 DEF RecordApplied, ShapeInv, holder
<1>12. CASE ApplyEnds
  <2>1. job = None /\ lock # Free
    BY <1>12 DEF ApplyEnds, ShapeInv
  <2>2. state' \in Marks \cup {Torn}
    BY <1>0, <1>12 DEF ApplyEnds, TypeNamed
  <2>3. report' \in Report /\ UNCHANGED <<baselane, rules, ledger, index, plan>>
    BY <1>0, <1>12, ReportDoneTypes DEF ApplyEnds, TypeNamed
  <2>4. CASE verdict = "failed"
    <3>1. End("none")
      BY <1>12, <2>4 DEF ApplyEnds
    <3> QED
      BY <1>0, <2>2, <2>3, <3>1, EndTypes DEF TypeNamed, baselane
  <2>5. CASE verdict # "failed"
    <3>1. AfterApply
      BY <1>12, <2>5 DEF ApplyEnds
    <3> QED
      BY <1>0, <2>1, <2>2, <2>3, <3>1, AfterApplyTypes DEF TypeNamed, baselane
  <2> QED
    BY <2>4, <2>5
<1>13. CASE Reconcile
  <2>1. plan' \in Plans
    BY <1>13, PlanTypes DEF Reconcile, TypeOK
  <2> QED
    BY <1>0, <1>13, <2>1 DEF Reconcile, Goto, TypeNamed, ShapeInv, baselane, script, Free
<1>14. CASE Overlay
  <2>1. /\ \E o \in {"none", "ok"} : End(o)
        /\ UNCHANGED <<baselane, rules, index, plan, state, report>>
    BY <1>14 DEF Overlay
  <2>2. ledger' \in Ledgers
    <3>1. plan \in Plans /\ ledger' \in {[t \in Txn |-> Overlaid(t)], ledger}
      BY <1>14 DEF Overlay, TypeOK
    <3>2. \A t \in Txn : plan[t] # None => plan[t].split \in Digest
      BY <3>1 DEF Plans, Record
    <3>3. \A t \in Txn : Overlaid(t) \in SUBSET ({"parent", "native"} \cup Digest)
      BY <3>2 DEF Overlaid, WithoutParent, TypeOK
    <3>4. [t \in Txn |-> Overlaid(t)] \in Ledgers
      BY <3>3 DEF Ledgers
    <3>5. ledger \in Ledgers
      BY <1>0 DEF TypeNamed
    <3> QED
      BY <3>1, <3>4, <3>5, Zenon
  <2> QED
    BY <1>0, <2>1, <2>2, EndTypes DEF TypeNamed, baselane
<1>15. CASE Crash
  <2>1. End("none") /\ UNCHANGED <<splits, pending, again, rules, ledger, index>>
    BY <1>15 DEF Crash
  <2>2. late' \in SUBSET Posts
    BY <1>15, PostTypes DEF Crash, Abandon, TypeOK, Posts
  <2>3. state' \in Marks \cup {Torn} /\ plan' \in Plans \cup {Torn}
        /\ report' \in Report \cup {Torn}
    BY <1>0, <1>15 DEF Crash, TypeNamed
  <2> QED
    BY <1>0, <2>1, <2>2, <2>3, EndTypes DEF TypeNamed
<1>16. CASE SyncBegins \/ StatementsApply
  <2>1. /\ lock' \in {"sync", "statements"} /\ step' \in {"export", "apply"}
        /\ (lock' = "statements" => step' = "apply")
        /\ outcome' \in {"none", outcome} /\ (lock' = "sync" => outcome' = "none")
        /\ lock = Free /\ UNCHANGED <<fresh, audit, baselane, rules, files, script>>
    BY <1>16 DEF SyncBegins, StatementsApply, Free
  <2>2. TypeNamed'
    BY <1>0, <2>1 DEF TypeNamed, baselane, files, script
  <2> QED
    BY <2>1, <2>2 DEF ShapeInv, script, Free
<1>17. CASE StatementsPlan
  <2>1. plan' \in Plans
    BY <1>17, PlanTypes DEF StatementsPlan
  <2>2. UNCHANGED <<baselane, rules, ledger, index, state, report, holder, script, outcome>>
    BY <1>17 DEF StatementsPlan
  <2>3. TypeNamed'
    BY <1>0, <2>1, <2>2 DEF TypeNamed, baselane, holder, script
  <2> QED
    BY <2>2, <2>3 DEF ShapeInv, holder, script
<1>18. CASE RulesEdited
  <2>1. rules' \in Digest /\ UNCHANGED <<baselane, files, holder, script, outcome>>
    BY <1>18 DEF RulesEdited
  <2>2. TypeNamed'
    BY <1>0, <2>1 DEF TypeNamed, baselane, files, holder, script
  <2> QED
    BY <2>1, <2>2 DEF ShapeInv, holder, script
<1>19. ASSUME NEW t \in Txn, TransactionPosts(t) PROVE TypeNamed' /\ ShapeInv'
  <2>1. /\ pending' = pending \ {t}
        /\ UNCHANGED <<splits, late, again, rules, files, holder, script, outcome>>
    BY <1>19 DEF TransactionPosts
  <2>2. TypeNamed'
    BY <1>0, <2>1 DEF TypeNamed, files, holder, script
  <2> QED
    BY <2>1, <2>2 DEF ShapeInv, holder, script
<1>20. CASE BankAnswers
  <2>1. job \in Txn /\ todo[job] \in Digest
    BY <1>20, PostTypes DEF BankAnswers
  <2>2. splits' \in Splits
    BY <1>20, <2>1, SplitAppends DEF BankAnswers, TypeOK, Splits
  <2>3. /\ wire # "none" /\ wire' \in {"ok", "errors", "bare"}
        /\ UNCHANGED <<pending, late, again, rules, files, holder, mem, todo, job, done, verdict, outcome>>
    BY <1>20 DEF BankAnswers
  <2>4. TypeNamed'
    BY <1>0, <2>2, <2>3 DEF TypeNamed, files, holder
  <2> QED
    BY <2>3, <2>4 DEF ShapeInv, holder
<1>21. CASE LateArrives
  <2>1. splits' \in Splits
    BY <1>21, SplitAppends DEF LateArrives, TypeOK, Splits
  <2>2. late' \in SUBSET late /\ UNCHANGED <<pending, again, rules, files, holder, script, outcome>>
    BY <1>21 DEF LateArrives
  <2>3. TypeNamed'
    BY <1>0, <2>1, <2>2 DEF TypeNamed, files, holder, script
  <2> QED
    BY <2>2, <2>3 DEF ShapeInv, holder, script
<1>22. CASE UNCHANGED vars
  <2>1. TypeNamed'
    BY <1>0, <1>22 DEF vars, TypeNamed, baselane, files, holder, script
  <2> QED
    BY <1>22, <2>1 DEF vars, ShapeInv, holder, script
<1>23. CASE DryRunReads \/ DryRunReports
  <2>1. dry \in Report \cup {None}
    BY DEF TypeOK
  <2>2. report' \in Report \cup {Torn}
    BY <1>0, <1>23, <2>1 DEF DryRunReads, DryRunReports, TypeNamed, files
  <2>3. UNCHANGED <<baselane, rules, ledger, index, plan, state, holder, script, outcome>>
    BY <1>23 DEF DryRunReads, DryRunReports, files
  <2>4. TypeNamed'
    BY <1>0, <2>2, <2>3 DEF TypeNamed, baselane, holder, script
  <2> QED
    BY <2>3, <2>4 DEF ShapeInv, holder, script
<1> QED
  BY <1>1, <1>2, <1>3, <1>4, <1>5, <1>6, <1>7, <1>8, <1>9, <1>10, <1>11, <1>12, <1>13, <1>14,
     <1>15, <1>16, <1>17, <1>18, <1>19, <1>20, <1>21, <1>22, <1>23 DEF Next, HolderStep

\* Every variable keeps its type, whatever is planned, fails, dies or arrives late.
THEOREM TypeCorrect == Spec => []TypeOK
<1> QED
  BY TypeInit, TypeStep, PTL DEF Spec

(***************************************************************************)
(* No transaction is split twice.                                          *)
(***************************************************************************)

Posted == {"sent", "resent", "ok", "errors", "bare"}

AllAre(t, d) == \A i \in DOMAIN splits[t] : splits[t][i] = d

\* The posts under way are all for one split of one transaction; the only post
\* for a transaction is under way while that transaction is whole.
LateInv ==
    /\ \A l, k \in late : l.txn = k.txn /\ l.split = k.split
    /\ \A l \in late : /\ AllAre(l.txn, l.split)
                       /\ l.txn \notin again => late = {l} /\ splits[l.txn] = <<>>

\* So is the post the executor waits for.
WireInv ==
    /\ wire \in Posted => /\ \A l \in late : l.txn = job /\ l.split = todo[job]
                          /\ AllAre(job, todo[job])
    /\ wire = "sent" => late = {} /\ splits[job] = <<>>
    /\ wire = "resent" => job \in again
    /\ wire = "ok" => splits[job] # <<>>

PostInv == LateInv /\ WireInv /\ SplitAtMostOnce

LEMMA PostInit == Init => PostInv
  BY DEF Init, PostInv, LateInv, WireInv, SplitAtMostOnce, Posted

\* A split of t by d, where t was whole or split by d.
LEMMA SplitKeeps ==
    ASSUME TypeOK, NEW t \in Txn, NEW d \in Digest, SplitMade(t, d), AllAre(t, d)
    PROVE  /\ \A u \in Txn \ {t} : splits'[u] = splits[u]
           /\ splits'[t] # <<>> /\ \A i \in DOMAIN splits'[t] : splits'[t][i] = d
           /\ splits[t] = <<>> => Len(splits'[t]) <= 1
           /\ \A e \in Digest : splits[t] # <<>> /\ AllAre(t, e) => e = d
<1>1. splits \in Splits
  BY DEF TypeOK, Splits
<1>2. splits[t] \in Seq(Digest)
  BY <1>1, BoundedSeq, SplitAssumption DEF Splits
<1>3. splits[t] # <<>> => 1 \in DOMAIN splits[t]
  BY <1>2
<1> QED
  BY <1>1, <1>3, SplitAppends DEF AllAre

LEMMA PostStep == Prompt /\ TypeOK /\ ShapeInv /\ PostInv /\ [Next]_vars => PostInv'
<1> SUFFICES ASSUME Prompt, TypeOK, ShapeInv, PostInv, [Next]_vars PROVE PostInv'
  OBVIOUS
<1> USE DEF PostInv
\* Nothing is posted and nothing arrives.
<1>1. ASSUME UNCHANGED <<splits, late, again>> PROVE LateInv' /\ SplitAtMostOnce'
  BY <1>1 DEF LateInv, SplitAtMostOnce, AllAre
<1>2. ASSUME UNCHANGED <<splits, late, again>>, wire' \in {"none", "preflight"} PROVE PostInv'
  BY <1>1, <1>2 DEF WireInv, Posted
<1>3. ASSUME UNCHANGED <<splits, late, again, job, todo, wire>> PROVE PostInv'
  BY <1>1, <1>3 DEF WireInv, AllAre
<1>4. CASE \/ Export \/ RefreshIndex \/ SyncPlans \/ Reconcile \/ SyncBegins \/ StatementsApply
           \/ StatementsPlan \/ RulesEdited \/ UNCHANGED vars
           \/ DryRunReads \/ DryRunReports \/ \E t \in Txn : TransactionPosts(t)
  <2>1. UNCHANGED <<splits, late, again, job, todo, wire>>
    BY <1>4 DEF Export, RefreshIndex, SyncPlans, Reconcile, SyncBegins, StatementsApply,
                StatementsPlan, DryRunReads, DryRunReports, RulesEdited, TransactionPosts, vars, baselane, script
  <2> QED
    BY <2>1, <1>3
<1>5. CASE SyncFails \/ ReportOnly \/ ApplyEnds \/ Overlay \/ ApplyReads
  <2>1. UNCHANGED <<splits, late, again>>
    BY <1>5 DEF SyncFails, ReportOnly, ApplyEnds, Overlay, ApplyReads, baselane
  <2>2. wire' = "none"
    <3>1. step # "work" => wire = "none"
      BY DEF ShapeInv
    <3>2. job = None => wire = "none"
      BY DEF ShapeInv
    <3> QED
      BY <1>5, <3>1, <3>2 DEF SyncFails, ReportOnly, ApplyEnds, Overlay, ApplyReads, AfterApply, End, Goto
  <2> QED
    BY <2>1, <2>2, <1>2
<1>6. ASSUME NEW t \in Txn, Launch(t) \/ Defers(t) PROVE PostInv'
  <2>1. UNCHANGED <<splits, late, again>> /\ wire' \in {"none", "preflight"}
    BY <1>6 DEF Launch, Defers, baselane
  <2> QED
    BY <2>1, <1>2
<1>7. ASSUME NEW t \in Txn, PreflightPasses(t) PROVE PostInv'
  <2>1. UNCHANGED <<splits, late, again, job, todo>> /\ wire' = "sent" /\ late = {} /\ splits[job] = <<>>
    BY <1>7 DEF PreflightPasses, MayRead, Unsplit, baselane
  <2>2. DOMAIN splits[job] = {}
    BY <2>1
  <2>3. WireInv'
    BY <2>1, <2>2 DEF WireInv, AllAre, Posted
  <2> QED
    BY <2>1, <2>3, <1>1
<1>8. CASE RecordApplied
  <2>1. UNCHANGED <<splits, late, again>> /\ wire' = "none"
    BY <1>8 DEF RecordApplied, baselane
  <2> QED
    BY <2>1, <1>2
\* The executor's post is left to itself.
<1>9. ASSUME late' = late \cup {Post}, wire \in {"sent", "resent"}, UNCHANGED splits,
             again' \in {again, again \cup {job}}
      PROVE  LateInv' /\ SplitAtMostOnce'
  <2>1. Post.txn = job /\ Post.split = todo[job]
    BY DEF Post
  <2>2. \A l \in late' : l.txn = job /\ l.split = todo[job] /\ AllAre(l.txn, l.split)
    BY <1>9, <2>1 DEF WireInv, Posted
  <2>3. wire = "sent" => late' = {Post} /\ splits[job] = <<>>
    BY <1>9 DEF WireInv
  <2>4. wire = "resent" => job \in again'
    BY <1>9 DEF WireInv
  <2>5. LateInv'
    BY <1>9, <2>2, <2>3, <2>4 DEF LateInv, AllAre
  <2>6. SplitAtMostOnce'
    BY <1>9 DEF SplitAtMostOnce
  <2> QED
    BY <2>5, <2>6
<1>10. CASE ActionBreaks
  <2>1. UNCHANGED <<splits, todo>> /\ Abandon /\ again' \in {again, again \cup {job}}
    BY <1>10 DEF ActionBreaks
  <2>2. LateInv' /\ SplitAtMostOnce'
    <3>1. CASE wire \in {"sent", "resent"}
      BY <2>1, <3>1, <1>9 DEF Abandon
    <3>2. CASE wire \notin {"sent", "resent"}
      <4>1. UNCHANGED <<late, again>>
        BY <1>10, <2>1, <3>2 DEF Abandon, ActionBreaks
      <4> QED
        BY <2>1, <4>1, <1>1
    <3> QED
      BY <3>1, <3>2
  <2>3. WireInv'
    <3>1. CASE wire' = "none"
      BY <3>1 DEF WireInv, Posted
    <3>2. CASE wire' # "none"
      <4>1. /\ wire = "sent" /\ wire' = "resent" /\ again' = again \cup {job} /\ UNCHANGED job
            /\ late' = late \cup {Post}
        BY <1>10, <3>2 DEF ActionBreaks, Abandon
      <4>2. late = {} /\ Post.txn = job /\ Post.split = todo[job] /\ AllAre(job, todo[job])
        BY <4>1 DEF WireInv, Posted, Post
      <4> QED
        BY <2>1, <4>1, <4>2 DEF WireInv, AllAre
    <3> QED
      BY <3>1, <3>2
  <2> QED
    BY <2>2, <2>3
<1>11. CASE Crash
  <2>1. wire' = "none" /\ UNCHANGED <<splits, again>>
    BY <1>11 DEF Crash, End
  <2>2. LateInv' /\ SplitAtMostOnce'
    <3>1. CASE Abandon
      <4>1. CASE wire \in {"sent", "resent"}
        BY <2>1, <3>1, <4>1, <1>9 DEF Abandon
      <4>2. CASE wire \notin {"sent", "resent"}
        BY <2>1, <3>1, <4>2, <1>1 DEF Abandon
      <4> QED
        BY <4>1, <4>2
    <3>2. CASE MayRead /\ Unsplit(job) /\ late' = late \cup {Post}
      <4>1. late' = {Post} /\ splits[job] = <<>> /\ Post.txn = job
        BY <3>2 DEF MayRead, Unsplit, Post
      <4>2. LateInv'
        BY <2>1, <4>1 DEF LateInv, AllAre
      <4> QED
        BY <2>1, <4>2 DEF SplitAtMostOnce
    <3> QED
      BY <1>11, <3>1, <3>2 DEF Crash
  <2>3. WireInv'
    BY <2>1 DEF WireInv, Posted
  <2> QED
    BY <2>2, <2>3
<1>12. CASE BankAnswers
  <2>1. UNCHANGED <<late, again, job, todo>> /\ wire \in {"sent", "resent"}
    BY <1>12 DEF BankAnswers
  <2>2. CASE UNCHANGED splits /\ wire' \in {"errors", "bare"}
    BY <2>1, <2>2, <1>1 DEF WireInv, AllAre, Posted
  <2>3. CASE SplitMade(job, todo[job]) /\ wire' = "ok"
    <3>1. job \in Txn /\ todo[job] \in Digest /\ AllAre(job, todo[job])
      BY <2>1, PostTypes DEF WireInv, Posted
    <3>2. /\ \A u \in Txn \ {job} : splits'[u] = splits[u]
          /\ splits'[job] # <<>> /\ \A i \in DOMAIN splits'[job] : splits'[job][i] = todo[job]
          /\ splits[job] = <<>> => Len(splits'[job]) <= 1
      BY <3>1, <2>3, SplitKeeps
    <3>3. \A l \in late : l.txn = job /\ l.split = todo[job]
      BY <2>1 DEF WireInv, Posted
    <3>4. late # {} => job \in again
      BY <2>1 DEF WireInv
    <3>5. WireInv'
      BY <2>1, <2>3, <3>2, <3>3 DEF WireInv, AllAre, Posted
    <3>6. LateInv'
      BY <2>1, <3>2, <3>3, <3>4 DEF LateInv, AllAre
    <3>7. SplitAtMostOnce'
      <4>1. job \notin again => Len(splits'[job]) <= 1
        BY <2>1, <3>2 DEF WireInv
      <4>2. \A u \in Txn \ again' : u # job => Len(splits'[u]) <= 1
        BY <2>1, <3>2 DEF SplitAtMostOnce
      <4>3. job \notin again' => Len(splits'[job]) <= 1
        BY <2>1, <4>1
      <4>4. ASSUME NEW u \in (Txn \ again)' PROVE Len(splits[u])' <= 1
        <5>1. u \in Txn \ again'
          OBVIOUS
        <5>2. CASE u = job
          BY <5>1, <5>2, <4>3
        <5>3. CASE u # job
          BY <5>1, <5>3, <4>2
        <5> QED
          BY <5>2, <5>3
      <4> QED
        BY <4>4 DEF SplitAtMostOnce
    <3> QED
      BY <3>5, <3>6, <3>7
  <2> QED
    BY <1>12, <2>2, <2>3 DEF BankAnswers
<1>13. CASE LateArrives
  <2>1. PICK l \in late : late' = late \ {l} /\ (SplitMade(l.txn, l.split) \/ UNCHANGED splits)
    BY <1>13 DEF LateArrives
  <2>2. UNCHANGED <<again, job, todo, wire>> /\ wire # "sent"
    BY <1>13 DEF LateArrives, script, WireInv
  <2>3. CASE UNCHANGED splits
    BY <2>1, <2>2, <2>3 DEF LateInv, WireInv, SplitAtMostOnce, AllAre
  <2>4. CASE SplitMade(l.txn, l.split)
    <3>1. l.txn \in Txn /\ l.split \in Digest /\ AllAre(l.txn, l.split)
      BY <2>1 DEF TypeOK, LateInv
    <3>2. /\ \A u \in Txn \ {l.txn} : splits'[u] = splits[u]
          /\ splits'[l.txn] # <<>> /\ \A i \in DOMAIN splits'[l.txn] : splits'[l.txn][i] = l.split
          /\ splits[l.txn] = <<>> => Len(splits'[l.txn]) <= 1
      BY <3>1, <2>4, SplitKeeps
    <3>3. \A k \in late : k.txn = l.txn /\ k.split = l.split
      BY DEF LateInv
    <3>4. l.txn \notin again => late' = {} /\ splits[l.txn] = <<>>
      BY <2>1 DEF LateInv
    <3>5. LateInv'
      BY <2>1, <2>2, <3>2, <3>3, <3>4 DEF LateInv, AllAre
    <3>6. wire \in Posted => l.txn = job /\ l.split = todo[job]
      BY <2>1 DEF WireInv
    <3>7. WireInv'
      BY <2>1, <2>2, <3>2, <3>6 DEF WireInv, AllAre, Posted
    <3>8. SplitAtMostOnce'
      <4>1. \A u \in Txn \ again' : u # l.txn => Len(splits'[u]) <= 1
        BY <2>2, <3>2 DEF SplitAtMostOnce
      <4>2. l.txn \notin again' => Len(splits'[l.txn]) <= 1
        BY <2>2, <3>2, <3>4
      <4>3. ASSUME NEW u \in (Txn \ again)' PROVE Len(splits[u])' <= 1
        <5>1. u \in Txn \ again'
          OBVIOUS
        <5>2. CASE u = l.txn
          BY <5>1, <5>2, <4>2
        <5>3. CASE u # l.txn
          BY <5>1, <5>3, <4>1
        <5> QED
          BY <5>2, <5>3
      <4> QED
        BY <4>3 DEF SplitAtMostOnce
    <3> QED
      BY <3>5, <3>7, <3>8
  <2> QED
    BY <2>1, <2>3, <2>4
<1> QED
  BY <1>4, <1>5, <1>6, <1>7, <1>8, <1>10, <1>11, <1>12, <1>13 DEF Next, HolderStep

LEMMA PostAlways == Prompt => (Spec => [](TypeOK /\ ShapeInv /\ PostInv))
<1> SUFFICES ASSUME Prompt PROVE Spec => [](TypeOK /\ ShapeInv /\ PostInv)
  OBVIOUS
<1>1. TypeOK /\ ShapeInv /\ PostInv /\ [Next]_vars => (TypeOK /\ ShapeInv /\ PostInv)'
  BY TypeStep, PostStep
<1>2. Init => TypeOK /\ ShapeInv /\ PostInv
  BY TypeInit, PostInit
<1> QED
  BY <1>1, <1>2, PTL DEF Spec

\* If a post nobody waits for arrives before the next preflight, a transaction is
\* split at most once unless its mutation was posted a second time.
THEOREM SplitsOnce == Prompt => (Spec => []SplitAtMostOnce)
<1> SUFFICES ASSUME Prompt PROVE Spec => []SplitAtMostOnce
  OBVIOUS
<1>1. PostInv => SplitAtMostOnce
  BY DEF PostInv
<1> QED
  BY <1>1, PostAlways, PTL

(***************************************************************************)
(* What is recorded as applied was applied.                                *)
(***************************************************************************)

Made(s, t, d) == s[t] # <<>> /\ \A i \in DOMAIN s[t] : s[t][i] = d
MadeSo(t, d) == Made(splits, t, d)

RecordInv ==
    /\ state # Torn => \A t \in Txn : state[t] # None => MadeSo(t, state[t])
    /\ report # Torn => \A t \in Txn :
          report.executed[t] # None => MadeSo(t, report.executed[t])
    /\ \A t \in Txn : mem[t] # None => MadeSo(t, mem[t])
    /\ \A t \in Txn : done.executed[t] # None => MadeSo(t, done.executed[t])
    /\ dry # None => dry.executed = NoMarks
    /\ wire # "bare"

LEMMA RecordInit == Init => RecordInv
  BY DEF Init, RecordInv, NoReport, NoActions, NoMarks

\* A transaction stays split the way it is.
LEMMA MadeStays ==
    ASSUME Prompt, TypeOK, ShapeInv, PostInv, [Next]_vars, NEW t \in Txn, NEW d \in Digest, MadeSo(t, d)
    PROVE  MadeSo(t, d)'
<1>1. CASE UNCHANGED splits
  BY <1>1 DEF MadeSo, Made
<1>2. ASSUME NEW u \in Txn, NEW e \in Digest, SplitMade(u, e), AllAre(u, e) PROVE MadeSo(t, d)'
  BY <1>2, SplitKeeps DEF MadeSo, Made, AllAre
<1>3. CASE BankAnswers /\ SplitMade(job, todo[job])
  <2>1. job \in Txn /\ todo[job] \in Digest /\ AllAre(job, todo[job])
    BY <1>3, PostTypes DEF BankAnswers, PostInv, WireInv, Posted
  <2>2. PICK u \in Txn, e \in Digest : u = job /\ e = todo[job]
    BY <2>1
  <2> QED
    BY <1>3, <2>1, <2>2, <1>2
<1>4. ASSUME NEW l \in late, SplitMade(l.txn, l.split) PROVE MadeSo(t, d)'
  <2>1. l.txn \in Txn /\ l.split \in Digest /\ AllAre(l.txn, l.split)
    BY <1>4 DEF TypeOK, PostInv, LateInv
  <2> QED
    BY <1>4, <2>1, <1>2
<1>5. \/ UNCHANGED splits \/ (BankAnswers /\ SplitMade(job, todo[job]))
      \/ \E l \in late : SplitMade(l.txn, l.split)
  BY DEF Next, HolderStep, Export, RefreshIndex, SyncPlans, SyncFails, ReportOnly, ApplyReads, Launch,
         PreflightPasses, Defers, ActionBreaks, RecordApplied, ApplyEnds, Reconcile, Overlay,
         Crash, SyncBegins, StatementsApply, StatementsPlan, DryRunReads, DryRunReports, RulesEdited, TransactionPosts, BankAnswers,
         LateArrives, vars, baselane
<1> QED
  BY <1>1, <1>3, <1>4, <1>5

LEMMA RecordStep ==
    Prompt /\ ~BareReply /\ TypeOK /\ ShapeInv /\ PostInv /\ RecordInv /\ [Next]_vars => RecordInv'
<1> SUFFICES ASSUME Prompt, ~BareReply, TypeOK, ShapeInv, PostInv, RecordInv, [Next]_vars
             PROVE  RecordInv'
  OBVIOUS
<1> USE SplitAssumption
<1>0. dry' # None => dry'.executed = NoMarks
  <2>1. CASE dry' = dry \/ dry' = None
    BY <2>1 DEF RecordInv
  <2>2. CASE DryRunReads
    BY <2>2, ReportAloneTypes DEF DryRunReads
  <2> QED
    BY <2>1, <2>2 DEF Next, HolderStep, DryRunReports, vars
<1>1. ASSUME NEW t \in Txn, NEW d \in Digest, MadeSo(t, d) PROVE MadeSo(t, d)'
  BY <1>1, MadeStays
<1>2. Remembered \in Marks /\ mem \in Marks /\ done.executed \in Marks
      /\ (state # Torn => state \in Marks) /\ (report # Torn => report.executed \in Marks)
  BY RememberedTypes DEF TypeOK, Actions, Report
<1>3. \A t \in Txn : Remembered[t] # None => MadeSo(t, Remembered[t])
  BY DEF Remembered, RecordInv, NoMarks
\* A true record stays true.
<1>4. ASSUME NEW m \in Marks, \A t \in Txn : m[t] # None => MadeSo(t, m[t])
      PROVE  \A t \in Txn : m[t] # None => MadeSo(t, m[t])'
  BY <1>1, <1>4 DEF Marks
<1>5. /\ \A t \in Txn : state # Torn /\ state[t] # None => Made(splits', t, state[t])
      /\ \A t \in Txn : Remembered[t] # None => Made(splits', t, Remembered[t])
      /\ \A t \in Txn : mem[t] # None => Made(splits', t, mem[t])
      /\ \A t \in Txn : done.executed[t] # None => Made(splits', t, done.executed[t])
      /\ \A t \in Txn : report # Torn /\ report.executed[t] # None
                          => Made(splits', t, report.executed[t])
  BY <1>2, <1>3, <1>4 DEF RecordInv, MadeSo
<1>6. ASSUME state' \in {state, mem, Torn},
             mem' \in {mem, Remembered, NoMarks},
             done'.executed \in {done.executed, NoMarks},
             \/ report' \in {report, Torn}
             \/ report'.executed \in {done.executed, NoMarks},
             wire' # "bare"
      PROVE  RecordInv'
  BY <1>0, <1>5, <1>6 DEF RecordInv, MadeSo, NoMarks
<1>7. CASE RecordApplied
  <2>1. wire = "ok"
    BY <1>7 DEF RecordApplied, Accepted, RecordInv
  <2>2. job \in Txn /\ todo[job] \in Digest
    BY <2>1, PostTypes
  <2>3. MadeSo(job, todo[job])
    BY <2>1 DEF PostInv, WireInv, Posted, MadeSo, Made, AllAre
  <2>4. /\ mem' = [mem EXCEPT ![job] = todo[job]] /\ state' = mem'
        /\ done' = [done EXCEPT !.executed[job] = todo[job]]
        /\ UNCHANGED <<splits, report>> /\ wire' = "none"
    BY <1>7 DEF RecordApplied, baselane
  <2>5. \A t \in Txn : /\ t # job => mem'[t] = mem[t] /\ done'.executed[t] = done.executed[t]
                       /\ t = job => mem'[t] = todo[job] /\ done'.executed[t] = todo[job]
    BY <1>2, <2>2, <2>4 DEF Marks, TypeOK
  <2>6. \A t \in Txn : /\ mem'[t] # None => Made(splits', t, mem'[t])
                       /\ done'.executed[t] # None => Made(splits', t, done'.executed[t])
    BY <2>3, <2>4, <2>5 DEF RecordInv, MadeSo
  <2> QED
    BY <2>4, <2>6, <1>0, <1>5 DEF RecordInv, MadeSo
<1>8. CASE ApplyReads
  <2>1. mem' = Remembered /\ UNCHANGED <<state, report, wire>> /\ done'.executed = NoMarks
    BY <1>8 DEF ApplyReads, NoActions, files
  <2> QED
    BY <2>1, <1>6 DEF RecordInv
<1>9. CASE SyncFails \/ Overlay
  <2>1. UNCHANGED <<state, report>> /\ mem' = NoMarks /\ done' = NoActions /\ wire' = "none"
    BY <1>9 DEF SyncFails, Overlay, End, files
  <2> QED
    BY <2>1, <1>6 DEF NoActions
<1>10. CASE ReportOnly
  <2>1. UNCHANGED state /\ mem' = NoMarks /\ done' = NoActions /\ wire' \in {wire, "none"}
    BY <1>10 DEF ReportOnly, AfterApply, End
  <2>2. report'.executed = NoMarks
    BY <1>10, ReportAloneTypes DEF ReportOnly
  <2> QED
    BY <2>1, <2>2, <1>6 DEF NoActions, RecordInv
<1>11. CASE ApplyEnds
  <2>1. /\ state' \in {state, mem} /\ mem' = NoMarks /\ done' = NoActions /\ wire' \in {wire, "none"}
        /\ report' = ReportDone
    BY <1>11 DEF ApplyEnds, AfterApply, End
  <2>2. ReportDone.executed \in {done.executed, NoMarks}
    BY ReportDoneTypes DEF TypeOK
  <2> QED
    BY <2>1, <2>2, <1>6 DEF NoActions, RecordInv
<1>12. CASE Crash
  <2>1. /\ state' \in {state, mem, Torn} /\ report' \in {report, Torn}
        /\ mem' = NoMarks /\ done' = NoActions /\ wire' = "none"
    BY <1>12 DEF Crash, End
  <2> QED
    BY <2>1, <1>6 DEF NoActions
<1>13. ASSUME NEW t \in Txn, Launch(t) \/ PreflightPasses(t) \/ Defers(t) PROVE RecordInv'
  <2>1. UNCHANGED <<state, report, mem>> /\ done'.executed = done.executed /\ wire' # "bare"
    BY <1>13 DEF Launch, PreflightPasses, Defers, files, TypeOK, Actions
  <2> QED
    BY <2>1, <1>6
<1>14. CASE ActionBreaks \/ BankAnswers
  <2>1. UNCHANGED <<state, report, mem, done>> /\ wire' # "bare"
    BY <1>14 DEF ActionBreaks, BankAnswers, files
  <2> QED
    BY <2>1, <1>6
<1>15. CASE \/ Export \/ RefreshIndex \/ SyncPlans \/ Reconcile \/ SyncBegins \/ StatementsApply
            \/ StatementsPlan \/ RulesEdited \/ LateArrives \/ UNCHANGED vars
            \/ \E t \in Txn : TransactionPosts(t)
  <2>1. UNCHANGED <<state, report, mem, done, wire>>
    BY <1>15 DEF Export, RefreshIndex, SyncPlans, Reconcile, SyncBegins, StatementsApply,
                 StatementsPlan, RulesEdited, LateArrives, TransactionPosts, vars, files, script
  <2> QED
    BY <2>1, <1>6 DEF RecordInv
<1>16. CASE DryRunReads \/ DryRunReports
  <2>1. UNCHANGED <<state, mem, done, wire>>
    BY <1>16 DEF DryRunReads, DryRunReports, files, script
  <2>2. report' \in {report, Torn} \/ report'.executed = NoMarks
    BY <1>16 DEF DryRunReads, DryRunReports, files, RecordInv
  <2> QED
    BY <2>1, <2>2, <1>6 DEF RecordInv
<1> QED
  BY <1>7, <1>8, <1>9, <1>10, <1>11, <1>12, <1>13, <1>14, <1>15, <1>16 DEF Next, HolderStep

\* If in addition every reply carries the split or errors, what the state file
\* records as applied is how Baselane has split it.
THEOREM RecordsAreMade == Prompt /\ ~BareReply => (Spec => []RecordedIsSplit)
<1> SUFFICES ASSUME Prompt, ~BareReply PROVE Spec => []RecordedIsSplit
  OBVIOUS
<1>1. TypeOK /\ ShapeInv /\ PostInv /\ RecordInv /\ [Next]_vars => RecordInv'
  BY RecordStep
<1>2. RecordInv => RecordedIsSplit
  BY DEF RecordInv, RecordedIsSplit, MadeSo, Made
<1> QED
  BY <1>1, <1>2, RecordInit, PostAlways, PTL DEF Spec

(***************************************************************************)
(* No transaction counts twice in the ledger.                              *)
(***************************************************************************)

Single == {{}, {"parent"}, {"native"}}
Exported == {"index", "plan", "apply", "work", "reconcile", "overlay"}
Planned == {"apply", "work", "reconcile", "overlay"}

\* Only posted transactions are split, or are being split.
PostedInv ==
    /\ \A t \in Txn : splits[t] # <<>> => t \notin pending
    /\ \A l \in late : l.txn \notin pending
    /\ wire \in {"sent", "resent"} => job \notin pending

\* A fresh ledger lists a transaction once, and what it lists by native children
\* is neither in the index nor in the plan.
LedgerInv ==
    /\ fresh => lock = "sync" /\ step \in Exported
    /\ fresh => \A t \in Txn :
          /\ ledger[t] \in Single
          /\ ledger[t] = {"native"} => splits[t] # <<>>
          /\ ledger[t] = {"native"} /\ step # "index" => index[t] = "absent"
          /\ ledger[t] = {"native"} /\ step \in Planned =>
                t \notin audit /\ (plan # Torn => plan[t] = None)
    /\ OkCountsOnce

LEMMA LedgerInit == Init => PostedInv /\ LedgerInv
  BY DEF Init, PostedInv, LedgerInv, OkCountsOnce

LEMMA PostedStep == TypeOK /\ ShapeInv /\ PostedInv /\ [Next]_vars => PostedInv'
<1> SUFFICES ASSUME TypeOK, ShapeInv, PostedInv, [Next]_vars PROVE PostedInv'
  OBVIOUS
<1>1. ASSUME UNCHANGED <<splits, pending, late>>, wire' \notin {"sent", "resent"} PROVE PostedInv'
  BY <1>1 DEF PostedInv
<1>2. ASSUME UNCHANGED <<splits, late, wire, job>>, pending' \subseteq pending PROVE PostedInv'
  BY <1>2 DEF PostedInv
<1>3. ASSUME wire \in {"sent", "resent"} PROVE Post.txn \notin pending
  BY <1>3 DEF PostedInv, Post
<1>4. CASE SyncFails \/ ReportOnly \/ ApplyEnds \/ Overlay \/ ApplyReads \/ RecordApplied
  <2>1. step # "work" \/ job = None => wire = "none"
    BY DEF ShapeInv
  <2> QED
    BY <1>4, <2>1, <1>1 DEF SyncFails, ReportOnly, ApplyEnds, Overlay, ApplyReads, RecordApplied,
                            AfterApply, End, Goto, baselane
<1>5. CASE \/ Export \/ RefreshIndex \/ SyncPlans \/ Reconcile \/ SyncBegins \/ StatementsApply
           \/ StatementsPlan \/ RulesEdited \/ UNCHANGED vars
           \/ DryRunReads \/ DryRunReports \/ \E t \in Txn : TransactionPosts(t)
  <2>1. UNCHANGED <<splits, late, wire, job>> /\ pending' \subseteq pending
    BY <1>5 DEF Export, RefreshIndex, SyncPlans, Reconcile, SyncBegins, StatementsApply,
                StatementsPlan, DryRunReads, DryRunReports, RulesEdited, TransactionPosts, vars,
                baselane, script
  <2> QED
    BY <2>1, <1>2
<1>6. ASSUME NEW t \in Txn, Launch(t) \/ Defers(t) PROVE PostedInv'
  BY <1>6, <1>1 DEF Launch, Defers, baselane
<1>7. ASSUME NEW t \in Txn, PreflightPasses(t) PROVE PostedInv'
  BY <1>7 DEF PreflightPasses, PostedInv, baselane
<1>8. CASE ActionBreaks
  <2>1. \A l \in late' : l.txn \notin pending
    BY <1>8, <1>3 DEF ActionBreaks, Abandon, PostedInv
  <2> QED
    BY <1>8, <2>1 DEF ActionBreaks, PostedInv
<1>9. CASE Crash
  <2>1. \A l \in late' : l.txn \notin pending
    <3>1. CASE Abandon
      BY <1>3, <3>1 DEF Abandon, PostedInv
    <3>2. CASE job \notin pending /\ late' = late \cup {Post}
      <4>1. Post.txn = job
        BY DEF Post
      <4> QED
        BY <3>2, <4>1 DEF PostedInv
    <3> QED
      BY <1>9, <3>1, <3>2 DEF Crash
  <2> QED
    BY <1>9, <2>1 DEF Crash, End, PostedInv
<1>10. CASE BankAnswers
  <2>1. job \in Txn /\ job \notin pending /\ UNCHANGED <<pending, late>>
    BY <1>10, PostTypes DEF BankAnswers, PostedInv
  <2>2. \A t \in Txn : t = job \/ splits'[t] = splits[t]
    BY <1>10, <2>1 DEF BankAnswers, SplitMade, TypeOK
  <2> QED
    BY <1>10, <2>1, <2>2 DEF BankAnswers, PostedInv
<1>11. CASE LateArrives
  <2>1. PICK l \in late : late' = late \ {l} /\ (SplitMade(l.txn, l.split) \/ UNCHANGED splits)
    BY <1>11 DEF LateArrives
  <2>2. \A t \in Txn : t = l.txn \/ splits'[t] = splits[t]
    BY <2>1 DEF SplitMade, TypeOK
  <2> QED
    BY <1>11, <2>1, <2>2 DEF LateArrives, PostedInv, script
<1> QED
  BY <1>4, <1>5, <1>6, <1>7, <1>8, <1>9, <1>10, <1>11 DEF Next, HolderStep

LEMMA SplitStays ==
    ASSUME TypeOK, ShapeInv, [Next]_vars, NEW t \in Txn, splits[t] # <<>>
    PROVE  splits'[t] # <<>>
<1>1. splits \in Splits
  BY DEF TypeOK, Splits
<1>2. ASSUME NEW u \in Txn, NEW e \in Digest, SplitMade(u, e) PROVE splits'[t] # <<>>
  BY <1>1, <1>2, SplitAppends
<1>3. CASE UNCHANGED splits
  BY <1>3
<1>4. CASE BankAnswers /\ SplitMade(job, todo[job])
  BY <1>4, <1>2, PostTypes DEF BankAnswers
<1>5. ASSUME NEW l \in late, SplitMade(l.txn, l.split) PROVE splits'[t] # <<>>
  BY <1>5, <1>2 DEF TypeOK
<1> QED
  BY <1>3, <1>4, <1>5
  DEF Next, HolderStep, Export, RefreshIndex, SyncPlans, SyncFails, ReportOnly, ApplyReads, Launch,
      PreflightPasses, Defers, ActionBreaks, RecordApplied, ApplyEnds, Reconcile, Overlay,
      Crash, SyncBegins, StatementsApply, StatementsPlan, DryRunReads, DryRunReports, RulesEdited, TransactionPosts, BankAnswers,
      LateArrives, vars, baselane

LEMMA LedgerStep == TypeOK /\ ShapeInv /\ PostedInv /\ LedgerInv /\ [Next]_vars => LedgerInv'
<1> SUFFICES ASSUME TypeOK, ShapeInv, PostedInv, LedgerInv, [Next]_vars PROVE LedgerInv'
  OBVIOUS
<1>1. \A t \in Txn : splits[t] # <<>> => splits'[t] # <<>>
  BY SplitStays
\* The run is over, or there is none, and the ledger is as it was.
<1>2. ASSUME ~fresh', UNCHANGED ledger, outcome' = "ok" => outcome = "ok" PROVE LedgerInv'
  BY <1>2 DEF LedgerInv, OkCountsOnce
\* The run goes on with the ledger, the index and the plan it has.
<1>3. ASSUME UNCHANGED <<ledger, index, plan, audit, fresh, lock, outcome>>,
             step' = step \/ (step \in Planned /\ step' \in Planned)
      PROVE  LedgerInv'
  BY <1>1, <1>3 DEF LedgerInv, OkCountsOnce, Planned, Exported
<1>4. ASSUME End("none"), UNCHANGED ledger PROVE LedgerInv'
  BY <1>4, <1>2 DEF End
<1>5. CASE SyncFails \/ Crash
  <2>1. UNCHANGED ledger /\ End("none")
    BY <1>5 DEF SyncFails, Crash, files
  <2> QED
    BY <2>1, <1>4
\* What a plan says of a transaction the index does not list.
<1>6. \A S \in SUBSET Txn, t \in Txn :
         index[t] = "absent" /\ t \notin S => PlanOf(S)[t] = None /\ Reconciled(PlanOf(S))[t] = None
  BY DEF PlanOf, Reconciled
<1>7. CASE Export
  <2>1. /\ step = "export" /\ lock = "sync" /\ ~fresh /\ outcome = "none"
        /\ UNCHANGED <<splits, lock, outcome>>
    BY <1>7 DEF Export, LedgerInv, ShapeInv, TypeOK, Exported, baselane, Free
  <2>2. CASE step' = "index"
    <3>1. \A t \in Txn : ledger'[t] \in Single /\ (ledger'[t] = {"native"} => splits[t] # <<>>)
      BY <1>7, <2>2 DEF Export, Single
    <3> QED
      BY <2>1, <2>2, <3>1 DEF LedgerInv, OkCountsOnce, Exported, Planned
  <2>3. CASE step' # "index"
    <3>1. ~fresh' /\ UNCHANGED ledger
      BY <1>7, <2>3 DEF Export
    <3> QED
      BY <2>1, <3>1, <1>2
  <2> QED
    BY <2>2, <2>3
<1>8. CASE RefreshIndex
  <2>1. /\ step = "index" /\ step' = "plan"
        /\ UNCHANGED <<splits, ledger, plan, audit, fresh, lock, outcome>>
        /\ \A t \in Txn : splits[t] # <<>> => index'[t] = "absent"
    BY <1>8 DEF RefreshIndex, Goto, baselane
  <2> QED
    BY <2>1 DEF LedgerInv, OkCountsOnce, Exported, Planned
<1>9. CASE SyncPlans
  <2>1. /\ step = "plan" /\ step' = "apply" /\ audit' = pending /\ plan' = PlanOf(pending)
        /\ UNCHANGED <<splits, ledger, index, fresh, lock, outcome>>
    BY <1>9 DEF SyncPlans, baselane
  <2>2. \A t \in Txn : index[t] = "absent" /\ t \notin pending => plan'[t] = None
    BY <2>1, <1>6 DEF TypeOK
  <2> QED
    BY <2>1, <2>2 DEF LedgerInv, OkCountsOnce, Exported, Planned, PostedInv
<1>10. CASE StatementsPlan \/ Reconcile
  <2>1. /\ UNCHANGED <<splits, ledger, index, audit, fresh, lock, outcome>>
        /\ step' = step \/ (step \in Planned /\ step' \in Planned)
        /\ plan' \in {PlanOf({}), Reconciled(PlanOf({})), Reconciled(PlanOf(audit))}
    BY <1>10 DEF StatementsPlan, Reconcile, Goto, Planned, baselane, holder
  <2>2. \A t \in Txn : index[t] = "absent" /\ t \notin audit => plan'[t] = None
    <3>1. {} \in SUBSET Txn /\ audit \in SUBSET Txn
      BY DEF TypeOK
    <3>2. \A t \in Txn : index[t] = "absent" /\ t \notin audit =>
             /\ PlanOf({})[t] = None /\ Reconciled(PlanOf({}))[t] = None
             /\ Reconciled(PlanOf(audit))[t] = None
      BY <3>1, <1>6
    <3> QED
      BY <2>1, <3>2
  <2>3. \A t \in Txn : fresh /\ ledger[t] = {"native"} /\ step' \in Planned => plan'[t] = None
    BY <2>1, <2>2 DEF LedgerInv, Planned
  <2> QED
    BY <2>1, <2>3 DEF LedgerInv, OkCountsOnce, Exported, Planned
<1>11. CASE ReportOnly \/ ApplyEnds
  <2>1. UNCHANGED <<ledger, index, plan>> /\ (AfterApply \/ End("none")) /\ step \in {"apply", "work"}
    BY <1>11 DEF ReportOnly, ApplyEnds
  <2>2. CASE lock = "sync" /\ AfterApply
    BY <2>1, <2>2, <1>3 DEF AfterApply, Goto, Planned
  <2>3. CASE End("none")
    BY <2>1, <2>3, <1>4
  <2> QED
    BY <2>1, <2>2, <2>3 DEF AfterApply
<1>12. CASE ApplyReads
  BY <1>12, <1>3 DEF ApplyReads, Goto, files, Planned
<1>13. CASE \/ \E t \in Txn : Launch(t) \/ PreflightPasses(t) \/ Defers(t) \/ TransactionPosts(t)
            \/ ActionBreaks \/ RecordApplied \/ BankAnswers \/ LateArrives \/ RulesEdited \/ UNCHANGED vars
            \/ DryRunReads \/ DryRunReports
  <2>1. UNCHANGED <<ledger, index, plan, audit, fresh, lock, outcome, step>>
    BY <1>13 DEF Launch, PreflightPasses, Defers, TransactionPosts, ActionBreaks, RecordApplied,
                 BankAnswers, LateArrives, RulesEdited, DryRunReads, DryRunReports, vars, files, holder
  <2> QED
    BY <2>1, <1>3
<1>14. CASE SyncBegins \/ StatementsApply
  <2>1. ~fresh /\ UNCHANGED <<fresh, ledger>> /\ (outcome' = "ok" => outcome = "ok")
    BY <1>14 DEF SyncBegins, StatementsApply, LedgerInv, files, Free
  <2> QED
    BY <2>1, <1>2
<1>15. CASE Overlay
  <2>1. step = "overlay" /\ lock = "sync" /\ plan # Torn
    BY <1>15 DEF Overlay, ShapeInv, TypeOK, Free
  <2>2. CASE UNCHANGED ledger /\ End("none")
    BY <2>2, <1>4
  <2>3. CASE ~fresh /\ End("none")
    BY <2>1, <2>3 DEF LedgerInv, OkCountsOnce, End
  <2>4. CASE fresh /\ ledger' \in {[t \in Txn |-> Overlaid(t)], ledger} /\ End("ok")
    <3>1. ASSUME NEW t \in Txn PROVE Cardinality(ledger[t]) <= 1 /\ Cardinality(Overlaid(t)) <= 1
      <4>1. ledger[t] \in Single /\ (ledger[t] = {"native"} => plan[t] = None)
        BY <2>1, <2>4 DEF LedgerInv, Planned
      <4>2. Cardinality(ledger[t]) <= 1
        <5>1. ledger[t] = {} \/ ledger[t] = {"parent"} \/ ledger[t] = {"native"}
          BY <4>1 DEF Single
        <5> QED
          BY <5>1, FS_EmptySet, FS_Singleton
      <4>3. CASE plan[t] = None
        BY <4>2, <4>3 DEF Overlaid
      <4>4. CASE plan[t] # None
        <5>1. Overlaid(t) = {plan[t].split}
          BY <4>1, <4>4 DEF Overlaid, WithoutParent, Single
        <5>2. \A d : Cardinality({d}) = 1
          BY FS_Singleton
        <5>3. Cardinality(Overlaid(t)) = 1
          BY <5>1, <5>2, Zenon
        <5> QED
          BY <4>2, <5>3
      <4> QED
        BY <4>2, <4>3, <4>4
    <3>2. \A t \in Txn : Cardinality(ledger'[t]) <= 1
      BY <2>4, <3>1
    <3>3. ~fresh'
      BY <2>4 DEF End
    <3> QED
      BY <3>2, <3>3 DEF LedgerInv, OkCountsOnce
  <2> QED
    BY <1>15, <2>2, <2>3, <2>4 DEF Overlay
<1> QED
  BY <1>5, <1>7, <1>8, <1>9, <1>10, <1>11, <1>12, <1>13, <1>14, <1>15 DEF Next, HolderStep

\* After a sync that ends ok no transaction counts twice, whatever runs were there
\* before, in between and beside it.
THEOREM LedgerCountsOnce == Spec => []OkCountsOnce
<1>1. /\ TypeOK /\ ShapeInv /\ PostedInv /\ LedgerInv /\ [Next]_vars
            => (TypeOK /\ ShapeInv /\ PostedInv /\ LedgerInv)'
      /\ Init => TypeOK /\ ShapeInv /\ PostedInv /\ LedgerInv
  BY TypeInit, TypeStep, LedgerInit, PostedStep, LedgerStep
<1>2. LedgerInv => OkCountsOnce
  BY DEF LedgerInv
<1> QED
  BY <1>1, <1>2, PTL DEF Spec
=============================================================================
