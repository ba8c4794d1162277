------------------------- MODULE TruthRefreshProofs -------------------------
(* Theorems about TruthRefresh, for all values of its constants.           *)
EXTENDS TruthRefresh, TLAPS

(***************************************************************************)
(* Type correctness, and the shape of a run.                               *)
(***************************************************************************)

\* A job runs from its first step to its last, with a target once it has staged.
ShapeInv ==
    /\ step = "preflight" <=> job = None
    /\ step \in {"preflight", "stage"} <=> target = None

LEMMA TypeInit == Init => TypeOK /\ ShapeInv
  BY RefreshAssumption DEF Init, TypeOK, ShapeInv, Value, Verify, Report, Nothing

LEMMA FailTypes ==
    ASSUME TypeOK, ShapeInv, NEW s, Fail(s), job # None
    PROVE  /\ job' = None /\ target' = None /\ step' = "preflight" /\ mode' = "dry" /\ ended' = "failed"
           /\ report' \in [Job -> Report]
           /\ \A j \in Job : report'[j].digest # None <=> report'[j].status \in {"ok", "ok_dry_run"}
           /\ applied' \in {applied, None} /\ verified' \in {verified, Nothing}
  BY DEF Fail, End, FailedReport, TypeOK, Report

LEMMA SucceedTypes ==
    ASSUME TypeOK, ShapeInv, NEW status \in {"ok", "ok_dry_run"}, Succeed(status), job # None, target # None
    PROVE  /\ job' = None /\ target' = None /\ step' = "preflight" /\ mode' = "dry" /\ ended' = "ok"
           /\ report' \in [Job -> Report] /\ report'[job] = [status |-> status, digest |-> target]
           /\ \A j \in Job : report'[j].digest # None <=> report'[j].status \in {"ok", "ok_dry_run"}
           /\ UNCHANGED evidence
  BY DEF Succeed, End, TypeOK, Report

LEMMA TypeStep == TypeOK /\ ShapeInv /\ [Next]_vars => TypeOK' /\ ShapeInv'
<1> SUFFICES ASSUME TypeOK, ShapeInv, [Next]_vars PROVE TypeOK' /\ ShapeInv'
  OBVIOUS
<1> USE RefreshAssumption DEF accruals, run, evidence
<1>1. Nothing \in Verify
  BY DEF Nothing, Verify
<1>2. CASE EvidenceChanges \/ VerifyAges
  <2>1. verified' \in Verify /\ wanted' \in Value
    BY <1>2 DEF EvidenceChanges, VerifyAges, TypeOK, Verify
  <2> QED
    BY <1>2, <2>1 DEF EvidenceChanges, VerifyAges, TypeOK, ShapeInv
<1>3. ASSUME NEW j \in Job, NEW m \in {"apply", "validate", "dry"}, Begin(j, m) PROVE TypeOK' /\ ShapeInv'
  BY <1>3 DEF Begin, TypeOK, ShapeInv
<1>4. CASE Stage
  BY <1>4 DEF Stage, TypeOK, ShapeInv, Value
<1>5. CASE Plan
  <2>1. CASE Succeed("ok_dry_run") /\ UNCHANGED <<wanted, live, ledger, workbooks>> /\ step = "plan"
    BY <2>1, SucceedTypes DEF TypeOK, ShapeInv
  <2>2. CASE Goto(mode) /\ mode # "dry" /\ step = "plan"
             /\ UNCHANGED <<accruals, evidence, report, ended>>
    BY <2>2 DEF Goto, TypeOK, ShapeInv
  <2> QED
    BY <1>5, <2>1, <2>2 DEF Plan
<1>6. CASE ReuseVerified \/ Success
  <2>1. Succeed("ok") /\ UNCHANGED accruals /\ step \in {"plan", "success"}
    BY <1>6 DEF ReuseVerified, Success
  <2> QED
    BY <2>1, SucceedTypes DEF TypeOK, ShapeInv
\* A step fails.
<1>7. ASSUME NEW s, Fail(s), job # None, UNCHANGED wanted,
             ({live', ledger'} \cup workbooks') \subseteq Value \cup {Mixed}
      PROVE  TypeOK' /\ ShapeInv'
  BY <1>1, <1>7, FailTypes DEF TypeOK, ShapeInv
<1>8. CASE Apply
  <2>1. step = "apply" /\ target \in Value /\ UNCHANGED <<wanted, ledger, workbooks>>
    BY <1>8 DEF Apply, TypeOK, ShapeInv
  <2>2. CASE live' = target /\ applied' = target /\ Goto("sync") /\ UNCHANGED <<verified, report, ended>>
    BY <2>1, <2>2 DEF Goto, TypeOK, ShapeInv
  <2>3. CASE live' \in Reached /\ Fail("apply")
    BY <2>1, <2>3, <1>7 DEF Reached, TypeOK, ShapeInv
  <2> QED
    BY <1>8, <2>2, <2>3 DEF Apply
<1>9. CASE Sync
  <2>1. step = "sync" /\ UNCHANGED <<wanted, live, workbooks>> /\ ledger' \in {ledger, live, Mixed}
    BY <1>9 DEF Sync
  <2>2. CASE Goto("verify") /\ UNCHANGED <<evidence, report, ended>>
    BY <2>1, <2>2 DEF Goto, TypeOK, ShapeInv
  <2>3. CASE Fail("apply")
    BY <2>1, <2>3, <1>7 DEF TypeOK, ShapeInv
  <2> QED
    BY <1>9, <2>2, <2>3 DEF Sync
<1>10. CASE VerifyLedger
  <2>1. verified' \in Verify
    BY <1>10 DEF VerifyLedger, TypeOK, Verify
  <2> QED
    BY <1>10, <2>1 DEF VerifyLedger, Goto, TypeOK, ShapeInv
<1>11. CASE CheckVerify
  <2>1. step = "check" /\ UNCHANGED accruals
    BY <1>11 DEF CheckVerify
  <2>2. CASE Goto("weekly") /\ UNCHANGED <<evidence, report, ended>>
    BY <2>1, <2>2 DEF Goto, TypeOK, ShapeInv
  <2>3. CASE \E s \in {"verify", "validate"} : Fail(s)
    BY <2>1, <2>3, <1>7 DEF TypeOK, ShapeInv
  <2> QED
    BY <1>11, <2>2, <2>3 DEF CheckVerify
<1>12. CASE Weekly
  <2>1. step = "weekly" /\ UNCHANGED <<wanted, live, ledger>> /\ workbooks' \subseteq workbooks \cup {ledger}
    BY <1>12 DEF Weekly, Resynced
  <2>2. CASE Goto("success") /\ UNCHANGED <<evidence, report, ended>>
    BY <2>1, <2>2 DEF Goto, TypeOK, ShapeInv
  <2>3. CASE Fail("weekly")
    BY <2>1, <2>3, <1>7 DEF TypeOK, ShapeInv
  <2> QED
    BY <1>12, <2>2, <2>3 DEF Weekly
<1>13. CASE StepFails
  BY <1>13, <1>7 DEF StepFails, TypeOK
<1>14. CASE Killed
  <2>1. step = "apply" => target \in Value
    BY DEF TypeOK, ShapeInv
  <2>2. live' \in Value \cup {Mixed} /\ workbooks' \subseteq Value \cup {Mixed}
    BY <1>14, <2>1 DEF Killed, Reached, Resynced, TypeOK
  <2> QED
    BY <1>14, <2>2 DEF Killed, End, TypeOK, ShapeInv
<1>15. CASE UNCHANGED vars
  BY <1>15 DEF vars, TypeOK, ShapeInv
<1> QED
  BY <1>2, <1>3, <1>4, <1>5, <1>6, <1>8, <1>9, <1>10, <1>11, <1>12, <1>13, <1>14, <1>15 DEF Next

\* Every variable keeps its type, and a report has a digest just when it is ok.
THEOREM TypeCorrect == Spec => []TypeOK
<1> QED
  BY TypeInit, TypeStep, PTL DEF Spec

(***************************************************************************)
(* What is reported as live is live.                                       *)
(***************************************************************************)

\* From its verification on, a run's ledger agrees with Baselane.
CheckedInv ==
    /\ step = "check" => verified.digest = ledger /\ (verified.clean <=> ledger = live)
    /\ step \in {"weekly", "success"} => ledger = target /\ live = target

LEMMA CheckedStep == TypeOK /\ CheckedInv /\ [Next]_vars => CheckedInv'
<1> SUFFICES ASSUME TypeOK, CheckedInv, [Next]_vars PROVE CheckedInv'
  OBVIOUS
<1> USE DEF accruals, run, evidence
<1>1. CASE step' \notin {"check", "weekly", "success"}
  BY <1>1 DEF CheckedInv
<1>2. CASE EvidenceChanges \/ VerifyAges \/ UNCHANGED vars
  <2>1. /\ verified'.digest = verified.digest /\ verified'.clean = verified.clean
        /\ UNCHANGED <<live, ledger, step, target>>
    BY <1>2 DEF EvidenceChanges, VerifyAges, vars, TypeOK, Verify
  <2> QED
    BY <2>1 DEF CheckedInv
<1>3. CASE VerifyLedger
  BY <1>3 DEF VerifyLedger, Goto, CheckedInv
<1>4. CASE CheckVerify
  BY <1>1, <1>4 DEF CheckVerify, CheckPasses, Goto, Fail, End, CheckedInv
<1>5. CASE Weekly
  BY <1>1, <1>5 DEF Weekly, Goto, Fail, End, CheckedInv
<1>6. ASSUME \/ \E j \in Job, m \in {"apply", "validate", "dry"} : Begin(j, m)
             \/ Stage \/ Plan \/ ReuseVerified \/ Apply \/ Sync \/ Success \/ StepFails \/ Killed
      PROVE  step' \notin {"check", "weekly", "success"}
  BY <1>6 DEF Begin, Stage, Plan, ReuseVerified, Apply, Sync, Success, StepFails, Killed,
              Goto, Succeed, Fail, End, TypeOK
<1> QED
  BY <1>1, <1>2, <1>3, <1>4, <1>5, <1>6 DEF Next

\* Whatever becomes of the weekly job, only a run's own targets get into the
\* workbooks, and only while Baselane holds them.
THEOREM WorkbooksFollow == Spec => RefreshedFromVerified
<1>1. ASSUME CheckedInv, Next, NEW v \in workbooks' \ workbooks PROVE v = target /\ v = live
  <2>1. Weekly \/ Killed
    BY <1>1 DEF Next, EvidenceChanges, VerifyAges, Begin, Stage, Plan, ReuseVerified, Apply, Sync,
                VerifyLedger, CheckVerify, Success, StepFails, accruals
  <2>2. step = "weekly" /\ v = ledger
    BY <1>1, <2>1 DEF Weekly, Killed, Resynced
  <2> QED
    BY <1>1, <2>2 DEF CheckedInv
<1>2. CheckedInv /\ [Next]_vars => [\A v \in workbooks' \ workbooks : v = target /\ v = live]_vars
  BY <1>1
<1>3. Init => CheckedInv
  BY DEF Init, CheckedInv
<1> QED
  BY <1>2, <1>3, CheckedStep, TypeCorrect, PTL DEF Spec, RefreshedFromVerified

(***************************************************************************)
(* What is reported as live is live.                                       *)
(***************************************************************************)

\* What Baselane holds is of the past or the present, never ahead of a run's target.
OldInv ==
    /\ live \in Value => live <= wanted /\ (target # None => live <= target)
    /\ target # None => target <= wanted

\* A clean verification speaks of what Baselane holds, or is older than the target.
CleanInv ==
    verified.clean /\ verified.digest \in Value /\ verified.digest # live =>
        verified.digest < wanted /\ (target # None => verified.digest < target)

LEMMA LiveInit == Init => OldInv /\ CleanInv
  BY RefreshAssumption DEF Init, OldInv, CleanInv, Nothing, Value

LEMMA LiveStep ==
    ~Returns /\ TypeOK /\ ShapeInv /\ OldInv /\ CleanInv /\ [Next]_vars => OldInv' /\ CleanInv'
<1> SUFFICES ASSUME ~Returns, TypeOK, ShapeInv, OldInv, CleanInv, [Next]_vars PROVE OldInv' /\ CleanInv'
  OBVIOUS
<1> USE RefreshAssumption DEF accruals, run, evidence
<1>1. /\ Value \subseteq Nat /\ Mixed \notin Value /\ None \notin Value /\ wanted \in Value
      /\ target \in Value \cup {None} /\ live \in Value \cup {Mixed}
  BY DEF Value, TypeOK
\* The run goes on, begins or ends; Baselane may hold the target, or something in between.
<1>2. ASSUME UNCHANGED wanted, target' \in {target, None},
             live' = live \/ (target # None /\ live' \in Reached \cup {target}),
             verified' \in {verified, Nothing}
      PROVE  OldInv' /\ CleanInv'
  <2>1. OldInv'
    BY <1>1, <1>2 DEF OldInv, Reached
  <2>2. CleanInv'
    BY <1>1, <1>2 DEF CleanInv, OldInv, Reached, Nothing
  <2> QED
    BY <2>1, <2>2
<1>3. CASE EvidenceChanges
  <2>1. wanted' > wanted /\ wanted' \in Value /\ UNCHANGED <<live, target, verified>>
    BY <1>3 DEF EvidenceChanges
  <2>2. verified.digest \in Value => verified.digest \in Nat
    BY <1>1
  <2> QED
    BY <1>1, <2>1, <2>2 DEF OldInv, CleanInv
<1>4. CASE VerifyAges
  <2>1. /\ verified'.digest = verified.digest /\ verified'.clean = verified.clean
        /\ UNCHANGED <<accruals, run>>
    BY <1>4 DEF VerifyAges, TypeOK, Verify
  <2> QED
    BY <2>1 DEF OldInv, CleanInv
<1>5. CASE Stage
  BY <1>1, <1>5 DEF Stage, OldInv, CleanInv, ShapeInv
<1>6. CASE VerifyLedger
  <2>1. /\ verified'.digest = ledger /\ verified'.clean = (ledger = live)
        /\ UNCHANGED <<wanted, live, target>>
    BY <1>6 DEF VerifyLedger, Goto
  <2> QED
    BY <2>1 DEF OldInv, CleanInv
<1>7. ASSUME NEW s, Fail(s) PROVE target' = None /\ verified' \in {verified, Nothing}
  BY <1>7 DEF Fail, End
<1>8. CASE Apply \/ Killed
  <2>1. step = "apply" => target # None
    BY DEF ShapeInv
  <2>2. UNCHANGED wanted /\ target' \in {target, None} /\ verified' \in {verified, Nothing}
    BY <1>7, <1>8 DEF Apply, Killed, Goto, End
  <2>3. live' = live \/ (target # None /\ live' \in Reached \cup {target})
    BY <1>8, <2>1 DEF Apply, Killed
  <2> QED
    BY <2>2, <2>3, <1>2
<1>9. CASE \/ \E j \in Job, m \in {"apply", "validate", "dry"} : Begin(j, m)
           \/ Plan \/ ReuseVerified \/ Sync \/ CheckVerify \/ Weekly \/ Success \/ StepFails
           \/ UNCHANGED vars
  <2>1. UNCHANGED <<wanted, live>> /\ target' \in {target, None} /\ verified' \in {verified, Nothing}
    BY <1>7, <1>9 DEF Begin, Plan, ReuseVerified, Sync, CheckVerify, Weekly, Success, StepFails,
                      Goto, Succeed, End, vars
  <2> QED
    BY <2>1, <1>2
<1> QED
  BY <1>3, <1>4, <1>5, <1>6, <1>8, <1>9 DEF Next

\* If the evidence never returns to what it was, a refresh reports ok only what
\* Baselane holds, also when it takes an earlier verification for its own.
THEOREM OkIsLive == ~Returns => (Spec => OkMeansLive)
<1> SUFFICES ASSUME ~Returns PROVE Spec => OkMeansLive
  OBVIOUS
<1>1. ASSUME TypeOK, ShapeInv, CheckedInv, CleanInv, Next, ended' = "ok", ended # "ok", report'[job].status = "ok"
      PROVE  live = report'[job].digest
  <2>1. \/ Plan /\ Succeed("ok_dry_run")
        \/ ReuseVerified \/ Success
    <3>1. ASSUME NEW s PROVE ~Fail(s)
      BY <1>1 DEF Fail, End
    <3> QED
      BY <1>1, <3>1 DEF Next, EvidenceChanges, VerifyAges, Begin, Stage, Plan, Apply, Sync,
                        VerifyLedger, CheckVerify, Weekly, StepFails, Killed, End
  <2>2. job # None /\ target # None
    BY <1>1, <2>1 DEF Plan, ReuseVerified, Success, ShapeInv
  <2>3. CASE Succeed("ok_dry_run")
    BY <1>1, <2>2, <2>3, SucceedTypes
  <2>4. CASE ReuseVerified
    <3>1. Succeed("ok") /\ verified.clean /\ verified.digest = target
      BY <2>4 DEF ReuseVerified, SameDigest
    <3>2. target \in Value /\ target \in Nat
      BY <1>1, <2>2, RefreshAssumption DEF TypeOK, Value
    <3>3. live = target
      BY <1>1, <2>2, <3>1, <3>2 DEF CleanInv
    <3> QED
      BY <1>1, <2>2, <3>1, <3>3, SucceedTypes
  <2>5. CASE Success
    <3>1. Succeed("ok") /\ live = target
      BY <1>1, <2>5 DEF Success, CheckedInv
    <3> QED
      BY <1>1, <2>2, <3>1, SucceedTypes
  <2> QED
    BY <2>1, <2>3, <2>4, <2>5
<1>2. TypeOK /\ ShapeInv /\ CheckedInv /\ CleanInv /\ [Next]_vars
        => [ended' = "ok" /\ ended # "ok" /\ report'[job].status = "ok" => live = report'[job].digest]_vars
  BY <1>1
<1>3. /\ TypeOK /\ ShapeInv /\ CheckedInv /\ OldInv /\ CleanInv /\ [Next]_vars
            => (TypeOK /\ ShapeInv /\ CheckedInv /\ OldInv /\ CleanInv)'
      /\ Init => TypeOK /\ ShapeInv /\ CheckedInv /\ OldInv /\ CleanInv
  BY TypeInit, TypeStep, CheckedStep, LiveInit, LiveStep DEF Init, CheckedInv
<1> QED
  BY <1>2, <1>3, PTL DEF Spec, OkMeansLive
=============================================================================
