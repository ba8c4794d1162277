----------------------------- MODULE TruthRefresh -----------------------------
(***************************************************************************)
(* scripts/baselane_monthly_finance_truth_refresh.sh, run for one month by *)
(* the monthly close and by the cron of the 28th: stage the month's        *)
(* accruals, plan them against live Baselane, apply them, export the       *)
(* ledger, verify it against live, refresh the Cash Flow workbooks, and    *)
(* report whether documents may be generated from the ledger.  Both jobs   *)
(* write the same apply and verify reports, and a report of their own.     *)
(*                                                                         *)
(* The accruals a ledger holds for the month are one value, their target   *)
(* digest.  AccrualApply has the live apply in detail.                     *)
(***************************************************************************)
EXTENDS Naturals

CONSTANTS
    Job,       \* "close" and "28th"
    None,      \* no job, no digest
    Mixed,     \* accruals that are of no run's targets
    Returns,   \* whether the evidence may return to what it was
    MaxWanted  \* bound: digests the evidence goes through

ASSUME RefreshAssumption ==
    /\ Returns \in BOOLEAN /\ MaxWanted \in Nat
    /\ None \notin Job /\ None # Mixed /\ {None, Mixed} \cap Nat = {}

VARIABLES
    wanted,    \* the accruals the evidence asks for
    live,      \* the accruals in Baselane
    ledger,    \* those of the canonical ledger
    workbooks, \* those of the ledgers that the Cash Flow workbooks' cells came from
    job,       \* the job that runs
    mode,      \* "apply", "validate" or "dry"
    step,      \* CURRENT_STEP
    target,    \* target_digest
    applied,   \* target_digest of the apply report, None if it has none
    verified,  \* the verify report
    report,    \* report[j]: the refresh report of job j
    ended      \* how the last run ended

accruals == <<wanted, live, ledger, workbooks>>
run      == <<job, mode, step, target>>
evidence == <<applied, verified>>
vars     == <<accruals, run, evidence, report, ended>>

Value  == 0 .. MaxWanted
Verify == [digest : Value \cup {None, Mixed}, clean : BOOLEAN, recent : BOOLEAN]
Report == [status : {"none", "failed", "ok", "ok_dry_run"}, digest : Value \cup {None}]

Nothing == [digest |-> None, clean |-> FALSE, recent |-> FALSE]

Init ==
    /\ wanted = 0 /\ live = Mixed /\ ledger = Mixed /\ workbooks = {Mixed}
    /\ job = None /\ mode = "dry" /\ step = "preflight" /\ target = None
    /\ applied = None /\ verified = Nothing
    /\ report = [j \in Job |-> [status |-> "none", digest |-> None]]
    /\ ended = "none"

Goto(s) == step' = s /\ UNCHANGED <<job, mode, target>>

End(how) ==
    /\ job' = None /\ mode' = "dry" /\ step' = "preflight" /\ target' = None
    /\ ended' = how

-----------------------------------------------------------------------------
(* Around the runs.                                                        *)

EvidenceChanges ==
    /\ wanted' \in Value \ {wanted}
    /\ Returns \/ wanted' > wanted
    /\ UNCHANGED <<live, ledger, workbooks, run, evidence, report, ended>>

\* REUSE_VERIFIED_MAX_MINUTES go by.
VerifyAges ==
    /\ verified' = [verified EXCEPT !.recent = FALSE]
    /\ UNCHANGED <<accruals, run, applied, report, ended>>

-----------------------------------------------------------------------------
(* A run.                                                                  *)

Begin(j, m) ==
    /\ job = None
    /\ job' = j /\ mode' = m /\ step' = "stage" /\ target' = None /\ ended' = "none"
    /\ UNCHANGED <<accruals, evidence, report>>

BugDigestKept == [status |-> "failed", digest |-> target]
FailedReport == [status |-> "failed", digest |-> None]

\* The trap: the failed step's report, if it is one of the two, is invalidated;
\* what is written in its place has no target_digest.
Fail(s) ==
    /\ report' = [report EXCEPT ![job] = FailedReport]
    /\ applied' = IF s = "apply" THEN None ELSE applied
    /\ verified' = IF s = "verify" THEN Nothing ELSE verified
    /\ End("failed")

\* write_success_report, or the report of a reused verification.
Succeed(status) ==
    /\ report' = [report EXCEPT ![job] = [status |-> status, digest |-> target]]
    /\ End("ok")
    /\ UNCHANGED evidence

Stage ==
    /\ step = "stage"
    /\ target' = wanted /\ step' = "plan"
    /\ UNCHANGED <<accruals, job, mode, evidence, report, ended>>

Plan ==
    /\ step = "plan"
    /\ \/ mode = "dry" /\ Succeed("ok_dry_run")
       \/ mode # "dry" /\ Goto(mode) /\ UNCHANGED <<evidence, report, ended>>
    /\ UNCHANGED accruals

BugAnyDigestReused == TRUE
SameDigest == verified.digest = target /\ applied \in {None, target}

\* The plan is blocked by authentication or a timeout, after one recovery of the
\* session and one more try: a recent verification of the same targets is
\* accepted in its place.
ReuseVerified ==
    /\ step = "plan"
    /\ verified.recent /\ verified.clean /\ SameDigest
    /\ Succeed("ok")
    /\ UNCHANGED accruals

\* The apply sets each accrual to the target's, and may stop in between.
Reached == IF live = target THEN {live} ELSE {live, Mixed, target}

Apply ==
    /\ step = "apply"
    /\ \/ /\ live' = target /\ applied' = target
          /\ Goto("sync") /\ UNCHANGED <<verified, report, ended>>
       \/ live' \in Reached /\ Fail("apply")
    /\ UNCHANGED <<wanted, ledger, workbooks>>

\* The export rewrites the ledger, and its cleanups may leave accruals that are
\* not those of Baselane.  CURRENT_STEP is still live_accrual_apply.
Sync ==
    /\ step = "sync"
    /\ \/ ledger' \in {live, Mixed} /\ Goto("verify") /\ UNCHANGED <<evidence, report, ended>>
       \/ ledger' \in {ledger, live, Mixed} /\ Fail("apply")
    /\ UNCHANGED <<wanted, live, workbooks>>

\* The comparison of the canonical ledger with live Baselane is reported.
\* A validation requires the target digest, the verification does not.
VerifyLedger ==
    /\ step = "verify" \/ (step = "validate" /\ ledger = target)
    /\ verified' = [digest |-> ledger, clean |-> ledger = live, recent |-> TRUE]
    /\ Goto("check")
    /\ UNCHANGED <<accruals, applied, report, ended>>

BugStatusOnly == TRUE
CheckPasses == verified.digest = target /\ verified.clean

CheckVerify ==
    /\ step = "check"
    /\ IF CheckPasses THEN Goto("weekly") /\ UNCHANGED <<evidence, report, ended>>
                      ELSE Fail(IF mode = "apply" THEN "verify" ELSE "validate")
    /\ UNCHANGED accruals

\* The sync rewrites all cells, or leaves those in conflict and those it did not
\* get to; without approval it only audits, and then no cell changes.
Resynced == {workbooks, workbooks \cup {ledger}, {ledger}}

\* The weekly job ends well also if it is held for disk space or stale artifacts,
\* has no approval, or is not to run at all; it may fail after the sync.
Weekly ==
    /\ step = "weekly"
    /\ workbooks' \in Resynced
    /\ \/ Goto("success") /\ UNCHANGED <<evidence, report, ended>>
       \/ Fail("weekly")
    /\ UNCHANGED <<wanted, live, ledger>>

Success ==
    /\ step = "success"
    /\ Succeed("ok")
    /\ UNCHANGED accruals

\* Any other step fails, or the job is terminated: the trap runs.
StepFails ==
    /\ job # None /\ step \in {"stage", "plan", "verify", "validate", "success"}
    /\ Fail(step)
    /\ UNCHANGED accruals

\* The job is killed, and no trap runs.
Killed ==
    /\ job # None
    /\ live' \in IF step = "apply" THEN Reached ELSE {live}
    /\ workbooks' \in IF step = "weekly" THEN Resynced ELSE {workbooks}
    /\ End("killed")
    /\ UNCHANGED <<wanted, ledger, evidence, report>>

-----------------------------------------------------------------------------
Next ==
    \/ EvidenceChanges \/ VerifyAges
    \/ \E j \in Job, m \in {"apply", "validate", "dry"} : Begin(j, m)
    \/ Stage \/ Plan \/ ReuseVerified \/ Apply \/ Sync \/ VerifyLedger
    \/ CheckVerify \/ Weekly \/ Success \/ StepFails \/ Killed

Spec == Init /\ [][Next]_vars

-----------------------------------------------------------------------------
(* Properties.                                                             *)

TypeOK ==
    /\ wanted \in Value /\ ({live, ledger} \cup workbooks) \subseteq Value \cup {Mixed}
    /\ job \in Job \cup {None} /\ mode \in {"apply", "validate", "dry"}
    /\ step \in {"preflight", "stage", "plan", "apply", "sync", "verify", "validate", "check",
                 "weekly", "success"}
    /\ target \in Value \cup {None} /\ applied \in Value \cup {None}
    /\ verified \in Verify
    /\ report \in [Job -> Report]
    /\ \A j \in Job : report[j].digest # None <=> report[j].status \in {"ok", "ok_dry_run"}
    /\ ended \in {"none", "ok", "failed", "killed"}

\* A refresh that was no dry run ends ok, whether it applied and verified or took
\* an earlier verification for it, only while Baselane holds the accruals of its
\* report; other runs may have failed or been killed half way in between.
OkMeansLive ==
    [][ended' = "ok" /\ ended # "ok" /\ report'[job].status = "ok" => live = report'[job].digest]_vars

\* What a run brings into the workbooks, whether it ends ok, fails or is killed
\* half way, are the accruals of its own targets, and Baselane holds them, although
\* the export may leave a ledger that does not agree.
RefreshedFromVerified ==
    [][\A v \in workbooks' \ workbooks : v = target /\ v = live]_vars
=============================================================================
