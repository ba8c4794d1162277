# Baselane → Lofty CPAI in TLA+

Specifications of the parts of this repository that move money or change books:
the internal-transfer state machine, the tools and the MFA helper on top of it,
the savings-interest sweep, the live accrual apply, the native splits around the
ledger export, the monthly finance-truth refresh, the owner emails and the review
drafts. The code under `src/` is
the reference; every definition is translated from it, and `PROJECT.json` names
the lines (`map`).

    tlc -workers 2 -config InternalTransfer_shared.cfg MCInternalTransfer.tla
    tlapm TransferProofs.tla

1. [The system](#1-the-system)
2. [The modules](#2-the-modules)
3. [The runs](#3-the-runs)
4. [Assumptions](#4-assumptions)
5. [The proofs](#5-the-proofs)
6. [What the code does otherwise than it says](#6-what-the-code-does-otherwise-than-it-says)
7. [What is left out](#7-what-is-left-out)
8. [Plan](#8-plan)

## 1. The system

The repository is operating code for a property manager: about 360 Python, shell
and node programs that are started by cron, by an operator or by an MCP server.
Nothing runs for long but the MCP server; the programs meet through files (state
files, reports, the ledger CSV), through `flock`, and through Baselane, which
they reach over the operator's browser session. About a hundred of the scripts
are dated one-off corrections, and much of the rest builds reports from exports.
The logic that carries the system's guarantees is in few places.

    operator / MCP client        cron: 28th accruals, monthly close, daily, weekly
          |                                  |
     server.py  -- baselane_fold7_mfa.py     |  finance-truth refresh
      transfer_cash      (SMS code)          |    -> accrual apply, ledger export
          |                                  |  live DAO cash reconciliation
          |                                  |    -> interest sweep
     transfers.py  <-------------------------+  -> packets, send guards, Lofty
      execute_transfer,  state file, flock
          |
     baselane_graphql_via_cdp.js   one mutation, up to several routes
          |
     Baselane (createTransfer, createTransaction, updateTransactions, SMS gate)

### Inventory

For each part: its state, its operations, what it talks to, what is hard, and
what makes it correct.

**Internal transfer execution** (`skills/baselane-mcp/src/baselane_mcp/transfers.py`).
State: a JSON file per `state_path` with one record per confirmation token
(`submitting`, `completed`, `verification_failed`, `authentication_challenge`,
`rejected`), guarded by a `flock`. Operations: `execute_transfer`,
`get_transfer_state`. Talks to the bridge as a subprocess with a timeout. Hard:
the process may die, or give up waiting, while Baselane works on the post;
several processes and several state files submit equal plans; each write dumps
the whole dictionary. Correct if cash moves at most once per plan, a record that
allows a retry means that nothing moved or can still move, and no record is lost.

**Node GraphQL bridge** (`scripts/baselane_graphql_via_cdp.js`). State: none that
lasts beyond a call, apart from a session cache. Operation: post a GraphQL body
over one route after the other until one answers. Hard: a route that is given up
may still have delivered its post, and errors of all routes end up in one log.
Correct if its outcome tells what happened to *every* post it made.

**MCP transfer tools** (`server.py`). State: none; a tool call is a process step
sequence: submit, helper, submit again, report. Hard: between the two submissions
the lock is free for minutes. Correct if a report of success is true, an
uncertain submission is reported as one, and every call ends.

**Fold 7 MFA helper** (`scripts/baselane_fold7_mfa.py`,
`baselane_verify_bank_otp.js`). State: a JSON file with the keys of used messages.
Operation: pick the newest unused code on the phone, have it verified, record it.
Hard: the temporary file has one fixed name and there is no lock; kills between
truncate, write and replace; the bounded list of keys. Correct if no code is
reported verified twice, and, as long as runs do not overlap, the state file can be
read and keeps what was recorded until it is full.

**Savings-interest sweep** (`baselane_transfer_interest_to_eco.py`, with
`baselane_live_dao_cash_reconciliation.py`, called by the monthly close). State:
its own transfer state file; the reconciliation report; the plan whose digest is
confirmed. Operations: reconcile, dry run, apply, rebuild. Hard: what is due is
worked out afresh from balances and transaction rows that lag behind; the plan
carries a date; accounts with different rules are added up and drawn in order.
Correct if no interest is swept twice, tenants' deposits and operating floats
stay, and only the reviewed plan is submitted.

**Live accrual apply** (`baselane_apply_monthly_accruals_live.py`). State: locks,
and the live transactions themselves. Operation: compare the ledger's accruals of
a month with the live rows by marker, update and create. Hard: no idempotency
key; batches of aliased creates that may succeed in part; lost replies; the
ledger is rewritten by the export. Correct if a marker never gets a second row,
`ok` means that the live rows equal the ledger, and only what was approved by
digest is posted.

**Canonical ledger export** (`baselane_sync_cdp_deterministic.py`). State: ledger
CSV, source index, audit of pending rows, overlay, source-pipeline lock.
Operations: export under a guard, index, plan and apply native splits, reconcile,
overlay. Hard: the guard may keep the old ledger while splits are made. Correct
if no transaction is in the ledger twice, and the lock is always freed.

**Native splits** (`baselane_apply_native_splits.py`, `baselane_do_split.js`,
`baselane_native_split_plan.py`, `baselane_apply_native_split_ledger_overlay.py`) and
the split tools with the same shape. State: plan, state file, apply report, the
pipeline lock. Operations: plan, read the parent and split it, record, reconcile.
Hard: death between the split and its record; a plan made without the lock; a
mutation whose page goes away. Correct if a transaction is split once and what is
recorded has happened.

**Monthly finance-truth refresh** (`baselane_monthly_finance_truth_refresh.sh`,
started by the close and by the cron of the 28th). State: staged ledger, plan,
apply and verify reports, a refresh report per job. Operations: stage, plan by
digest, apply, sync, verify, refresh the workbooks. Hard: an authentication block
at any step, and then the reuse of a verification up to 240 minutes old; two jobs
that write the same reports; a weekly job that may end well without touching a
workbook. Correct if ok means that Baselane holds the reported accruals and if
nothing but accruals that Baselane holds gets into the workbooks.

**Source-fix approval chain** (`baselane_ecogl_source_fix_evidence.py`,
`_approval.py`, `_apply.py`, `_action_queue.py`). State: evidence, approvals bound
to hashes, action queue. Hard: approvals outlive the evidence they were given
for. Correct if nothing is applied whose evidence changed after its approval.

**Monthly close and send gates** (`baselane_financials_monthly_cron.sh`,
`_recovery_cron.sh`, `baselane_owner_email_send_guard.py`). State: a lock for the
whole close, step results, readiness reports, sent markers. Hard: a failed step
must close every gate after it; the recovery run repeats what the first run did.
Correct if nothing is sent or published on stale or failed evidence, and nothing
is sent twice.

**Lofty publication** (`lofty_monthly_publish_to_pm.py`,
`lofty_monthly_owner_email_packet.py`, `lofty_monthly_guarded_apply.py`). State: the
month sent and a lock (native route), a state file of packets (Gmail route), the
publish states of the properties; candidate packets and listing guards.
Operations: send over either route, record. Hard: some mails go and others fail,
a run dies between a mail and its record, each route has records of its own.
Correct if an owner gets one mail a month, and none within the cooldown of
another.

**Review drafts** (`send_monthly_discord_review_drafts.py` with `dedupe_`,
`reconcile_` and `merge_`). State: the plan, the sender's report with its receipts,
the merged report, the forum itself. Operations: post a header and a draft per
property, resume; delete copies, edit drafts into the next plan's, bind receipts
to a new plan. Hard: messages are parts, posted and edited one by one; tools work
on windows read earlier; the plan changes under all of them. Correct if a receipt
that is resumed, and a report that opens the send gate, stand for whole drafts.

**Further parts**, listed in `PROJECT.json` with the reason why they are not
modelled: settlement scripts (callers of `execute_transfer`, so processes of `InternalTransfer`), login recovery,
mortgage statement capture, reserve policy, Cash Flow workbooks, audits and
reports, owner statement import, queues, notifications, the MCP review pipeline,
the local model observer, dated correction scripts.

### Interactions that are modelled

* Several processes, one state file: `InternalTransfer` with a shared `FileOf`.
* Several processes, a state file each (server and sweep): the same, with
  `FileOf` one-to-one; only Baselane's idempotency key stands between them.
* Tool call and transfer: `TransferCash` extends `InternalTransfer`; each tool
  step that calls `execute_transfer` is a step of that module.
* Close, reconciliation, sweep and transfer: `InterestSweep`, where one call of
  `execute_transfer` is one step with the outcomes `TransferPromise` allows.
* Ledger export and accrual apply: `AccrualApply`, through the pipeline lock.
* Ledger export, statements and native splits: `NativeSplits`, through the lock, the
  plan, the state file, the apply report and the ledger.
* Close, cron of the 28th, accrual apply, export and workbooks: `TruthRefresh`, through
  the apply and verify reports both jobs write.
* Native sends and packets: `OwnerEmail`, through the publish states and the close,
  which writes the native route's month after the packets.
* Sender, dedupe, reconcile and merge: `ReviewDrafts`, through the forum and the reports.

## 2. The modules

| Module | Models | Checked by | Proved about |
| --- | --- | --- | --- |
| `InternalTransfer` | `execute_transfer`, the bridge's routes, Baselane | `MCInternalTransfer`, two runs | `TransferProofs` |
| `TransferPromise` | what `execute_transfer` promises of a plan | `transfer_shared` | `TransferProofs` (`TransferKeepsPromise`) |
| `TransferCash` | `transfer_cash`, `get_transfer_status` on top of it | `MCTransferCash` | `TransferProofs` |
| `Fold7Mfa` | the helper's runs, its state file, the phone | `MCFold7Mfa` | `Fold7MfaProofs` |
| `AccrualApply` | the accrual apply and the ledger export's lock | `MCAccrualApply` | `AccrualApplyProofs` |
| `InterestSweep` | reconciliation, sweep and close, for one property | `MCInterestSweep` | `InterestSweepProofs` |
| `NativeSplits` | the sync around the splits, the split scripts, the statements' apply | `MCNativeSplits` | `NativeSplitsProofs` |
| `TruthRefresh` | the refresh script, run by two jobs | `MCTruthRefresh` | `TruthRefreshProofs` |
| `OwnerEmail` | native owner emails, packets and their records | `MCOwnerEmail`, two runs | `OwnerEmailProofs` |
| `ReviewDrafts` | the sender of the drafts and three tools | `MCReviewDrafts`, two runs | `ReviewDraftsProofs` |

The `MC` modules hold only the instances' constants and symmetry sets. A
definition whose name starts with `Bug` stands before the definition it would
replace and is a plausible mistake in that place; `PROJECT.json` names under
`mutants` the property each one breaks.

### InternalTransfer

A token stands for a normalized plan: the confirmation token is the digest of
the plan, and nothing else of the plan is told apart.

| Variable | In the code |
| --- | --- |
| `disk` | the records' statuses in each state file |
| `lock` | the holder of the `flock` beside it |
| `pc`, `tok`, `mem` | where `execute_transfer` is, its token, the dictionary it loaded |
| `posts`, `otpSeen`, `wire` | the bridge: posts made, OTP error logged, the live post and its reply |
| `result` | the return value or exception of the last call |
| `orphan`, `working` | posts nobody waits for: not yet received, being worked on |
| `moved`, `otpOk` | Baselane: how often the cash moved, whether the SMS gate is open |

`Call`, `Acquire`, `ReturnPrior`, `PreflightFails`, `BeginSubmission` follow
`execute_transfer` up to the durable `submitting`; `Post`, `GiveUp`, `LogErrors`
are the bridge; `ReceiptArrives`, `ErrorsArrive`, `BridgeFails`,
`BridgeTimesOut` are the classification with its last write and the release of
the lock. The write and the release are one step: nothing that others see happens
between them, and a death between them leaves the same file as a death after.
`Crash` may strike at any step; the bridge it leaves behind may still post over
the routes it has not tried. `_write_state` replaces the file atomically, so a
file is always old or new. Baselane is external: it checks the SMS gate, then the
idempotency key (if `Dedup`), then works on the transfer, and may refuse or move
the cash at any later moment, whether or not somebody waits.

### TransferPromise

Per plan: `open`, `pending`, `done`, and how often cash moved. `Submit`, `Move`,
`Confirm`, `Retract` are the only steps. The mapping in `InternalTransfer` reads
the verdict off all state files together: done if one says `completed`, pending
if one blocks, else open.

### TransferCash

`stage` is the tool call's progress, `report` and `seen` are the last answers of
the two tools. Processes outside `Server` are scripts that call
`execute_transfer` themselves. `Outcome` is the tool's chain of `except` clauses.
The helper appears with its two outcomes, each of which may have opened the SMS
gate; its inside is `Fold7Mfa`.

### Fold7Mfa

The file system is modelled by inodes and two names (`state`, `tmp`), because all
runs open one temporary name: a run writes to the inode it opened, whatever the
name has become. `Retained` sorts keys as strings, as the code does; a message
is its numeric id, and `Digits` is the order of the strings. A code is `spent` when
Baselane accepted it and `remembered` when a run recorded it. `Accepts` is what
stands behind an exit 0 of the verifier: Baselane takes a code once. Two histories say
what the state file cannot be asked for any more: `overlapped` once two runs have been
under way at once, `full` once a run had more keys to record than the list keeps.

### AccrualApply

All fields of an accrual are one value. `rows[m]` is the sequence of live
transactions with marker `m`; a row of the old marker kind is `legacy`. The
bridge posts one body over one route after the other as in `InternalTransfer`;
Baselane carries out any subset of a body's actions. `late` is the bag of bodies
whose senders are gone.

### InterestSweep

One property. Accounts are numbered in the order in which the reconciliation
draws on them (savings by nickname, then checking). Money is counted in units.
Balances are derived: what was credited, paid and moved. `Reconciled` is the
chain from `savings_evidence` to the source transfers; `DryRun` and `Apply` build
the plan anew each time, with the date of the day, and compare digests. The close
holds one lock, so one process is enough; days advance between any two steps.

### NativeSplits

A transaction is the record the rules make of it, and the children a rule gives
it are one value, the split digest. `rules` is what the rules give today.

| Variable | In the code |
| --- | --- |
| `splits`, `pending`, `late`, `again` | Baselane: the splits made, transactions not posted, posts nobody waits for, mutations posted a second time |
| `ledger`, `index`, `plan`, `state`, `report` | the ledger CSV (parent, native children, overlaid children), the source index, the plan, the state file, the apply report |
| `lock`, `step`, `fresh`, `audit` | the pipeline lock and how far its holder is, whether the export was taken, the pending audit |
| `mem`, `todo`, `job`, `wire`, `done`, `verdict` | the apply script: state in memory, actions left, the executor's action and its mutation, the report so far |

A sync goes through `Export`, `RefreshIndex`, `SyncPlans`, the apply script,
`Reconcile` and `Overlay`; the statements' script plans without the lock
(`StatementsPlan`) and takes it for the apply (`StatementsApply`). Without `--apply`
the script plans and reports without the lock, at any moment beside a locked apply
(`DryRunReads`, `DryRunReports`, held in `dry` between them). The weekly file updates
(`baselane_weekly_file_updates_cron.sh:4936`) are a third caller of the same shape:
plan without the lock, apply under it if that is switched on, reconcile; they take no
step that the statements do not. The executor reads the parent (`PreflightPasses`),
posts, and posts again from another page if its page went away (`ActionBreaks`). A
parent that is pending, for the preflight or in the mutation's errors, is deferred
and the loop goes on (`Defers`). Of a report only what its readers take from it is kept
(`ReportDone`): the split of each action that was executed or found applied, and what
was executed if the report is ok. Files that are not written through a temporary name
may be torn by a death.

### TruthRefresh

The accruals of the month that a ledger holds are one value, their target
digest; `Mixed` stands for accruals that are nobody's target. `step` is the
script's `CURRENT_STEP`, with the sync told apart from the apply it is accounted
under. `Fail` is the trap: it writes a failed report and invalidates the report
of the failed step. The live apply is one step with the outcomes of
`AccrualApply`: reached, half done, or nothing.

`workbooks` is the set of ledgers from which the cells of the Cash Flow workbooks
came. `Weekly` may rewrite all of them, some of them or none (`Resynced`), and end well
in each case: the weekly job exits 0 when it is held for disk space
(`baselane_weekly_file_updates_cron.sh:4756`) or stale artifacts (4786), it only audits
unless `BASELANE_WEEKLY_LIVE_ACTIONS_APPROVED` is 1
(`baselane_weekly_unprocessed_pass.sh:131`), the sync leaves conflicting cells alone, and
the refresh does not call it at all unless `RUN_WEEKLY` is 1
(`baselane_monthly_finance_truth_refresh.sh:840`).

### OwnerEmail

A day stands for the seven of the cooldown. `run` is the one run at a time (closes
hold a `flock`); `result` what it knows of each property. The publish script of
the `lofty-pm` skill is external: it sends unless its own state has a mail of the
interval, then writes that state; a subprocess that fails may have done either.
Its state may be one of which no month can be made out (`month` is `None`); such a
state is passed over when a packet looks for earlier mails (`Dated`). A packet run has
packets for some of the properties (`To`); the others are `unneeded` to it, and its
record keeps what the file says of them (`Keyed`).
`NativeEnds` is the chain of outcomes at the end of `run_publish`'s caller:
sent month and lock by the tallies of all properties.

### ReviewDrafts

A draft is two messages under a header; a version of a draft is a number, and
two versions differ in both messages. A receipt is a set of message ids with the
version that was posted (`was`) and the one it is taken for (`now`, after a
merge). A tool reads a window of a thread around the receipt's messages, decides
on it (`Reconciles`, `Dedupes`), and edits or deletes message by message while the
sender may be posting. A draft that is a mixture of versions may be edited or left
alone. Header texts are recognised for July 2026 only; `Titled` says whether the
plan's month is that one, and otherwise a header counts only if the receipt names it
(`Counted`). A merge takes the verifications of any of the reports there are
(`ReconcileEnds`, `Merge`).

## 3. The runs

| Run | Instance | Question | Distinct states |
| --- | --- | --- | --- |
| `transfer_shared` | 2 processes, 2 plans, 1 file, 1 route, no dedup | are the records alone enough, and do they keep `TransferPromise`? | 18,042 (symmetry) |
| `transfer_challenge` | 2 processes, 1 plan, 1 file, 2 routes | violation, see 6 | – |
| `tool_calls` | 1 server, 1 script, 1 plan, 1 file, 2 routes, dedup, fairness | does the key make two routes safe, are reports true, do tool calls and waits for the lock end? | 79,636 |
| `mfa_runs` | 2 helpers, 3 messages over a change of digits, 2 keys kept beside the newest, 4 inodes | is a code reported verified once, and is the state file whole and complete as long as it can be? | 1,145,983 (symmetry) |
| `accrual_runs` | 2 runs, 3 markers, 2 values, batches of 2, 1 route | no duplicate, ok is current, only what was approved | 229,374 (symmetry) |
| `sweep_closes` | 1 security, 1 reserve, 1 checking account, 2 days | at most what was earned, floors, reviewed plan | 446,926 |
| `splits_runs` | 1 transaction, 2 splits, retried pages, dry runs, at most 2 splits made, fairness | split once, recorded is made, nothing twice in the ledger, the lock is freed | 1,852,928 |
| `truth_month` | 2 jobs, 3 states of the evidence | ok means live, only verified accruals get into workbooks | 1,221,982 |
| `owner_months` | 2 properties, 2 months, 3 days, at most 2 mails each | once a month, cooldown across routes, records are true | 2,365,270 (symmetry) |
| `owner_cooldown` | the same | violation, see 6 | – |
| `drafts_closes` | 2 threads of at most 6 messages, 2 versions, 4 runs, 1 fault, a month other than July 2026 | a resumed receipt and an open gate mean whole drafts | 4,816,952 |
| `drafts_retry` | the same without faults | violation, see 6 | – |

Why the bounds are enough to see the interesting cases:

* Two processes are the fewest that compete for the lock, load stale
  dictionaries and submit equal plans; two plans in one file are the fewest for
  one write to erase another's record. Two routes are the fewest for an abandoned
  post beside a live one. `OrphanLimit` stops new calls while more than that many
  abandoned posts are out: with 1, a retry still races a late transfer. The
  proofs hold for all sizes.
* One transaction is enough for `splits_runs`: records, actions and executors of
  different transactions meet only in the loop that stops at the first failure
  and in whole-file writes, both of which the proofs cover for any number. Two
  splits let a rule change between plan, apply and record; two made splits are
  the first that are too many.
* In `truth_month` the evidence changes at each point of a run and between the
  runs of two jobs, twice: once for a run and once for the one after it.
* Two owners let one mail go and the other fail; two months let a lock outlive
  its month; two mails to one owner are the first that may be too many.
* Two threads are the fewest for a report that is complete in one and not in the
  other, six messages hold two copies of a draft, four runs are a sender, a tool,
  a merge and a sender that resumes.
* In `mfa_runs` three messages and an earlier one cross the change from one to two
  digits, and the list keeps two beside the newest, so keys are dropped as well as
  overwritten: what the list lost is submitted again, and only Baselane is left to
  refuse it. Four inodes let each run have its temporary file open beside the state
  file and a new one. Runs without an overlap and with room for all keys are among the
  behaviours, and what holds only there is said of them alone (`overlapped`, `full`).
* Three markers with batches of two give one full and one short batch, and let a
  batch fail in part. `RowLimit` 2 is enough to show a duplicate.
* Two units of interest, two of other money and two days let interest arrive
  between report, plan, apply and the next close, on both kinds of savings
  account, with withdrawals from the reserve account to checking in between.

The passing runs of a module together fire each of its actions: `tool_calls`
reaches two routes and logged errors, `transfer_shared` the rest. `tool_calls` has
no `CallWrongToken` of a script, which changes only that script's result.

The deadlock check is off where a bound is used up by design: the days and
months of `OwnerEmail`, the runs of `ReviewDrafts`. Elsewhere the environment can
always move.

## 4. Assumptions

* *Fairness.* `FairSpec` asks weak fairness of a process's steps inside a call:
  a live process keeps running, and each of its waits (account query, bridge) is a
  `subprocess.run` with a timeout or ends by itself. It asks strong fairness of
  `Acquire`: `flock` does not pass a waiter over for ever while others
  take the lock again and again; Linux queues its waiters. Nothing is asked of
  Baselane, of calls, or of crashes, and a process that dies is back at `idle`,
  which is what `CallReturns` wants. `ToolFairSpec` adds weak fairness of the
  tool's own steps; the helper is a subprocess with a timeout. `NativeSplits` asks
  weak fairness of the lock holder's steps together (`HolderStep`): every subprocess
  of the sync and of the apply script has a timeout, and a timeout is one of those
  steps. A dead holder has lost its `flock`.
* *Idempotency key* (`Dedup`). The code sends `x-idempotency-key`; what Baselane does
  with it is not in the repository. Safety is therefore shown twice: by records
  without the key (one file, one route), and by the key without common records.
  With several files or routes and a key that is ignored, cash can move twice, and
  nothing is claimed there.
* *Late posts* (`Prompt`). The accrual apply has nothing against a post that
  arrives after the next run's query, and the split executor nothing against one
  that arrives after the next preflight; `accrual_runs` and `splits_runs` assume it
  arrives before.
* *Replies* (`BareReply`). A reply to a split carries a split or errors; a reply
  with neither would be recorded as applied.
* *Evidence does not return* (`Returns` of `TruthRefresh`), *drafts do not return* (of
  `ReviewDrafts`), *months in order* (`Back`), *no plan is built while a tool runs*
  (`Overlap`): operators work that way, and section 6 says what happens otherwise.
* *One refresh, one mail run at a time.* The close and the cron of the 28th hold
  locks of their own and run on different days; overlapping refreshes would share
  staged files. Emails are sent inside the close, which holds a `flock`.
* *Settled closes* (`Settled`), *cutoff today* (`CutoffToday`). `sweep_closes` assumes
  that earlier sweeps have ended and are shown before the next reconciliation,
  and that `REPORTING_CUTOFF_DATE` has its default. Section 6 says what happens
  without them.
* *Atomic replace.* A rename replaces a file at once; power loss is not modelled.

## 5. The proofs

Every invariant and every safety action property that a passing run checks is also
a theorem, for all values of the constants that the named hypotheses admit.

The first part of `TransferProofs`, about `InternalTransfer`, holds for all processes,
plans, files, routes and limits, under `ConstantsAssumption` only, which says what the constants are.

* `TypeCorrect`: one case per action.
* `RecordsAreDurable`, from `SectionInv`: a process inside the section holds its
  file's lock and has loaded exactly what is on disk, and a process in the bridge has
  a `submitting` record. That is why a dump of the whole dictionary changes one
  record only. `VerdictsDurable` alone says nothing about `mem` and is not
  inductive.
* `KeyMovesOnce` (`Dedup`, any number of files and routes), from `KeyInv`: of one plan
  at most one post is being worked on, and none once cash has moved. Without
  the count of posts in work, a settling orphan could follow a settled call.
* `CompletedIsTrue` (no condition: any files and routes, with or without the key), from
  `DoneInv`: whatever says completed, be it a record, a dictionary in memory, a
  receipt in a bridge or a return value, says so of a plan whose cash moved, and
  cash never moves back. The dictionaries matter because a dump writes all they hold.
* `RecordsMoveOnce`, `RetryIsSafe`
  (`OneFileOneRoute`, whether or not the key is honoured), from `CashInv`
  with `SectionInv`: an open record
  means that the plan is quiet (nothing moved, nothing on its way), a live post or
  an OTP reply means that it is quiet apart from that post, a receipt means that
  it moved once, and all posts and movements of a plan add up to at most one.
  The sum is what makes a timeout safe: the abandoned post is counted where it
  can still move cash, and the blocking record that is written with it keeps the
  next one away.
* `TransferKeepsPromise`: with one file and one route each step of
  `execute_transfer`, the bridge, Baselane and a crash is a step of
  `TransferPromise` or leaves its state alone. Initial states map to initial
  states (`PromiseInit`), steps to steps (`PromiseStep`).

Shared lemmas: what `Return`, `Write` and `Abandon` do to types (`ReturnTypes`,
`WriteTypes`, `AbandonTypes`), leaving the section (`LeaveSection`), which
records a step may change (`RecordStep`), that no two processes are in the bridge
for one plan (`BridgeAlone`).

Its second part, about `TransferCash`, under `ConstantsAssumption` and `ToolAssumption`, reuses them. Every
step of `ToolNext` is a step of `InternalTransfer`, leaves its variables alone, or is
`Requeue`: the second submission, which enters `execute_transfer` with the same token
and no new call (`StepKinds`). `ToolInv` adds to `SectionInv` and `DoneInv` that a tool
between its submissions is outside `execute_transfer` and that a report of done stands
for moved cash. Hence `ToolTypeCorrect`, `ToolCompletedIsTrue`,
`StatusIsOfAbandoned`, and with `KeyInv` (`Dedup`) `ToolMovesOnce` and `ReportIsTrue`.

`Fold7MfaProofs`, under `MfaAssumption` only, for any helpers, messages and `Keep`:
`TypeCorrect`; `StateIsReadable` from `FileInv`: until runs overlap at most one is under
way (`Single`), what it writes is never the inode the state file names, and it is
complete when it is renamed; `RecordsStay` from `KeptInv`: until a list is full as well,
a run's copy holds all that was recorded from the moment it has read the keys until
its new list is in place. `NothingDropped` is the fact about the string order: the
order does not matter before the list is full. `CodesAreVerifiedOnce` needs no history,
from `OnceInv`: of the runs that record a code no two record the same one, it is
spent, and it is not yet remembered. The state file is no part of the argument.

`AccrualApplyProofs`, under `AccrualAssumption` (finitely many markers, since a plan is
cut into batches; room for the two rows of an initial state):

* `TypeCorrect` and `ApprovedIsPosted`, with `RunInv`: a run past the pipeline lock holds it,
  so the ledger is still what its digest was compared with, and what it plans are
  those targets.
* `NoDuplicates` and `OkMeansCurrent` (`OneRoutePrompt`), from `CurrentInv`. What a run has not
  been answered yet is still true of the rows (a create's marker has none, an
  update's has one), what was carried out or was never planned has the wanted
  row, and at most one body is late, which is true of the rows as well. Partly
  refused bodies need no case of their own: the run ends, and the rows it left are
  those the next query reads.

`NativeSplitsProofs`, for any transactions and splits, under `SplitAssumption`:

* `TypeCorrect`, with `ShapeInv`: a job is a transaction with an action, and only while
  the lock is held.
* `SplitsOnce` (`Prompt`), from `PostInv`. A post that is on its way, waited for or
  late, was made after a preflight that saw an unsplit parent, and of a
  transaction that was not posted again at most one such post exists. Neither the
  state file nor the report is part of the argument: they may be torn.
* `RecordsAreMade` (`Prompt`, not `BareReply`), from `RecordInv`: what the state file, the
  script's memory or an ok report holds as executed, Baselane has; and it has no
  other split, by `PostInv`.
* `LedgerCountsOnce`, from `PostedInv` and `LedgerInv`: after an export each transaction
  is there once, and the overlay takes the parent away with the same step that
  adds the children.

`TruthRefreshProofs`, under `RefreshAssumption`: `TypeCorrect`; `WorkbooksFollow` from
`CheckedInv` (between the check and the end of the weekly job the ledger is the run's
target and live, so whatever part of the cells the job rewrites, completes or leaves,
nothing else gets in);
`OkIsLive` (not `Returns`) from `OldInv` and `CleanInv`: all digests are of the past, and a clean
verification whose digest is the current target was true of Baselane when it was
made, and any apply since then was of a later target, which the apply report
shows or the target rules out.

`OwnerEmailProofs`, under `EmailAssumption`: `TypeCorrect`; `NativeMailsOnce` (not `Back`)
from `NativeInv`: a native mail of a month means that the month is recorded or
locked or is the running one, and within a run a property that is untried has no
mail; `RecordsAreSent` from `PacketInv`: what a packet run counts as sent was received, and
it has a packet for some property; `PacketsRespectCooldown` from `CoolInv`: during a
packet run, of the properties it has packets for, no publish state with a month is of
today.

`InterestSweepProofs`, under `SweepAssumption`, for any accounts, days and amounts. Its
figures are sums over accounts, days and transfers, and the prover cannot do induction
over data. The first part gets around it: a sum over a finite set is what the
community modules define it to be (a fold), and of the subsets of a finite set on which
a claim fails there would be a least one (`LeastSet`), which one element more or less
refutes. That gives sums of fewer, of larger, of one more and of two disjoint sets.

* `TypeCorrect`, from `TypeInv`: sets of transfers are finite, a plan past the idle step
  has a report of its type, and no account is overdrawn (`TypeOK` says so of balances).
* `OnlyReviewedTransfers` (no condition): what is left to submit is the reviewed plan's.
* `FloorsAreKept` (`Settled`, and `DepositsIn`: the deposits are in their accounts at the
  start), from `FloorInv`. Money that is promised but not moved (`Pending`) is
  subtracted from what the property holds (`Covered`), and nothing is pending while a plan
  is made (`Quiet`), so a transfer that arrives days late was counted.
* `SweptIsEarned` (`Settled`, `CutoffToday` and `SecuritySetup`), from `EarnInv`. All that was
  moved or promised, by account, stays within that account's interest (`Within`), for the
  reserve accounts within their sum, since one may be drawn on for another; a report's
  shares on top of it do too (`Claimed`). `SecuritySetup` says that security
  accounts receive interest only, start with no more than their deposits and are drawn on
  first. Section 6 shows what is swept too much otherwise: a deposit, or an opening
  balance, above the script's fixed principal counts as interest, and interest drawn
  from another account stays due.

`ReviewDraftsProofs`, under `DraftsAssumption`:

* `TypeCorrect` (no condition), from `TypeInv`: a receipt in a report, in memory or
  resumed names messages of its thread, since threads only grow, and the body of a draft
  follows a header.
* `ReceiptsAreTrue` and `AcceptedIsInTheForum` (not `Returns`, not `Overlap`), from `SafeInv`. No
  receipt is of a later draft than the plan's, so a new plan makes receipts false only by
  making them old; one of the plan's draft has that draft whole in its thread. The tools
  keep this although they edit and delete message by message while the sender posts:
  an edit only turns a part into the plan's, and of what a deduplication is about to
  delete another live message of the same part stays (`Keeps`). A merge binds a receipt
  that is of the plan, or one that a reconciliation of this very plan found (`ProofTrue`);
  a report that is complete and ok has a receipt of its plan for each property (`FileFull`).
  `ResumedIsLive` alone says nothing of receipts in memory or of what a tool will do
  next, and is not inductive.

Only model-checked: liveness (`CallReturns`, `ToolReturns`, `LockIsFreed`), which is out of
this prover's reach together with `ENABLED`, and the three violations of section 6.
No module declares a `RECURSIVE` operator.

## 6. What the code does otherwise than it says

Three are runs that TLC refutes; the quotes are in `PROJECT.json` under `findings`.

* `transfer_challenge`: OTP text anywhere in the bridge's log makes a plan
  `authentication_challenge`, although an earlier route's post, given up by the
  bridge, may have been accepted. The documents say that no cash moved.
  (`AtMostOnce` still holds if the key is honoured.)
* `owner_cooldown`: one packet fails after others went, nothing is recorded, and the
  retry sends them again within the cooldown.
* `drafts_retry`: a refused run or a dry run overwrites the receipts of the run
  before, and the next run posts every draft again.

The others are shown by an instance or seen in the code; no run is kept for them.

* A receipt whose amount cannot be parsed (`transfers.py:659`) leaves the record
  `submitting`, and the tool reports a `validation_error` that needs no
  reconciliation (`server.py:555`), although README.md:64 of the repository says that
  uncertain submissions fail closed.
* Two helper runs read the used keys without a lock and each writes its own list
  (`baselane_fold7_mfa.py:331`): the later list drops the other's key, and a third run
  submits a code that was verified. They share the temporary file as well, so the
  state file may be left torn. `RememberedOnDisk` and `StateReadable` fail without
  `~overlapped`. What remains true, and is proved, is that no run reports the code
  verified again: Baselane refuses it.
* A refresh ends ok, with `weekly_split_cf_refresh_status` "ok", although its weekly job
  was held, only audited, or left cells in conflict
  (`baselane_monthly_finance_truth_refresh.sh:840`): the report does not say that the
  workbooks were refreshed. `workbooks' = {live}` fails at such a step.
* A publish state of which no month can be made out is dropped from the cooldown
  (`lofty_monthly_owner_email_packet.py:398`), so a packet may follow that native mail on
  the same day; `PacketAfterCooldown` is about states with a month. A run with packets
  for some properties records its month for all of them (2770, 425): for the others the
  packets then count as sent.
* `createTransaction` has no idempotency key and is posted again over the next route
  (`baselane_apply_monthly_accruals_live.py:426`): `NoNewDuplicate` fails with
  `MaxPosts = 2`.
* The sweep's plan carries today's date (`baselane_transfer_interest_to_eco.py:213`), so
  after midnight the same interest has a new token, and the uncertain record of
  the day before blocks nothing.
* Interest of a security account is drawn from a reserve account that is named
  before it (`baselane_live_dao_cash_reconciliation.py:1703`), stays due, and is drawn
  again: `SweptAtMostEarned` fails with `Security = {2}`, `Principal = <<0, 1>>`.
* The split executor re-reads the parent "immediately before mutation"
  (`baselane_do_split.js:173`), but its retry after a navigation (290-302) posts again
  without reading; `SplitAtMostOnce` excludes those transactions (`again`). With
  `BareReply = TRUE`, `RecordedIsSplit` fails.
* A reused verification is called proof of an "idempotent current state"
  (`baselane_monthly_finance_truth_refresh.sh:703`), although the canonical ledger may
  have been exported anew since: ok then says nothing of the ledger. With
  `Returns = TRUE`, `OkMeansLive` fails: a partial apply of a later target lies between
  the verification and its reuse. A dry run's `ok_dry_run` is accepted by the gate of
  `baselane_live_cf_statement_standardize.py:87`, which asks for "a verified Baselane
  truth refresh".
* With `Back = TRUE`, `NativeOncePerMonth` fails: `update_send_lock` and `clear_send_lock`
  (`lofty_monthly_publish_to_pm.py:2485`) treat another month's lock as their own. A
  property without an approved update is skipped, and the month is recorded as
  sent all the same. The lock file is not created exclusively.
* The close publishes without `--send-owner-emails`
  (`baselane_financials_monthly_cron.sh:8716`), so the send guard never allows, and the
  sends at 9190 are reached only from runs started otherwise; a blocked
  email-only run ends with 0 and is reported as sent (9214).
* With `Returns = TRUE` or `Overlap = TRUE`, `ResumedIsLive` fails: merge takes any
  verification that is later than the plan (`merge_monthly_discord_review_reports.py:235`).
  The send guard does not compare the report's plan digest with the plan; a torn
  report makes the sender post everything again; a partial match of a thread's
  name (`send_monthly_discord_review_drafts.py:255`) may pick another property's.

Three more conditions under which a property fails, with the instance that shows
it:

* `RememberedOnDisk` without `~full`, with one helper, `Keep = 99`, `Earlier = 901 .. 999`,
  `Message = {1000, 1001}`: `record_used_key` keeps the last 99 keys in *string*
  order (`baselane_fold7_mfa.py:132`), so when ids gain a digit the newest are dropped,
  and their codes are submitted again.
* `SweptAtMostEarned` with `CutoffToday = FALSE`, one savings account, three days:
  with a past `REPORTING_CUTOFF_DATE` the reconciliation leaves out the sweep of
  the day before (`baselane_live_dao_cash_reconciliation.py:1431`).
* `SweptAtMostEarned` with `Paid` including the security account: a deposit above
  the principal written into the script counts as interest
  (`baselane_live_dao_cash_reconciliation.py:1302`). `sweep_closes` therefore pays no
  deposits; deposits need the principal to be raised first.

## 7. What is left out

* Values: names, notes, amounts in cents, GraphQL text, report layout.
* `InternalTransfer`: a GraphQL error that Baselane returns after it has moved the cash
  (its reply is a receipt, or is lost); which account or balance check fails in the preflight (any
  may); the lookup of accounts, which changes nothing.
* Bridge: target selection, header capture, session cache, batch reads (the
  accrual apply's pages are read in one step).
* `Fold7Mfa`: device discovery and SMS parsing (a run may fail there); the write of the
  verified token to the browser tab.
* `AccrualApply`: resolution of property and tag names (a run may be blocked or fail).
* `InterestSweep`: other properties (they meet only in ECO's account), the audit
  that labels mirror rows, the figures of the cash report the sweep does not read.
* `NativeSplits`: records blocked for missing metadata, the allocation of amounts,
  other rows of the ledger; whether the overlay is switched on is left open.
* `TruthRefresh`: how staged accruals are worked out, insurance and owner-statement
  rows (part of the evidence), two refreshes at once, the recovery check, and the
  weekly job where another scheduler than the refresh starts it.
* `OwnerEmail`: the conditions a send needs before it starts (any may block it),
  bodies, recipients, financial patches and listing guards; a month that is guessed from
  the date of a publish state is taken to be right.
* `ReviewDrafts`: composition, delivery through other agents, cleanup and repair
  tools, the summary post; a locked thread's replacement is the same thread, with the
  rows of both.
* Parts listed in `PROJECT.json` as not modelled: reports and workbooks are
  computations over exports without concurrency; browser automation keeps no
  durable state; correction scripts ran once.

## 8. Plan

Done, in this order: `InternalTransfer`, `TransferPromise`, `TransferCash`, `Fold7Mfa`,
`AccrualApply`, `InterestSweep`, because they move cash or change books; then
`NativeSplits`, `TruthRefresh`, `OwnerEmail`, `ReviewDrafts`.

Next:

1. `SourceFix`: evidence, approval bound to hashes, apply, action queue.
2. `MonthlyClose`: the order of the close's steps and their failure marks, the
   recovery window, the send guard's evidence files; composes the promises of
   `TruthRefresh`, `InterestSweep` and `OwnerEmail`.
3. `LoftyPublish`: guards captured from the listing, guarded apply, readback.
4. Operators of the reserve policy against a reference definition.
