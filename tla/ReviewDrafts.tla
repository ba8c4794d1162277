---------------------------- MODULE ReviewDrafts ----------------------------
(***************************************************************************)
(* The drafts of the monthly summaries in the operators' review forum.     *)
(* scripts/send_monthly_discord_review_drafts.py posts a header and the    *)
(* draft of each property and keeps receipts in its report, which its next *)
(* run resumes from.  Three tools work on what was posted: dedupe_ deletes *)
(* copies, reconcile_ edits the drafts of one plan into those of the next  *)
(* and verifies them, and merge_ binds the receipts to the new plan.       *)
(*                                                                         *)
(* Discord carries a draft as two messages.  A property has one thread:    *)
(* the sender creates it, or a new one for a locked one, when it posts the *)
(* header.  One sender and one tool run at a time, side by side.           *)
(***************************************************************************)
EXTENDS Naturals, Sequences, FiniteSets

CONSTANTS
    Absent, Unsent,  \* no result in a report; a result without a receipt
    Unreadable,   \* a report that is missing, cut off, or of a failed merge
    Count,        \* properties 1 .. Count, in the order of the plan
    VersionLimit, \* bound: versions of a draft 1 .. VersionLimit
    PostLimit,    \* bound: messages in one thread
    RunLimit,     \* bound: runs of the sender and the tools
    FaultLimit,   \* bound: killed runs and failed calls to Discord
    Returns,      \* whether a plan may return to an earlier draft
    Titled,       \* whether the headers are those of July 2026
    Overlap       \* whether a plan may be built while a tool runs

Property == 1 .. Count
Version  == 1 .. VersionLimit
Plan     == [Property -> Version]
Id       == 1 .. PostLimit
Part     == 0 .. 2                 \* the header and the parts of the draft

\* A receipt: the draft in the digest that was posted, the draft it is taken
\* for, whether a merge has bound it to a plan, and the ids of its messages.
Receipt == [was : Version, now : Version, bound : BOOLEAN, ids : SUBSET Id]
Result  == Receipt \cup {Absent, Unsent}
Report  == [plan : Plan, all : BOOLEAN, ok : BOOLEAN, results : [Property -> Result]]

ASSUME DraftsAssumption ==
    /\ {Count, VersionLimit, PostLimit, RunLimit, FaultLimit} \subseteq Nat
    /\ Count > 0 /\ VersionLimit > 0 /\ {Returns, Overlap, Titled} \subseteq BOOLEAN
    /\ {Absent, Unsent} \cap Receipt = {} /\ Unreadable \notin Report

VARIABLES
    plan,    \* the plan file
    before,  \* the plan file before it
    chat,    \* chat[p]: the messages in the thread of p
    report,  \* the sender's report file
    merged,  \* the report file of the merge
    proof,   \* what the reports of reconciliations show that a merge is given
    sender,  \* the running sender
    tool,    \* the running tool
    left     \* bound: runs and faults left

vars == <<plan, before, chat, report, merged, proof, sender, tool, left>>

None    == [p \in Property |-> Absent]
NoProof == [who |-> {}, fresh |-> FALSE]
Plan1   == [p \in Property |-> 1]
Idle    == [step |-> "idle", plan |-> Plan1, sel |-> {}, want |-> {},
            prior |-> None, results |-> None]
NoTool  == [step |-> "idle", old |-> Plan1, new |-> Plan1, want |-> {},
            results |-> None, rows |-> {}, who |-> {}, sound |-> TRUE]

Init ==
    /\ plan = Plan1 /\ before = Plan1
    /\ chat = [p \in Property |-> <<>>]
    /\ report = Unreadable /\ merged = Unreadable /\ proof = NoProof
    /\ sender = Idle /\ tool = NoTool
    /\ left = [runs |-> RunLimit, faults |-> FaultLimit]

Sent(r) == r \notin {Absent, Unsent}

First(S) == CHOOSE p \in S : \A q \in S : p <= q

Starts == left.runs > 0 /\ left' = [left EXCEPT !.runs = @ - 1]
Fault  == left.faults > 0 /\ left' = [left EXCEPT !.faults = @ - 1]

\* The plan is built again, with other drafts for some properties.
NewPlan(new) ==
    /\ new # plan
    /\ Returns \/ \A p \in Property : new[p] >= plan[p]
    /\ Overlap \/ tool.step = "idle"
    /\ plan' = new /\ before' = plan /\ proof' = [proof EXCEPT !.fresh = FALSE]
    /\ UNCHANGED <<chat, report, merged, sender, tool, left>>

-----------------------------------------------------------------------------
(* The sender.                                                             *)

\* The receipt in a report that stands for the draft of p in a plan.
Delivered(file, pl, p) ==
    /\ file # Unreadable /\ Sent(file.results[p])
    /\ LET r == file.results[p] IN r.was = pl[p] \/ (r.bound /\ r.now = pl[p])

Prior(file, pl) ==
    [p \in Property |-> IF Delivered(file, pl, p) THEN file.results[p] ELSE Absent]

SenderStarts(sel, file) ==
    /\ sender.step = "idle" /\ Starts /\ (file = report \/ file # Unreadable)
    /\ sender' = [step |-> "list", plan |-> plan, sel |-> sel, want |-> sel,
                  prior |-> Prior(file, plan), results |-> None]
    /\ UNCHANGED <<plan, before, chat, report, merged, proof, tool>>

\* A refused run and a dry run write the report as well.
SendsNothing(res) ==
    /\ sender.step = "idle" /\ Starts
    /\ report' = [plan |-> plan, all |-> TRUE, ok |-> FALSE, results |-> res]
    /\ UNCHANGED <<plan, before, chat, merged, proof, sender, tool>>

Current == First(sender.want)

\* The draft of p has its result, and the run goes on with the next.
Has(p, res, step) ==
    sender' = [sender EXCEPT !.results[p] = res, !.want = @ \ {p}, !.step = step]

Posting == sender.step \in {"list", "post"} /\ sender.want # {}

Resumes ==
    /\ Posting /\ Sent(sender.prior[Current])
    /\ Has(Current, sender.prior[Current], sender.step)
    /\ UNCHANGED <<plan, before, chat, report, merged, proof, tool, left>>

\* The threads are listed once; when that fails nothing is posted.
Lists ==
    /\ sender.step = "list" /\ Posting /\ ~Sent(sender.prior[Current])
    /\ \/ sender' = [sender EXCEPT !.step = "post"] /\ UNCHANGED left
       \/ Fault /\ sender' = [sender EXCEPT !.step = "end", !.want = {},
                    !.results = [p \in Property |->
                        IF p \notin sender.want THEN sender.results[p]
                        ELSE IF Sent(sender.prior[p]) THEN sender.prior[p] ELSE Unsent]]
    /\ UNCHANGED <<plan, before, chat, report, merged, proof, tool>>

Message(part) == [part |-> part, of |-> sender.plan[Current], gone |-> FALSE]

Posts(messages) ==
    /\ Len(chat[Current]) + Len(messages) <= PostLimit
    /\ chat' = [chat EXCEPT ![Current] = @ \o messages]

Header ==
    /\ sender.step = "post" /\ Posting /\ ~Sent(sender.prior[Current])
    /\ \/ Posts(<<Message(0)>>) /\ sender' = [sender EXCEPT !.step = "body"] /\ UNCHANGED left
       \/ Fault /\ (Posts(<<Message(0)>>) \/ UNCHANGED chat) /\ Has(Current, Unsent, "post")
    /\ UNCHANGED <<plan, before, report, merged, proof, tool>>

BugHeaderMissed ==
    [was |-> sender.plan[Current], now |-> sender.plan[Current], bound |-> FALSE,
     ids |-> Len(chat[Current]) + 1 .. Len(chat[Current]) + 3]

NewReceipt ==
    [was |-> sender.plan[Current], now |-> sender.plan[Current], bound |-> FALSE,
     ids |-> Len(chat[Current]) .. Len(chat[Current]) + 2]

Body ==
    /\ sender.step = "body"
    /\ \/ /\ Posts(<<Message(1), Message(2)>>) /\ Has(Current, NewReceipt, "write")
          /\ UNCHANGED left
       \/ /\ Fault /\ Has(Current, Unsent, "write")
          /\ Posts(<<Message(1), Message(2)>>) \/ Posts(<<Message(1)>>) \/ UNCHANGED chat
    /\ UNCHANGED <<plan, before, report, merged, proof, tool>>

BugAnyResult == \A p \in sender.sel : sender.results[p] # Absent

Complete == \A p \in sender.sel : Sent(sender.results[p])

Dump(ok) ==
    report' = [plan |-> sender.plan, all |-> sender.sel = Property, ok |-> ok,
               results |-> sender.results]

\* The report is written after each draft that was posted, and at the end.
Writes ==
    /\ sender.step = "write" /\ Dump(FALSE)
    /\ sender' = [sender EXCEPT !.step = "post"]
    /\ UNCHANGED <<plan, before, chat, merged, proof, tool, left>>

SenderEnds ==
    /\ sender.step \in {"list", "post", "end"} /\ sender.want = {}
    /\ Dump(Complete) /\ sender' = Idle
    /\ UNCHANGED <<plan, before, chat, merged, proof, tool, left>>

\* A report that was being written is cut off.
SenderKilled ==
    /\ sender.step # "idle" /\ Fault /\ sender' = Idle
    /\ \/ UNCHANGED report
       \/ (sender.step = "write" \/ sender.want = {}) /\ report' = Unreadable
    /\ UNCHANGED <<plan, before, chat, merged, proof, tool>>

-----------------------------------------------------------------------------
(* The tools.  They take a send report, one property after the other.      *)

Taken == First(tool.want)

Live(p) == {i \in DOMAIN chat[p] : ~chat[p][i].gone}

\* What a read around the receipt shows: its messages, and whatever else of the
\* thread is near enough.
Windows == {rows \in SUBSET Live(Taken) :
                Sent(tool.results[Taken]) /\ Live(Taken) \cap tool.results[Taken].ids \subseteq rows}

ToolStarts(kind, file, sel) ==
    /\ tool.step = "idle" /\ file # Unreadable /\ Starts
    /\ tool' = [NoTool EXCEPT !.step = kind, !.old = before, !.new = plan,
                !.want = {p \in sel : file.results[p] # Absent}, !.results = file.results]
    /\ UNCHANGED <<plan, before, chat, report, merged, proof, sender>>

Headers(p, rows) == {i \in rows : chat[p][i].part = 0}

\* The messages among rows that may be parts of the draft before or after.
Parts(p, rows) ==
    {i \in rows : \/ chat[p][i].part = 1
                  \/ chat[p][i].part = 2 /\ chat[p][i].of \in {tool.old[p], tool.new[p]}}

\* The parts are one draft, first part first, each of one of the versions.
Spells(p, rows, versions) ==
    /\ Cardinality(rows) = 2
    /\ LET i == First(rows)
           j == First(rows \ {i})
       IN /\ chat[p][i].part = 1 /\ chat[p][j].part = 2
          /\ {chat[p][i].of, chat[p][j].of} \subseteq versions

NextProperty(p, good, sound) ==
    tool' = [tool EXCEPT !.want = @ \ {p}, !.rows = {}, !.sound = @ /\ sound,
                         !.who = IF good THEN @ \cup {p} ELSE @]

\* The headers a reconciliation counts: the receipt's own and, by their text,
\* those of July 2026.
Counted(p, rows) ==
    IF Titled THEN Headers(p, rows) ELSE Headers(p, rows) \cap tool.results[p].ids

\* A draft is current, or is edited when it is the previous one or a mixture;
\* anything else is left alone, and so is a mixture whose text, cut anew into
\* as many parts, is not cut where it was.
Reconciles(rows) ==
    LET p     == Taken
        parts == Parts(p, rows)
        one   == Cardinality(Counted(p, rows)) = 1
        new   == Spells(p, parts, {tool.new[p]})
        known == Spells(p, parts, {tool.old[p], tool.new[p]})
    IN \/ new /\ NextProperty(p, one, one)
       \/ ~new /\ known /\ tool.step = "reconcile" /\ tool' = [tool EXCEPT !.rows = parts]
       \/ ~new /\ NextProperty(p, FALSE, FALSE)

\* One part after the other, also when the edit of one fails.
Edits ==
    /\ tool.step = "reconcile" /\ tool.rows # {}
    /\ LET i == First(tool.rows) IN
       /\ \/ chat' = [chat EXCEPT ![Taken][i].of = tool.new[Taken]] /\ UNCHANGED left
          \/ Fault /\ UNCHANGED chat
       /\ IF tool.rows = {i} THEN NextProperty(Taken, FALSE, FALSE)
          ELSE tool' = [tool EXCEPT !.rows = @ \ {i}]
    /\ UNCHANGED <<plan, before, report, merged, proof, sender>>

\* The report says nothing of the plan it verified, only when.  A merge is given
\* this report, or the earlier ones with it, or without it when it has issues.
ReconcileEnds ==
    /\ tool.step \in {"reconcile", "verify"} /\ tool.want = {}
    /\ \/ tool.sound /\ proof' = [who |-> tool.who, fresh |-> TRUE]
       \/ tool.sound /\ proof' = [who |-> proof.who \cup tool.who, fresh |-> proof.fresh]
       \/ ~tool.sound /\ proof' \in {proof, NoProof}
    /\ tool' = NoTool
    /\ UNCHANGED <<plan, before, chat, report, merged, sender, left>>

Last(S) == CHOOSE i \in S : \A j \in S : j <= i

\* Of the headers the receipt's own is kept, or the last; of a part the last.
Copies(p, rows) ==
    LET headers == Headers(p, rows)
        own     == headers \cap tool.results[p].ids
        part(k) == {i \in rows : chat[p][i].part = k /\ chat[p][i].of = tool.new[p]}
        spare(S) == IF S = {} THEN {} ELSE S \ {Last(S)}
    IN (IF own = {} THEN spare(headers) ELSE headers \ own)
       \cup spare(part(1)) \cup spare(part(2))

Dedupes(rows) ==
    IF Copies(Taken, rows) = {} THEN NextProperty(Taken, FALSE, FALSE)
    ELSE tool' = [tool EXCEPT !.rows = Copies(Taken, rows)]

\* Without a receipt, or when the read fails, the property is passed over.
Reads ==
    /\ tool.step # "idle" /\ tool.want # {} /\ tool.rows = {}
    /\ \/ Fault /\ NextProperty(Taken, FALSE, FALSE)
       \/ ~Sent(tool.results[Taken]) /\ NextProperty(Taken, FALSE, FALSE) /\ UNCHANGED left
       \/ \E rows \in Windows :
             /\ IF tool.step = "dedupe" THEN Dedupes(rows) ELSE Reconciles(rows)
             /\ UNCHANGED left
    /\ UNCHANGED <<plan, before, chat, report, merged, proof, sender>>

Deletes ==
    /\ tool.step = "dedupe" /\ tool.rows # {}
    /\ LET i == First(tool.rows) IN
       /\ \/ chat' = [chat EXCEPT ![Taken][i].gone = TRUE] /\ UNCHANGED left
          \/ Fault /\ UNCHANGED chat
       /\ IF tool.rows = {i} THEN NextProperty(Taken, FALSE, FALSE)
          ELSE tool' = [tool EXCEPT !.rows = @ \ {i}]
    /\ UNCHANGED <<plan, before, report, merged, proof, sender>>

DedupeEnds ==
    /\ tool.step = "dedupe" /\ tool.want = {} /\ tool' = NoTool
    /\ UNCHANGED <<plan, before, chat, report, merged, proof, sender, left>>

ToolKilled ==
    /\ tool.step # "idle" /\ Fault /\ tool' = NoTool
    /\ UNCHANGED <<plan, before, chat, report, merged, proof, sender>>

\* Of several reports the later one has precedence.
SourceOf(p, first, second) == IF Sent(second.results[p]) THEN second ELSE first

BugStaleProof(p, source) ==
    IF source.plan = plan THEN source.results[p].now = plan[p] ELSE p \in proof.who

\* A receipt of the current plan, or one the reconciliation found current.
Verified(p, source) ==
    IF source.plan = plan THEN source.results[p].now = plan[p]
    ELSE proof.fresh /\ p \in proof.who

Merge(first, second) ==
    /\ tool.step = "idle" /\ Starts
    /\ \/ /\ Unreadable \notin {first, second}
          /\ \A p \in Property :
                LET source == SourceOf(p, first, second)
                IN Sent(source.results[p]) /\ Verified(p, source)
          /\ merged' = [plan |-> plan, all |-> TRUE, ok |-> TRUE,
                        results |-> [p \in Property |->
                            [SourceOf(p, first, second).results[p] EXCEPT
                                !.now = plan[p], !.bound = TRUE]]]
       \/ merged' = Unreadable
    /\ UNCHANGED <<plan, before, chat, report, proof, sender, tool>>

Next ==
    \/ \E new \in Plan : NewPlan(new)
    \/ \E sel \in SUBSET Property \ {{}}, file \in {report, merged} : SenderStarts(sel, file)
    \/ \E res \in {None, [p \in Property |-> Unsent]} : SendsNothing(res)
    \/ Resumes \/ Lists \/ Header \/ Body \/ Writes \/ SenderEnds \/ SenderKilled
    \/ \E kind \in {"reconcile", "verify", "dedupe"}, file \in {report, merged},
          sel \in SUBSET Property \ {{}} : ToolStarts(kind, file, sel)
    \/ Reads \/ Edits \/ ReconcileEnds \/ Deletes \/ DedupeEnds \/ ToolKilled
    \/ \E first, second \in {report, merged} : Merge(first, second)

Spec == Init /\ [][Next]_vars

-----------------------------------------------------------------------------
File == Report \cup {Unreadable}

\* The state has its type, and a receipt names messages of its thread.
TypeOK ==
    /\ plan \in Plan /\ before \in Plan
    /\ \A p \in Property :
          /\ Len(chat[p]) <= PostLimit
          /\ \A i \in DOMAIN chat[p] :
                chat[p][i] \in [part : Part, of : Version, gone : BOOLEAN]
    /\ {report, merged} \subseteq File
    /\ proof \in [who : SUBSET Property, fresh : BOOLEAN]
    /\ sender.step \in {"idle", "list", "post", "body", "write", "end"}
    /\ tool.step \in {"idle", "reconcile", "verify", "dedupe"}
    /\ \A p \in Property : Sent(sender.results[p]) =>
          sender.results[p].ids \subseteq DOMAIN chat[p]

\* The thread of p shows a header and the whole draft of a version.
Shows(p, v) ==
    \A k \in Part : \E i \in Live(p) :
        chat[p][i].part = k /\ (k = 0 \/ chat[p][i].of = v)

\* A draft that the sender would take as delivered for the current plan is in
\* the forum, whole, in the version of the plan: receipts survive edits, deleted
\* copies, merges and kills only as far as they are true.
ResumedIsLive ==
    \A file \in {report, merged}, p \in Property :
        Delivered(file, plan, p) => Shows(p, plan[p])

\* What the send guard asks of a report (discord_all_property_send_guard): when
\* it is of the current plan, the drafts of all properties are in the forum.
GateMeansLive ==
    \A file \in {report, merged} :
        file # Unreadable /\ file.all /\ file.ok /\ file.plan = plan =>
            \A p \in Property : Shows(p, plan[p])

\* docs/runbooks/monthly.md: "a retry does not duplicate prior posts".  A run
\* posts no draft whose thread shows it already.
NoRepost ==
    [][\A p \in Property :
          Len(chat'[p]) = Len(chat[p]) + 1 /\ chat'[p][Len(chat'[p])].part = 0
              => ~Shows(p, sender.plan[p])]_vars
=============================================================================
