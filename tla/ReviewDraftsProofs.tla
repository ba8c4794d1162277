------------------------- MODULE ReviewDraftsProofs -------------------------
(***************************************************************************)
(* Theorems about ReviewDrafts, for all values of its constants.  TypeInv  *)
(* gives the state its type and receipts messages of their threads.        *)
(* SafeInv says that receipts are true: none is of a later draft than the  *)
(* plan's, and one of the plan's draft has it in the thread.  It holds     *)
(* because what the tools do to a thread loses no part of those drafts.    *)
(***************************************************************************)
EXTENDS ReviewDrafts, FiniteSetTheorems, SequenceTheorems, WellFoundedInduction, TLAPS

(***************************************************************************)
(* First and last of a finite set of numbers.                              *)
(***************************************************************************)

\* A non-empty collection of subsets of a finite set has a least member.
LEMMA LeastSet ==
    ASSUME NEW S, IsFiniteSet(S), NEW B, B \subseteq SUBSET S, B # {}
    PROVE  \E T \in B : \A U \in B : U \subseteq T => U = T
<1>1. IsWellFoundedOn(StrictSubsetOrdering(S), SUBSET S)
  BY FS_StrictSubsetOrderingWellFounded, FS_FiniteSubsetsOfFinite
<1>2. PICK T \in B : \A U \in B : ~ (<<U, T>> \in StrictSubsetOrdering(S))
  BY <1>1, WFMin
<1>3. \A U \in B : U \subseteq T => U = T
  BY <1>2 DEF StrictSubsetOrdering
<1> QED BY <1>2, <1>3

LEMMA FirstIn ==
    ASSUME NEW S \in SUBSET Nat, IsFiniteSet(S), S # {}
    PROVE  First(S) \in S
<1> DEFINE Low(i) == {j \in S : j <= i}
           B == {Low(i) : i \in S}
<1>1. PICK T \in B : \A U \in B : U \subseteq T => U = T
  <2> DEFINE M == S
  <2>1. B \subseteq SUBSET M /\ B # {} /\ IsFiniteSet(M)
    OBVIOUS
  <2> HIDE DEF B, M
  <2> QED BY <2>1, LeastSet
<1>2. PICK i \in S : T = Low(i)
  OBVIOUS
<1>3. \A j \in S : i <= j
  <2> SUFFICES ASSUME NEW j \in S, ~ (i <= j) PROVE FALSE
    OBVIOUS
  <2>0. i \in Nat /\ j \in Nat /\ \A k \in S : k \in Nat
    OBVIOUS
  <2>a. j < i
    BY <2>0
  <2>b. i <= i /\ ~ (i <= j) /\ \A k \in S : k <= j => k <= i
    BY <2>0, <2>a
  <2>1. Low(j) \subseteq Low(i) /\ i \in Low(i) /\ i \notin Low(j)
    BY <2>b, Zenon
  <2>2. Low(j) \in B
    OBVIOUS
  <2> HIDE DEF B, Low
  <2> QED BY <1>1, <1>2, <2>1, <2>2
<1> QED BY <1>3 DEF First

LEMMA LastIn ==
    ASSUME NEW S \in SUBSET Nat, IsFiniteSet(S), S # {}
    PROVE  Last(S) \in S
<1> DEFINE High(i) == {j \in S : i <= j}
           B == {High(i) : i \in S}
<1>1. PICK T \in B : \A U \in B : U \subseteq T => U = T
  <2> DEFINE M == S
  <2>1. B \subseteq SUBSET M /\ B # {} /\ IsFiniteSet(M)
    OBVIOUS
  <2> HIDE DEF B, M
  <2> QED BY <2>1, LeastSet
<1>2. PICK i \in S : T = High(i)
  OBVIOUS
<1>3. \A j \in S : j <= i
  <2> SUFFICES ASSUME NEW j \in S, ~ (j <= i) PROVE FALSE
    OBVIOUS
  <2>0. i \in Nat /\ j \in Nat /\ \A k \in S : k \in Nat
    OBVIOUS
  <2>a. i < j
    BY <2>0
  <2>b. i <= i /\ ~ (j <= i) /\ \A k \in S : j <= k => i <= k
    BY <2>0, <2>a
  <2>1. High(j) \subseteq High(i) /\ i \in High(i) /\ i \notin High(j)
    BY <2>b, Zenon
  <2>2. High(j) \in B
    OBVIOUS
  <2> HIDE DEF B, High
  <2> QED BY <1>1, <1>2, <2>1, <2>2
<1> QED BY <1>3 DEF Last

LEMMA Bounds ==
    /\ Count \in Nat \ {0} /\ VersionLimit \in Nat \ {0} /\ PostLimit \in Nat
    /\ RunLimit \in Nat /\ FaultLimit \in Nat /\ Plan1 \in Plan
    /\ Property \subseteq Nat /\ IsFiniteSet(Property)
<1>1. Count \in Nat \ {0} /\ VersionLimit \in Nat \ {0} /\ PostLimit \in Nat /\ RunLimit \in Nat /\ FaultLimit \in Nat
  BY DraftsAssumption
<1>2. IsFiniteSet(1 .. Count)
  BY <1>1, FS_Interval
<1> QED BY <1>1, <1>2 DEF Property, Plan1, Plan, Version

\* The property a run is at.
LEMMA CurrentIn ==
    ASSUME NEW S \in SUBSET Property, S # {}
    PROVE  First(S) \in S
<1>1. IsFiniteSet(S) /\ S \in SUBSET Nat
  BY Bounds, FS_Subset
<1> QED BY <1>1, FirstIn

(***************************************************************************)
(* The types.                                                              *)
(***************************************************************************)

Messages == [part : Part, of : Version, gone : BOOLEAN]
Results  == [Property -> Result]

SenderType ==
    [step : {"idle", "list", "post", "body", "write", "end"}, plan : Plan,
     sel : SUBSET Property, want : SUBSET Property, prior : Results, results : Results]

ToolType ==
    [step : {"idle", "reconcile", "verify", "dedupe"}, old : Plan, new : Plan,
     want : SUBSET Property, results : Results, rows : SUBSET Nat, who : SUBSET Property,
     sound : BOOLEAN]

\* The receipts among results name messages of their threads.
Known(results, c) ==
    \A p \in Property : Sent(results[p]) => results[p].ids \subseteq DOMAIN c[p]

VarTypes ==
    /\ plan \in Plan /\ before \in Plan
    /\ chat \in [Property -> Seq(Messages)]
    /\ \A p \in Property : Len(chat[p]) <= PostLimit
    /\ report \in File /\ merged \in File
    /\ proof \in [who : SUBSET Property, fresh : BOOLEAN]
    /\ sender \in SenderType /\ tool \in ToolType
    /\ left \in [runs : Nat, faults : Nat]

\* A run that is at a property has one, and what a tool works on is there.
SenderPlace == sender.step = "body" => sender.want # {} /\ 1 \in DOMAIN chat[Current]
ToolPlace   == tool.rows # {} => tool.want # {} /\ tool.rows \subseteq DOMAIN chat[Taken]

Receipts ==
    /\ report # Unreadable => Known(report.results, chat)
    /\ merged # Unreadable => Known(merged.results, chat)
    /\ Known(sender.prior, chat) /\ Known(sender.results, chat)

TypeInv == VarTypes /\ SenderPlace /\ ToolPlace /\ Receipts

LEMMA TypeEnough == TypeInv => TypeOK
<1> SUFFICES ASSUME TypeInv PROVE TypeOK
  OBVIOUS
<1>1. VarTypes /\ Known(sender.results, chat)
  BY DEF TypeInv, Receipts
<1>2. \A p \in Property : \A i \in DOMAIN chat[p] : chat[p][i] \in Messages
  BY <1>1, ElementOfSeq, LenProperties DEF VarTypes
<1>3. sender.step \in {"idle", "list", "post", "body", "write", "end"}
      /\ tool.step \in {"idle", "reconcile", "verify", "dedupe"}
  BY <1>1 DEF VarTypes, SenderType, ToolType
<1> QED BY <1>1, <1>2, <1>3 DEF VarTypes, TypeOK, Known, Messages

LEMMA ReceiptIs ==
    ASSUME NEW r \in Result
    PROVE  /\ Sent(r) => r \in Receipt
           /\ ~ Sent(Absent) /\ ~ Sent(Unsent)
BY DEF Result, Sent

LEMMA NoneIsKnown ==
    ASSUME NEW r \in {Absent, Unsent}, NEW c
    PROVE  [p \in Property |-> r] \in Results /\ Known([p \in Property |-> r], c)
BY DEF Results, Result, Known, Sent

LEMMA TypeInit == Init => TypeInv
<1> SUFFICES ASSUME Init PROVE TypeInv
  OBVIOUS
<1>1. None \in Results /\ \A c : Known(None, c)
  BY NoneIsKnown DEF None
<1>2. Idle \in SenderType
  BY <1>1, Bounds DEF Idle, SenderType
<1>3. NoTool \in ToolType
  BY <1>1, Bounds DEF NoTool, ToolType
<1>4. chat \in [Property -> Seq(Messages)] /\ \A p \in Property : Len(chat[p]) <= PostLimit
  BY Bounds DEF Init
<1>5. VarTypes
  BY <1>2, <1>3, <1>4, Bounds DEF Init, VarTypes, File, NoProof
<1>6. SenderPlace /\ ToolPlace
  BY DEF Init, SenderPlace, ToolPlace, Idle, NoTool
<1>7. Receipts
  BY <1>1 DEF Init, Receipts, Idle
<1> QED BY <1>5, <1>6, <1>7 DEF TypeInv

(***************************************************************************)
(* What the parts of the steps do.                                         *)
(***************************************************************************)

SenderSteps == {"idle", "list", "post", "body", "write", "end"}

LEMMA Types ==
    ASSUME TypeInv
    PROVE  /\ plan \in Plan /\ before \in Plan /\ chat \in [Property -> Seq(Messages)]
           /\ report \in File /\ merged \in File /\ sender \in SenderType /\ tool \in ToolType
           /\ left \in [runs : Nat, faults : Nat]
           /\ proof \in [who : SUBSET Property, fresh : BOOLEAN]
           /\ \A p \in Property : Len(chat[p]) \in Nat /\ DOMAIN chat[p] = 1 .. Len(chat[p]) /\ Len(chat[p]) <= PostLimit
           /\ \A p \in Property : \A i \in DOMAIN chat[p] : chat[p][i] \in Messages
BY LenProperties DEF TypeInv, VarTypes

LEMMA ThreadTypes ==
    ASSUME NEW c \in [Property -> Seq(Messages)], NEW p \in Property
    PROVE  /\ c[p] \in Seq(Messages) /\ Len(c[p]) \in Nat /\ DOMAIN c[p] = 1 .. Len(c[p])
           /\ \A i \in DOMAIN c[p] : c[p][i] \in Messages
BY LenProperties

LEMMA HasStep ==
    ASSUME TypeInv, NEW p \in Property, NEW res \in Result, NEW step \in SenderSteps, Has(p, res, step)
    PROVE  /\ sender' \in SenderType /\ sender'.plan = sender.plan /\ sender'.prior = sender.prior
           /\ sender'.want = sender.want \ {p} /\ sender'.step = step /\ sender'.sel = sender.sel
           /\ sender'.results = [sender.results EXCEPT ![p] = res]
BY Types DEF Has, SenderType, SenderSteps, Results

LEMMA NextPropertyStep ==
    ASSUME TypeInv, NEW p \in Property, NEW good \in BOOLEAN, NEW sound \in BOOLEAN, NextProperty(p, good, sound)
    PROVE  /\ tool' \in ToolType /\ tool'.rows = {} /\ tool'.step = tool.step
           /\ tool'.new = tool.new
           /\ tool'.who = IF good THEN tool.who \cup {p} ELSE tool.who
BY Types DEF NextProperty, ToolType

LEMMA RowsStep ==
    ASSUME TypeInv, NEW rows \in SUBSET Nat, tool' = [tool EXCEPT !.rows = rows]
    PROVE  /\ tool' \in ToolType /\ tool'.rows = rows /\ tool'.step = tool.step /\ tool'.want = tool.want
           /\ tool'.new = tool.new /\ tool'.who = tool.who
BY Types DEF ToolType

LEMMA PostsStep ==
    ASSUME TypeInv, sender.want # {}, NEW ms \in Seq(Messages), Posts(ms)
    PROVE  /\ Current \in Property
           /\ chat' \in [Property -> Seq(Messages)]
           /\ \A p \in Property : Len(chat'[p]) <= PostLimit
           /\ \A p \in Property \ {Current} : chat'[p] = chat[p]
           /\ Len(chat'[Current]) = Len(chat[Current]) + Len(ms)
           /\ \A i \in DOMAIN chat[Current] : i \in DOMAIN chat'[Current] /\ chat'[Current][i] = chat[Current][i]
           /\ \A i \in 1 .. Len(ms) : /\ Len(chat[Current]) + i \in DOMAIN chat'[Current]
                                      /\ chat'[Current][Len(chat[Current]) + i] = ms[i]
<1> DEFINE p == Current
           s == chat[p]
<1>1. sender.want \in SUBSET Property
  BY Types DEF SenderType
<1>2. p \in Property
  BY <1>1, CurrentIn DEF Current
<1>3. s \in Seq(Messages) /\ Len(s) \in Nat /\ DOMAIN s = 1 .. Len(s) /\ Len(ms) \in Nat
  BY <1>2, Types, ThreadTypes, LenProperties
<1>4. chat' = [chat EXCEPT ![p] = s \o ms] /\ Len(s) + Len(ms) <= PostLimit
  BY DEF Posts
<1> HIDE DEF p, s
<1>5. /\ s \o ms \in Seq(Messages) /\ Len(s \o ms) = Len(s) + Len(ms)
      /\ \A i \in 1 .. Len(s) + Len(ms) : (s \o ms)[i] = IF i <= Len(s) THEN s[i] ELSE ms[i - Len(s)]
  BY <1>3, ConcatProperties
<1>6. DOMAIN (s \o ms) = 1 .. (Len(s) + Len(ms))
  BY <1>5, LenProperties
<1>7. chat' \in [Property -> Seq(Messages)] /\ chat'[p] = s \o ms /\ \A q \in Property \ {p} : chat'[q] = chat[q]
  BY <1>2, <1>4, <1>5, Types
<1>8. \A q \in Property : Len(chat'[q]) <= PostLimit
  BY <1>4, <1>5, <1>7, Types
<1>9. \A i \in DOMAIN s : i \in DOMAIN (s \o ms) /\ (s \o ms)[i] = s[i]
  BY <1>3, <1>5, <1>6
<1>10. \A i \in 1 .. Len(ms) : Len(s) + i \in DOMAIN (s \o ms) /\ (s \o ms)[Len(s) + i] = ms[i]
  <2> TAKE i \in 1 .. Len(ms)
  <2>1. Len(s) + i \in 1 .. Len(s) + Len(ms) /\ ~ (Len(s) + i <= Len(s)) /\ (Len(s) + i) - Len(s) = i
    BY <1>3
  <2> QED BY <1>5, <1>6, <2>1
<1> QED BY <1>2, <1>5, <1>7, <1>8, <1>9, <1>10 DEF p, s

\* One message of a thread becomes m.
LEMMA MarkStep ==
    ASSUME TypeInv, NEW p \in Property, NEW i \in DOMAIN chat[p], NEW m \in Messages,
           chat' = [chat EXCEPT ![p][i] = m]
    PROVE  /\ chat' \in [Property -> Seq(Messages)]
           /\ \A q \in Property : Len(chat'[q]) <= PostLimit /\ DOMAIN chat'[q] = DOMAIN chat[q]
           /\ \A q \in Property \ {p} : chat'[q] = chat[q]
           /\ \A j \in DOMAIN chat[p] \ {i} : chat'[p][j] = chat[p][j]
           /\ chat'[p][i] = m
<1> DEFINE s == chat[p]
           u == [s EXCEPT ![i] = m]
<1>1. s \in Seq(Messages) /\ i \in 1 .. Len(s) /\ DOMAIN s = 1 .. Len(s) /\ Len(s) <= PostLimit
  BY Types, ThreadTypes
<1>2. chat' = [chat EXCEPT ![p] = u]
  OBVIOUS
<1>3. u \in Seq(Messages) /\ Len(u) = Len(s) /\ \A j \in 1 .. Len(s) : u[j] = IF j = i THEN m ELSE s[j]
  <2> HIDE DEF s
  <2> QED BY <1>1, ExceptSeq
<1>4. DOMAIN u = DOMAIN s
  OBVIOUS
<1> HIDE DEF u
<1>5. chat' \in [Property -> Seq(Messages)] /\ chat'[p] = u /\ \A q \in Property \ {p} : chat'[q] = chat[q]
  BY <1>2, <1>3, Types
<1>6. \A q \in Property : Len(chat'[q]) <= PostLimit /\ DOMAIN chat'[q] = DOMAIN chat[q]
  BY <1>1, <1>3, <1>4, <1>5, Types
<1> QED BY <1>1, <1>3, <1>5, <1>6

\* A thread loses no message number.
Grows == \A p \in Property : DOMAIN chat[p] \subseteq DOMAIN chat'[p]

LEMMA KnownGrows ==
    ASSUME Grows, NEW results, Known(results, chat)
    PROVE  Known(results, chat')
BY DEF Grows, Known

LEMMA KnownUpdate ==
    ASSUME NEW results \in Results, NEW c, Known(results, c), NEW p \in Property, NEW r \in Result,
           Sent(r) => r.ids \subseteq DOMAIN c[p]
    PROVE  [results EXCEPT ![p] = r] \in Results /\ Known([results EXCEPT ![p] = r], c)
BY DEF Known, Results

\* The results of a file.
LEMMA FileIs ==
    ASSUME NEW file \in File, file # Unreadable
    PROVE  file \in Report /\ file.results \in Results /\ file.plan \in Plan
BY DEF File, Report, Results

LEMMA FileKnown ==
    ASSUME TypeInv, NEW file \in {report, merged}, file # Unreadable
    PROVE  file \in Report /\ file.results \in Results /\ Known(file.results, chat)
<1>1. file \in File /\ Known(file.results, chat)
  BY Types DEF TypeInv, Receipts
<1> QED BY <1>1, FileIs

LEMMA LeftStep ==
    ASSUME TypeInv, Starts \/ Fault
    PROVE  left' \in [runs : Nat, faults : Nat]
BY Types DEF Starts, Fault

LEMMA SenderStays ==
    ASSUME TypeInv, Grows, UNCHANGED sender
    PROVE  SenderPlace'
<1> SUFFICES ASSUME sender.step = "body" PROVE sender.want # {} /\ 1 \in DOMAIN chat'[Current]
  BY DEF SenderPlace, Current
<1>1. sender.want # {} /\ 1 \in DOMAIN chat[Current]
  BY DEF TypeInv, SenderPlace
<1>2. Current \in Property
  BY <1>1, Types, CurrentIn DEF SenderType, Current
<1> QED BY <1>1, <1>2 DEF Grows

LEMMA TakenIn == ASSUME TypeInv, tool.want # {} PROVE Taken \in Property /\ Taken \in tool.want
BY Types, CurrentIn DEF ToolType, Taken

LEMMA CurrentOne == ASSUME TypeInv, sender.want # {} PROVE Current \in Property /\ Current \in sender.want
BY Types, CurrentIn DEF SenderType, Current

LEMMA ToolStays ==
    ASSUME TypeInv, Grows, UNCHANGED tool
    PROVE  ToolPlace'
<1> SUFFICES ASSUME tool.rows # {} PROVE tool.want # {} /\ tool.rows \subseteq DOMAIN chat'[Taken]
  BY DEF ToolPlace, Taken
<1>1. tool.want # {} /\ tool.rows \subseteq DOMAIN chat[Taken]
  BY DEF TypeInv, ToolPlace
<1> QED BY <1>1, TakenIn DEF Grows

LEMMA GrowsSame == ASSUME UNCHANGED chat PROVE Grows
BY DEF Grows

\* A step of the sender that leaves the files and the tool alone.
LEMMA SenderTypes ==
    ASSUME TypeInv, Grows, UNCHANGED <<plan, before, report, merged, proof, tool>>,
           chat' \in [Property -> Seq(Messages)], \A p \in Property : Len(chat'[p]) <= PostLimit,
           left' \in [runs : Nat, faults : Nat], sender' \in SenderType, SenderPlace',
           Known(sender'.prior, chat'), Known(sender'.results, chat')
    PROVE  TypeInv'
<1>1. VarTypes'
  BY DEF TypeInv, VarTypes
<1>2. Receipts'
  BY KnownGrows DEF TypeInv, Receipts
<1>3. ToolPlace'
  BY ToolStays
<1> QED BY <1>1, <1>2, <1>3 DEF TypeInv

\* A step of the tool that leaves the files and the sender alone.
LEMMA ToolTypes ==
    ASSUME TypeInv, Grows, UNCHANGED <<plan, before, report, merged, sender>>,
           chat' \in [Property -> Seq(Messages)], \A p \in Property : Len(chat'[p]) <= PostLimit,
           proof' \in [who : SUBSET Property, fresh : BOOLEAN],
           left' \in [runs : Nat, faults : Nat], tool' \in ToolType, ToolPlace'
    PROVE  TypeInv'
<1>1. VarTypes'
  BY DEF TypeInv, VarTypes
<1>2. Receipts'
  BY KnownGrows DEF TypeInv, Receipts
<1>3. SenderPlace'
  BY SenderStays
<1> QED BY <1>1, <1>2, <1>3 DEF TypeInv

LEMMA PriorIs ==
    ASSUME TypeInv, NEW file \in {report, merged}, NEW pl \in Plan
    PROVE  Prior(file, pl) \in Results /\ Known(Prior(file, pl), chat)
<1>1. ASSUME NEW p \in Property
      PROVE  Prior(file, pl)[p] \in Result /\ (Sent(Prior(file, pl)[p]) => Prior(file, pl)[p].ids \subseteq DOMAIN chat[p])
  <2>1. CASE Delivered(file, pl, p)
    <3>1. file # Unreadable /\ Prior(file, pl)[p] = file.results[p]
      BY <2>1 DEF Delivered, Prior
    <3> QED BY <3>1, FileKnown DEF Known, Results
  <2>2. CASE ~ Delivered(file, pl, p)
    <3>1. Prior(file, pl)[p] = Absent
      BY <2>2 DEF Prior
    <3> QED BY <3>1 DEF Result, Sent
  <2> QED BY <2>1, <2>2
<1>2. Prior(file, pl) \in Results
  BY <1>1 DEF Prior, Results
<1> QED BY <1>1, <1>2 DEF Known

LEMMA NewReceiptIs ==
    ASSUME TypeInv, sender.want # {}, 1 \in DOMAIN chat[Current],
           Posts(<<Message(1), Message(2)>>)
    PROVE  /\ NewReceipt \in Receipt /\ NewReceipt.ids \subseteq DOMAIN chat'[Current]
           /\ NewReceipt.was = sender.plan[Current] /\ NewReceipt.now = sender.plan[Current]
<1> DEFINE n == Len(chat[Current])
           v == sender.plan[Current]
<1>1. Current \in Property
  BY CurrentOne
<1>2. v \in Version
  BY <1>1, Types DEF SenderType, Plan
<1>3. <<Message(1), Message(2)>> \in Seq(Messages) /\ Len(<<Message(1), Message(2)>>) = 2
  <2>1. Message(1) \in Messages /\ Message(2) \in Messages
    BY <1>2 DEF Message, Messages, Part
  <2> QED BY <2>1
<1>4. chat' \in [Property -> Seq(Messages)] /\ Len(chat'[Current]) = n + 2 /\ Len(chat'[Current]) <= PostLimit
  BY <1>1, <1>3, PostsStep
<1>5. DOMAIN chat'[Current] = 1 .. Len(chat'[Current]) /\ n \in Nat /\ 1 <= n
  BY <1>1, <1>4, Types, ThreadTypes
<1>6. n .. n + 2 \subseteq 1 .. (n + 2) /\ n .. n + 2 \subseteq Id
  BY <1>4, <1>5, Bounds DEF Id
<1> HIDE DEF n, v
<1>7. NewReceipt = [was |-> v, now |-> v, bound |-> FALSE, ids |-> n .. n + 2]
  BY DEF NewReceipt, n, v
<1>8. NewReceipt \in Receipt /\ NewReceipt.ids \subseteq DOMAIN chat'[Current] /\ NewReceipt.was = v /\ NewReceipt.now = v
  BY <1>2, <1>4, <1>5, <1>6, <1>7 DEF Receipt
<1> QED BY <1>8 DEF v

\* A draft has its result.
LEMMA HasTypes ==
    ASSUME TypeInv, Grows, UNCHANGED <<plan, before, report, merged, proof, tool>>,
           chat' \in [Property -> Seq(Messages)], \A p \in Property : Len(chat'[p]) <= PostLimit,
           left' \in [runs : Nat, faults : Nat],
           NEW p \in Property, NEW r \in Result, NEW step \in SenderSteps, step # "body",
           Has(p, r, step), Sent(r) => r.ids \subseteq DOMAIN chat'[p]
    PROVE  TypeInv'
<1>1. /\ sender' \in SenderType /\ sender'.prior = sender.prior /\ sender'.step = step
      /\ sender'.results = [sender.results EXCEPT ![p] = r]
  BY HasStep
<1>2. sender.results \in Results /\ Known(sender.results, chat) /\ Known(sender.prior, chat)
  BY Types DEF SenderType, TypeInv, Receipts
<1>3. Known(sender.results, chat') /\ Known(sender.prior, chat')
  BY <1>2, KnownGrows
<1>4. Known(sender'.results, chat') /\ Known(sender'.prior, chat')
  BY <1>1, <1>2, <1>3, KnownUpdate
<1>5. SenderPlace'
  BY <1>1 DEF SenderPlace
<1> QED BY <1>1, <1>4, <1>5, SenderTypes

LEMMA TypesResumes ==
    ASSUME TypeInv, Resumes
    PROVE  TypeInv'
<1>1. Current \in Property
  BY CurrentOne DEF Resumes, Posting
<1>2. sender.prior[Current] \in Result /\ sender.step \in SenderSteps /\ sender.step # "body"
  BY <1>1, Types DEF SenderType, SenderSteps, Results, Resumes, Posting
<1>3. Grows
  BY GrowsSame DEF Resumes
<1>4. Sent(sender.prior[Current]) => sender.prior[Current].ids \subseteq DOMAIN chat'[Current]
  BY <1>1 DEF Resumes, TypeInv, Receipts, Known
<1>5. /\ chat' \in [Property -> Seq(Messages)] /\ \A p \in Property : Len(chat'[p]) <= PostLimit
      /\ left' \in [runs : Nat, faults : Nat]
  BY Types DEF Resumes
<1> QED BY <1>1, <1>2, <1>3, <1>4, <1>5, HasTypes DEF Resumes

LEMMA TypesLists ==
    ASSUME TypeInv, Lists
    PROVE  TypeInv'
<1> DEFINE rs == [p \in Property |->
                     IF p \notin sender.want THEN sender.results[p]
                     ELSE IF Sent(sender.prior[p]) THEN sender.prior[p] ELSE Unsent]
<1>1. /\ sender \in SenderType /\ sender.results \in Results /\ sender.prior \in Results
      /\ Known(sender.results, chat) /\ Known(sender.prior, chat)
  BY Types DEF SenderType, TypeInv, Receipts
<1>2. rs \in Results /\ Known(rs, chat)
  <2>1. \A p \in Property : rs[p] \in Result /\ (Sent(rs[p]) => rs[p].ids \subseteq DOMAIN chat[p])
    BY <1>1 DEF Results, Result, Known, Sent
  <2> QED BY <2>1 DEF Results, Known
<1>3. /\ UNCHANGED <<plan, before, chat, report, merged, proof, tool>>
      /\ left' \in [runs : Nat, faults : Nat]
  BY Types, LeftStep DEF Lists
<1>4. \/ sender' = [sender EXCEPT !.step = "post"]
      \/ sender' = [sender EXCEPT !.step = "end", !.want = {}, !.results = rs]
  BY DEF Lists
<1> HIDE DEF rs
<1>5. /\ sender' \in SenderType /\ sender'.step # "body" /\ sender'.prior = sender.prior
      /\ sender'.results \in {sender.results, rs}
  BY <1>1, <1>2, <1>4 DEF SenderType
<1>6. SenderPlace' /\ Known(sender'.prior, chat') /\ Known(sender'.results, chat')
  BY <1>1, <1>2, <1>3, <1>5 DEF SenderPlace
<1> QED BY <1>3, <1>5, <1>6, GrowsSame, Types, SenderTypes

\* The messages that the sender posts.
LEMMA MessageType ==
    ASSUME TypeInv, sender.want # {}, NEW k \in Part
    PROVE  /\ Message(k) \in Messages /\ <<Message(k)>> \in Seq(Messages)
           /\ Message(k).part = k /\ Message(k).of = sender.plan[Current] /\ ~ Message(k).gone
<1>1. sender.plan[Current] \in Version
  BY CurrentOne, Types DEF SenderType, Plan
<1>2. Message(k) \in Messages /\ Message(k).part = k /\ Message(k).of = sender.plan[Current] /\ ~ Message(k).gone
  BY <1>1 DEF Message, Messages
<1> QED BY <1>2

LEMMA PostsGrows ==
    ASSUME TypeInv, sender.want # {}, NEW ms \in Seq(Messages), Posts(ms) \/ UNCHANGED chat
    PROVE  /\ Grows /\ chat' \in [Property -> Seq(Messages)]
           /\ \A p \in Property : Len(chat'[p]) <= PostLimit
<1>1. CASE Posts(ms)
  <2>1. \A p \in Property : DOMAIN chat[p] \subseteq DOMAIN chat'[p]
    BY <1>1, PostsStep
  <2> QED BY <1>1, <2>1, PostsStep DEF Grows
<1>2. CASE UNCHANGED chat
  BY <1>2, Types, GrowsSame
<1> QED BY <1>1, <1>2

LEMMA TypesHeader ==
    ASSUME TypeInv, Header
    PROVE  TypeInv'
<1>1. sender.want # {} /\ Current \in Property /\ UNCHANGED <<plan, before, report, merged, proof, tool>>
  BY CurrentOne DEF Header, Posting
<1>2. <<Message(0)>> \in Seq(Messages) /\ Len(<<Message(0)>>) = 1
  BY <1>1, MessageType DEF Part
<1>3. CASE Posts(<<Message(0)>>) /\ sender' = [sender EXCEPT !.step = "body"] /\ UNCHANGED left
  <2>1. Grows /\ chat' \in [Property -> Seq(Messages)] /\ \A p \in Property : Len(chat'[p]) <= PostLimit
    BY <1>1, <1>2, <1>3, PostsGrows
  <2>2. sender' \in SenderType /\ sender'.want = sender.want
        /\ sender'.prior = sender.prior /\ sender'.results = sender.results
    BY <1>3, Types DEF SenderType
  <2>3. SenderPlace'
    <3>1. Len(chat'[Current]) = Len(chat[Current]) + 1
      BY <1>1, <1>2, <1>3, PostsStep
    <3>2. Len(chat[Current]) \in Nat /\ DOMAIN chat'[Current] = 1 .. Len(chat'[Current])
      BY <1>1, <2>1, Types, ThreadTypes
    <3>3. 1 \in DOMAIN chat'[Current]
      BY <3>1, <3>2
    <3> QED BY <1>1, <2>2, <3>3 DEF SenderPlace, Current
  <2>4. Known(sender'.prior, chat') /\ Known(sender'.results, chat')
    BY <2>1, <2>2, KnownGrows DEF TypeInv, Receipts
  <2> QED BY <1>1, <1>3, <2>1, <2>2, <2>3, <2>4, Types, SenderTypes
<1>4. CASE Fault /\ (Posts(<<Message(0)>>) \/ UNCHANGED chat) /\ Has(Current, Unsent, "post")
  <2>1. Grows /\ chat' \in [Property -> Seq(Messages)] /\ \A p \in Property : Len(chat'[p]) <= PostLimit
    BY <1>1, <1>2, <1>4, PostsGrows
  <2>2. "post" \in SenderSteps /\ "post" # "body" /\ Unsent \in Result /\ ~ Sent(Unsent)
    BY DEF SenderSteps, Result, Sent
  <2> QED BY <1>1, <1>4, <2>1, <2>2, LeftStep, HasTypes
<1> QED BY <1>3, <1>4 DEF Header

LEMMA TypesBody ==
    ASSUME TypeInv, Body
    PROVE  TypeInv'
<1>1. /\ sender.want # {} /\ Current \in Property /\ 1 \in DOMAIN chat[Current]
      /\ UNCHANGED <<plan, before, report, merged, proof, tool>>
  BY CurrentOne DEF Body, TypeInv, SenderPlace
<1>2. "write" \in SenderSteps /\ "write" # "body" /\ Unsent \in Result /\ ~ Sent(Unsent)
  BY DEF SenderSteps, Result, Sent
<1>3. <<Message(1)>> \in Seq(Messages) /\ <<Message(1), Message(2)>> \in Seq(Messages)
  <2>1. Message(1) \in Messages /\ Message(2) \in Messages
    BY <1>1, MessageType DEF Part
  <2> QED BY <2>1
<1>4. CASE Posts(<<Message(1), Message(2)>>) /\ Has(Current, NewReceipt, "write") /\ UNCHANGED left
  <2>1. Grows /\ chat' \in [Property -> Seq(Messages)] /\ \A p \in Property : Len(chat'[p]) <= PostLimit
    BY <1>1, <1>3, <1>4, PostsGrows
  <2>2. NewReceipt \in Result /\ NewReceipt.ids \subseteq DOMAIN chat'[Current]
    BY <1>1, <1>4, NewReceiptIs DEF Result
  <2> QED BY <1>1, <1>2, <1>4, <2>1, <2>2, Types, HasTypes
<1>5. CASE /\ Fault /\ Has(Current, Unsent, "write")
           /\ Posts(<<Message(1), Message(2)>>) \/ Posts(<<Message(1)>>) \/ UNCHANGED chat
  <2>1. Grows /\ chat' \in [Property -> Seq(Messages)] /\ \A p \in Property : Len(chat'[p]) <= PostLimit
    BY <1>1, <1>3, <1>5, PostsGrows
  <2> QED BY <1>1, <1>2, <1>5, <2>1, LeftStep, HasTypes
<1> QED BY <1>4, <1>5 DEF Body

\* A step that leaves the threads and the two runs alone.
LEMMA FileTypes ==
    ASSUME TypeInv, UNCHANGED <<chat, tool>>, plan' \in Plan, before' \in Plan,
           proof' \in [who : SUBSET Property, fresh : BOOLEAN], left' \in [runs : Nat, faults : Nat],
           report' \in File, merged' \in File,
           report' # Unreadable => Known(report'.results, chat),
           merged' # Unreadable => Known(merged'.results, chat),
           sender' \in SenderType, SenderPlace', Known(sender'.prior, chat), Known(sender'.results, chat)
    PROVE  TypeInv'
<1>1. VarTypes'
  BY DEF TypeInv, VarTypes
<1>2. Receipts'
  BY DEF Receipts
<1>3. ToolPlace'
  BY GrowsSame, ToolStays
<1> QED BY <1>1, <1>2, <1>3 DEF TypeInv

\* What a step that leaves files, threads and sender alone keeps of them.
LEMMA StaysKnown ==
    ASSUME TypeInv
    PROVE  /\ report # Unreadable => Known(report.results, chat)
           /\ merged # Unreadable => Known(merged.results, chat)
           /\ Known(sender.prior, chat) /\ Known(sender.results, chat)
           /\ UNCHANGED <<sender, chat>> => SenderPlace'
<1>1. UNCHANGED <<sender, chat>> => SenderPlace'
  BY GrowsSame, SenderStays
<1> QED BY <1>1 DEF TypeInv, Receipts

LEMMA TypesNewPlan ==
    ASSUME TypeInv, NEW new \in Plan, NewPlan(new)
    PROVE  TypeInv'
<1>1. proof' \in [who : SUBSET Property, fresh : BOOLEAN]
  BY Types DEF NewPlan
<1> QED BY <1>1, StaysKnown, FileTypes, Types DEF NewPlan

LEMMA TypesSenderStarts ==
    ASSUME TypeInv, NEW sel \in SUBSET Property, NEW file \in {report, merged}, SenderStarts(sel, file)
    PROVE  TypeInv'
<1>1. Prior(file, plan) \in Results /\ Known(Prior(file, plan), chat)
  BY PriorIs, Types
<1>2. None \in Results /\ Known(None, chat)
  BY NoneIsKnown DEF None
<1>3. /\ sender' = [step |-> "list", plan |-> plan, sel |-> sel, want |-> sel,
                  prior |-> Prior(file, plan), results |-> None]
      /\ UNCHANGED <<plan, before, chat, report, merged, proof, tool>>
      /\ left' \in [runs : Nat, faults : Nat]
  BY LeftStep DEF SenderStarts
<1>4. sender' \in SenderType /\ sender'.step # "body" /\ sender'.prior = Prior(file, plan) /\ sender'.results = None
  BY <1>1, <1>2, <1>3, Types DEF SenderType
<1>5. SenderPlace'
  BY <1>4 DEF SenderPlace
<1> QED BY <1>1, <1>2, <1>3, <1>4, <1>5, StaysKnown, FileTypes, Types

LEMMA TypesSendsNothing ==
    ASSUME TypeInv, NEW res \in {None, [p \in Property |-> Unsent]}, SendsNothing(res)
    PROVE  TypeInv'
<1>1. res \in Results /\ Known(res, chat)
  BY NoneIsKnown DEF None
<1>2. /\ report' = [plan |-> plan, all |-> TRUE, ok |-> FALSE, results |-> res]
      /\ UNCHANGED <<plan, before, chat, merged, proof, sender, tool>>
      /\ left' \in [runs : Nat, faults : Nat]
  BY LeftStep DEF SendsNothing
<1>3. report' \in File /\ report'.results = res
  BY <1>1, <1>2, Types DEF File, Report, Results
<1> QED BY <1>1, <1>2, <1>3, StaysKnown, FileTypes, Types

LEMMA DumpIs ==
    ASSUME TypeInv, NEW ok \in BOOLEAN, Dump(ok)
    PROVE  /\ report' \in File /\ report'.results = sender.results /\ report'.plan = sender.plan
           /\ report'.ok = ok /\ (report'.all <=> sender.sel = Property) /\ report' # Unreadable
<1>1. report' \in Report /\ report'.results = sender.results /\ report'.plan = sender.plan
           /\ report'.ok = ok /\ (report'.all <=> sender.sel = Property)
  BY Types DEF Dump, Report, SenderType, Results
<1> QED BY <1>1, DraftsAssumption DEF File

LEMMA IdleIs ==
    /\ Idle \in SenderType /\ Idle.step = "idle" /\ Idle.prior = None /\ Idle.results = None /\ Idle.plan = Plan1
    /\ None \in Results /\ \A c : Known(None, c)
<1>1. None \in Results /\ \A c : Known(None, c)
  BY NoneIsKnown DEF None
<1> QED BY <1>1, Bounds DEF Idle, SenderType

LEMMA TypesWrites ==
    ASSUME TypeInv, Writes
    PROVE  TypeInv'
<1>1. /\ report' \in File /\ report'.results = sender.results
      /\ UNCHANGED <<plan, before, chat, merged, proof, tool, left>>
  BY DumpIs DEF Writes
<1>2. sender' \in SenderType /\ sender'.step = "post" /\ sender'.prior = sender.prior /\ sender'.results = sender.results
  BY Types DEF Writes, SenderType
<1>3. SenderPlace'
  BY <1>2 DEF SenderPlace
<1> QED BY <1>1, <1>2, <1>3, StaysKnown, FileTypes, Types

LEMMA TypesSenderEnds ==
    ASSUME TypeInv, SenderEnds
    PROVE  TypeInv'
<1>0. Complete \in BOOLEAN
  BY DEF Complete, Sent
<1>1. /\ report' \in File /\ report'.results = sender.results
      /\ UNCHANGED <<plan, before, chat, merged, proof, tool, left>>
      /\ sender' = Idle
  BY <1>0, DumpIs DEF SenderEnds
<1>3. SenderPlace'
  BY <1>1, IdleIs DEF SenderPlace
<1> QED BY <1>1, <1>3, IdleIs, StaysKnown, FileTypes, Types

LEMMA TypesSenderKilled ==
    ASSUME TypeInv, SenderKilled
    PROVE  TypeInv'
<1>1. /\ report' \in {report, Unreadable} /\ sender' = Idle
      /\ UNCHANGED <<plan, before, chat, merged, proof, tool>>
      /\ left' \in [runs : Nat, faults : Nat]
  BY LeftStep DEF SenderKilled
<1>2. report' \in File /\ (report' # Unreadable => report' = report)
  BY <1>1, Types DEF File
<1>3. SenderPlace'
  BY <1>1, IdleIs DEF SenderPlace
<1> QED BY <1>1, <1>2, <1>3, IdleIs, StaysKnown, FileTypes, Types

\* What a merge binds.
Bound(r, v) == [r EXCEPT !.now = v, !.bound = TRUE]

LEMMA BoundIs ==
    ASSUME NEW r \in Receipt, NEW v \in Version
    PROVE  /\ Bound(r, v) \in Receipt /\ Bound(r, v).ids = r.ids /\ Bound(r, v).was = r.was /\ Bound(r, v).now = v
           /\ Sent(Bound(r, v))
<1>1. Bound(r, v) \in Receipt /\ Bound(r, v).ids = r.ids /\ Bound(r, v).was = r.was /\ Bound(r, v).now = v
  BY DEF Bound, Receipt
<1> QED BY <1>1, DraftsAssumption DEF Sent

Merged(first, second) ==
    [p \in Property |-> Bound(SourceOf(p, first, second).results[p], plan[p])]

LEMMA MergeIs ==
    ASSUME TypeInv, NEW first \in {report, merged}, NEW second \in {report, merged}, Merge(first, second)
    PROVE  /\ UNCHANGED <<plan, before, chat, report, proof, sender, tool>>
           /\ left' \in [runs : Nat, faults : Nat]
           /\ \/ merged' = Unreadable
              \/ /\ Unreadable \notin {first, second}
                 /\ \A p \in Property : /\ SourceOf(p, first, second) \in {first, second}
                                        /\ Sent(SourceOf(p, first, second).results[p])
                                        /\ SourceOf(p, first, second).results[p] \in Receipt
                                        /\ Verified(p, SourceOf(p, first, second))
                 /\ merged' = [plan |-> plan, all |-> TRUE, ok |-> TRUE, results |-> Merged(first, second)]
                 /\ Merged(first, second) \in Results /\ Known(Merged(first, second), chat)
<1>1. UNCHANGED <<plan, before, chat, report, proof, sender, tool>> /\ left' \in [runs : Nat, faults : Nat]
  BY LeftStep DEF Merge
<1>2. SUFFICES ASSUME merged' # Unreadable
               PROVE  /\ Unreadable \notin {first, second}
                      /\ \A p \in Property : /\ SourceOf(p, first, second) \in {first, second}
                                             /\ Sent(SourceOf(p, first, second).results[p])
                                             /\ SourceOf(p, first, second).results[p] \in Receipt
                                             /\ Verified(p, SourceOf(p, first, second))
                      /\ merged' = [plan |-> plan, all |-> TRUE, ok |-> TRUE, results |-> Merged(first, second)]
                      /\ Merged(first, second) \in Results /\ Known(Merged(first, second), chat)
  BY <1>1
<1>3. /\ Unreadable \notin {first, second}
      /\ \A p \in Property : /\ Sent(SourceOf(p, first, second).results[p])
                             /\ Verified(p, SourceOf(p, first, second))
      /\ merged' = [plan |-> plan, all |-> TRUE, ok |-> TRUE, results |-> Merged(first, second)]
  BY <1>2 DEF Merge, Merged, Bound
<1>4. /\ first.results \in Results /\ Known(first.results, chat)
      /\ second.results \in Results /\ Known(second.results, chat)
  BY <1>3, FileKnown
<1>5. \A p \in Property : SourceOf(p, first, second) \in {first, second}
  BY DEF SourceOf
<1>6. \A p \in Property : SourceOf(p, first, second).results[p] \in Receipt
                          /\ SourceOf(p, first, second).results[p].ids \subseteq DOMAIN chat[p]
  <2> TAKE p \in Property
  <2> DEFINE s == SourceOf(p, first, second)
  <2>1. s.results \in Results /\ Known(s.results, chat) /\ Sent(s.results[p])
    BY <1>3, <1>4, <1>5
  <2> HIDE DEF s
  <2>2. s.results[p] \in Result
    BY <2>1 DEF Results
  <2>3. s.results[p] \in Receipt /\ s.results[p].ids \subseteq DOMAIN chat[p]
    BY <2>1, <2>2, ReceiptIs DEF Known
  <2> QED BY <2>3 DEF s
<1>7. \A p \in Property : plan[p] \in Version
  BY Types DEF Plan
<1>8. \A p \in Property : Merged(first, second)[p] \in Receipt /\ Merged(first, second)[p].ids \subseteq DOMAIN chat[p]
  <2> TAKE p \in Property
  <2>1. Merged(first, second)[p] = Bound(SourceOf(p, first, second).results[p], plan[p])
    BY DEF Merged
  <2> QED BY <2>1, <1>6, <1>7, BoundIs
<1>9. Merged(first, second) \in Results
  <2>1. \A p \in Property : Merged(first, second)[p] \in Result
    BY <1>8 DEF Result
  <2> QED BY <2>1 DEF Merged, Results
<1>10. Known(Merged(first, second), chat)
  BY <1>8 DEF Known
<1> QED BY <1>3, <1>5, <1>6, <1>9, <1>10

LEMMA TypesMerge ==
    ASSUME TypeInv, NEW first \in {report, merged}, NEW second \in {report, merged}, Merge(first, second)
    PROVE  TypeInv'
<1>1. /\ UNCHANGED <<plan, before, chat, report, proof, sender, tool>>
      /\ left' \in [runs : Nat, faults : Nat]
  BY MergeIs
<1>2. merged' \in File /\ (merged' # Unreadable => Known(merged'.results, chat))
  <2>1. CASE merged' = Unreadable
    BY <2>1 DEF File
  <2>2. CASE merged' # Unreadable
    <3>1. /\ merged' = [plan |-> plan, all |-> TRUE, ok |-> TRUE, results |-> Merged(first, second)]
          /\ Merged(first, second) \in Results /\ Known(Merged(first, second), chat)
      BY <2>2, MergeIs
    <3>2. merged' \in File /\ merged'.results = Merged(first, second)
      BY <3>1, Types DEF File, Report, Results
    <3> QED BY <3>1, <3>2
  <2> QED BY <2>1, <2>2
<1> QED BY <1>1, <1>2, StaysKnown, FileTypes, Types

LEMMA NoToolIs ==
    /\ NoTool \in ToolType /\ NoTool.rows = {} /\ NoTool.who = {} /\ NoTool.step = "idle"
<1>1. None \in Results
  BY IdleIs
<1> QED BY <1>1, Bounds DEF NoTool, ToolType

LEMMA ToolStartsIs ==
    ASSUME TypeInv, NEW kind \in {"reconcile", "verify", "dedupe"}, NEW file \in {report, merged},
           NEW sel \in SUBSET Property, ToolStarts(kind, file, sel)
    PROVE  /\ UNCHANGED <<plan, before, chat, report, merged, proof, sender>>
           /\ left' \in [runs : Nat, faults : Nat]
           /\ tool' \in ToolType /\ tool'.rows = {} /\ tool'.who = {} /\ tool'.new = plan
<1>1. UNCHANGED <<plan, before, chat, report, merged, proof, sender>> /\ left' \in [runs : Nat, faults : Nat]
  BY LeftStep DEF ToolStarts
<1>2. file.results \in Results
  BY FileKnown DEF ToolStarts
<1>3. tool' = [NoTool EXCEPT !.step = kind, !.old = before, !.new = plan,
                !.want = {p \in sel : file.results[p] # Absent}, !.results = file.results]
  BY DEF ToolStarts
<1>4. {p \in sel : file.results[p] # Absent} \in SUBSET Property
  OBVIOUS
<1>5. tool' \in ToolType /\ tool'.rows = {} /\ tool'.who = {} /\ tool'.new = plan
  BY <1>2, <1>3, <1>4, NoToolIs, Types DEF ToolType
<1> QED BY <1>1, <1>5

LEMMA TypesToolStarts ==
    ASSUME TypeInv, NEW kind \in {"reconcile", "verify", "dedupe"}, NEW file \in {report, merged},
           NEW sel \in SUBSET Property, ToolStarts(kind, file, sel)
    PROVE  TypeInv'
<1>1. /\ UNCHANGED <<plan, before, chat, report, merged, proof, sender>>
      /\ left' \in [runs : Nat, faults : Nat]
      /\ tool' \in ToolType /\ tool'.rows = {}
  BY ToolStartsIs
<1>2. ToolPlace'
  BY <1>1 DEF ToolPlace
<1> QED BY <1>1, <1>2, ToolTypes, GrowsSame, Types

\* A tool that reads keeps what it sees, rows, or goes on with the next property.
LEMMA ReadsIs ==
    ASSUME TypeInv, Reads
    PROVE  /\ UNCHANGED <<plan, before, chat, report, merged, proof, sender>>
           /\ left' \in [runs : Nat, faults : Nat]
           /\ tool.step # "idle" /\ tool.want # {} /\ tool.rows = {} /\ Taken \in Property
           /\ \/ NextProperty(Taken, FALSE, FALSE)
              \/ \E rows \in SUBSET Live(Taken) : IF tool.step = "dedupe" THEN Dedupes(rows) ELSE Reconciles(rows)
<1>1. UNCHANGED <<plan, before, chat, report, merged, proof, sender>>
  BY DEF Reads
<1>2. left' \in [runs : Nat, faults : Nat]
  BY LeftStep, Types DEF Reads
<1>3. tool.step # "idle" /\ tool.want # {} /\ tool.rows = {} /\ Taken \in Property
  BY TakenIn DEF Reads
<1>4. \/ NextProperty(Taken, FALSE, FALSE)
      \/ \E rows \in SUBSET Live(Taken) : IF tool.step = "dedupe" THEN Dedupes(rows) ELSE Reconciles(rows)
  BY DEF Reads, Windows
<1> QED BY <1>1, <1>2, <1>3, <1>4

LEMMA ReconcilesIs ==
    ASSUME TypeInv, tool.want # {}, NEW rows \in SUBSET Live(Taken), Reconciles(rows)
    PROVE  \/ /\ Spells(Taken, Parts(Taken, rows), {tool.new[Taken]})
              /\ NextProperty(Taken, Cardinality(Counted(Taken, rows)) = 1, Cardinality(Counted(Taken, rows)) = 1)
           \/ /\ Spells(Taken, Parts(Taken, rows), {tool.old[Taken], tool.new[Taken]})
              /\ tool.step = "reconcile" /\ tool' = [tool EXCEPT !.rows = Parts(Taken, rows)]
           \/ NextProperty(Taken, FALSE, FALSE)
BY DEF Reconciles

LEMMA LiveIn == ASSUME TypeInv, NEW p \in Property PROVE Live(p) \subseteq DOMAIN chat[p] /\ DOMAIN chat[p] \subseteq Nat
<1>1. DOMAIN chat[p] = 1 .. Len(chat[p]) /\ Len(chat[p]) \in Nat
  BY Types
<1> QED BY <1>1 DEF Live

LEMMA CopiesIn == ASSUME NEW p, NEW rows PROVE Copies(p, rows) \subseteq rows
<1> DEFINE part(k) == {i \in rows : chat[p][i].part = k /\ chat[p][i].of = tool.new[p]}
           spare(S) == IF S = {} THEN {} ELSE S \ {Last(S)}
           headers == Headers(p, rows)
           own == headers \cap tool.results[p].ids
<1>1. headers \subseteq rows /\ part(1) \subseteq rows /\ part(2) \subseteq rows
  BY DEF Headers
<1>2. \A S : spare(S) \subseteq S
  OBVIOUS
<1>3. Copies(p, rows) = (IF own = {} THEN spare(headers) ELSE headers \ own) \cup spare(part(1)) \cup spare(part(2))
  BY DEF Copies
<1> HIDE DEF part, spare, headers, own
<1> QED BY <1>1, <1>2, <1>3

\* A tool goes on with the next property, or works on messages of this one.
LEMMA PlaceAfter ==
    ASSUME TypeInv, tool.want # {}, Grows,
           \/ \E good \in BOOLEAN, sound \in BOOLEAN : NextProperty(Taken, good, sound)
           \/ \E rows \in SUBSET DOMAIN chat[Taken] : tool' = [tool EXCEPT !.rows = rows]
    PROVE  tool' \in ToolType /\ ToolPlace'
<1>0. Taken \in Property
  BY TakenIn
<1>1. CASE \E good \in BOOLEAN, sound \in BOOLEAN : NextProperty(Taken, good, sound)
  <2>1. tool' \in ToolType /\ tool'.rows = {}
    BY <1>0, <1>1, NextPropertyStep
  <2> QED BY <2>1 DEF ToolPlace
<1>2. CASE \E rows \in SUBSET DOMAIN chat[Taken] : tool' = [tool EXCEPT !.rows = rows]
  <2>1. PICK rows \in SUBSET DOMAIN chat[Taken] : tool' = [tool EXCEPT !.rows = rows]
    BY <1>2
  <2>2. rows \in SUBSET Nat
    BY <1>0, LiveIn
  <2>3. tool' \in ToolType /\ tool'.rows = rows /\ tool'.want = tool.want
    BY <2>1, <2>2, RowsStep
  <2>4. Taken' = Taken
    BY <2>3 DEF Taken
  <2>5. rows \subseteq DOMAIN chat'[Taken]
    BY <1>0 DEF Grows
  <2> QED BY <2>3, <2>4, <2>5 DEF ToolPlace
<1> QED BY <1>1, <1>2

LEMMA TypesReads ==
    ASSUME TypeInv, Reads
    PROVE  TypeInv'
<1>1. /\ UNCHANGED <<plan, before, chat, report, merged, proof, sender>>
      /\ left' \in [runs : Nat, faults : Nat]
      /\ tool.want # {} /\ Taken \in Property
      /\ \/ NextProperty(Taken, FALSE, FALSE)
         \/ \E rows \in SUBSET Live(Taken) : IF tool.step = "dedupe" THEN Dedupes(rows) ELSE Reconciles(rows)
  BY ReadsIs
<1>2. \/ \E good \in BOOLEAN, sound \in BOOLEAN : NextProperty(Taken, good, sound)
      \/ \E rows \in SUBSET DOMAIN chat[Taken] : tool' = [tool EXCEPT !.rows = rows]
  <2> DEFINE Goes  == \E good \in BOOLEAN, sound \in BOOLEAN : NextProperty(Taken, good, sound)
             Works == \E rows \in SUBSET DOMAIN chat[Taken] : tool' = [tool EXCEPT !.rows = rows]
  <2>1. CASE NextProperty(Taken, FALSE, FALSE)
    BY <2>1
  <2>2. ASSUME NEW rows \in SUBSET Live(Taken), Dedupes(rows)
        PROVE  Goes \/ Works
    <3>1. Copies(Taken, rows) \in SUBSET DOMAIN chat[Taken]
      BY <1>1, CopiesIn, LiveIn
    <3>2. NextProperty(Taken, FALSE, FALSE) \/ tool' = [tool EXCEPT !.rows = Copies(Taken, rows)]
      BY <2>2 DEF Dedupes
    <3> QED BY <3>1, <3>2
  <2>3. ASSUME NEW rows \in SUBSET Live(Taken), Reconciles(rows)
        PROVE  Goes \/ Works
    <3>1. Parts(Taken, rows) \in SUBSET DOMAIN chat[Taken]
      BY <1>1, LiveIn DEF Parts
    <3>2. (Cardinality(Counted(Taken, rows)) = 1) \in BOOLEAN
      OBVIOUS
    <3>3. \/ NextProperty(Taken, Cardinality(Counted(Taken, rows)) = 1, Cardinality(Counted(Taken, rows)) = 1)
          \/ tool' = [tool EXCEPT !.rows = Parts(Taken, rows)]
          \/ NextProperty(Taken, FALSE, FALSE)
      BY <1>1, <2>3, ReconcilesIs
    <3> QED BY <3>1, <3>2, <3>3
  <2> QED BY <1>1, <2>1, <2>2, <2>3
<1>3. Grows
  BY <1>1, GrowsSame
<1>4. tool' \in ToolType /\ ToolPlace'
  BY <1>1, <1>2, <1>3, PlaceAfter
<1> QED BY <1>1, <1>3, <1>4, ToolTypes, Types

\* The row an edit or a deletion is at.
LEMMA RowAt ==
    ASSUME TypeInv, tool.rows # {}
    PROVE  /\ tool.want # {} /\ Taken \in Property /\ First(tool.rows) \in tool.rows
           /\ tool.rows \subseteq DOMAIN chat[Taken] /\ DOMAIN chat[Taken] \subseteq Nat
           /\ tool.new[Taken] \in Version
<1>1. tool.want # {} /\ tool.rows \subseteq DOMAIN chat[Taken] /\ Taken \in Property
  BY TakenIn DEF TypeInv, ToolPlace
<1>2. DOMAIN chat[Taken] = 1 .. Len(chat[Taken]) /\ Len(chat[Taken]) \in Nat
  BY <1>1, Types
<1>3. IsFiniteSet(tool.rows) /\ tool.rows \in SUBSET Nat
  <2>1. IsFiniteSet(1 .. Len(chat[Taken]))
    BY <1>2, FS_Interval
  <2> QED BY <1>1, <1>2, <2>1, FS_Subset
<1>4. tool.new[Taken] \in Version
  BY <1>1, Types DEF ToolType, Plan
<1> QED BY <1>1, <1>2, <1>3, <1>4, FirstIn

LEMMA WorksOn ==
    ASSUME TypeInv, tool.rows # {}, Grows,
           IF tool.rows = {First(tool.rows)} THEN NextProperty(Taken, FALSE, FALSE)
           ELSE tool' = [tool EXCEPT !.rows = @ \ {First(tool.rows)}]
    PROVE  tool' \in ToolType /\ ToolPlace'
<1>1. tool.rows \ {First(tool.rows)} \in SUBSET DOMAIN chat[Taken] /\ tool.want # {}
  BY RowAt
<1>2. NextProperty(Taken, FALSE, FALSE) \/ tool' = [tool EXCEPT !.rows = tool.rows \ {First(tool.rows)}]
  OBVIOUS
<1> QED BY <1>1, <1>2, PlaceAfter

Edited  == [chat[Taken][First(tool.rows)] EXCEPT !.of = tool.new[Taken]]
Deleted == [chat[Taken][First(tool.rows)] EXCEPT !.gone = TRUE]

LEMMA MarkIs ==
    ASSUME TypeInv, tool.rows # {}
    PROVE  /\ Edited \in Messages /\ Edited.part = chat[Taken][First(tool.rows)].part
           /\ Edited.of = tool.new[Taken] /\ Edited.gone = chat[Taken][First(tool.rows)].gone
           /\ Deleted \in Messages
<1> DEFINE m == chat[Taken][First(tool.rows)]
<1>1. m \in Messages /\ tool.new[Taken] \in Version
  BY RowAt, Types
<1> HIDE DEF m
<1>2. /\ [m EXCEPT !.of = tool.new[Taken]] \in Messages /\ [m EXCEPT !.of = tool.new[Taken]].part = m.part
      /\ [m EXCEPT !.of = tool.new[Taken]].of = tool.new[Taken] /\ [m EXCEPT !.of = tool.new[Taken]].gone = m.gone
      /\ [m EXCEPT !.gone = TRUE] \in Messages
  BY <1>1 DEF Messages
<1> QED BY <1>2 DEF m, Edited, Deleted

\* An edit or a deletion marks the row it is at, or fails.
LEMMA MarkTypes ==
    ASSUME TypeInv, tool.rows # {}, NEW m \in Messages,
           UNCHANGED <<plan, before, report, merged, proof, sender>>,
           \/ chat' = [chat EXCEPT ![Taken][First(tool.rows)] = m] /\ UNCHANGED left
           \/ Fault /\ UNCHANGED chat,
           IF tool.rows = {First(tool.rows)} THEN NextProperty(Taken, FALSE, FALSE)
           ELSE tool' = [tool EXCEPT !.rows = @ \ {First(tool.rows)}]
    PROVE  TypeInv'
<1>1. Taken \in Property /\ First(tool.rows) \in DOMAIN chat[Taken]
  BY RowAt
<1>2. /\ chat' \in [Property -> Seq(Messages)] /\ Grows
      /\ \A p \in Property : Len(chat'[p]) <= PostLimit
  <2>1. CASE chat' = [chat EXCEPT ![Taken][First(tool.rows)] = m]
    BY <1>1, <2>1, MarkStep DEF Grows
  <2>2. CASE UNCHANGED chat
    BY <2>2, GrowsSame, Types
  <2> QED BY <2>1, <2>2
<1>3. left' \in [runs : Nat, faults : Nat]
  BY LeftStep, Types
<1>4. tool' \in ToolType /\ ToolPlace'
  BY <1>2, WorksOn
<1> QED BY <1>2, <1>3, <1>4, ToolTypes, Types

LEMMA EditsIs ==
    ASSUME TypeInv, Edits
    PROVE  /\ tool.rows # {} /\ tool.step = "reconcile"
           /\ UNCHANGED <<plan, before, report, merged, proof, sender>>
           /\ \/ chat' = [chat EXCEPT ![Taken][First(tool.rows)] = Edited] /\ UNCHANGED left
              \/ Fault /\ UNCHANGED chat
           /\ IF tool.rows = {First(tool.rows)} THEN NextProperty(Taken, FALSE, FALSE)
              ELSE tool' = [tool EXCEPT !.rows = @ \ {First(tool.rows)}]
<1>1. Taken \in Property /\ First(tool.rows) \in DOMAIN chat[Taken]
  BY RowAt DEF Edits
<1>2. [chat EXCEPT ![Taken][First(tool.rows)].of = tool.new[Taken]]
        = [chat EXCEPT ![Taken][First(tool.rows)] = Edited]
  BY <1>1, Types DEF Edited
<1> QED BY <1>2 DEF Edits

LEMMA DeletesIs ==
    ASSUME TypeInv, Deletes
    PROVE  /\ tool.rows # {} /\ tool.step = "dedupe"
           /\ UNCHANGED <<plan, before, report, merged, proof, sender>>
           /\ \/ chat' = [chat EXCEPT ![Taken][First(tool.rows)] = Deleted] /\ UNCHANGED left
              \/ Fault /\ UNCHANGED chat
           /\ IF tool.rows = {First(tool.rows)} THEN NextProperty(Taken, FALSE, FALSE)
              ELSE tool' = [tool EXCEPT !.rows = @ \ {First(tool.rows)}]
<1>1. Taken \in Property /\ First(tool.rows) \in DOMAIN chat[Taken]
  BY RowAt DEF Deletes
<1>2. [chat EXCEPT ![Taken][First(tool.rows)].gone = TRUE]
        = [chat EXCEPT ![Taken][First(tool.rows)] = Deleted]
  BY <1>1, Types DEF Deleted
<1> QED BY <1>2 DEF Deletes

LEMMA TypesEdits == ASSUME TypeInv, Edits PROVE TypeInv'
<1>1. Edited \in Messages
  BY EditsIs, MarkIs
<1> QED BY <1>1, EditsIs, MarkTypes

LEMMA TypesDeletes == ASSUME TypeInv, Deletes PROVE TypeInv'
<1>1. Deleted \in Messages
  BY DeletesIs, MarkIs
<1> QED BY <1>1, DeletesIs, MarkTypes

LEMMA TypesToolEnds ==
    ASSUME TypeInv, ReconcileEnds \/ DedupeEnds \/ ToolKilled
    PROVE  TypeInv'
<1>1. /\ UNCHANGED <<plan, before, chat, report, merged, sender>> /\ tool' = NoTool
      /\ left' \in [runs : Nat, faults : Nat]
  BY LeftStep, Types DEF ReconcileEnds, DedupeEnds, ToolKilled
<1>2. proof' \in [who : SUBSET Property, fresh : BOOLEAN]
  <2>1. tool.who \in SUBSET Property
    BY Types DEF ToolType
  <2>2. proof \in [who : SUBSET Property, fresh : BOOLEAN] /\ NoProof \in [who : SUBSET Property, fresh : BOOLEAN]
    BY Types DEF NoProof
  <2>3. {[who |-> tool.who, fresh |-> TRUE], [who |-> proof.who \cup tool.who, fresh |-> proof.fresh]}
           \subseteq [who : SUBSET Property, fresh : BOOLEAN]
    BY <2>1, <2>2
  <2>4. proof' \in {proof, NoProof, [who |-> tool.who, fresh |-> TRUE],
                   [who |-> proof.who \cup tool.who, fresh |-> proof.fresh]}
    BY DEF ReconcileEnds, DedupeEnds, ToolKilled
  <2> QED BY <2>2, <2>3, <2>4, Zenon
<1>3. ToolPlace'
  BY <1>1, NoToolIs DEF ToolPlace
<1> QED BY <1>1, <1>2, <1>3, NoToolIs, ToolTypes, GrowsSame, Types

(***************************************************************************)
(* The types hold.                                                         *)
(***************************************************************************)

LEMMA TypesStay ==
    ASSUME TypeInv, UNCHANGED vars
    PROVE  TypeInv'
<1>1. UNCHANGED <<plan, before, chat, report, merged, proof, sender, tool, left>>
  BY DEF vars
<1>2. SenderPlace'
  BY <1>1, StaysKnown
<1> QED BY <1>1, <1>2, StaysKnown, FileTypes, Types

LEMMA TypeStep == TypeInv /\ [Next]_vars => TypeInv'
<1> SUFFICES ASSUME TypeInv, [Next]_vars PROVE TypeInv'
  OBVIOUS
<1>1. ASSUME NEW new \in Plan, NewPlan(new) PROVE TypeInv'
  BY <1>1, TypesNewPlan
<1>2. ASSUME NEW sel \in SUBSET Property \ {{}}, NEW file \in {report, merged}, SenderStarts(sel, file) PROVE TypeInv'
  <2>1. sel \in SUBSET Property
    OBVIOUS
  <2> QED BY <1>2, <2>1, TypesSenderStarts
<1>3. ASSUME NEW res \in {None, [p \in Property |-> Unsent]}, SendsNothing(res) PROVE TypeInv'
  BY <1>3, TypesSendsNothing
<1>4. ASSUME NEW kind \in {"reconcile", "verify", "dedupe"}, NEW file \in {report, merged},
             NEW sel \in SUBSET Property \ {{}}, ToolStarts(kind, file, sel)
      PROVE  TypeInv'
  <2>1. sel \in SUBSET Property
    OBVIOUS
  <2> QED BY <1>4, <2>1, TypesToolStarts
<1>5. ASSUME NEW first \in {report, merged}, NEW second \in {report, merged}, Merge(first, second) PROVE TypeInv'
  BY <1>5, TypesMerge
<1>6. CASE Resumes \/ Lists \/ Header \/ Body \/ Writes \/ SenderEnds \/ SenderKilled
  BY <1>6, TypesResumes, TypesLists, TypesHeader, TypesBody, TypesWrites, TypesSenderEnds, TypesSenderKilled
<1>7. CASE Reads \/ Edits \/ ReconcileEnds \/ Deletes \/ DedupeEnds \/ ToolKilled
  BY <1>7, TypesReads, TypesEdits, TypesDeletes, TypesToolEnds
<1>8. CASE UNCHANGED vars
  BY <1>8, TypesStay
<1> QED BY <1>1, <1>2, <1>3, <1>4, <1>5, <1>6, <1>7, <1>8 DEF Next

\* TypeOK holds in every state, whatever plans are built and whenever: threads,
\* reports and the two runs keep their shape, and a receipt of the running sender
\* names messages that are in the thread.
THEOREM TypeCorrect == Spec => []TypeOK
<1>1. TypeInv /\ [Next]_vars => TypeInv'
  BY TypeStep
<1> QED BY TypeInit, <1>1, TypeEnough, PTL DEF Spec

(***************************************************************************)
(* Receipts are true.                                                      *)
(***************************************************************************)

\* A thread c carries part k of the draft v.
Carries(c, k, v) == \E i \in DOMAIN c : ~ c[i].gone /\ c[i].part = k /\ (k = 0 \/ c[i].of = v)
Whole(c, p, v)   == \A k \in Part : Carries(c[p], k, v)

\* No receipt is of a later draft than the plan's, and one of the plan's draft,
\* as posted or as bound, has that draft in the threads c.
Holds(results, c, pl) ==
    \A p \in Property : Sent(results[p]) =>
        /\ results[p].was <= pl[p] /\ results[p].now <= pl[p]
        /\ pl[p] \in {results[p].was, results[p].now} => Whole(c, p, pl[p])
FileHolds(file, c, pl) == file # Unreadable => Holds(file.results, c, pl)

OfPlan(results, pl) == \A p \in Property : Sent(results[p]) => pl[p] \in {results[p].was, results[p].now}
FileFull(file) ==
    file # Unreadable /\ file.all /\ file.ok =>
        \A p \in Property : Sent(file.results[p]) /\ file.plan[p] \in {file.results[p].was, file.results[p].now}

\* What the messages a deduplication deletes leave in the thread.
Keeps(c, t) ==
    \A i \in t.rows : \E j \in DOMAIN c[First(t.want)] \ t.rows :
        /\ ~ c[First(t.want)][j].gone /\ c[First(t.want)][j].part = c[First(t.want)][i].part
        /\ c[First(t.want)][i].part = 0 \/ c[First(t.want)][j].of = t.new[First(t.want)]

SenderTrue(s, c, pl) ==
    /\ Holds(s.prior, c, pl) /\ Holds(s.results, c, pl)
    /\ OfPlan(s.prior, s.plan) /\ OfPlan(s.results, s.plan)
    /\ \A p \in Property : s.plan[p] <= pl[p]
    /\ s.step = "body" => Carries(c[First(s.want)], 0, pl[First(s.want)])
ToolTrue(t, c, pl) ==
    /\ \A p \in t.who : Whole(c, p, pl[p])
    /\ IF t.step = "idle" THEN t.rows = {} /\ t.who = {} ELSE t.new = pl
    /\ t.step = "dedupe" => Keeps(c, t)
ProofTrue(pf, c, pl) == pf.fresh => \A p \in pf.who : Whole(c, p, pl[p])

SafeInv ==
    /\ FileHolds(report, chat, plan) /\ FileHolds(merged, chat, plan)
    /\ FileFull(report) /\ FileFull(merged)
    /\ SenderTrue(sender, chat, plan) /\ ToolTrue(tool, chat, plan) /\ ProofTrue(proof, chat, plan)

LEMMA ShowsIs == ASSUME NEW p \in Property, NEW v PROVE Shows(p, v) <=> Whole(chat, p, v)
BY DEF Shows, Whole, Carries, Live

LEMMA SafeEnough == SafeInv => ResumedIsLive /\ GateMeansLive
<1> SUFFICES ASSUME SafeInv PROVE ResumedIsLive /\ GateMeansLive
  OBVIOUS
<1>1. \A file \in {report, merged} : FileHolds(file, chat, plan) /\ FileFull(file)
  BY DEF SafeInv
<1>2. ResumedIsLive
  <2> SUFFICES ASSUME NEW file \in {report, merged}, NEW p \in Property, Delivered(file, plan, p)
               PROVE  Shows(p, plan[p])
    BY DEF ResumedIsLive
  <2>1. Whole(chat, p, plan[p])
    BY <1>1 DEF Delivered, FileHolds, Holds
  <2> QED BY <2>1, ShowsIs
<1>3. GateMeansLive
  <2> SUFFICES ASSUME NEW file \in {report, merged}, file # Unreadable, file.all, file.ok, file.plan = plan,
                      NEW p \in Property
               PROVE  Shows(p, plan[p])
    BY DEF GateMeansLive
  <2>1. Sent(file.results[p]) /\ plan[p] \in {file.results[p].was, file.results[p].now}
    BY <1>1 DEF FileFull
  <2>2. Whole(chat, p, plan[p])
    BY <1>1, <2>1 DEF FileHolds, Holds
  <2> QED BY <2>2, ShowsIs
<1> QED BY <1>2, <1>3

LEMMA NoneHolds ==
    ASSUME NEW r \in {Absent, Unsent}, NEW c, NEW pl
    PROVE  Holds([p \in Property |-> r], c, pl) /\ OfPlan([p \in Property |-> r], pl)
BY DEF Holds, OfPlan, Sent

LEMMA PlanNumbers ==
    ASSUME NEW pl \in Plan, NEW p \in Property
    PROVE  pl[p] \in Nat /\ pl[p] \in Version /\ 1 <= pl[p] /\ Plan1[p] = 1 /\ 1 \in Nat
<1>1. pl[p] \in Version
  BY DEF Plan
<1>2. pl[p] \in Nat /\ 1 <= pl[p]
  BY <1>1, Bounds DEF Version
<1> QED BY <1>1, <1>2 DEF Plan1

\* The sender that is not running.
LEMMA IdleTrue == ASSUME NEW c, NEW pl \in Plan PROVE SenderTrue(Idle, c, pl)
<1>1. Holds(None, c, pl) /\ OfPlan(None, Plan1)
  BY NoneHolds DEF None
<1>2. \A p \in Property : Plan1[p] <= pl[p]
  BY PlanNumbers
<1> QED BY <1>1, <1>2, IdleIs DEF SenderTrue

LEMMA NoToolTrue == ASSUME NEW c, NEW pl PROVE ToolTrue(NoTool, c, pl)
BY NoToolIs DEF ToolTrue

LEMMA SafeInit == Init => SafeInv
<1> SUFFICES ASSUME Init PROVE SafeInv
  OBVIOUS
<1>1. FileHolds(Unreadable, chat, plan) /\ FileFull(Unreadable)
  BY DEF FileHolds, FileFull
<1>2. plan \in Plan
  BY Bounds DEF Init
<1>3. ProofTrue(NoProof, chat, plan)
  BY DEF ProofTrue, NoProof
<1> QED BY <1>1, <1>2, <1>3, IdleTrue, NoToolTrue DEF SafeInv, Init

(***************************************************************************)
(* What a step may do to a thread.                                         *)
(***************************************************************************)

\* No part of the plan's drafts is lost.
Stable(c, d, pl) == \A p \in Property, k \in Part : Carries(c[p], k, pl[p]) => Carries(d[p], k, pl[p])

\* Messages are added, and the others stay as they are.
Extended(c, d) ==
    \A p \in Property : DOMAIN c[p] \subseteq DOMAIN d[p] /\ \A i \in DOMAIN c[p] : d[p][i] = c[p][i]

LEMMA ExtendedStable == ASSUME NEW c, NEW d, Extended(c, d), NEW pl PROVE Stable(c, d, pl)
BY DEF Extended, Stable, Carries

LEMMA WholeStays ==
    ASSUME NEW c, NEW d, NEW pl, Stable(c, d, pl), NEW p \in Property, Whole(c, p, pl[p])
    PROVE  Whole(d, p, pl[p])
BY DEF Stable, Whole

LEMMA HoldsStays ==
    ASSUME NEW c, NEW d, NEW pl, Stable(c, d, pl), NEW results, Holds(results, c, pl)
    PROVE  Holds(results, d, pl)
BY WholeStays DEF Holds

LEMMA FilesStay ==
    ASSUME SafeInv, Stable(chat, chat', plan), UNCHANGED <<plan, report, merged>>
    PROVE  /\ FileHolds(report', chat', plan') /\ FileHolds(merged', chat', plan')
           /\ FileFull(report') /\ FileFull(merged')
BY HoldsStays DEF SafeInv, FileHolds

LEMMA SenderStaysTrue ==
    ASSUME TypeInv, SafeInv, Stable(chat, chat', plan), UNCHANGED <<plan, sender>>
    PROVE  SenderTrue(sender', chat', plan')
<1>1. SenderTrue(sender, chat, plan)
  BY DEF SafeInv
<1>2. Holds(sender.prior, chat', plan) /\ Holds(sender.results, chat', plan)
  BY <1>1, HoldsStays DEF SenderTrue
<1>3. ASSUME sender.step = "body" PROVE Carries(chat'[First(sender.want)], 0, plan[First(sender.want)])
  <2>1. First(sender.want) \in Property
    BY <1>3, CurrentOne DEF Current, TypeInv, SenderPlace
  <2>2. Carries(chat[First(sender.want)], 0, plan[First(sender.want)]) /\ 0 \in Part
    BY <1>1, <1>3 DEF SenderTrue, Part
  <2> QED BY <2>1, <2>2 DEF Stable
<1> QED BY <1>1, <1>2, <1>3 DEF SenderTrue

LEMMA WhoStays ==
    ASSUME TypeInv, SafeInv, Stable(chat, chat', plan)
    PROVE  /\ \A p \in tool.who : Whole(chat', p, plan[p])
           /\ ProofTrue(proof, chat', plan)
<1>1. tool.who \subseteq Property /\ proof.who \subseteq Property
  BY Types DEF ToolType
<1> QED BY <1>1, WholeStays DEF SafeInv, ToolTrue, ProofTrue

LEMMA ToolStaysTrue ==
    ASSUME TypeInv, SafeInv, Extended(chat, chat'), UNCHANGED <<plan, tool>>
    PROVE  ToolTrue(tool', chat', plan')
<1>1. Stable(chat, chat', plan)
  BY ExtendedStable
<1>2. ToolTrue(tool, chat, plan)
  BY DEF SafeInv
<1>3. \A p \in tool.who : Whole(chat', p, plan[p])
  BY <1>1, WhoStays
<1>4. ASSUME tool.step = "dedupe" PROVE Keeps(chat', tool)
  <2> SUFFICES ASSUME NEW i \in tool.rows
               PROVE  \E j \in DOMAIN chat'[Taken] \ tool.rows :
                         /\ ~ chat'[Taken][j].gone /\ chat'[Taken][j].part = chat'[Taken][i].part
                         /\ chat'[Taken][i].part = 0 \/ chat'[Taken][j].of = tool.new[Taken]
    BY DEF Keeps, Taken
  <2>1. Taken \in Property /\ i \in DOMAIN chat[Taken]
    BY RowAt
  <2>2. PICK j \in DOMAIN chat[Taken] \ tool.rows :
                /\ ~ chat[Taken][j].gone /\ chat[Taken][j].part = chat[Taken][i].part
                /\ chat[Taken][i].part = 0 \/ chat[Taken][j].of = tool.new[Taken]
    BY <1>2, <1>4 DEF ToolTrue, Keeps, Taken
  <2>3. j \in DOMAIN chat'[Taken] /\ chat'[Taken][j] = chat[Taken][j] /\ chat'[Taken][i] = chat[Taken][i]
    BY <2>1, <2>2 DEF Extended
  <2> QED BY <2>2, <2>3
<1> QED BY <1>2, <1>3, <1>4 DEF ToolTrue

LEMMA ExtendedSame == ASSUME UNCHANGED chat PROVE Extended(chat, chat')
BY DEF Extended

\* A step of the sender: messages are added, and only its own state and the files change.
LEMMA SafeSender ==
    ASSUME TypeInv, SafeInv, Extended(chat, chat'), UNCHANGED <<plan, proof, tool>>,
           SenderTrue(sender', chat', plan),
           FileHolds(report', chat', plan), FileFull(report'),
           FileHolds(merged', chat', plan), FileFull(merged')
    PROVE  SafeInv'
<1>1. ToolTrue(tool', chat', plan') /\ ProofTrue(proof', chat', plan')
  BY ToolStaysTrue, ExtendedStable, WhoStays
<1> QED BY <1>1 DEF SafeInv

\* A step of the tool: no part is lost, and only its own state and the proof change.
LEMMA SafeTool ==
    ASSUME TypeInv, SafeInv, Stable(chat, chat', plan), UNCHANGED <<plan, report, merged, sender>>,
           ToolTrue(tool', chat', plan), ProofTrue(proof', chat', plan)
    PROVE  SafeInv'
<1>1. SenderTrue(sender', chat', plan')
  BY SenderStaysTrue
<1>2. /\ FileHolds(report', chat', plan') /\ FileHolds(merged', chat', plan')
      /\ FileFull(report') /\ FileFull(merged')
  BY FilesStay
<1> QED BY <1>1, <1>2 DEF SafeInv

(***************************************************************************)
(* The plan and the sender.                                                *)
(***************************************************************************)

LEMMA CarriesHeader == ASSUME NEW c, NEW v, NEW w PROVE Carries(c, 0, v) => Carries(c, 0, w)
BY DEF Carries

LEMMA ResultNumbers ==
    ASSUME NEW results \in Results, NEW p \in Property, Sent(results[p])
    PROVE  results[p] \in Receipt /\ results[p].was \in Nat /\ results[p].now \in Nat
<1>1. results[p] \in Receipt
  BY ReceiptIs DEF Results
<1>2. \A v \in Version : v \in Nat
  BY Bounds DEF Version
<1> QED BY <1>1, <1>2 DEF Receipt

\* A receipt of an earlier draft is none of a later plan's.
LEMMA HoldsLater ==
    ASSUME NEW results \in Results, NEW c, NEW pl \in Plan, NEW new \in Plan,
           \A p \in Property : pl[p] <= new[p], Holds(results, c, pl)
    PROVE  Holds(results, c, new)
<1> SUFFICES ASSUME NEW p \in Property, Sent(results[p])
             PROVE  /\ results[p].was <= new[p] /\ results[p].now <= new[p]
                    /\ new[p] \in {results[p].was, results[p].now} => Whole(c, p, new[p])
  BY DEF Holds
<1>1. results[p].was \in Nat /\ results[p].now \in Nat /\ pl[p] \in Nat /\ new[p] \in Nat
  BY ResultNumbers, PlanNumbers
<1>2. /\ results[p].was <= pl[p] /\ results[p].now <= pl[p] /\ pl[p] <= new[p]
      /\ pl[p] \in {results[p].was, results[p].now} => Whole(c, p, pl[p])
  BY DEF Holds
<1>3. CASE new[p] = pl[p]
  BY <1>2, <1>3
<1>4. CASE new[p] # pl[p]
  <2>1. results[p].was <= new[p] /\ results[p].now <= new[p]
        /\ new[p] # results[p].was /\ new[p] # results[p].now
    BY <1>1, <1>2, <1>4
  <2> QED BY <2>1
<1> QED BY <1>3, <1>4

LEMMA SafeNewPlan ==
    ASSUME ~ Returns, ~ Overlap, TypeInv, SafeInv, NEW new \in Plan, NewPlan(new)
    PROVE  SafeInv'
<1>1. /\ plan' = new /\ UNCHANGED <<chat, report, merged, sender, tool>> /\ proof'.fresh = FALSE
      /\ tool.step = "idle"
  BY Types DEF NewPlan
<1>2. \A p \in Property : plan[p] <= new[p] /\ plan[p] \in Nat /\ new[p] \in Nat
  BY PlanNumbers, Types DEF NewPlan
<1>3. ASSUME NEW file \in {report, merged} PROVE FileHolds(file, chat, new) /\ FileFull(file)
  <2>1. FileHolds(file, chat, plan) /\ FileFull(file)
    BY DEF SafeInv
  <2>2. ASSUME file # Unreadable PROVE Holds(file.results, chat, new)
    <3>1. file.results \in Results
      BY <2>2, FileKnown
    <3> QED BY <1>2, <2>1, <2>2, <3>1, HoldsLater, Types DEF FileHolds
  <2> QED BY <2>1, <2>2 DEF FileHolds
<1>4. SenderTrue(sender, chat, new)
  <2>1. SenderTrue(sender, chat, plan) /\ sender.prior \in Results /\ sender.results \in Results /\ sender.plan \in Plan
    BY Types DEF SafeInv, SenderType
  <2>2. Holds(sender.prior, chat, new) /\ Holds(sender.results, chat, new)
    BY <1>2, <2>1, HoldsLater, Types DEF SenderTrue
  <2>3. \A p \in Property : sender.plan[p] <= new[p]
    <3>1. \A p \in Property : sender.plan[p] <= plan[p] /\ sender.plan[p] \in Nat
      BY <2>1, PlanNumbers DEF SenderTrue
    <3> QED BY <1>2, <3>1
  <2> QED BY <2>1, <2>2, <2>3, CarriesHeader DEF SenderTrue
<1>5. ToolTrue(tool, chat, new)
  BY <1>1 DEF SafeInv, ToolTrue
<1>6. ProofTrue(proof', chat, new)
  BY <1>1 DEF ProofTrue
<1> QED BY <1>1, <1>3, <1>4, <1>5, <1>6 DEF SafeInv

\* The files when a step leaves them and the plan alone.
LEMMA FilesTrue ==
    ASSUME SafeInv, Extended(chat, chat')
    PROVE  /\ FileHolds(report, chat', plan) /\ FileFull(report)
           /\ FileHolds(merged, chat', plan) /\ FileFull(merged)
BY ExtendedStable, HoldsStays DEF SafeInv, FileHolds

LEMMA PriorTrue ==
    ASSUME SafeInv, NEW file \in {report, merged}
    PROVE  Holds(Prior(file, plan), chat, plan) /\ OfPlan(Prior(file, plan), plan)
<1>1. FileHolds(file, chat, plan)
  BY DEF SafeInv
<1>2. ASSUME NEW p \in Property, Sent(Prior(file, plan)[p])
      PROVE  Delivered(file, plan, p) /\ Prior(file, plan)[p] = file.results[p]
  BY <1>2 DEF Prior, Sent
<1>3. Holds(Prior(file, plan), chat, plan)
  BY <1>1, <1>2 DEF Holds, FileHolds, Delivered
<1>4. OfPlan(Prior(file, plan), plan)
  BY <1>2 DEF OfPlan, Delivered
<1> QED BY <1>3, <1>4

LEMMA SafeSenderStarts ==
    ASSUME TypeInv, SafeInv, NEW sel \in SUBSET Property, NEW file \in {report, merged}, SenderStarts(sel, file)
    PROVE  SafeInv'
<1>1. /\ sender' = [step |-> "list", plan |-> plan, sel |-> sel, want |-> sel,
                  prior |-> Prior(file, plan), results |-> None]
      /\ UNCHANGED <<plan, before, chat, report, merged, proof, tool>>
  BY DEF SenderStarts
<1>2. Holds(None, chat, plan) /\ OfPlan(None, plan)
  BY NoneHolds DEF None
<1>3. \A p \in Property : plan[p] <= plan[p]
  BY PlanNumbers, Types
<1>4. SenderTrue(sender', chat, plan)
  BY <1>1, <1>2, <1>3, PriorTrue DEF SenderTrue
<1> QED BY <1>1, <1>4, ExtendedSame, FilesTrue, SafeSender

LEMMA SafeSendsNothing ==
    ASSUME TypeInv, SafeInv, NEW res \in {None, [p \in Property |-> Unsent]}, SendsNothing(res)
    PROVE  SafeInv'
<1>1. /\ report' = [plan |-> plan, all |-> TRUE, ok |-> FALSE, results |-> res]
      /\ UNCHANGED <<plan, before, chat, merged, proof, sender, tool>>
  BY DEF SendsNothing
<1>2. Holds(res, chat, plan)
  BY NoneHolds DEF None
<1>3. FileHolds(report', chat, plan) /\ FileFull(report')
  BY <1>1, <1>2 DEF FileHolds, FileFull
<1>4. SenderTrue(sender', chat, plan)
  BY <1>1 DEF SafeInv
<1> QED BY <1>1, <1>3, <1>4, ExtendedSame, FilesTrue, SafeSender

\* A draft has a result that is none, or a true receipt of the sender's plan.
LEMMA HasTrue ==
    ASSUME TypeInv, SafeInv, Extended(chat, chat'), UNCHANGED <<plan, before, report, merged, proof, tool>>,
           NEW p \in Property, NEW r \in Result, NEW step \in SenderSteps, step # "body", Has(p, r, step),
           Sent(r) => /\ r.was <= plan[p] /\ r.now <= plan[p] /\ sender.plan[p] \in {r.was, r.now}
                      /\ plan[p] \in {r.was, r.now} => Whole(chat', p, plan[p])
    PROVE  SafeInv'
<1>1. /\ sender'.plan = sender.plan /\ sender'.prior = sender.prior /\ sender'.step = step
      /\ sender'.results = [sender.results EXCEPT ![p] = r]
  BY HasStep
<1>2. SenderTrue(sender, chat, plan) /\ sender.results \in Results
  BY Types DEF SafeInv, SenderType
<1>3. Holds(sender.prior, chat', plan) /\ Holds(sender.results, chat', plan)
  BY <1>2, ExtendedStable, HoldsStays DEF SenderTrue
<1>4. \A q \in Property : sender'.results[q] = IF q = p THEN r ELSE sender.results[q]
  BY <1>1, <1>2 DEF Results
<1>5. Holds(sender'.results, chat', plan)
  BY <1>3, <1>4 DEF Holds
<1>6. OfPlan(sender'.results, sender.plan)
  BY <1>2, <1>4 DEF SenderTrue, OfPlan
<1>7. SenderTrue(sender', chat', plan)
  BY <1>1, <1>2, <1>3, <1>5, <1>6 DEF SenderTrue
<1> QED BY <1>7, FilesTrue, SafeSender

LEMMA SafeResumes ==
    ASSUME TypeInv, SafeInv, Resumes
    PROVE  SafeInv'
<1>1. Current \in Property /\ UNCHANGED <<plan, before, chat, report, merged, proof, tool>>
  BY CurrentOne DEF Resumes, Posting
<1>2. sender.prior[Current] \in Result /\ sender.step \in SenderSteps /\ sender.step # "body"
  BY <1>1, Types DEF SenderType, SenderSteps, Results, Resumes, Posting
<1>3. Holds(sender.prior, chat', plan) /\ OfPlan(sender.prior, sender.plan)
  BY <1>1 DEF SafeInv, SenderTrue
<1> QED BY <1>1, <1>2, <1>3, ExtendedSame, HasTrue DEF Resumes, Holds, OfPlan

LEMMA SafeLists ==
    ASSUME TypeInv, SafeInv, Lists
    PROVE  SafeInv'
<1> DEFINE rs == [p \in Property |->
                     IF p \notin sender.want THEN sender.results[p]
                     ELSE IF Sent(sender.prior[p]) THEN sender.prior[p] ELSE Unsent]
<1>1. sender \in SenderType /\ SenderTrue(sender, chat, plan)
  BY Types DEF SafeInv
<1>2. Holds(rs, chat, plan) /\ OfPlan(rs, sender.plan)
  <2>1. ASSUME NEW p \in Property, Sent(rs[p])
        PROVE  \/ rs[p] = sender.results[p] /\ Sent(sender.results[p])
               \/ rs[p] = sender.prior[p] /\ Sent(sender.prior[p])
    <3>1. rs[p] = IF p \notin sender.want THEN sender.results[p]
                  ELSE IF Sent(sender.prior[p]) THEN sender.prior[p] ELSE Unsent
      OBVIOUS
    <3>2. ~ Sent(Unsent)
      BY DEF Sent
    <3> HIDE DEF rs
    <3> QED BY <2>1, <3>1, <3>2
  <2>2. Holds(sender.prior, chat, plan) /\ Holds(sender.results, chat, plan)
        /\ OfPlan(sender.prior, sender.plan) /\ OfPlan(sender.results, sender.plan)
    BY <1>1 DEF SenderTrue
  <2> HIDE DEF rs
  <2>3. Holds(rs, chat, plan)
    BY <2>1, <2>2 DEF Holds
  <2>4. OfPlan(rs, sender.plan)
    BY <2>1, <2>2 DEF OfPlan
  <2> QED BY <2>3, <2>4
<1>3. UNCHANGED <<plan, before, chat, report, merged, proof, tool>>
  BY DEF Lists
<1>4. \/ sender' = [sender EXCEPT !.step = "post"]
      \/ sender' = [sender EXCEPT !.step = "end", !.want = {}, !.results = rs]
  BY DEF Lists
<1> HIDE DEF rs
<1>5. /\ sender'.step # "body" /\ sender'.prior = sender.prior /\ sender'.plan = sender.plan
      /\ sender'.results \in {sender.results, rs}
  BY <1>1, <1>4 DEF SenderType
<1>6. SenderTrue(sender', chat, plan)
  BY <1>1, <1>2, <1>5 DEF SenderTrue
<1> QED BY <1>3, <1>6, ExtendedSame, FilesTrue, SafeSender

LEMMA PostsExtend ==
    ASSUME TypeInv, sender.want # {}, NEW ms \in Seq(Messages), Posts(ms) \/ UNCHANGED chat
    PROVE  Extended(chat, chat')
<1>1. CASE Posts(ms)
  BY <1>1, PostsStep DEF Extended
<1> QED BY <1>1, ExtendedSame

\* What was posted is carried.
LEMMA PostsCarry ==
    ASSUME TypeInv, sender.want # {}, NEW ms \in Seq(Messages), Posts(ms), NEW i \in 1 .. Len(ms),
           NEW k \in Part, ms[i] = Message(k)
    PROVE  Carries(chat'[Current], k, sender.plan[Current])
<1>1. /\ Len(chat[Current]) + i \in DOMAIN chat'[Current]
      /\ chat'[Current][Len(chat[Current]) + i] = Message(k)
  BY PostsStep
<1>2. Message(k).part = k /\ Message(k).of = sender.plan[Current] /\ ~ Message(k).gone
  BY MessageType
<1> QED BY <1>1, <1>2 DEF Carries

LEMMA SafeHeader ==
    ASSUME TypeInv, SafeInv, Header
    PROVE  SafeInv'
<1>1. sender.want # {} /\ Current \in Property /\ UNCHANGED <<plan, before, report, merged, proof, tool>>
  BY CurrentOne DEF Header, Posting
<1>2. <<Message(0)>> \in Seq(Messages) /\ Len(<<Message(0)>>) = 1 /\ 0 \in Part
  BY <1>1, MessageType DEF Part
<1>3. CASE Posts(<<Message(0)>>) /\ sender' = [sender EXCEPT !.step = "body"]
  <2>1. Extended(chat, chat')
    BY <1>1, <1>2, <1>3, PostsExtend
  <2>2. sender'.want = sender.want /\ sender'.plan = sender.plan
        /\ sender'.prior = sender.prior /\ sender'.results = sender.results
    BY <1>3, Types DEF SenderType
  <2>3. Carries(chat'[Current], 0, plan[Current])
    <3>1. 1 \in 1 .. Len(<<Message(0)>>) /\ <<Message(0)>>[1] = Message(0)
      BY <1>2
    <3> QED BY <1>1, <1>2, <1>3, <3>1, PostsCarry, CarriesHeader
  <2>4. SenderTrue(sender, chat, plan)
    BY DEF SafeInv
  <2>5. Holds(sender.prior, chat', plan) /\ Holds(sender.results, chat', plan)
    BY <2>1, <2>4, ExtendedStable, HoldsStays DEF SenderTrue
  <2>6. SenderTrue(sender', chat', plan)
    BY <2>2, <2>3, <2>4, <2>5 DEF SenderTrue, Current
  <2> QED BY <1>1, <2>1, <2>6, FilesTrue, SafeSender
<1>4. CASE Fault /\ (Posts(<<Message(0)>>) \/ UNCHANGED chat) /\ Has(Current, Unsent, "post")
  <2>1. Extended(chat, chat')
    BY <1>1, <1>2, <1>4, PostsExtend
  <2>2. "post" \in SenderSteps /\ "post" # "body" /\ Unsent \in Result /\ ~ Sent(Unsent)
    BY DEF SenderSteps, Result, Sent
  <2> QED BY <1>1, <1>4, <2>1, <2>2, HasTrue
<1> QED BY <1>3, <1>4 DEF Header

LEMMA SafeBody ==
    ASSUME TypeInv, SafeInv, Body
    PROVE  SafeInv'
<1>1. /\ sender.want # {} /\ Current \in Property /\ 1 \in DOMAIN chat[Current]
      /\ UNCHANGED <<plan, before, report, merged, proof, tool>>
  BY CurrentOne DEF Body, TypeInv, SenderPlace
<1>2. "write" \in SenderSteps /\ "write" # "body" /\ Unsent \in Result /\ ~ Sent(Unsent)
  BY DEF SenderSteps, Result, Sent
<1>3. /\ <<Message(1)>> \in Seq(Messages) /\ <<Message(1), Message(2)>> \in Seq(Messages)
      /\ Len(<<Message(1), Message(2)>>) = 2
  <2>1. Message(1) \in Messages /\ Message(2) \in Messages
    BY <1>1, MessageType DEF Part
  <2> QED BY <2>1
<1>4. CASE Posts(<<Message(1), Message(2)>>) /\ Has(Current, NewReceipt, "write")
  <2>1. Extended(chat, chat')
    BY <1>1, <1>3, <1>4, PostsExtend
  <2>2. NewReceipt \in Result /\ NewReceipt.was = sender.plan[Current] /\ NewReceipt.now = sender.plan[Current]
    BY <1>1, <1>4, NewReceiptIs DEF Result
  <2>3. sender.plan[Current] <= plan[Current]
    BY <1>1 DEF SafeInv, SenderTrue
  <2>4. ASSUME plan[Current] = sender.plan[Current] PROVE Whole(chat', Current, plan[Current])
    <3>1. Carries(chat'[Current], 0, plan[Current])
      <4>1. Carries(chat[Current], 0, plan[Current]) /\ 0 \in Part
        BY DEF SafeInv, SenderTrue, Body, Current, Part
      <4> QED BY <1>1, <2>1, <4>1, ExtendedStable DEF Stable
    <3>2. Carries(chat'[Current], 1, plan[Current]) /\ Carries(chat'[Current], 2, plan[Current])
      <4>1. /\ 1 \in 1 .. Len(<<Message(1), Message(2)>>) /\ <<Message(1), Message(2)>>[1] = Message(1)
            /\ 2 \in 1 .. Len(<<Message(1), Message(2)>>) /\ <<Message(1), Message(2)>>[2] = Message(2)
            /\ 1 \in Part /\ 2 \in Part
        BY <1>3 DEF Part
      <4> QED BY <1>1, <1>3, <1>4, <2>4, <4>1, PostsCarry
    <3>3. Part = {0, 1, 2}
      BY DEF Part
    <3> QED BY <3>1, <3>2, <3>3 DEF Whole
  <2> QED BY <1>1, <1>2, <1>4, <2>1, <2>2, <2>3, <2>4, HasTrue
<1>5. CASE /\ Fault /\ Has(Current, Unsent, "write")
           /\ Posts(<<Message(1), Message(2)>>) \/ Posts(<<Message(1)>>) \/ UNCHANGED chat
  <2>1. Extended(chat, chat')
    BY <1>1, <1>3, <1>5, PostsExtend
  <2> QED BY <1>1, <1>2, <1>5, <2>1, HasTrue
<1> QED BY <1>4, <1>5 DEF Body

LEMMA SafeWrites ==
    ASSUME TypeInv, SafeInv, Writes
    PROVE  SafeInv'
<1>1. /\ report'.results = sender.results /\ report'.ok = FALSE
      /\ UNCHANGED <<plan, before, chat, merged, proof, tool, left>>
  BY DumpIs DEF Writes
<1>2. /\ sender'.step = "post" /\ sender'.prior = sender.prior /\ sender'.results = sender.results
      /\ sender'.plan = sender.plan
  BY Types DEF Writes, SenderType
<1>3. SenderTrue(sender, chat, plan)
  BY DEF SafeInv
<1>4. SenderTrue(sender', chat, plan)
  BY <1>2, <1>3 DEF SenderTrue
<1>5. FileHolds(report', chat, plan) /\ FileFull(report')
  BY <1>1, <1>3 DEF SenderTrue, FileHolds, FileFull
<1> QED BY <1>1, <1>4, <1>5, ExtendedSame, FilesTrue, SafeSender

LEMMA SafeSenderEnds ==
    ASSUME TypeInv, SafeInv, SenderEnds
    PROVE  SafeInv'
<1>0. Complete \in BOOLEAN
  BY DEF Complete, Sent
<1>1. /\ report'.results = sender.results /\ report'.plan = sender.plan /\ report'.ok = Complete
      /\ (report'.all <=> sender.sel = Property)
      /\ UNCHANGED <<plan, before, chat, merged, proof, tool, left>> /\ sender' = Idle
  BY <1>0, DumpIs DEF SenderEnds
<1>3. SenderTrue(sender, chat, plan) /\ SenderTrue(sender', chat, plan)
  BY <1>1, IdleTrue, Types DEF SafeInv
<1>4. FileHolds(report', chat, plan)
  BY <1>1, <1>3 DEF SenderTrue, FileHolds
<1>5. FileFull(report')
  <2> SUFFICES ASSUME report'.all, report'.ok, NEW p \in Property
               PROVE  Sent(report'.results[p]) /\ report'.plan[p] \in {report'.results[p].was, report'.results[p].now}
    BY DEF FileFull
  <2>1. Sent(sender.results[p])
    BY <1>1 DEF Complete
  <2> QED BY <1>1, <1>3, <2>1 DEF SenderTrue, OfPlan
<1> QED BY <1>1, <1>3, <1>4, <1>5, ExtendedSame, FilesTrue, SafeSender

LEMMA SafeSenderKilled ==
    ASSUME TypeInv, SafeInv, SenderKilled
    PROVE  SafeInv'
<1>1. /\ report' \in {report, Unreadable} /\ sender' = Idle
      /\ UNCHANGED <<plan, before, chat, merged, proof, tool>>
  BY DEF SenderKilled
<1>2. SenderTrue(sender', chat, plan)
  BY <1>1, IdleTrue, Types
<1>3. FileHolds(Unreadable, chat, plan) /\ FileFull(Unreadable)
  BY DEF FileHolds, FileFull
<1> QED BY <1>1, <1>2, <1>3, ExtendedSame, FilesTrue, SafeSender

LEMMA SafeMerge ==
    ASSUME TypeInv, SafeInv, NEW first \in {report, merged}, NEW second \in {report, merged}, Merge(first, second)
    PROVE  SafeInv'
<1>1. UNCHANGED <<plan, before, chat, report, proof, sender, tool>>
  BY MergeIs
<1>2. FileHolds(merged', chat, plan) /\ FileFull(merged')
  <2>1. CASE merged' = Unreadable
    BY <2>1 DEF FileHolds, FileFull
  <2>2. CASE merged' # Unreadable
    <3>1. /\ Unreadable \notin {first, second}
          /\ merged' = [plan |-> plan, all |-> TRUE, ok |-> TRUE, results |-> Merged(first, second)]
      BY <2>2, MergeIs
    <3>2. ASSUME NEW p \in Property
          PROVE  /\ Sent(Merged(first, second)[p])
                 /\ Merged(first, second)[p].was <= plan[p] /\ Merged(first, second)[p].now = plan[p]
                 /\ plan[p] <= plan[p] /\ Whole(chat, p, plan[p])
      <4> DEFINE s == SourceOf(p, first, second)
      <4>1. s \in {first, second} /\ Sent(s.results[p]) /\ s.results[p] \in Receipt /\ Verified(p, s)
        BY <2>2, MergeIs
      <4>2. Merged(first, second)[p] = Bound(s.results[p], plan[p])
        BY DEF Merged
      <4> HIDE DEF s
      <4>3. s \in {report, merged} /\ s # Unreadable
        BY <3>1, <4>1
      <4>4. Holds(s.results, chat, plan)
        BY <4>3 DEF SafeInv, FileHolds
      <4>5. plan[p] \in Version /\ plan[p] \in Nat
        BY PlanNumbers, Types
      <4>6. /\ Merged(first, second)[p].was = s.results[p].was /\ Merged(first, second)[p].now = plan[p]
            /\ Sent(Merged(first, second)[p])
        BY <4>1, <4>2, <4>5, BoundIs
      <4>7. Whole(chat, p, plan[p])
        <5>1. CASE s.plan = plan
          BY <4>1, <4>4, <5>1 DEF Verified, Holds
        <5>2. CASE s.plan # plan
          BY <4>1, <5>2 DEF Verified, SafeInv, ProofTrue
        <5> QED BY <5>1, <5>2
      <4> QED BY <4>1, <4>4, <4>5, <4>6, <4>7 DEF Holds
    <3>3. Holds(Merged(first, second), chat, plan)
      BY <3>2 DEF Holds
    <3> QED BY <3>1, <3>2, <3>3 DEF FileHolds, FileFull
  <2> QED BY <2>1, <2>2
<1>3. SenderTrue(sender', chat, plan)
  BY <1>1 DEF SafeInv
<1> QED BY <1>1, <1>2, <1>3, ExtendedSame, FilesTrue, SafeSender

(***************************************************************************)
(* The tools.                                                              *)
(***************************************************************************)

\* The messages of a thread are finitely many.
LEMMA ThreadFinite ==
    ASSUME TypeInv, NEW p \in Property
    PROVE  IsFiniteSet(DOMAIN chat[p]) /\ DOMAIN chat[p] \subseteq Nat
<1> DEFINE n == Len(chat[p])
<1>1. DOMAIN chat[p] = 1 .. n /\ n \in Nat
  BY Types
<1> HIDE DEF n
<1>2. IsFiniteSet(1 .. n)
  BY <1>1, FS_Interval
<1> QED BY <1>1, <1>2

LEMMA StableSame == ASSUME UNCHANGED chat, NEW pl PROVE Stable(chat, chat', pl)
BY DEF Stable

LEMMA SafeToolStarts ==
    ASSUME TypeInv, SafeInv, NEW kind \in {"reconcile", "verify", "dedupe"}, NEW file \in {report, merged},
           NEW sel \in SUBSET Property, ToolStarts(kind, file, sel)
    PROVE  SafeInv'
<1>1. /\ UNCHANGED <<plan, before, chat, report, merged, proof, sender>>
      /\ tool'.rows = {} /\ tool'.who = {} /\ tool'.new = plan
  BY ToolStartsIs
<1>2. ToolTrue(tool', chat', plan)
  BY <1>1 DEF ToolTrue, Keeps
<1>3. ProofTrue(proof', chat', plan)
  BY <1>1 DEF SafeInv
<1> QED BY <1>1, <1>2, <1>3, StableSame, SafeTool

\* A tool goes on with the next property, which it found current or not.
LEMMA NextTrue ==
    ASSUME TypeInv, SafeInv, Stable(chat, chat', plan), UNCHANGED <<plan, before, report, merged, proof, sender>>,
           tool.want # {}, tool.step # "idle", NEW good \in BOOLEAN, NEW sound \in BOOLEAN,
           NextProperty(Taken, good, sound), good => Whole(chat', Taken, plan[Taken])
    PROVE  SafeInv'
<1>1. /\ tool'.rows = {} /\ tool'.step = tool.step /\ tool'.new = tool.new
      /\ tool'.who = IF good THEN tool.who \cup {Taken} ELSE tool.who
  BY TakenIn, NextPropertyStep
<1>2. ToolTrue(tool, chat, plan)
  BY DEF SafeInv
<1>3. (\A p \in tool.who : Whole(chat', p, plan[p])) /\ ProofTrue(proof', chat', plan)
  BY WhoStays
<1>4. ToolTrue(tool', chat', plan)
  <2>1. \A p \in tool'.who : Whole(chat', p, plan[p])
    BY <1>1, <1>3
  <2>2. tool'.step # "idle" /\ tool'.new = plan
    BY <1>1, <1>2 DEF ToolTrue
  <2>3. Keeps(chat', tool')
    BY <1>1 DEF Keeps
  <2> QED BY <2>1, <2>2, <2>3 DEF ToolTrue
<1> QED BY <1>3, <1>4, SafeTool

\* A tool works on messages of the property it is at.
LEMMA RowsTrue ==
    ASSUME TypeInv, SafeInv, Stable(chat, chat', plan), UNCHANGED <<plan, before, report, merged, proof, sender>>,
           tool.want # {}, tool.step # "idle", NEW rows \in SUBSET Nat,
           tool' = [tool EXCEPT !.rows = rows], tool.step = "dedupe" => Keeps(chat', tool')
    PROVE  SafeInv'
<1>1. tool'.rows = rows /\ tool'.step = tool.step /\ tool'.new = tool.new /\ tool'.who = tool.who
  BY RowsStep
<1>2. ToolTrue(tool, chat, plan)
  BY DEF SafeInv
<1>3. (\A p \in tool.who : Whole(chat', p, plan[p])) /\ ProofTrue(proof', chat', plan)
  BY WhoStays
<1>4. ToolTrue(tool', chat', plan)
  BY <1>1, <1>2, <1>3 DEF ToolTrue
<1> QED BY <1>3, <1>4, SafeTool

\* A draft that spells the plan's, under one header, is in the thread.
LEMMA SpelledIsWhole ==
    ASSUME TypeInv, NEW p \in Property, NEW rows \in SUBSET Live(p), NEW v,
           Spells(p, Parts(p, rows), {v}), Cardinality(Counted(p, rows)) = 1
    PROVE  Whole(chat, p, v)
<1> DEFINE parts == Parts(p, rows)
           i == First(parts)
           j == First(parts \ {i})
<1>1. IsFiniteSet(DOMAIN chat[p]) /\ DOMAIN chat[p] \subseteq Nat /\ Live(p) \subseteq DOMAIN chat[p]
  BY ThreadFinite DEF Live
<1>2. parts \subseteq rows /\ Headers(p, rows) \subseteq rows
  BY DEF Parts, Headers
<1>3. /\ Cardinality(parts) = 2 /\ chat[p][i].part = 1 /\ chat[p][j].part = 2
      /\ {chat[p][i].of, chat[p][j].of} \subseteq {v}
  BY DEF Spells
<1> HIDE DEF parts
<1>4. IsFiniteSet(parts) /\ parts \in SUBSET Nat
  BY <1>1, <1>2, FS_Subset
<1>5. i \in parts
  <2>1. parts # {}
    BY <1>3, FS_EmptySet
  <2> QED BY <1>4, <2>1, FirstIn
<1>6. j \in parts
  <2>1. IsFiniteSet(parts \ {i}) /\ Cardinality(parts \ {i}) = 1
    BY <1>3, <1>4, <1>5, FS_RemoveElement
  <2>2. parts \ {i} # {}
    BY <2>1, FS_EmptySet
  <2>3. parts \ {i} \in SUBSET Nat
    BY <1>4
  <2> QED BY <2>1, <2>2, <2>3, FirstIn
<1>7. PICK h \in Headers(p, rows) : TRUE
  BY FS_EmptySet DEF Counted
<1>8. chat[p][h].part = 0
  BY <1>7 DEF Headers
<1>9. {h, i, j} \subseteq Live(p)
  BY <1>2, <1>5, <1>6, <1>7
<1>10. Carries(chat[p], 0, v)
  BY <1>8, <1>9 DEF Live, Carries
<1>11. Carries(chat[p], 1, v)
  BY <1>3, <1>9 DEF Live, Carries
<1>12. Carries(chat[p], 2, v)
  BY <1>3, <1>9 DEF Live, Carries
<1>13. Part = {0, 1, 2}
  BY DEF Part
<1> QED BY <1>10, <1>11, <1>12, <1>13 DEF Whole

\* Of the copies one stays: another message of the same part, of the new plan.
LEMMA CopiesKeep ==
    ASSUME TypeInv, NEW p \in Property, NEW rows \in SUBSET Live(p), NEW i \in Copies(p, rows)
    PROVE  \E j \in DOMAIN chat[p] \ Copies(p, rows) :
              /\ ~ chat[p][j].gone /\ chat[p][j].part = chat[p][i].part
              /\ chat[p][i].part = 0 \/ chat[p][j].of = tool.new[p]
<1> DEFINE part(k) == {m \in rows : chat[p][m].part = k /\ chat[p][m].of = tool.new[p]}
           spare(S) == IF S = {} THEN {} ELSE S \ {Last(S)}
           headers == Headers(p, rows)
           own == headers \cap tool.results[p].ids
           spared == IF own = {} THEN spare(headers) ELSE headers \ own
<1>1. Copies(p, rows) = spared \cup spare(part(1)) \cup spare(part(2))
  BY DEF Copies
<1>2. /\ \A m \in headers : m \in rows /\ chat[p][m].part = 0
      /\ \A m \in part(1) : m \in rows /\ chat[p][m].part = 1 /\ chat[p][m].of = tool.new[p]
      /\ \A m \in part(2) : m \in rows /\ chat[p][m].part = 2 /\ chat[p][m].of = tool.new[p]
  BY DEF Headers
<1>3. rows \subseteq DOMAIN chat[p] /\ \A m \in rows : ~ chat[p][m].gone
  BY DEF Live
<1>4. \A S \in SUBSET rows : S # {} => Last(S) \in S
  <2>1. IsFiniteSet(rows) /\ rows \in SUBSET Nat
    BY <1>3, ThreadFinite, FS_Subset
  <2> QED BY <2>1, FS_Subset, LastIn
<1>5. part(1) \in SUBSET rows /\ part(2) \in SUBSET rows /\ headers \in SUBSET rows
  BY DEF Headers
<1>6. spared \subseteq headers /\ own \subseteq headers /\ \A S : spare(S) \subseteq S
  OBVIOUS
<1>7. \A S : S # {} => Last(S) \notin spare(S)
  OBVIOUS
<1>7a. \A S, m : m \in spare(S) => S # {}
  OBVIOUS
<1>8. own # {} => spared \cap own = {}
  OBVIOUS
<1>9. own = {} => spared = spare(headers)
  OBVIOUS
<1>10. CASE i \in spared
  <2>1. PICK j \in headers : j \notin spared
    <3>1. CASE own = {}
      <4>1. headers # {} /\ Last(headers) \in headers /\ Last(headers) \notin spared
        <5> HIDE DEF headers, spare, spared, own, part
        <5> QED BY <1>4, <1>5, <1>7, <1>7a, <1>9, <1>10, <3>1
      <4> QED BY <4>1
    <3>2. CASE own # {}
      <4> HIDE DEF headers, spare, spared, own, part
      <4> QED BY <1>6, <1>8, <3>2
    <3> QED BY <3>1, <3>2
  <2> HIDE DEF headers, spare, spared, own, part
  <2>2. j \notin Copies(p, rows)
    <3>1. j \notin part(1) /\ j \notin part(2)
      BY <1>2
    <3> QED BY <1>1, <1>6, <2>1, <3>1
  <2>3. i \in headers
    BY <1>6, <1>10
  <2> QED BY <1>2, <1>3, <2>2, <2>3
<1>11. ASSUME NEW k \in {1, 2}, i \in spare(part(k))
       PROVE  \E j \in part(k) : j \notin Copies(p, rows) /\ i \in part(k)
  <2>1. part(k) # {} /\ part(k) \in SUBSET rows /\ i \in part(k)
    BY <1>5, <1>11
  <2>2. Last(part(k)) \in part(k) /\ Last(part(k)) \notin spare(part(k))
    <3> HIDE DEF part, spare
    <3> QED BY <1>4, <1>7, <2>1
  <2>3. Last(part(k)) \notin Copies(p, rows)
    <3>1. \A m \in part(k) : m \in rows /\ chat[p][m].part = k
      OBVIOUS
    <3> HIDE DEF headers, spare, spared, own, part
    <3> QED BY <1>1, <1>2, <1>6, <2>2, <3>1
  <2> QED BY <2>1, <2>2, <2>3
<1>12. CASE i \in spare(part(1)) \/ i \in spare(part(2))
  <2> HIDE DEF headers, spare, spared, own, part
  <2> QED BY <1>2, <1>3, <1>11, <1>12
<1> HIDE DEF headers, spare, spared, own, part
<1> QED BY <1>1, <1>10, <1>12

LEMMA SafeReads ==
    ASSUME TypeInv, SafeInv, Reads
    PROVE  SafeInv'
<1>1. /\ UNCHANGED <<plan, before, chat, report, merged, proof, sender>>
      /\ tool.step # "idle" /\ tool.want # {} /\ Taken \in Property
      /\ \/ NextProperty(Taken, FALSE, FALSE)
         \/ \E rows \in SUBSET Live(Taken) : IF tool.step = "dedupe" THEN Dedupes(rows) ELSE Reconciles(rows)
  BY ReadsIs
<1>2. Stable(chat, chat', plan) /\ tool.new = plan
  BY <1>1, StableSame DEF SafeInv, ToolTrue
<1>3. CASE NextProperty(Taken, FALSE, FALSE)
  BY <1>1, <1>2, <1>3, NextTrue
<1>4. ASSUME NEW rows \in SUBSET Live(Taken), tool.step = "dedupe", Dedupes(rows)
      PROVE  SafeInv'
  <2>1. CASE NextProperty(Taken, FALSE, FALSE)
    BY <1>3, <2>1
  <2>2. CASE tool' = [tool EXCEPT !.rows = Copies(Taken, rows)]
    <3>1. Copies(Taken, rows) \in SUBSET Nat
      BY <1>1, CopiesIn, LiveIn
    <3>2. tool'.rows = Copies(Taken, rows) /\ tool'.want = tool.want /\ tool'.new = tool.new
      BY <2>2, <3>1, RowsStep
    <3>3. Keeps(chat', tool')
      BY <1>1, <3>2, CopiesKeep DEF Keeps, Taken
    <3> QED BY <1>1, <1>2, <2>2, <3>1, <3>3, RowsTrue
  <2> QED BY <1>4, <2>1, <2>2 DEF Dedupes
<1>5. ASSUME NEW rows \in SUBSET Live(Taken), tool.step # "dedupe", Reconciles(rows)
      PROVE  SafeInv'
  <2> DEFINE one == Cardinality(Counted(Taken, rows)) = 1
  <2>1. CASE Spells(Taken, Parts(Taken, rows), {tool.new[Taken]}) /\ NextProperty(Taken, one, one)
    <3>1. one => Whole(chat', Taken, plan[Taken])
      BY <1>1, <1>2, <2>1, SpelledIsWhole
    <3>2. one \in BOOLEAN
      OBVIOUS
    <3> HIDE DEF one
    <3> QED BY <1>1, <1>2, <2>1, <3>1, <3>2, NextTrue
  <2>2. CASE tool' = [tool EXCEPT !.rows = Parts(Taken, rows)]
    <3>1. Parts(Taken, rows) \in SUBSET Nat
      BY <1>1, LiveIn DEF Parts
    <3> QED BY <1>1, <1>2, <1>5, <2>2, <3>1, RowsTrue
  <2>3. CASE NextProperty(Taken, FALSE, FALSE)
    BY <1>3, <2>3
  <2> QED BY <1>1, <1>5, <2>1, <2>2, <2>3, ReconcilesIs
<1> QED BY <1>1, <1>3, <1>4, <1>5

\* The tool works on: the row it was at is done.
LEMMA WorksTrue ==
    ASSUME TypeInv, SafeInv, tool.rows # {}, tool.step # "idle", Stable(chat, chat', plan),
           UNCHANGED <<plan, before, report, merged, proof, sender>>,
           IF tool.rows = {First(tool.rows)} THEN NextProperty(Taken, FALSE, FALSE)
           ELSE tool' = [tool EXCEPT !.rows = @ \ {First(tool.rows)}],
           tool.step = "dedupe" /\ tool' = [tool EXCEPT !.rows = tool.rows \ {First(tool.rows)}] => Keeps(chat', tool')
    PROVE  SafeInv'
<1>1. tool.want # {} /\ tool.rows \ {First(tool.rows)} \in SUBSET Nat
  BY RowAt
<1>2. CASE NextProperty(Taken, FALSE, FALSE)
  BY <1>1, <1>2, NextTrue
<1>3. CASE tool' = [tool EXCEPT !.rows = tool.rows \ {First(tool.rows)}]
  BY <1>1, <1>3, RowsTrue
<1> QED BY <1>2, <1>3

LEMMA SafeEdits ==
    ASSUME TypeInv, SafeInv, Edits
    PROVE  SafeInv'
<1>1. /\ tool.rows # {} /\ tool.step = "reconcile"
      /\ UNCHANGED <<plan, before, report, merged, proof, sender>>
      /\ \/ chat' = [chat EXCEPT ![Taken][First(tool.rows)] = Edited]
         \/ UNCHANGED chat
      /\ IF tool.rows = {First(tool.rows)} THEN NextProperty(Taken, FALSE, FALSE)
         ELSE tool' = [tool EXCEPT !.rows = @ \ {First(tool.rows)}]
  BY EditsIs
<1> DEFINE i == First(tool.rows)
<1>2. Taken \in Property /\ i \in DOMAIN chat[Taken] /\ tool.new = plan
  BY <1>1, RowAt DEF SafeInv, ToolTrue
<1>3. /\ Edited \in Messages /\ Edited.part = chat[Taken][i].part
      /\ Edited.of = plan[Taken] /\ Edited.gone = chat[Taken][i].gone
  BY <1>1, <1>2, MarkIs
<1> HIDE DEF i
<1>4. Stable(chat, chat', plan)
  <2>1. CASE UNCHANGED chat
    BY <2>1, StableSame
  <2>2. CASE chat' = [chat EXCEPT ![Taken][i] = Edited]
    <3>1. /\ \A q \in Property : DOMAIN chat'[q] = DOMAIN chat[q]
          /\ \A q \in Property \ {Taken} : chat'[q] = chat[q]
          /\ \A j \in DOMAIN chat[Taken] \ {i} : chat'[Taken][j] = chat[Taken][j]
          /\ chat'[Taken][i] = Edited
      BY <1>2, <1>3, <2>2, MarkStep
    <3>2. ASSUME NEW p \in Property, NEW k \in Part, Carries(chat[p], k, plan[p])
          PROVE  Carries(chat'[p], k, plan[p])
      <4>1. CASE p # Taken
        BY <3>1, <3>2, <4>1
      <4>2. CASE p = Taken
        <5>1. PICK w \in DOMAIN chat[Taken] :
                 ~ chat[Taken][w].gone /\ chat[Taken][w].part = k /\ (k = 0 \/ chat[Taken][w].of = plan[Taken])
          BY <3>2, <4>2 DEF Carries
        <5>2. /\ w \in DOMAIN chat'[Taken] /\ ~ chat'[Taken][w].gone /\ chat'[Taken][w].part = k
              /\ (k = 0 \/ chat'[Taken][w].of = plan[Taken])
          <6>1. CASE w = i
            BY <1>2, <1>3, <3>1, <5>1, <6>1
          <6>2. CASE w # i
            BY <1>2, <3>1, <5>1, <6>2
          <6> QED BY <6>1, <6>2
        <5> QED BY <4>2, <5>2 DEF Carries
      <4> QED BY <4>1, <4>2
    <3> QED BY <3>2 DEF Stable
  <2> QED BY <1>1, <2>1, <2>2 DEF i
<1> QED BY <1>1, <1>4, WorksTrue

LEMMA SafeDeletes ==
    ASSUME TypeInv, SafeInv, Deletes
    PROVE  SafeInv'
<1>1. /\ tool.rows # {} /\ tool.step = "dedupe"
      /\ UNCHANGED <<plan, before, report, merged, proof, sender>>
      /\ \/ chat' = [chat EXCEPT ![Taken][First(tool.rows)] = Deleted]
         \/ UNCHANGED chat
      /\ IF tool.rows = {First(tool.rows)} THEN NextProperty(Taken, FALSE, FALSE)
         ELSE tool' = [tool EXCEPT !.rows = @ \ {First(tool.rows)}]
  BY DeletesIs
<1> DEFINE i == First(tool.rows)
<1>2. /\ Taken \in Property /\ i \in DOMAIN chat[Taken] /\ i \in tool.rows /\ tool.new = plan
      /\ tool.rows \subseteq DOMAIN chat[Taken]
  BY <1>1, RowAt DEF SafeInv, ToolTrue
<1>3. Deleted \in Messages
  BY <1>1, MarkIs
<1>4. \A r \in tool.rows : \E j \in DOMAIN chat[Taken] \ tool.rows :
          /\ ~ chat[Taken][j].gone /\ chat[Taken][j].part = chat[Taken][r].part
          /\ chat[Taken][r].part = 0 \/ chat[Taken][j].of = plan[Taken]
  BY <1>1, <1>2 DEF SafeInv, ToolTrue, Keeps, Taken
<1> HIDE DEF i
<1>5. /\ \A q \in Property : DOMAIN chat'[q] = DOMAIN chat[q]
      /\ \A q \in Property \ {Taken} : chat'[q] = chat[q]
      /\ \A j \in DOMAIN chat[Taken] \ {i} : chat'[Taken][j] = chat[Taken][j]
  <2>1. CASE UNCHANGED chat
    BY <2>1
  <2>2. CASE chat' = [chat EXCEPT ![Taken][i] = Deleted]
    BY <1>2, <1>3, <2>2, MarkStep
  <2> QED BY <1>1, <2>1, <2>2 DEF i
<1>6. Stable(chat, chat', plan)
  <2>1. ASSUME NEW p \in Property, NEW k \in Part, Carries(chat[p], k, plan[p])
        PROVE  Carries(chat'[p], k, plan[p])
    <3>1. CASE p # Taken
      BY <1>5, <2>1, <3>1
    <3>2. CASE p = Taken
      <4>1. PICK w \in DOMAIN chat[Taken] :
               ~ chat[Taken][w].gone /\ chat[Taken][w].part = k /\ (k = 0 \/ chat[Taken][w].of = plan[Taken])
        BY <2>1, <3>2 DEF Carries
      <4>2. PICK u \in DOMAIN chat[Taken] \ {i} :
               ~ chat[Taken][u].gone /\ chat[Taken][u].part = k /\ (k = 0 \/ chat[Taken][u].of = plan[Taken])
        <5>1. CASE w = i
          BY <1>2, <1>4, <4>1, <5>1
        <5>2. CASE w # i
          BY <4>1, <5>2
        <5> QED BY <5>1, <5>2
      <4>3. u \in DOMAIN chat'[Taken] /\ chat'[Taken][u] = chat[Taken][u]
        BY <1>2, <1>5, <4>2
      <4> QED BY <3>2, <4>2, <4>3 DEF Carries
    <3> QED BY <3>1, <3>2
  <2> QED BY <2>1 DEF Stable
<1>7. ASSUME tool' = [tool EXCEPT !.rows = tool.rows \ {i}] PROVE Keeps(chat', tool')
  <2>1. tool.rows \ {i} \in SUBSET Nat
    BY <1>1, RowAt
  <2>2. tool'.rows = tool.rows \ {i} /\ tool'.want = tool.want /\ tool'.new = tool.new
    BY <1>7, <2>1, RowsStep
  <2>3. ASSUME NEW r \in tool.rows \ {i}
        PROVE  \E j \in DOMAIN chat'[Taken] \ (tool.rows \ {i}) :
                  /\ ~ chat'[Taken][j].gone /\ chat'[Taken][j].part = chat'[Taken][r].part
                  /\ chat'[Taken][r].part = 0 \/ chat'[Taken][j].of = plan[Taken]
    <3>1. PICK j \in DOMAIN chat[Taken] \ tool.rows :
              /\ ~ chat[Taken][j].gone /\ chat[Taken][j].part = chat[Taken][r].part
              /\ chat[Taken][r].part = 0 \/ chat[Taken][j].of = plan[Taken]
      BY <1>4
    <3>2. chat'[Taken][j] = chat[Taken][j] /\ chat'[Taken][r] = chat[Taken][r] /\ j \in DOMAIN chat'[Taken]
      BY <1>2, <1>5, <3>1
    <3> QED BY <3>1, <3>2
  <2> QED BY <1>2, <2>2, <2>3 DEF Keeps, Taken
<1> QED BY <1>1, <1>6, <1>7, WorksTrue DEF i

LEMMA SafeToolEnds ==
    ASSUME TypeInv, SafeInv, ReconcileEnds \/ DedupeEnds \/ ToolKilled
    PROVE  SafeInv'
<1>1. UNCHANGED <<plan, before, chat, report, merged, sender>> /\ tool' = NoTool
  BY DEF ReconcileEnds, DedupeEnds, ToolKilled
<1>2. ProofTrue(proof', chat', plan)
  <2>1. ProofTrue(proof, chat, plan) /\ ProofTrue(NoProof, chat, plan)
    BY DEF SafeInv, ProofTrue, NoProof
  <2>2. /\ ProofTrue([who |-> tool.who, fresh |-> TRUE], chat, plan)
        /\ ProofTrue([who |-> proof.who \cup tool.who, fresh |-> proof.fresh], chat, plan)
    BY DEF SafeInv, ToolTrue, ProofTrue
  <2>3. proof' \in {proof, NoProof, [who |-> tool.who, fresh |-> TRUE],
                   [who |-> proof.who \cup tool.who, fresh |-> proof.fresh]}
    BY DEF ReconcileEnds, DedupeEnds, ToolKilled
  <2> QED BY <1>1, <2>1, <2>2, <2>3
<1> QED BY <1>1, <1>2, NoToolTrue, StableSame, SafeTool

(***************************************************************************)
(* The receipts are true in every state.                                   *)
(***************************************************************************)

LEMMA SafeStep ==
    ASSUME ~ Returns, ~ Overlap, TypeInv, SafeInv, [Next]_vars
    PROVE  SafeInv'
<1>1. ASSUME NEW new \in Plan, NewPlan(new) PROVE SafeInv'
  BY <1>1, SafeNewPlan
<1>2. ASSUME NEW sel \in SUBSET Property \ {{}}, NEW file \in {report, merged}, SenderStarts(sel, file) PROVE SafeInv'
  <2>1. sel \in SUBSET Property
    OBVIOUS
  <2> QED BY <1>2, <2>1, SafeSenderStarts
<1>3. ASSUME NEW res \in {None, [p \in Property |-> Unsent]}, SendsNothing(res) PROVE SafeInv'
  BY <1>3, SafeSendsNothing
<1>4. ASSUME NEW kind \in {"reconcile", "verify", "dedupe"}, NEW file \in {report, merged},
             NEW sel \in SUBSET Property \ {{}}, ToolStarts(kind, file, sel)
      PROVE  SafeInv'
  <2>1. sel \in SUBSET Property
    OBVIOUS
  <2> QED BY <1>4, <2>1, SafeToolStarts
<1>5. ASSUME NEW first \in {report, merged}, NEW second \in {report, merged}, Merge(first, second) PROVE SafeInv'
  BY <1>5, SafeMerge
<1>6. CASE Resumes \/ Lists \/ Header \/ Body \/ Writes \/ SenderEnds \/ SenderKilled
  BY <1>6, SafeResumes, SafeLists, SafeHeader, SafeBody, SafeWrites, SafeSenderEnds, SafeSenderKilled
<1>7. CASE Reads \/ Edits \/ ReconcileEnds \/ Deletes \/ DedupeEnds \/ ToolKilled
  BY <1>7, SafeReads, SafeEdits, SafeDeletes, SafeToolEnds
<1>8. CASE UNCHANGED vars
  BY <1>8 DEF vars, SafeInv
<1> QED BY <1>1, <1>2, <1>3, <1>4, <1>5, <1>6, <1>7, <1>8 DEF Next

LEMMA SafeSpec ==
    ASSUME ~ Returns, ~ Overlap
    PROVE  Spec => [](ResumedIsLive /\ GateMeansLive)
<1>1. Init => TypeInv /\ SafeInv
  BY TypeInit, SafeInit
<1>2. (TypeInv /\ SafeInv) /\ [Next]_vars => (TypeInv /\ SafeInv)'
  BY TypeStep, SafeStep
<1> QED BY <1>1, <1>2, SafeEnough, PTL DEF Spec

\* While plans do not return to an earlier draft, and none is built while a tool
\* runs, a receipt that the sender would take for delivered, of either report, has
\* the plan's draft whole in its thread, through posts, edits, deletions, merges,
\* kills and failed calls.
THEOREM ReceiptsAreTrue == (~ Returns /\ ~ Overlap) => (Spec => []ResumedIsLive)
<1> SUFFICES ASSUME ~ Returns, ~ Overlap PROVE Spec => []ResumedIsLive
  OBVIOUS
<1> QED BY SafeSpec, PTL

\* Under the same two hypotheses, a report of the current plan that the send guard
\* accepts means that the drafts of all properties are in the forum.
THEOREM AcceptedIsInTheForum == (~ Returns /\ ~ Overlap) => (Spec => []GateMeansLive)
<1> SUFFICES ASSUME ~ Returns, ~ Overlap PROVE Spec => []GateMeansLive
  OBVIOUS
<1> QED BY SafeSpec, PTL
=============================================================================
