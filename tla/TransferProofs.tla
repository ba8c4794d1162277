-------------------------- MODULE TransferProofs --------------------------
(* Theorems about InternalTransfer, and about TransferCash on top of it,   *)
(* for all values of their constants.                                      *)
EXTENDS TransferCash, TLAPS

(***************************************************************************)
(* Type correctness.                                                       *)
(***************************************************************************)

LEMMA ReturnTypes ==
    ASSUME NEW p \in Proc, NEW r \in Result, TypeOK, Return(p, r)
    PROVE  /\ lock' \in [StateFile -> Proc \cup {NoProc}]
           /\ pc' \in [Proc -> {"idle", "waiting", "loaded", "bridge"}]
           /\ tok' \in [Proc -> Token]
           /\ mem' \in [Proc -> [Token -> Status]]
           /\ posts' \in [Proc -> 0 .. MaxPosts]
           /\ otpSeen' \in [Proc -> BOOLEAN]
           /\ wire' \in [Proc -> Wire]
           /\ result' \in [Proc -> Result]
<1>1. Nothing \in [Token -> Status]
  BY DEF Nothing, Status
<1>2. MaxPosts \in Nat /\ 0 \in 0 .. MaxPosts
  BY ConstantsAssumption
<1> QED
  BY <1>1, <1>2, ConstantsAssumption DEF TypeOK, Return, Unlock, Wire

LEMMA WriteTypes ==
    ASSUME NEW p \in Proc, NEW s \in Status, TypeOK
    PROVE  /\ Dump(p, s) \in [Token -> Status]
           /\ Write(p, s) => disk' \in [StateFile -> [Token -> Status]]
<1>1. Dump(p, s) \in [Token -> Status]
  BY DEF TypeOK, Dump
<1>2. FileOf[p] \in StateFile /\ disk \in [StateFile -> [Token -> Status]]
  BY ConstantsAssumption DEF TypeOK
<1>3. DEFINE D == Dump(p, s)
<1>4. [disk EXCEPT ![FileOf[p]] = D] \in [StateFile -> [Token -> Status]]
  <2> HIDE DEF D
  <2>1. D \in [Token -> Status]
    BY <1>1 DEF D
  <2> QED
    BY <2>1, <1>2
<1> QED
  BY <1>1, <1>4 DEF Write

LEMMA AbandonTypes ==
    ASSUME NEW p \in Proc, NEW n \in Nat, TypeOK, Abandon(p, n)
    PROVE  /\ orphan' \in [Token -> Nat]
           /\ working' \in [Token -> Nat]
           /\ moved' \in [Token -> Nat]
           /\ otpOk' \in BOOLEAN
  BY DEF TypeOK, Abandon

LEMMA TypeInit == Init => TypeOK
<1> SUFFICES ASSUME Init PROVE TypeOK
  OBVIOUS
<1>1. Nothing \in [Token -> Status]
  BY DEF Nothing, Status
<1>2. MaxPosts \in Nat /\ 0 \in 0 .. MaxPosts
  BY ConstantsAssumption
<1> QED
  BY <1>1, <1>2 DEF Init, TypeOK, Wire, Result

LEMMA TypeStep == TypeOK /\ [Next]_vars => TypeOK'
<1> SUFFICES ASSUME TypeOK, [Next]_vars PROVE TypeOK'
  OBVIOUS
<1> USE ConstantsAssumption
<1>1. ASSUME NEW p \in Proc, NEW t \in Token, Call(p, t) PROVE TypeOK'
  BY <1>1 DEF Call, TypeOK, recordVars, bankVars, Result
<1>2. ASSUME NEW p \in Proc, CallWrongToken(p) PROVE TypeOK'
  BY <1>2 DEF CallWrongToken, TypeOK, recordVars, bankVars, Result
<1>3. ASSUME NEW p \in Proc, Acquire(p) PROVE TypeOK'
  BY <1>3 DEF Acquire, TypeOK, bankVars
<1>4. ASSUME NEW p \in Proc, ReturnPrior(p) PROVE TypeOK'
  <2>1. \E r \in Result : Return(p, r)
    BY <1>4 DEF ReturnPrior, Result
  <2> QED
    BY <1>4, <2>1, ReturnTypes DEF ReturnPrior, TypeOK, bankVars
<1>5. ASSUME NEW p \in Proc, PreflightFails(p) PROVE TypeOK'
  <2>1. \E r \in Result : Return(p, r)
    BY <1>5 DEF PreflightFails, Result
  <2> QED
    BY <1>5, <2>1, ReturnTypes DEF PreflightFails, TypeOK, bankVars
<1>6. ASSUME NEW p \in Proc, BeginSubmission(p) PROVE TypeOK'
  <2>1. "submitting" \in Status
    BY DEF Status, Blocking
  <2> QED
    BY <1>6, <2>1, WriteTypes DEF BeginSubmission, TypeOK, bankVars
<1>7. ASSUME NEW p \in Proc, Post(p) PROVE TypeOK'
  BY <1>7 DEF Post, RouteLeft, TypeOK, recordVars, bankVars, Wire
<1>8. ASSUME NEW p \in Proc, GiveUp(p) PROVE TypeOK'
  <2>1. Abandon(p, 0)
    BY <1>8 DEF GiveUp
  <2> QED
    BY <1>8, <2>1, AbandonTypes DEF GiveUp, TypeOK, recordVars, Wire
<1>9. ASSUME NEW p \in Proc, LogErrors(p) PROVE TypeOK'
  BY <1>9 DEF LogErrors, TypeOK, recordVars, bankVars, Wire
<1>10. ASSUME NEW p \in Proc, ReceiptArrives(p) PROVE TypeOK'
  <2>1. \E r \in Result : Return(p, r)
    BY <1>10 DEF ReceiptArrives, Conclude, Result
  <2>2. disk' \in [StateFile -> [Token -> Status]]
    <3>1. UNCHANGED disk \/ \E s \in Status : Write(p, s)
      BY <1>10 DEF ReceiptArrives, Conclude, Status, Blocking
    <3> QED
      BY <3>1, WriteTypes DEF TypeOK
  <2> QED
    BY <1>10, <2>1, <2>2, ReturnTypes DEF ReceiptArrives, TypeOK, bankVars
<1>11. ASSUME NEW p \in Proc, ErrorsArrive(p) PROVE TypeOK'
  <2>1. \E r \in Result, s \in Status : Return(p, r) /\ Write(p, s)
    BY <1>11 DEF ErrorsArrive, Conclude, Result, Status, RetrySafe, Blocking, Unknown
  <2> QED
    BY <1>11, <2>1, ReturnTypes, WriteTypes DEF ErrorsArrive, TypeOK, bankVars
<1>12. ASSUME NEW p \in Proc, BridgeFails(p) PROVE TypeOK'
  <2>1. \E r \in Result, s \in Status : Return(p, r) /\ Write(p, s)
    BY <1>12 DEF BridgeFails, Conclude, Result, Status, RetrySafe, Blocking, Unknown
  <2> QED
    BY <1>12, <2>1, ReturnTypes, WriteTypes DEF BridgeFails, TypeOK, bankVars
<1>13. ASSUME NEW p \in Proc, BridgeTimesOut(p) PROVE TypeOK'
  <2>1. \E r \in Result, s \in Status : Return(p, r) /\ Write(p, s)
    BY <1>13 DEF BridgeTimesOut, Conclude, Result, Status, Blocking, Unknown
  <2>2. Abandon(p, 0)
    BY <1>13 DEF BridgeTimesOut
  <2> QED
    BY <2>1, <2>2, ReturnTypes, WriteTypes, AbandonTypes DEF TypeOK
<1>14. ASSUME NEW p \in Proc, Crash(p) PROVE TypeOK'
  <2>1. posts[p] \in Nat /\ posts[p] <= MaxPosts /\ MaxPosts \in Nat
    BY DEF TypeOK
  <2>2. \E n \in Nat : Abandon(p, n)
    BY <1>14, <2>1 DEF Crash
  <2>3. Nothing \in [Token -> Status]
    BY DEF Nothing, Status
  <2>4. /\ orphan' \in [Token -> Nat] /\ working' \in [Token -> Nat]
        /\ moved' \in [Token -> Nat] /\ otpOk' \in BOOLEAN
    BY <2>2, AbandonTypes
  <2>5. MaxPosts \in Nat /\ 0 \in 0 .. MaxPosts
    BY <2>1
  <2> QED
    BY <1>14, <2>3, <2>4, <2>5 DEF Crash, TypeOK, Wire, Result
<1>15. ASSUME NEW p \in Proc, BankReceives(p) PROVE TypeOK'
  <2>1. \E reply \in Wire : wire' = [wire EXCEPT ![p] = reply]
    BY <1>15, Zenon DEF BankReceives, Wire, Receipt, ErrorReply
  <2> QED
    BY <1>15, <2>1 DEF BankReceives, TypeOK, recordVars, bankVars
<1>16. ASSUME NEW p \in Proc, BankSettles(p) PROVE TypeOK'
  BY <1>16 DEF BankSettles, TypeOK, recordVars, Wire
<1>17. ASSUME NEW t \in Token, OrphanReceived(t) PROVE TypeOK'
  BY <1>17 DEF OrphanReceived, TypeOK, recordVars, callVars
<1>18. ASSUME NEW t \in Token, OrphanSettles(t) PROVE TypeOK'
  BY <1>18 DEF OrphanSettles, TypeOK, recordVars, callVars
<1>19. ASSUME OtpChanges PROVE TypeOK'
  BY <1>19 DEF OtpChanges, TypeOK, recordVars, callVars
<1>20. CASE UNCHANGED vars
  BY <1>20 DEF vars, recordVars, callVars, bankVars, TypeOK
<1> QED
  BY <1>1, <1>2, <1>3, <1>4, <1>5, <1>6, <1>7, <1>8, <1>9, <1>10, <1>11, <1>12,
     <1>13, <1>14, <1>15, <1>16, <1>17, <1>18, <1>19, <1>20 DEF Next, ProcStep, Bank

\* Every variable keeps its type in every run, whatever the constants are.
THEOREM TypeCorrect == Spec => []TypeOK
  BY TypeInit, TypeStep, PTL DEF Spec

(***************************************************************************)
(* The lock makes the loaded dictionary the file's: nobody writes a stale  *)
(* one, so no record is lost.                                              *)
(***************************************************************************)

SectionInv ==
    /\ \A p \in Proc : InSection(p) => lock[FileOf[p]] = p /\ mem[p] = disk[FileOf[p]]
    /\ \A p \in Proc : pc[p] = "bridge" => Record(p) = "submitting"

LEMMA SectionInit == Init => SectionInv
  BY DEF Init, SectionInv, InSection

\* A process that leaves the section with or without a last write disturbs no
\* other process in its section.
LEMMA LeaveSection ==
    ASSUME TypeOK, SectionInv, NEW p \in Proc, InSection(p), NEW r,
           Return(p, r), UNCHANGED disk \/ \E s \in Status : Write(p, s)
    PROVE  SectionInv'
<1> USE ConstantsAssumption DEF InSection, Record
<1>1. pc' = [pc EXCEPT ![p] = "idle"] /\ tok' = tok
  BY DEF Return
<1>2. ASSUME NEW q \in Proc, InSection(q)'
      PROVE  q # p /\ InSection(q) /\ FileOf[q] # FileOf[p] /\ pc'[q] = pc[q]
  BY <1>1, <1>2 DEF TypeOK, SectionInv
<1>3. ASSUME NEW q \in Proc, q # p, FileOf[q] # FileOf[p]
      PROVE  /\ disk'[FileOf[q]] = disk[FileOf[q]]
             /\ lock'[FileOf[q]] = lock[FileOf[q]]
             /\ mem'[q] = mem[q]
  BY <1>3 DEF TypeOK, Write, Return, Unlock
<1> QED
  BY <1>1, <1>2, <1>3 DEF SectionInv

LEMMA SectionStep == TypeOK /\ SectionInv /\ [Next]_vars => SectionInv'
<1> SUFFICES ASSUME TypeOK, SectionInv, [Next]_vars PROVE SectionInv'
  OBVIOUS
<1> USE ConstantsAssumption DEF InSection, Record
<1>1. ASSUME NEW p \in Proc, NEW t \in Token, Call(p, t) PROVE SectionInv'
  BY <1>1 DEF Call, TypeOK, SectionInv, recordVars
<1>2. ASSUME NEW p \in Proc, Acquire(p) PROVE SectionInv'
  BY <1>2 DEF Acquire, LockFree, TypeOK, SectionInv
<1>3. ASSUME NEW p \in Proc, ReturnPrior(p) \/ PreflightFails(p) PROVE SectionInv'
  <2>1. InSection(p) /\ UNCHANGED disk /\ \E r : Return(p, r)
    BY <1>3 DEF ReturnPrior, PreflightFails
  <2> QED
    BY <2>1, LeaveSection
<1>4. ASSUME NEW p \in Proc, BeginSubmission(p) PROVE SectionInv'
  <2>1. Dump(p, "submitting")[tok[p]] = "submitting"
    BY DEF Dump, TypeOK
  <2>2. ASSUME NEW q \in Proc, q # p, InSection(q)
        PROVE  FileOf[q] # FileOf[p]
    BY <1>4, <2>2 DEF BeginSubmission, SectionInv
  <2> QED
    BY <1>4, <2>1, <2>2 DEF BeginSubmission, Write, TypeOK, SectionInv
<1>5. ASSUME NEW p \in Proc,
             ReceiptArrives(p) \/ ErrorsArrive(p) \/ BridgeFails(p) \/ BridgeTimesOut(p)
      PROVE  SectionInv'
  <2>1. InSection(p)
    BY <1>5 DEF ReceiptArrives, ErrorsArrive, BridgeFails, BridgeTimesOut
  <2>2. \E r : Return(p, r) /\ (UNCHANGED disk \/ \E s \in Status : Write(p, s))
    BY <1>5 DEF ReceiptArrives, ErrorsArrive, BridgeFails, BridgeTimesOut,
                Conclude, Status, RetrySafe, Blocking, Unknown
  <2> QED
    BY <2>1, <2>2, LeaveSection
<1>6. ASSUME NEW p \in Proc, Crash(p) PROVE SectionInv'
  BY <1>6 DEF Crash, TypeOK, SectionInv
<1>7. ASSUME UNCHANGED <<disk, lock, mem, pc, tok>> PROVE SectionInv'
  BY <1>7 DEF SectionInv
<1>8. ASSUME NEW p \in Proc,
             \/ CallWrongToken(p) \/ Post(p) \/ GiveUp(p) \/ LogErrors(p)
             \/ BankReceives(p) \/ BankSettles(p)
      PROVE  UNCHANGED <<disk, lock, mem, pc, tok>>
  BY <1>8 DEF CallWrongToken, Post, GiveUp, LogErrors, BankReceives, BankSettles, recordVars
<1>9. ASSUME NEW t \in Token, OrphanReceived(t) \/ OrphanSettles(t)
      PROVE  UNCHANGED <<disk, lock, mem, pc, tok>>
  BY <1>9 DEF OrphanReceived, OrphanSettles, recordVars, callVars
<1>10. OtpChanges \/ UNCHANGED vars => UNCHANGED <<disk, lock, mem, pc, tok>>
  BY DEF OtpChanges, vars, recordVars, callVars
<1> QED
  BY <1>1, <1>2, <1>3, <1>4, <1>5, <1>6, <1>7, <1>8, <1>9, <1>10
     DEF Next, ProcStep, Bank

\* Only the process in the bridge replaces a record, and it replaces the one
\* submitting record it wrote before.
LEMMA RecordStep ==
    ASSUME TypeOK, SectionInv, Next, NEW f \in StateFile, NEW t \in Token,
           disk'[f][t] # disk[f][t]
    PROVE  disk[f][t] \in Open \/ (disk[f][t] = "submitting" /\ Submitting(f, t))
<1> USE ConstantsAssumption DEF InSection, Record
<1>1. ASSUME NEW p \in Proc, NEW s \in Status, InSection(p), Write(p, s)
      PROVE  f = FileOf[p] /\ t = tok[p] /\ disk[f] = mem[p]
  <2>1. disk'[FileOf[p]] = Dump(p, s) /\ mem[p] = disk[FileOf[p]]
    BY <1>1 DEF TypeOK, SectionInv, Write
  <2>2. f = FileOf[p]
    BY <1>1 DEF TypeOK, Write
  <2>3. t = tok[p]
    BY <2>1, <2>2 DEF Dump, TypeOK
  <2> QED
    BY <2>1, <2>2, <2>3
<1>2. PICK p \in Proc : \/ BeginSubmission(p)
                        \/ /\ pc[p] = "bridge"
                           /\ \E s \in Status : Write(p, s)
  <2>1. ASSUME NEW q \in Proc, NEW u \in Token, Call(q, u) PROVE FALSE
    BY <2>1 DEF Call, recordVars
  <2>2. ASSUME NEW q \in Proc,
               \/ CallWrongToken(q) \/ Acquire(q) \/ ReturnPrior(q) \/ PreflightFails(q)
               \/ Post(q) \/ GiveUp(q) \/ LogErrors(q) \/ Crash(q)
               \/ BankReceives(q) \/ BankSettles(q)
        PROVE  FALSE
    BY <2>2 DEF CallWrongToken, Acquire, ReturnPrior, PreflightFails, Post, GiveUp,
                LogErrors, Crash, BankReceives, BankSettles, recordVars
  <2>3. ASSUME NEW u \in Token, OrphanReceived(u) \/ OrphanSettles(u) PROVE FALSE
    BY <2>3 DEF OrphanReceived, OrphanSettles, recordVars
  <2>4. ~OtpChanges
    BY DEF OtpChanges, recordVars
  <2>5. ASSUME NEW q \in Proc,
               ReceiptArrives(q) \/ ErrorsArrive(q) \/ BridgeFails(q) \/ BridgeTimesOut(q)
        PROVE  pc[q] = "bridge" /\ \E s \in Status : Write(q, s)
    BY <2>5 DEF ReceiptArrives, ErrorsArrive, BridgeFails, BridgeTimesOut,
                Conclude, Status, RetrySafe, Blocking, Unknown
  <2> QED
    BY <2>1, <2>2, <2>3, <2>4, <2>5 DEF Next, ProcStep, Bank
<1>3. CASE BeginSubmission(p)
  <2>1. "submitting" \in Status
    BY DEF Status, Blocking
  <2> QED
    BY <1>1, <1>3, <2>1 DEF BeginSubmission
<1>4. CASE pc[p] = "bridge" /\ \E s \in Status : Write(p, s)
  BY <1>1, <1>4 DEF SectionInv, Submitting
<1> QED
  BY <1>2, <1>3, <1>4

\* No interleaving of calls and crashes loses what an earlier call recorded:
\* completed and verification_failed records are final, and a submitting
\* record is only replaced by the process whose bridge is running.
THEOREM RecordsAreDurable == Spec => VerdictsDurable
<1>1. Spec => [](TypeOK /\ SectionInv)
  <2>1. Init => TypeOK /\ SectionInv
    BY TypeInit, SectionInit
  <2>2. TypeOK /\ SectionInv /\ [Next]_vars => (TypeOK /\ SectionInv)'
    BY TypeStep, SectionStep
  <2> QED
    BY <2>1, <2>2, PTL DEF Spec
<1> DEFINE Kept == \A f \in StateFile, t \in Token :
        /\ disk[f][t] \in {"completed", "verification_failed"} => disk'[f][t] = disk[f][t]
        /\ disk[f][t] = "submitting" /\ ~Submitting(f, t) => disk'[f][t] = disk[f][t]
<1>2. TypeOK /\ SectionInv /\ [Next]_vars => [Kept]_vars
  <2> SUFFICES ASSUME TypeOK, SectionInv, Next PROVE Kept
    OBVIOUS
  <2> QED
    BY RecordStep DEF Open, RetrySafe
<1> QED
  BY <1>1, <1>2, PTL DEF Spec, VerdictsDurable

(***************************************************************************)
(* With the idempotency key honoured, no plan moves twice: any number of   *)
(* routes, processes and state files.                                      *)
(***************************************************************************)

\* At most one post of a plan is being worked on, and none once it has moved.
KeyInv ==
    /\ \A p \in Proc : wire[p] # "none" => pc[p] = "bridge"
    /\ \A p \in Proc : wire[p] = "working" => moved[tok[p]] = 0 /\ working[tok[p]] = 0
    /\ \A p, q \in Proc :
            wire[p] = "working" /\ wire[q] = "working" /\ tok[p] = tok[q] => p = q
    /\ \A t \in Token : working[t] + moved[t] <= 1

LEMMA KeyInit == Init => KeyInv
  BY DEF Init, KeyInv

\* Nothing changes for Baselane when a reply is dropped or a call begins or ends.
LEMMA KeyQuiet ==
    ASSUME TypeOK, KeyInv, UNCHANGED <<working, moved>>, NEW p \in Proc,
           \A q \in Proc \ {p} : wire'[q] = wire[q] /\ pc'[q] = pc[q] /\ tok'[q] = tok[q],
           wire'[p] # "none" => pc'[p] = "bridge",
           wire'[p] # "working" \/ UNCHANGED <<wire, tok>>
    PROVE  KeyInv'
<1>1. ASSUME NEW q \in Proc, wire'[q] = "working"
      PROVE  wire[q] = "working" /\ tok'[q] = tok[q]
  <2>1. CASE q = p
    BY <1>1, <2>1
  <2>2. CASE q # p
    BY <1>1, <2>2
  <2> QED
    BY <2>1, <2>2
<1>2. \A q \in Proc : wire'[q] # "none" => pc'[q] = "bridge"
  BY DEF KeyInv
<1> QED
  BY <1>1, <1>2 DEF KeyInv

\* Abandoning the live post hands its work, if any, to nobody.
LEMMA KeyAbandon ==
    ASSUME TypeOK, KeyInv, NEW p \in Proc, NEW n \in Nat, Abandon(p, n), tok' = tok,
           wire' = [wire EXCEPT ![p] = "none"],
           \A q \in Proc \ {p} : pc'[q] = pc[q]
    PROVE  KeyInv'
<1>1. working' = [working EXCEPT ![tok[p]] = @ + IF wire[p] = "working" THEN 1 ELSE 0]
      /\ moved' = moved
  BY DEF Abandon
<1>2. CASE wire[p] = "working"
  BY <1>1, <1>2 DEF TypeOK, KeyInv
<1>3. CASE wire[p] # "working"
  <2>1. working' = working
    BY <1>1, <1>3 DEF TypeOK
  <2> QED
    BY <1>1, <2>1 DEF TypeOK, KeyInv
<1> QED
  BY <1>2, <1>3

LEMMA KeyStep == TypeOK /\ KeyInv /\ Dedup /\ [Next]_vars => KeyInv'
<1> SUFFICES ASSUME TypeOK, KeyInv, Dedup, [Next]_vars PROVE KeyInv'
  OBVIOUS
<1>1. ASSUME NEW p \in Proc, NEW t \in Token, Call(p, t) PROVE KeyInv'
  BY <1>1 DEF Call, TypeOK, KeyInv, bankVars
<1>2. ASSUME NEW p \in Proc,
             \/ ReturnPrior(p) \/ PreflightFails(p)
             \/ ReceiptArrives(p) \/ ErrorsArrive(p) \/ BridgeFails(p)
      PROVE  KeyInv'
  <2>1. (\E r : Return(p, r)) /\ UNCHANGED bankVars
    BY <1>2 DEF ReturnPrior, PreflightFails, ReceiptArrives, ErrorsArrive, BridgeFails, Conclude
  <2> QED
    BY <2>1, KeyQuiet DEF Return, TypeOK, bankVars
<1>3. ASSUME NEW p \in Proc,
             Acquire(p) \/ BeginSubmission(p) \/ CallWrongToken(p) \/ Post(p) \/ LogErrors(p)
      PROVE  KeyInv'
  <2>1. UNCHANGED <<tok, bankVars>>
    BY <1>3 DEF Acquire, BeginSubmission, CallWrongToken, Post, LogErrors
  <2>2. CASE Acquire(p) \/ BeginSubmission(p) \/ CallWrongToken(p)
    BY <1>3, <2>1, <2>2, KeyQuiet
       DEF Acquire, BeginSubmission, CallWrongToken, TypeOK, KeyInv, bankVars
  <2>3. CASE Post(p) \/ LogErrors(p)
    BY <1>3, <2>1, <2>3, KeyQuiet DEF Post, LogErrors, TypeOK, bankVars
  <2> QED
    BY <1>3, <2>2, <2>3
<1>4. ASSUME NEW p \in Proc, GiveUp(p) \/ BridgeTimesOut(p) PROVE KeyInv'
  BY <1>4, KeyAbandon
     DEF GiveUp, BridgeTimesOut, Conclude, Return, TypeOK
<1>5. ASSUME NEW p \in Proc, Crash(p) PROVE KeyInv'
  <2>1. \E n \in Nat : Abandon(p, n)
    BY <1>5 DEF Crash, TypeOK
  <2> QED
    BY <1>5, <2>1, KeyAbandon DEF Crash, TypeOK
<1>6. ASSUME NEW p \in Proc, BankReceives(p) PROVE KeyInv'
  <2>1. PICK reply : /\ wire' = [wire EXCEPT ![p] = reply]
                     /\ reply = "working" => Fresh(tok[p])
    BY <1>6 DEF BankReceives
  <2>2. wire[p] = "sent" /\ pc' = pc /\ tok' = tok /\ working' = working /\ moved' = moved
    BY <1>6 DEF BankReceives, bankVars
  <2>3. CASE reply = "working"
    BY <2>1, <2>2, <2>3 DEF Fresh, InProgress, TypeOK, KeyInv
  <2>4. CASE reply # "working"
    BY <2>1, <2>2, <2>4, KeyQuiet DEF TypeOK, KeyInv
  <2> QED
    BY <2>3, <2>4
<1>7. ASSUME NEW p \in Proc, BankSettles(p) PROVE KeyInv'
  BY <1>7 DEF BankSettles, Receipt, TypeOK, KeyInv
<1>8. ASSUME NEW t \in Token, OrphanReceived(t) PROVE KeyInv'
  BY <1>8 DEF OrphanReceived, Fresh, InProgress, TypeOK, KeyInv, callVars
<1>9. ASSUME NEW t \in Token, OrphanSettles(t) PROVE KeyInv'
  BY <1>9 DEF OrphanSettles, TypeOK, KeyInv, callVars
<1>10. CASE OtpChanges \/ UNCHANGED vars
  BY <1>10 DEF OtpChanges, KeyInv, vars, callVars, bankVars
<1> QED
  BY <1>1, <1>2, <1>3, <1>4, <1>5, <1>6, <1>7, <1>8, <1>9, <1>10 DEF Next, ProcStep, Bank

\* If Baselane honours x-idempotency-key, the key derived from the token keeps
\* every plan at one movement, over all routes of the bridge and also when two
\* processes with different state files submit the same plan.
THEOREM KeyMovesOnce == Dedup => (Spec => []AtMostOnce)
<1> SUFFICES ASSUME Dedup PROVE Spec => []AtMostOnce
  OBVIOUS
<1>1. Init => TypeOK /\ KeyInv
  BY TypeInit, KeyInit
<1>2. TypeOK /\ KeyInv /\ [Next]_vars => (TypeOK /\ KeyInv)'
  BY TypeStep, KeyStep
<1>3. TypeOK /\ KeyInv => AtMostOnce
  BY DEF TypeOK, KeyInv, AtMostOnce
<1> QED
  BY <1>1, <1>2, <1>3, PTL DEF Spec

(***************************************************************************)
(* One state file and one route: the records alone, without any help from  *)
(* Baselane, keep a plan at one movement.                                  *)
(***************************************************************************)

OneFileOneRoute == MaxPosts = 1 /\ StateFile # {} /\ \A f, g \in StateFile : f = g

\* Nothing moved the cash of t and no abandoned post can.
Quiet(t) == moved[t] = 0 /\ orphan[t] = 0 /\ working[t] = 0

\* The live post of p, or what p knows of it, shows that nothing was moved.
Harmless(p) ==
    \/ posts[p] = 0
    \/ wire[p] \in {"sent", "working"} \cup ErrorReply
    \/ otpSeen[p]

CashInv ==
    /\ \A p \in Proc : wire[p] # "none" => pc[p] = "bridge" /\ posts[p] = 1 /\ ~otpSeen[p]
    /\ \A p \in Proc : pc[p] # "bridge" => posts[p] = 0
    /\ \A p \in Proc : posts[p] = 0 => ~otpSeen[p]
    /\ \A p \in Proc : pc[p] = "bridge" /\ Harmless(p) => Quiet(tok[p])
    /\ \A p \in Proc : wire[p] \in Receipt =>
            moved[tok[p]] = 1 /\ orphan[tok[p]] = 0 /\ working[tok[p]] = 0
    /\ \A f \in StateFile, t \in Token : disk[f][t] \in Open => Quiet(t)
    /\ \A f \in StateFile, t \in Token : disk[f][t] = "completed" => moved[t] = 1
    /\ \A t \in Token : orphan[t] + working[t] + moved[t] <= 1

LEMMA CashInit == Init => CashInv
  BY DEF Init, CashInv, Quiet, Nothing, Open, Receipt

\* Two processes are never in the bridge for the same plan.
LEMMA BridgeAlone ==
    ASSUME OneFileOneRoute, TypeOK, SectionInv, NEW p \in Proc, NEW q \in Proc,
           pc[p] = "bridge", InSection(q)
    PROVE  p = q
  BY ConstantsAssumption DEF OneFileOneRoute, TypeOK, SectionInv, InSection

\* p leaves the section; what it writes last is true of the cash.
LEMMA CashReturn ==
    ASSUME OneFileOneRoute, TypeOK, SectionInv, CashInv, NEW p \in Proc, InSection(p),
           NEW r, Return(p, r), UNCHANGED <<orphan, working, moved>>,
           \/ UNCHANGED disk
           \/ \E s \in Status : /\ Write(p, s)
                                /\ s \in Open => Quiet(tok[p])
                                /\ s = "completed" => moved[tok[p]] = 1
    PROVE  CashInv'
<1> USE ConstantsAssumption
<1>1. \A q \in Proc \ {p} : pc'[q] = pc[q] /\ wire'[q] = wire[q] /\ posts'[q] = posts[q]
                            /\ otpSeen'[q] = otpSeen[q]
  BY DEF Return, TypeOK
<1>2. pc'[p] = "idle" /\ wire'[p] = "none" /\ posts'[p] = 0 /\ ~otpSeen'[p] /\ tok' = tok
  BY DEF Return, TypeOK
<1>3. ASSUME NEW f \in StateFile, NEW t \in Token, disk'[f][t] # disk[f][t]
      PROVE  /\ disk'[f][t] \in Open => Quiet(t)
             /\ disk'[f][t] = "completed" => moved[t] = 1
  <2>1. PICK s \in Status : /\ Write(p, s)
                            /\ s \in Open => Quiet(tok[p])
                            /\ s = "completed" => moved[tok[p]] = 1
    BY <1>3
  <2>2. disk' = [disk EXCEPT ![FileOf[p]] = [disk[FileOf[p]] EXCEPT ![tok[p]] = s]]
    BY <2>1 DEF Write, Dump, SectionInv
  <2>3. t = tok[p] /\ disk'[f][t] = s
    BY <1>3, <2>2 DEF TypeOK
  <2> QED
    BY <2>1, <2>3
<1>4. \A q \in Proc : pc'[q] = "bridge" /\ Harmless(q)' =>
        q # p /\ pc[q] = "bridge" /\ Harmless(q)
  BY <1>1, <1>2 DEF Harmless
<1>5. \A t \in Token : Quiet(t)' = Quiet(t)
  BY DEF Quiet
<1> QED
  <2>1. \A q \in Proc :
            /\ wire'[q] # "none" => pc'[q] = "bridge" /\ posts'[q] = 1 /\ ~otpSeen'[q]
            /\ pc'[q] # "bridge" => posts'[q] = 0
            /\ posts'[q] = 0 => ~otpSeen'[q]
    BY <1>1, <1>2 DEF CashInv
  <2>2. \A q \in Proc : pc'[q] = "bridge" /\ Harmless(q)' => Quiet(tok[q])'
    BY <1>2, <1>4 DEF CashInv, Quiet
  <2>3. \A q \in Proc : wire'[q] \in Receipt =>
            moved'[tok'[q]] = 1 /\ orphan'[tok'[q]] = 0 /\ working'[tok'[q]] = 0
    BY <1>1, <1>2 DEF CashInv, Receipt
  <2>4. \A f \in StateFile, t \in Token : disk'[f][t] \in Open => Quiet(t)'
    BY <1>3, <1>5 DEF CashInv
  <2>5. \A f \in StateFile, t \in Token : disk'[f][t] = "completed" => moved'[t] = 1
    BY <1>3 DEF CashInv
  <2>6. \A t \in Token : orphan'[t] + working'[t] + moved'[t] <= 1
    BY DEF CashInv
  <2> QED
    BY <2>1, <2>2, <2>3, <2>4, <2>5, <2>6 DEF CashInv

\* An abandoned post stays within the one movement its plan may still have.
LEMMA CashAbandon ==
    ASSUME OneFileOneRoute, TypeOK, SectionInv, CashInv, NEW p \in Proc,
           NEW n \in Nat, Abandon(p, n),
           n = 0 \/ (pc[p] = "bridge" /\ n <= MaxPosts - posts[p])
    PROVE  /\ moved' = moved
           /\ \A t \in Token : orphan'[t] + working'[t] + moved'[t] <= 1
           /\ \A t \in Token : t # tok[p] \/ pc[p] # "bridge" => Quiet(t)' = Quiet(t)
<1>1. /\ orphan' = [orphan EXCEPT ![tok[p]] = @ + n + IF wire[p] = "sent" THEN 1 ELSE 0]
      /\ working' = [working EXCEPT ![tok[p]] = @ + IF wire[p] = "working" THEN 1 ELSE 0]
      /\ moved' = moved
  BY DEF Abandon
<1>2. CASE n = 0 /\ wire[p] \notin {"sent", "working"}
  <2>1. orphan' = orphan /\ working' = working
    BY <1>1, <1>2 DEF TypeOK
  <2> QED
    BY <1>1, <2>1 DEF CashInv, Quiet
<1>3. CASE n = 0 /\ wire[p] \in {"sent", "working"}
  <2>1. Quiet(tok[p]) /\ pc[p] = "bridge"
    BY <1>3 DEF CashInv, Harmless
  <2> QED
    BY <1>1, <1>3, <2>1 DEF TypeOK, CashInv, Quiet
<1>4. CASE n > 0
  <2>1. posts[p] = 0 /\ n = 1 /\ pc[p] = "bridge"
    BY <1>4 DEF OneFileOneRoute, TypeOK
  <2>2. Quiet(tok[p]) /\ wire[p] = "none"
    BY <2>1 DEF CashInv, Harmless
  <2> QED
    BY <1>1, <2>1, <2>2 DEF TypeOK, CashInv, Quiet
<1> QED
  BY <1>2, <1>3, <1>4

\* The bridge of p is gone, its record blocks the plan: nobody else is in a
\* bridge, so whatever the abandoned post does is accounted for.
LEMMA CashGone ==
    ASSUME OneFileOneRoute, TypeOK, SectionInv, CashInv, NEW p \in Proc,
           NEW n \in Nat, Abandon(p, n),
           n = 0 \/ (pc[p] = "bridge" /\ n <= MaxPosts - posts[p]),
           pc' = [pc EXCEPT ![p] = "idle"], tok' = tok,
           posts' = [posts EXCEPT ![p] = 0], otpSeen' = [otpSeen EXCEPT ![p] = FALSE],
           wire' = [wire EXCEPT ![p] = "none"],
           UNCHANGED disk \/ (pc[p] = "bridge" /\ Write(p, "verification_failed"))
    PROVE  CashInv'
<1> USE ConstantsAssumption
<1>1. /\ moved' = moved
      /\ \A t \in Token : orphan'[t] + working'[t] + moved'[t] <= 1
      /\ \A t \in Token : t # tok[p] \/ pc[p] # "bridge" => Quiet(t)' = Quiet(t)
  BY CashAbandon
<1>2. \A f \in StateFile, t \in Token :
        \/ disk'[f][t] = disk[f][t] /\ (pc[p] # "bridge" \/ t # tok[p] \/ disk[f][t] = "submitting")
        \/ disk'[f][t] = "verification_failed"
  <2>1. CASE UNCHANGED disk
    BY <2>1 DEF SectionInv, Record, OneFileOneRoute
  <2>2. CASE pc[p] = "bridge" /\ Write(p, "verification_failed")
    <3>1. disk' = [disk EXCEPT ![FileOf[p]] =
                     [disk[FileOf[p]] EXCEPT ![tok[p]] = "verification_failed"]]
      BY <2>2 DEF Write, Dump, SectionInv, InSection
    <3> QED
      BY <3>1, <2>2 DEF TypeOK, OneFileOneRoute
  <2> QED
    BY <2>1, <2>2
<1>3. \A q \in Proc : pc'[q] = "bridge" => q # p /\ pc[q] = "bridge" /\ pc[p] # "bridge"
  BY BridgeAlone DEF TypeOK, InSection
<1>4. \A q \in Proc : pc'[q] = "bridge" => posts'[q] = posts[q] /\ wire'[q] = wire[q]
                                           /\ otpSeen'[q] = otpSeen[q]
  BY <1>3 DEF TypeOK
<1>5. pc[p] # "bridge" => orphan' = orphan /\ working' = working
  BY DEF CashInv, Abandon, TypeOK
<1>6. \A q \in Proc :
            /\ wire'[q] # "none" => pc'[q] = "bridge" /\ posts'[q] = 1 /\ ~otpSeen'[q]
            /\ pc'[q] # "bridge" => posts'[q] = 0
            /\ posts'[q] = 0 => ~otpSeen'[q]
  BY DEF CashInv, TypeOK
<1>7. \A q \in Proc : pc'[q] = "bridge" /\ Harmless(q)' => Quiet(tok[q])'
  BY <1>1, <1>3, <1>4, <1>5 DEF CashInv, Harmless, Quiet
<1>8. \A q \in Proc : wire'[q] \in Receipt =>
            moved'[tok'[q]] = 1 /\ orphan'[tok'[q]] = 0 /\ working'[tok'[q]] = 0
  BY <1>1, <1>3, <1>4, <1>5, <1>6 DEF CashInv, Receipt
<1>9. \A f \in StateFile, t \in Token : disk'[f][t] \in Open => Quiet(t)'
  BY <1>1, <1>2 DEF CashInv, Open, RetrySafe
<1>10. \A f \in StateFile, t \in Token : disk'[f][t] = "completed" => moved'[t] = 1
  BY <1>1, <1>2 DEF CashInv
<1> QED
  BY <1>1, <1>6, <1>7, <1>8, <1>9, <1>10 DEF CashInv

LEMMA CashStep ==
    OneFileOneRoute /\ TypeOK /\ SectionInv /\ CashInv /\ [Next]_vars => CashInv'
<1> SUFFICES ASSUME OneFileOneRoute, TypeOK, SectionInv, CashInv, [Next]_vars PROVE CashInv'
  OBVIOUS
<1> USE ConstantsAssumption
<1>1. ASSUME NEW p \in Proc, NEW t \in Token, Call(p, t) PROVE CashInv'
  <2>1. /\ pc' = [pc EXCEPT ![p] = "waiting"] /\ tok' = [tok EXCEPT ![p] = t] /\ pc[p] = "idle"
        /\ UNCHANGED <<disk, posts, otpSeen, wire, orphan, working, moved>>
    BY <1>1 DEF Call, recordVars, bankVars
  <2> QED
    BY <2>1 DEF TypeOK, CashInv, Quiet, Harmless, Receipt
<1>2. ASSUME NEW p \in Proc, CallWrongToken(p) \/ Acquire(p) PROVE CashInv'
  <2>1. /\ pc' = pc \/ (pc[p] = "waiting" /\ pc' = [pc EXCEPT ![p] = "loaded"])
        /\ UNCHANGED <<disk, tok, posts, otpSeen, wire, orphan, working, moved>>
    BY <1>2 DEF CallWrongToken, Acquire, recordVars, bankVars
  <2> QED
    BY <2>1 DEF TypeOK, CashInv, Quiet, Harmless, Receipt
<1>3. ASSUME NEW p \in Proc, ReturnPrior(p) \/ PreflightFails(p) PROVE CashInv'
  <2>1. InSection(p) /\ (\E r : Return(p, r)) /\ UNCHANGED <<disk, orphan, working, moved>>
    BY <1>3 DEF ReturnPrior, PreflightFails, InSection, bankVars
  <2> QED
    BY <2>1, CashReturn
<1>4. ASSUME NEW p \in Proc, BeginSubmission(p) PROVE CashInv'
  <2>1. /\ pc' = [pc EXCEPT ![p] = "bridge"] /\ pc[p] = "loaded" /\ mem[p][tok[p]] \in Open
        /\ UNCHANGED <<tok, posts, otpSeen, wire, orphan, working, moved>>
    BY <1>4 DEF BeginSubmission, bankVars
  <2>2. mem[p] = disk[FileOf[p]] /\ Quiet(tok[p])
    BY <2>1 DEF SectionInv, CashInv, InSection, TypeOK
  <2>3. \A f \in StateFile, t \in Token :
            disk'[f][t] = disk[f][t] \/ disk'[f][t] = "submitting"
    <3>1. disk' = [disk EXCEPT ![FileOf[p]] =
                     [disk[FileOf[p]] EXCEPT ![tok[p]] = "submitting"]]
      BY <1>4, <2>2 DEF BeginSubmission, Write, Dump
    <3> QED
      BY <3>1 DEF TypeOK
  <2>4. \A q \in Proc : pc'[q] = "bridge" /\ Harmless(q)' => Quiet(tok[q])'
    BY <2>1, <2>2 DEF CashInv, Quiet, Harmless, TypeOK
  <2>5. \A q \in Proc :
            /\ wire'[q] # "none" => pc'[q] = "bridge" /\ posts'[q] = 1 /\ ~otpSeen'[q]
            /\ pc'[q] # "bridge" => posts'[q] = 0
            /\ posts'[q] = 0 => ~otpSeen'[q]
    BY <2>1 DEF CashInv, TypeOK
  <2>6. \A f \in StateFile, t \in Token : /\ disk'[f][t] \in Open => Quiet(t)'
                                          /\ disk'[f][t] = "completed" => moved'[t] = 1
    BY <2>1, <2>3 DEF CashInv, Quiet, Open, RetrySafe
  <2> QED
    BY <2>1, <2>4, <2>5, <2>6 DEF CashInv
<1>5. ASSUME NEW p \in Proc, Post(p) PROVE CashInv'
  <2>1. /\ pc[p] = "bridge" /\ wire' = [wire EXCEPT ![p] = "sent"]
        /\ posts' = [posts EXCEPT ![p] = @ + 1] /\ posts[p] < MaxPosts
        /\ UNCHANGED <<disk, pc, tok, otpSeen, orphan, working, moved>>
    BY <1>5 DEF Post, RouteLeft, recordVars, bankVars
  <2>2. posts[p] = 0
    BY <2>1 DEF OneFileOneRoute, TypeOK
  <2>3. Quiet(tok[p])
    BY <2>1, <2>2 DEF CashInv, Harmless
  <2> QED
    BY <2>1, <2>2, <2>3 DEF TypeOK, CashInv, Quiet, Harmless, Receipt
<1>6. ASSUME NEW p \in Proc, GiveUp(p) PROVE CashInv'
  <2>1. /\ pc[p] = "bridge" /\ wire[p] # "none" /\ Abandon(p, 0)
        /\ wire' = [wire EXCEPT ![p] = "none"]
        /\ UNCHANGED <<disk, pc, tok, posts, otpSeen>>
    BY <1>6 DEF GiveUp, recordVars
  <2>2. /\ moved' = moved
        /\ \A t \in Token : orphan'[t] + working'[t] + moved'[t] <= 1
        /\ \A t \in Token : t # tok[p] => Quiet(t)' = Quiet(t)
    BY <2>1, CashAbandon
  <2>3. \A q \in Proc : pc[q] = "bridge" => q = p
    BY <2>1, BridgeAlone DEF InSection
  <2>4. posts[p] = 1 /\ ~otpSeen[p]
    BY <2>1 DEF CashInv
  <2>5. \A f \in StateFile : disk[f][tok[p]] = "submitting"
    BY <2>1 DEF SectionInv, Record, OneFileOneRoute
  <2>6. ~Harmless(p)' /\ wire'[p] = "none"
    BY <2>1, <2>4 DEF Harmless, TypeOK, ErrorReply
  <2>7. \A f \in StateFile, t \in Token : disk'[f][t] \in Open => Quiet(t)'
    BY <2>1, <2>2, <2>5 DEF CashInv, Open, RetrySafe
  <2>8. \A q \in Proc : wire'[q] = "none"
    BY <2>1, <2>3, <2>6 DEF CashInv, TypeOK
  <2> QED
    BY <2>1, <2>2, <2>3, <2>6, <2>7, <2>8 DEF CashInv, Receipt
<1>7. ASSUME NEW p \in Proc, LogErrors(p) PROVE CashInv'
  <2>1. /\ pc[p] = "bridge" /\ wire[p] \in ErrorReply
        /\ otpSeen' = [otpSeen EXCEPT ![p] = @ \/ wire[p] = "otp"]
        /\ wire' = [wire EXCEPT ![p] = "none"]
        /\ UNCHANGED <<disk, pc, tok, posts, orphan, working, moved>>
    BY <1>7 DEF LogErrors, recordVars, bankVars
  <2>2. Quiet(tok[p]) /\ posts[p] = 1
    BY <2>1 DEF CashInv, Harmless, ErrorReply
  <2> QED
    BY <2>1, <2>2 DEF TypeOK, CashInv, Quiet, Harmless, Receipt
<1>8. ASSUME NEW p \in Proc, ReceiptArrives(p) \/ ErrorsArrive(p) \/ BridgeFails(p)
      PROVE  CashInv'
  <2>1. InSection(p) /\ pc[p] = "bridge" /\ UNCHANGED <<orphan, working, moved>>
    BY <1>8 DEF ReceiptArrives, ErrorsArrive, BridgeFails, InSection, bankVars
  <2>2. \/ \E r : Return(p, r) /\ UNCHANGED disk
        \/ \E r : Return(p, r) /\ Write(p, "verification_failed")
        \/ \E r : Return(p, r) /\ Write(p, "completed") /\ wire[p] = "receipt"
        \/ \E r, s : /\ s \in RetrySafe /\ Return(p, r) /\ Write(p, s)
                     /\ wire[p] \in ErrorReply \/ otpSeen[p]
    BY <1>8 DEF ReceiptArrives, ErrorsArrive, BridgeFails, Conclude, Unknown, RetrySafe, ErrorReply
  <2>3. wire[p] \in ErrorReply \/ otpSeen[p] => Quiet(tok[p])
    BY <2>1 DEF CashInv, Harmless
  <2>4. wire[p] = "receipt" => moved[tok[p]] = 1
    BY DEF CashInv, Receipt
  <2> QED
    BY <2>1, <2>2, <2>3, <2>4, CashReturn DEF Status, Blocking, Open, RetrySafe
<1>9. ASSUME NEW p \in Proc, BridgeTimesOut(p) PROVE CashInv'
  BY <1>9, CashGone DEF BridgeTimesOut, Conclude, Return, Unknown
<1>10. ASSUME NEW p \in Proc, Crash(p) PROVE CashInv'
  <2>1. PICK n \in 0 .. (IF pc[p] = "bridge" THEN MaxPosts - posts[p] ELSE 0) : Abandon(p, n)
    BY <1>10 DEF Crash
  <2>2. n \in Nat /\ (n = 0 \/ (pc[p] = "bridge" /\ n <= MaxPosts - posts[p]))
    BY <2>1 DEF TypeOK
  <2> QED
    BY <1>10, <2>1, <2>2, CashGone DEF Crash
<1>11. ASSUME NEW p \in Proc, BankReceives(p) PROVE CashInv'
  <2>1. PICK reply \in {"otp", "receipt", "in_progress", "refused", "working"} :
            /\ wire' = [wire EXCEPT ![p] = reply]
            /\ reply = "receipt" => moved[tok[p]] > 0
    BY <1>11 DEF BankReceives
  <2>2. wire[p] = "sent" /\ UNCHANGED <<disk, pc, tok, posts, otpSeen, orphan, working, moved>>
    BY <1>11 DEF BankReceives, recordVars, bankVars
  <2>3. Quiet(tok[p])
    BY <2>2 DEF CashInv, Harmless
  <2>4. reply \in {"working"} \cup ErrorReply /\ reply \notin Receipt /\ reply # "none"
    BY <2>1, <2>3 DEF Quiet, ErrorReply, Receipt
  <2> QED
    BY <2>1, <2>2, <2>3, <2>4 DEF TypeOK, CashInv, Quiet, Harmless, Receipt
<1>12. ASSUME NEW p \in Proc, BankSettles(p) PROVE CashInv'
  <2>1. PICK reply \in Receipt : wire' = [wire EXCEPT ![p] = reply]
    BY <1>12 DEF BankSettles
  <2>2. /\ wire[p] = "working" /\ moved' = [moved EXCEPT ![tok[p]] = @ + 1]
        /\ UNCHANGED <<disk, pc, tok, posts, otpSeen, orphan, working>>
    BY <1>12 DEF BankSettles, recordVars
  <2>3. Quiet(tok[p]) /\ pc[p] = "bridge" /\ posts[p] = 1 /\ ~otpSeen[p]
    BY <2>2 DEF CashInv, Harmless
  <2>4. \A q \in Proc : pc[q] = "bridge" => q = p
    BY <2>3, BridgeAlone DEF InSection
  <2>5. \A f \in StateFile : disk[f][tok[p]] = "submitting"
    BY <2>3 DEF SectionInv, Record, OneFileOneRoute
  <2>6. ~Harmless(p)' /\ \A q \in Proc : wire'[q] # "none" => q = p
    BY <2>1, <2>2, <2>3, <2>4 DEF Harmless, TypeOK, ErrorReply, Receipt, CashInv
  <2>7. moved'[tok[p]] = 1 /\ \A t \in Token : t # tok[p] => moved'[t] = moved[t]
    BY <2>2, <2>3 DEF Quiet, TypeOK
  <2>8. \A f \in StateFile, t \in Token : disk'[f][t] \in Open => Quiet(t)'
    BY <2>2, <2>5, <2>7 DEF CashInv, Open, RetrySafe, Quiet
  <2>9. \A t \in Token : orphan'[t] + working'[t] + moved'[t] <= 1
    BY <2>2, <2>3, <2>7 DEF CashInv, Quiet, TypeOK
  <2>10. \A q \in Proc : wire'[q] \in Receipt =>
             moved'[tok'[q]] = 1 /\ orphan'[tok'[q]] = 0 /\ working'[tok'[q]] = 0
    BY <2>2, <2>3, <2>6, <2>7 DEF Quiet, Receipt
  <2> QED
    BY <2>2, <2>3, <2>4, <2>5, <2>6, <2>7, <2>8, <2>9, <2>10 DEF CashInv
<1>13. ASSUME NEW t \in Token, OrphanReceived(t) \/ OrphanSettles(t) PROVE CashInv'
  <2>1. ~Quiet(t) /\ UNCHANGED <<disk, pc, tok, posts, otpSeen, wire>>
    BY <1>13 DEF OrphanReceived, OrphanSettles, Quiet, TypeOK, recordVars, callVars
  <2>2. \A u \in Token : u # t => Quiet(u)' = Quiet(u)
                                  /\ orphan'[u] = orphan[u]
                                  /\ working'[u] = working[u] /\ moved'[u] = moved[u]
    BY <1>13 DEF OrphanReceived, OrphanSettles, Quiet, TypeOK
  <2>3. orphan'[t] + working'[t] + moved'[t] <= 1 /\ (moved[t] = 1 => FALSE)
    BY <1>13 DEF OrphanReceived, OrphanSettles, CashInv, TypeOK
  <2>4. \A q \in Proc : (wire[q] \in Receipt => tok[q] # t)
                        /\ (pc[q] = "bridge" /\ Harmless(q) => tok[q] # t)
    BY <2>1, <2>3 DEF CashInv
  <2>5. \A q \in Proc : Harmless(q)' = Harmless(q)
    BY <2>1 DEF Harmless
  <2> QED
    BY <2>1, <2>2, <2>3, <2>4, <2>5 DEF CashInv, TypeOK
<1>14. CASE OtpChanges \/ UNCHANGED vars
  BY <1>14 DEF OtpChanges, CashInv, Quiet, Harmless, vars, recordVars, callVars, bankVars
<1> QED
  BY <1>1, <1>2, <1>3, <1>4, <1>5, <1>6, <1>7, <1>8, <1>9, <1>10, <1>11, <1>12, <1>13, <1>14
     DEF Next, ProcStep, Bank

LEMMA CashAlways == OneFileOneRoute => (Spec => [](TypeOK /\ SectionInv /\ CashInv))
<1> SUFFICES ASSUME OneFileOneRoute PROVE Spec => [](TypeOK /\ SectionInv /\ CashInv)
  OBVIOUS
<1>1. Init => TypeOK /\ SectionInv /\ CashInv
  BY TypeInit, SectionInit, CashInit
<1>2. TypeOK /\ SectionInv /\ CashInv /\ [Next]_vars => (TypeOK /\ SectionInv /\ CashInv)'
  BY TypeStep, SectionStep, CashStep
<1> QED
  BY <1>1, <1>2, PTL DEF Spec

\* One state file, one route: the durable records alone keep a plan at one
\* movement, even if Baselane ignored the idempotency key.
THEOREM RecordsMoveOnce == OneFileOneRoute => (Spec => []AtMostOnce)
<1>1. TypeOK /\ CashInv => AtMostOnce
  BY DEF TypeOK, CashInv, AtMostOnce
<1> QED
  BY <1>1, CashAlways, PTL

\* What get_transfer_state calls retry_safe is: the cash has not moved and no
\* post is out that still could.
THEOREM RetryIsSafe == OneFileOneRoute => (Spec => []OpenMeansNotMoved)
<1> SUFFICES ASSUME OneFileOneRoute PROVE Spec => []OpenMeansNotMoved
  OBVIOUS
<1>1. TypeOK /\ SectionInv /\ CashInv => OpenMeansNotMoved
  <2> SUFFICES ASSUME TypeOK, SectionInv, CashInv, NEW t \in Token,
                      \A f \in StateFile : disk[f][t] \in Open
               PROVE  moved[t] = 0 /\ ~InFlight(t)
    BY DEF OpenMeansNotMoved
  <2>1. Quiet(t)
    BY DEF CashInv, OneFileOneRoute
  <2>2. ASSUME NEW p \in Proc, tok[p] = t, wire[p] \in {"sent", "working"} PROVE FALSE
    <3>1. pc[p] = "bridge"
      BY <2>2 DEF CashInv
    <3>2. disk[FileOf[p]][t] = "submitting"
      BY <2>2, <3>1 DEF SectionInv, Record
    <3> QED
      BY <3>2, ConstantsAssumption DEF Open, RetrySafe
  <2> QED
    BY <2>1, <2>2 DEF Quiet, InFlight
<1> QED
  BY <1>1, CashAlways, PTL

(***************************************************************************)
(* Completed is only said of cash that moved: any routes, processes, state *)
(* files, and whether or not Baselane honours the idempotency key.         *)
(***************************************************************************)

\* Whatever says completed says so of a token whose cash has moved: a record, a
\* loaded record, the receipt a bridge holds, and the return value of a call.
DoneInv ==
    /\ CompletedMeansMoved
    /\ \A p \in Proc, t \in Token : mem[p][t] = "completed" => moved[t] > 0
    /\ \A p \in Proc : wire[p] # "none" => pc[p] = "bridge"
    /\ \A p \in Proc : wire[p] = "receipt" => moved[tok[p]] > 0
    /\ \A p \in Proc : result[p] \in {"completed", "already_completed"} => moved[tok[p]] > 0

LEMMA DoneInit == Init => DoneInv
  BY DEF Init, DoneInv, CompletedMeansMoved, Nothing

\* A dictionary with one new status is as true as the old one.
LEMMA DumpTrue ==
    ASSUME TypeOK, DoneInv, NEW p \in Proc, NEW s \in Status,
           s = "completed" => moved[tok[p]] > 0
    PROVE  \A t \in Token : Dump(p, s)[t] = "completed" => moved[t] > 0
  BY DEF TypeOK, DoneInv, Dump

LEMMA DoneWrite ==
    ASSUME TypeOK, DoneInv, moved' = moved, NEW p \in Proc, NEW s \in Status,
           s = "completed" => moved[tok[p]] > 0,
           Write(p, s)
    PROVE  CompletedMeansMoved'
<1> DEFINE D == Dump(p, s)
<1>1. FileOf[p] \in StateFile /\ D \in [Token -> Status]
  BY ConstantsAssumption, WriteTypes
<1>2. \A t \in Token : D[t] = "completed" => moved[t] > 0
  BY DumpTrue
<1>3. disk' = [disk EXCEPT ![FileOf[p]] = D]
  BY DEF Write
<1> HIDE DEF D
<1>4. ASSUME NEW f \in StateFile, NEW t \in Token, disk'[f][t] = "completed" PROVE moved[t] > 0
  <2>1. disk'[f] = D \/ disk'[f] = disk[f]
    BY <1>1, <1>3 DEF TypeOK
  <2> QED
    BY <1>2, <1>4, <2>1 DEF DoneInv, CompletedMeansMoved
<1> QED
  BY <1>4 DEF CompletedMeansMoved

\* A call that returns a true result after a true write, or none.
LEMMA DoneReturn ==
    ASSUME TypeOK, DoneInv, moved' = moved, NEW p \in Proc, NEW r,
           Return(p, r),
           r \in {"completed", "already_completed"} => moved[tok[p]] > 0,
           \/ UNCHANGED disk
           \/ \E s \in Status : Write(p, s) /\ (s = "completed" => moved[tok[p]] > 0)
    PROVE  DoneInv'
<1>1. CompletedMeansMoved'
  <2>1. CASE UNCHANGED disk
    BY <2>1 DEF DoneInv, CompletedMeansMoved
  <2> QED
    BY <2>1, DoneWrite
<1>2. /\ mem' = [mem EXCEPT ![p] = Nothing] /\ wire' = [wire EXCEPT ![p] = "none"]
      /\ result' = [result EXCEPT ![p] = r] /\ pc' = [pc EXCEPT ![p] = "idle"] /\ tok' = tok
  BY DEF Return
<1>3. \A t \in Token : Nothing[t] # "completed"
  BY DEF Nothing
<1>4. \A q \in Proc, t \in Token : mem'[q][t] = "completed" => moved[t] > 0
  BY <1>2, <1>3 DEF TypeOK, DoneInv
<1>5. \A q \in Proc : wire'[q] # "none" => pc'[q] = "bridge" /\ wire'[q] = wire[q]
  BY <1>2 DEF TypeOK, DoneInv
<1>6. \A q \in Proc : result'[q] \in {"completed", "already_completed"} => moved[tok[q]] > 0
  BY <1>2 DEF TypeOK, DoneInv
<1> QED
  BY <1>1, <1>2, <1>4, <1>5, <1>6 DEF DoneInv

\* No record changes, no cash moves and no reply is a receipt that was none.
LEMMA DoneQuiet ==
    ASSUME DoneInv, UNCHANGED <<disk, mem, moved, tok, result>>,
           \A q \in Proc : /\ wire'[q] # "none" => pc'[q] = "bridge"
                           /\ wire'[q] = "receipt" => wire[q] = "receipt" \/ moved[tok[q]] > 0
    PROVE  DoneInv'
  BY DEF DoneInv, CompletedMeansMoved

\* Cash never moves back.
LEMMA DoneMoves ==
    ASSUME TypeOK, DoneInv, UNCHANGED <<disk, mem, tok, pc, result>>, NEW t \in Token,
           moved' = [moved EXCEPT ![t] = @ + 1],
           \A q \in Proc : /\ wire'[q] # "none" => wire[q] # "none"
                           /\ wire'[q] = "receipt" => wire[q] = "receipt" \/ tok[q] = t
    PROVE  DoneInv'
<1>1. \A u \in Token : (moved[u] > 0 \/ u = t) => moved'[u] > 0
  BY DEF TypeOK
<1> QED
  BY <1>1 DEF TypeOK, DoneInv, CompletedMeansMoved

LEMMA DoneStep == TypeOK /\ DoneInv /\ [Next]_vars => DoneInv'
<1> SUFFICES ASSUME TypeOK, DoneInv, [Next]_vars PROVE DoneInv'
  OBVIOUS
<1>1. ASSUME NEW p \in Proc, NEW t \in Token, Call(p, t) PROVE DoneInv'
  BY <1>1 DEF Call, TypeOK, DoneInv, CompletedMeansMoved, recordVars, bankVars
<1>2. ASSUME NEW p \in Proc, CallWrongToken(p) PROVE DoneInv'
  BY <1>2 DEF CallWrongToken, TypeOK, DoneInv, CompletedMeansMoved, recordVars, bankVars
<1>3. ASSUME NEW p \in Proc, Acquire(p) PROVE DoneInv'
  <2>1. FileOf[p] \in StateFile
    BY ConstantsAssumption
  <2> QED
    BY <1>3, <2>1 DEF Acquire, TypeOK, DoneInv, CompletedMeansMoved, bankVars
<1>4. ASSUME NEW p \in Proc, ReturnPrior(p) \/ PreflightFails(p) PROVE DoneInv'
  <2>1. \E r : Return(p, r) /\ (r \in {"completed", "already_completed"} => moved[tok[p]] > 0)
    <3>1. CASE ReturnPrior(p)
      <4>1. mem[p][tok[p]] = "completed" => moved[tok[p]] > 0
        BY DEF TypeOK, DoneInv
      <4> QED
        BY <3>1, <4>1 DEF ReturnPrior
    <3>2. CASE PreflightFails(p)
      BY <3>2 DEF PreflightFails
    <3> QED
      BY <1>4, <3>1, <3>2
  <2> QED
    BY <1>4, <2>1, DoneReturn DEF ReturnPrior, PreflightFails, bankVars
<1>5. ASSUME NEW p \in Proc, BeginSubmission(p) PROVE DoneInv'
  <2>1. "submitting" \in Status
    BY DEF Status, Blocking
  <2>2. CompletedMeansMoved'
    BY <1>5, <2>1, DoneWrite DEF BeginSubmission, bankVars
  <2>3. \A t \in Token : Dump(p, "submitting")[t] = "completed" => moved[t] > 0
    BY <2>1, DumpTrue
  <2> QED
    BY <1>5, <2>2, <2>3 DEF BeginSubmission, TypeOK, DoneInv, bankVars
<1>6. ASSUME NEW p \in Proc, Post(p) \/ LogErrors(p) PROVE DoneInv'
  BY <1>6, DoneQuiet DEF Post, LogErrors, TypeOK, DoneInv, recordVars, bankVars
<1>7. ASSUME NEW p \in Proc, GiveUp(p) PROVE DoneInv'
  BY <1>7, DoneQuiet DEF GiveUp, Abandon, TypeOK, DoneInv, recordVars
<1>8. ASSUME NEW p \in Proc,
             ReceiptArrives(p) \/ ErrorsArrive(p) \/ BridgeFails(p) \/ BridgeTimesOut(p)
      PROVE  DoneInv'
  <2>1. moved' = moved
    BY <1>8 DEF ReceiptArrives, ErrorsArrive, BridgeFails, BridgeTimesOut, Abandon, bankVars
  <2>2. \E r : /\ Return(p, r)
               /\ r \in {"completed", "already_completed"} => moved[tok[p]] > 0
               /\ \/ UNCHANGED disk
                  \/ \E s \in Status : Write(p, s) /\ (s = "completed" => moved[tok[p]] > 0)
    BY <1>8 DEF ReceiptArrives, ErrorsArrive, BridgeFails, BridgeTimesOut,
                Conclude, Status, RetrySafe, Blocking, Unknown, DoneInv
  <2> QED
    BY <2>1, <2>2, DoneReturn
<1>9. ASSUME NEW p \in Proc, Crash(p) PROVE DoneInv'
  <2>1. UNCHANGED <<disk, tok, moved>>
    BY <1>9 DEF Crash, Abandon
  <2>2. \A t \in Token : Nothing[t] # "completed"
    BY DEF Nothing
  <2>3. /\ mem' = [mem EXCEPT ![p] = Nothing] /\ wire' = [wire EXCEPT ![p] = "none"]
        /\ result' = [result EXCEPT ![p] = "none"] /\ pc' = [pc EXCEPT ![p] = "idle"]
    BY <1>9 DEF Crash
  <2> QED
    BY <2>1, <2>2, <2>3 DEF TypeOK, DoneInv, CompletedMeansMoved
<1>10. ASSUME NEW p \in Proc, BankReceives(p) PROVE DoneInv'
  <2>1. PICK reply : /\ wire' = [wire EXCEPT ![p] = reply]
                     /\ reply = "receipt" => moved[tok[p]] > 0
    BY <1>10 DEF BankReceives
  <2>2. wire[p] = "sent" /\ UNCHANGED <<disk, mem, pc, tok, result, moved>>
    BY <1>10 DEF BankReceives, recordVars, bankVars
  <2> QED
    BY <2>1, <2>2, DoneQuiet DEF TypeOK, DoneInv
<1>11. ASSUME NEW p \in Proc, BankSettles(p) PROVE DoneInv'
  <2>1. /\ UNCHANGED <<disk, mem, tok, pc, result>> /\ tok[p] \in Token
        /\ moved' = [moved EXCEPT ![tok[p]] = @ + 1]
    BY <1>11 DEF BankSettles, recordVars, TypeOK
  <2>2. wire[p] = "working" /\ \A q \in Proc \ {p} : wire'[q] = wire[q]
    BY <1>11 DEF BankSettles, TypeOK
  <2> QED
    BY <2>1, <2>2, DoneMoves
<1>12. ASSUME NEW t \in Token, OrphanReceived(t) \/ OrphanSettles(t) PROVE DoneInv'
  <2>1. UNCHANGED <<disk, mem, pc, tok, result, wire>>
    BY <1>12 DEF OrphanReceived, OrphanSettles, recordVars, callVars
  <2>2. CASE moved' = moved
    BY <2>1, <2>2 DEF DoneInv, CompletedMeansMoved
  <2>3. CASE moved' = [moved EXCEPT ![t] = @ + 1]
    BY <2>1, <2>3, DoneMoves
  <2> QED
    BY <1>12, <2>2, <2>3 DEF OrphanReceived, OrphanSettles
<1>13. CASE OtpChanges \/ UNCHANGED vars
  BY <1>13 DEF OtpChanges, DoneInv, CompletedMeansMoved, vars, recordVars, callVars, bankVars
<1> QED
  BY <1>1, <1>2, <1>3, <1>4, <1>5, <1>6, <1>7, <1>8, <1>9, <1>10, <1>11, <1>12, <1>13
     DEF Next, ProcStep, Bank

\* A plan that is answered already_completed from now on did move its cash,
\* whatever the state files, the routes and Baselane's handling of the key.
THEOREM CompletedIsTrue == Spec => []CompletedMeansMoved
<1>1. Init => TypeOK /\ DoneInv
  BY TypeInit, DoneInit
<1>2. TypeOK /\ DoneInv /\ [Next]_vars => (TypeOK /\ DoneInv)'
  BY TypeStep, DoneStep
<1>3. DoneInv => CompletedMeansMoved
  BY DEF DoneInv
<1> QED
  BY <1>1, <1>2, <1>3, PTL DEF Spec

(***************************************************************************)
(* One state file and one route: execute_transfer implements the abstract  *)
(* promise.                                                                *)
(***************************************************************************)

\* With one state file the verdict is that of its record.
LEMMA VerdictOfFile ==
    ASSUME OneFileOneRoute, TypeOK, NEW f \in StateFile
    PROVE  Verdict = [t \in Token |-> IF disk[f][t] = "completed" THEN "done"
                                      ELSE IF disk[f][t] \in Blocking THEN "pending"
                                      ELSE "open"]
  BY DEF OneFileOneRoute, Verdict

LEMMA PromiseInit == Init => Promise!Init
  BY DEF Init, Promise!Init, Verdict, Nothing, Blocking

\* A last write changes the verdict as the abstract plan allows.
LEMMA PromiseWrite ==
    ASSUME OneFileOneRoute, TypeOK, SectionInv, CashInv, NEW p \in Proc,
           pc[p] = "bridge", UNCHANGED moved, NEW s \in Status, Write(p, s),
           s \in Open => Quiet(tok[p]), s = "completed" => moved[tok[p]] = 1
    PROVE  [Promise!Next]_<<Verdict, moved>>
<1> DEFINE f == FileOf[p]
           t == tok[p]
<1>1. f \in StateFile /\ t \in Token /\ disk[f][t] = "submitting"
  BY ConstantsAssumption DEF TypeOK, SectionInv, Record
<1>2. /\ disk' \in [StateFile -> [Token -> Status]]
      /\ disk'[f] = [disk[f] EXCEPT ![t] = s]
  BY <1>1, WriteTypes DEF Write, Dump, SectionInv, InSection, TypeOK
<1>3. \A u \in Token : Verdict[u] = IF disk[f][u] = "completed" THEN "done"
                                    ELSE IF disk[f][u] \in Blocking THEN "pending"
                                    ELSE "open"
  BY <1>1, VerdictOfFile
<1>4. \A u \in Token : Verdict'[u] = IF disk'[f][u] = "completed" THEN "done"
                                     ELSE IF disk'[f][u] \in Blocking THEN "pending"
                                     ELSE "open"
  BY <1>1 DEF OneFileOneRoute, Verdict
<1>5. Verdict[t] = "pending" /\ \A u \in Token \ {t} : Verdict'[u] = Verdict[u]
  <2>1. \A u \in Token \ {t} : disk'[f][u] = disk[f][u]
    BY <1>1, <1>2 DEF TypeOK
  <2>2. Verdict[t] = "pending"
    BY <1>1, <1>3 DEF Blocking
  <2> QED
    BY <2>1, <2>2, <1>3, <1>4
<1>6. \A v : Verdict'[t] = v => Verdict' = [Verdict EXCEPT ![t] = v]
  BY <1>1, <1>5 DEF Verdict
<1>7. CASE s = "completed"
  <2>1. Verdict'[t] = "done"
    BY <1>1, <1>2, <1>4, <1>7 DEF TypeOK
  <2> QED
    BY <1>1, <1>5, <1>6, <1>7, <2>1 DEF Promise!Next, Promise!Confirm
<1>8. CASE s \in Open
  <2>1. Verdict'[t] = "open"
    BY <1>1, <1>2, <1>4, <1>8 DEF TypeOK, Open, RetrySafe, Blocking
  <2> QED
    BY <1>1, <1>5, <1>6, <1>8, <2>1 DEF Promise!Next, Promise!Retract, Quiet
<1>9. CASE s \in Blocking
  <2>1. Verdict'[t] = "pending"
    BY <1>1, <1>2, <1>4, <1>9 DEF TypeOK, Blocking
  <2>2. Verdict' = Verdict
    BY <1>5, <1>6, <2>1, <1>1 DEF Verdict
  <2> QED
    BY <2>2
<1> QED
  BY <1>7, <1>8, <1>9 DEF Status, Open

\* The cash of a plan moves while its verdict is pending.
LEMMA PromiseMove ==
    ASSUME OneFileOneRoute, TypeOK, SectionInv, CashInv, NEW t \in Token,
           UNCHANGED disk, moved[t] = 0, ~(\A f \in StateFile : disk[f][t] \in Open),
           moved' = [moved EXCEPT ![t] = @ + 1]
    PROVE  Promise!Next
<1>1. PICK f \in StateFile : disk[f][t] \notin Open
  OBVIOUS
<1>2. disk[f][t] \in Blocking
  BY <1>1 DEF CashInv, TypeOK, Status, Open
<1>3. Verdict[t] = "pending" /\ Verdict' = Verdict
  BY <1>1, <1>2, VerdictOfFile DEF Verdict, Blocking
<1>4. moved' = [moved EXCEPT ![t] = 1]
  OBVIOUS
<1> QED
  BY <1>3, <1>4 DEF Promise!Next, Promise!Move

LEMMA PromiseBegin ==
    ASSUME OneFileOneRoute, TypeOK, SectionInv, CashInv, NEW p \in Proc, BeginSubmission(p)
    PROVE  Promise!Next
<1> DEFINE f == FileOf[p]
           t == tok[p]
<1>1. /\ f \in StateFile /\ t \in Token /\ disk[f][t] \in Open /\ moved' = moved
      /\ disk' = [disk EXCEPT ![f] = [disk[f] EXCEPT ![t] = "submitting"]]
  BY ConstantsAssumption
     DEF BeginSubmission, Write, Dump, TypeOK, SectionInv, InSection, bankVars
<1>2. /\ disk'[f][t] = "submitting"
      /\ \A u \in Token \ {t} : disk'[f][u] = disk[f][u]
  BY <1>1 DEF TypeOK
<1>3. \A u \in Token : Verdict[u] = IF disk[f][u] = "completed" THEN "done"
                                    ELSE IF disk[f][u] \in Blocking THEN "pending"
                                    ELSE "open"
  BY <1>1, VerdictOfFile
<1>4. \A u \in Token : Verdict'[u] = IF disk'[f][u] = "completed" THEN "done"
                                     ELSE IF disk'[f][u] \in Blocking THEN "pending"
                                     ELSE "open"
  BY <1>1 DEF OneFileOneRoute, Verdict
<1>5. Verdict[t] = "open"
  BY <1>1, <1>3 DEF Open, RetrySafe, Blocking
<1>6. Verdict'[t] = "pending" /\ \A u \in Token \ {t} : Verdict'[u] = Verdict[u]
  BY <1>1, <1>2, <1>3, <1>4 DEF Blocking
<1>7. Verdict' = [Verdict EXCEPT ![t] = "pending"]
  BY <1>1, <1>6 DEF Verdict
<1> QED
  BY <1>1, <1>5, <1>7 DEF Promise!Next, Promise!Submit

LEMMA PromiseStep ==
    OneFileOneRoute /\ TypeOK /\ SectionInv /\ CashInv /\ [Next]_vars
        => [Promise!Next]_<<Verdict, moved>>
<1> SUFFICES ASSUME OneFileOneRoute, TypeOK, SectionInv, CashInv, [Next]_vars
             PROVE  [Promise!Next]_<<Verdict, moved>>
  OBVIOUS
<1> USE ConstantsAssumption
<1>1. ASSUME NEW p \in Proc, BeginSubmission(p) PROVE Promise!Next
  BY <1>1, PromiseBegin
<1>2. ASSUME NEW p \in Proc, ReceiptArrives(p) \/ ErrorsArrive(p) \/ BridgeFails(p)
      PROVE  [Promise!Next]_<<Verdict, moved>>
  <2>1. pc[p] = "bridge" /\ moved' = moved
    BY <1>2 DEF ReceiptArrives, ErrorsArrive, BridgeFails, bankVars
  <2>2. \/ UNCHANGED disk
        \/ Write(p, "verification_failed")
        \/ Write(p, "completed") /\ wire[p] = "receipt"
        \/ \E s \in RetrySafe : Write(p, s) /\ (wire[p] \in ErrorReply \/ otpSeen[p])
    BY <1>2 DEF ReceiptArrives, ErrorsArrive, BridgeFails, Conclude, Unknown, RetrySafe, ErrorReply
  <2>3. wire[p] \in ErrorReply \/ otpSeen[p] => Quiet(tok[p])
    BY <2>1 DEF CashInv, Harmless
  <2>4. wire[p] = "receipt" => moved[tok[p]] = 1
    BY DEF CashInv, Receipt
  <2>5. UNCHANGED disk => Verdict' = Verdict
    BY DEF Verdict
  <2> QED
    BY <2>1, <2>2, <2>3, <2>4, <2>5, PromiseWrite DEF Status, Blocking, Open, RetrySafe
<1>3. ASSUME NEW p \in Proc, BridgeTimesOut(p) PROVE [Promise!Next]_<<Verdict, moved>>
  <2>1. pc[p] = "bridge" /\ moved' = moved /\ Write(p, "verification_failed")
    BY <1>3 DEF BridgeTimesOut, Abandon, Conclude, Unknown
  <2> QED
    BY <2>1, PromiseWrite DEF Status, Blocking, Open, RetrySafe
<1>4. ASSUME NEW p \in Proc, BankSettles(p) PROVE Promise!Next
  <2>1. /\ wire[p] = "working" /\ moved' = [moved EXCEPT ![tok[p]] = @ + 1]
        /\ UNCHANGED disk /\ tok[p] \in Token
    BY <1>4 DEF BankSettles, recordVars, TypeOK
  <2>2. pc[p] = "bridge" /\ Quiet(tok[p])
    BY <2>1 DEF CashInv, Harmless
  <2>3. disk[FileOf[p]][tok[p]] \notin Open
    BY <2>2 DEF SectionInv, Record, Open, RetrySafe
  <2> QED
    BY <2>1, <2>2, <2>3, PromiseMove DEF Quiet
<1>5. ASSUME NEW t \in Token, OrphanSettles(t)
      PROVE  [Promise!Next]_<<Verdict, moved>>
  <2>1. working[t] > 0 /\ moved' = [moved EXCEPT ![t] = @ + 1] /\ UNCHANGED disk
    BY <1>5 DEF OrphanSettles, recordVars
  <2>2. ~Quiet(t) /\ moved[t] = 0
    <3>1. orphan[t] + working[t] + moved[t] <= 1
      BY DEF CashInv
    <3>2. orphan[t] \in Nat /\ working[t] \in Nat /\ moved[t] \in Nat
      BY DEF TypeOK
    <3> QED
      BY <2>1, <3>1, <3>2 DEF Quiet
  <2>3. \E f \in StateFile : disk[f][t] \notin Open
    BY <2>2 DEF CashInv, OneFileOneRoute
  <2> QED
    BY <2>1, <2>2, <2>3, PromiseMove
<1>6. ASSUME UNCHANGED <<disk, moved>> PROVE [Promise!Next]_<<Verdict, moved>>
  BY <1>6 DEF Verdict
<1>7. ASSUME NEW p \in Proc, NEW t \in Token, Call(p, t) PROVE UNCHANGED <<disk, moved>>
  BY <1>7 DEF Call, recordVars, bankVars
<1>8. ASSUME NEW p \in Proc,
             \/ CallWrongToken(p) \/ Acquire(p) \/ ReturnPrior(p) \/ PreflightFails(p)
             \/ Post(p) \/ GiveUp(p) \/ LogErrors(p) \/ Crash(p) \/ BankReceives(p)
      PROVE  UNCHANGED <<disk, moved>>
  BY <1>8 DEF CallWrongToken, Acquire, ReturnPrior, PreflightFails, Post, GiveUp, LogErrors,
              Crash, BankReceives, Abandon, recordVars, bankVars
<1>9. (\E t \in Token : OrphanReceived(t)) \/ OtpChanges \/ UNCHANGED vars
        => UNCHANGED <<disk, moved>>
  BY DEF OrphanReceived, OtpChanges, vars, recordVars, bankVars
<1> QED
  BY <1>1, <1>2, <1>3, <1>4, <1>5, <1>6, <1>7, <1>8, <1>9 DEF Next, ProcStep, Bank

\* The durable state machine of one plan implements the abstract promise:
\* submitted, moved at most once, confirmed or retracted.
THEOREM TransferKeepsPromise ==
    OneFileOneRoute => (Spec => KeepsPromise)
<1> SUFFICES ASSUME OneFileOneRoute PROVE Spec => KeepsPromise
  OBVIOUS
<1>1. Init => Promise!Init
  BY PromiseInit
<1>2. TypeOK /\ SectionInv /\ CashInv /\ [Next]_vars => [Promise!Next]_<<Verdict, moved>>
  BY PromiseStep
<1> QED
  BY <1>1, <1>2, CashAlways, PTL DEF Spec, KeepsPromise, Promise!Spec

(***************************************************************************)
(* Every step of the tools is a step of InternalTransfer, stutters there,  *)
(* or submits the same plan once more.                                     *)
(***************************************************************************)

\* What Resubmit does to a process that is not in execute_transfer.
Requeue(p) ==
    /\ pc[p] = "idle"
    /\ pc' = [pc EXCEPT ![p] = "waiting"]
    /\ result' = [result EXCEPT ![p] = "none"]
    /\ UNCHANGED <<recordVars, tok, posts, otpSeen, wire, bankVars>>

\* Between the two submissions a tool call is not in execute_transfer, nor
\* before the first and after the last.
StageInv == \A p \in Server : stage[p] \in {"idle", "mfa", "verified"} => pc[p] = "idle"

\* A report that says done is the last word of its call.
ReportInv ==
    \A p \in Server : report[p] \in {"completed", "already_completed"} =>
                          stage[p] = "idle" /\ moved[tok[p]] > 0

LEMMA RequeueKeeps ==
    ASSUME NEW p \in Proc, Requeue(p), TypeOK, SectionInv, DoneInv
    PROVE  TypeOK' /\ SectionInv' /\ DoneInv' /\ (KeyInv => KeyInv')
<1>1. TypeOK'
  BY DEF Requeue, TypeOK, recordVars, bankVars, Result
<1>2. SectionInv'
  BY ConstantsAssumption DEF Requeue, TypeOK, SectionInv, InSection, Record, recordVars
<1>3. DoneInv'
  BY DEF Requeue, TypeOK, DoneInv, CompletedMeansMoved, recordVars, bankVars
<1>4. KeyInv => KeyInv'
  BY DEF Requeue, TypeOK, KeyInv, bankVars
<1> QED
  BY <1>1, <1>2, <1>3, <1>4

LEMMA StepKinds ==
    ASSUME TypeOK, StageInv, ToolNext
    PROVE  [Next]_vars \/ \E p \in Server : Requeue(p)
<1> USE ToolAssumption
<1>1. ASSUME NEW p \in Server, NEW t \in Token, Begin(p, t) \/ GetStatus(p, t)
      PROVE  [Next]_vars
  BY <1>1 DEF Begin, GetStatus, Next
<1>2. ASSUME NEW p \in Server, Refuse(p) \/ Outcome(p) \/ ServerDies(p)
      PROVE  [Next]_vars
  BY <1>2 DEF Refuse, Outcome, ServerDies, Next
<1>3. ASSUME NEW p \in Server, HelperVerifies(p) \/ HelperFails(p)
      PROVE  [Next]_vars
  <2>1. otpOk' \in BOOLEAN /\ UNCHANGED <<recordVars, callVars, orphan, working, moved>>
    BY <1>3 DEF HelperVerifies, HelperFails, TypeOK
  <2>2. CASE otpOk' = otpOk
    BY <2>1, <2>2 DEF vars, bankVars
  <2>3. CASE otpOk' # otpOk
    <3>1. otpOk' = ~otpOk
      BY <2>1, <2>3 DEF TypeOK
    <3> QED
      BY <2>1, <3>1 DEF OtpChanges, Bank, Next
  <2> QED
    BY <2>2, <2>3
<1>4. ASSUME NEW p \in Server, Resubmit(p) PROVE Requeue(p)
  BY <1>4 DEF Resubmit, Requeue, StageInv
<1>5. ASSUME NEW p \in Proc, InnerStep(p) PROVE [Next]_vars
  BY <1>5 DEF InnerStep, Next
<1>6. ASSUME NEW p \in Proc \ Server, (\E t \in Token : Call(p, t)) \/ Crash(p)
      PROVE  [Next]_vars
  BY <1>6 DEF Next
<1>7. Bank => [Next]_vars
  BY DEF Next
<1> QED
  BY <1>1, <1>2, <1>3, <1>4, <1>5, <1>6, <1>7 DEF ToolNext, ToolStep

\* A process that is not in execute_transfer stays out until it is called, and
\* its token stays what it was; cash never moves back.
LEMMA IdleStays ==
    ASSUME TypeOK, NEW q \in Proc,
           Acquire(q) \/ ProcStep(q) \/ Crash(q) \/ CallWrongToken(q) \/ Bank
    PROVE  /\ \A p \in Proc : pc[p] = "idle" => pc'[p] = "idle"
           /\ tok' = tok
           /\ \A t \in Token : moved[t] > 0 => moved'[t] > 0
<1> DEFINE Goal == /\ \A p \in Proc : pc[p] = "idle" => pc'[p] = "idle"
                   /\ tok' = tok
                   /\ \A t \in Token : moved[t] > 0 => moved'[t] > 0
<1>1. CASE \/ Acquire(q) \/ Post(q) \/ GiveUp(q) \/ LogErrors(q)
           \/ BeginSubmission(q) \/ Crash(q) \/ CallWrongToken(q)
  BY <1>1 DEF Acquire, Post, GiveUp, LogErrors, BeginSubmission, Crash, CallWrongToken, Abandon,
              TypeOK, bankVars
<1>2. CASE \/ ReturnPrior(q) \/ PreflightFails(q) \/ ReceiptArrives(q) \/ ErrorsArrive(q)
           \/ BridgeFails(q) \/ BridgeTimesOut(q)
  <2>1. pc' = [pc EXCEPT ![q] = "idle"] /\ tok' = tok /\ moved' = moved
    BY <1>2 DEF ReturnPrior, PreflightFails, ReceiptArrives, ErrorsArrive, BridgeFails,
                BridgeTimesOut, Conclude, Return, Abandon, bankVars
  <2> QED
    BY <2>1 DEF TypeOK
<1>3. ASSUME NEW p \in Proc, BankReceives(p) \/ BankSettles(p) PROVE Goal
  <2>1. pc' = pc /\ tok' = tok /\ (moved' = moved \/ moved' = [moved EXCEPT ![tok[p]] = @ + 1])
    BY <1>3 DEF BankReceives, BankSettles, bankVars
  <2>2. tok[p] \in Token /\ moved \in [Token -> Nat]
    BY DEF TypeOK
  <2> QED
    BY <2>1, <2>2
<1>4. ASSUME NEW t \in Token, OrphanReceived(t) \/ OrphanSettles(t) PROVE Goal
  <2>1. pc' = pc /\ tok' = tok /\ (moved' = moved \/ moved' = [moved EXCEPT ![t] = @ + 1])
    BY <1>4 DEF OrphanReceived, OrphanSettles, callVars
  <2> QED
    BY <2>1 DEF TypeOK
<1>5. OtpChanges => Goal
  BY DEF OtpChanges, callVars
<1> QED
  BY <1>1, <1>2, <1>3, <1>4, <1>5 DEF ProcStep, Bank

(***************************************************************************)
(* The invariants.                                                         *)
(***************************************************************************)

ToolInv == ToolTypeOK /\ StageInv /\ ReportInv /\ SectionInv /\ DoneInv

LEMMA ToolInitial == ToolInit => ToolInv
<1> SUFFICES ASSUME ToolInit PROVE ToolInv
  OBVIOUS
<1>1. TypeOK /\ SectionInv /\ DoneInv
  BY TypeInit, SectionInit, DoneInit DEF ToolInit
<1>2. ToolTypeOK
  BY <1>1 DEF ToolInit, ToolTypeOK, Stage, Report
<1>3. StageInv /\ ReportInv
  BY ToolAssumption DEF ToolInit, Init, StageInv, ReportInv
<1> QED
  BY <1>1, <1>2, <1>3 DEF ToolInv

LEMMA InnerKept ==
    ASSUME ToolInv, [ToolNext]_allVars
    PROVE  TypeOK' /\ SectionInv' /\ DoneInv' /\ (Dedup /\ KeyInv => KeyInv')
<1>1. CASE [Next]_vars
  BY <1>1, TypeStep, SectionStep, DoneStep, KeyStep DEF ToolInv, ToolTypeOK
<1>2. ASSUME NEW p \in Server, Requeue(p)
      PROVE  TypeOK' /\ SectionInv' /\ DoneInv' /\ (Dedup /\ KeyInv => KeyInv')
  BY <1>2, RequeueKeeps, ToolAssumption DEF ToolInv, ToolTypeOK
<1>3. UNCHANGED allVars => [Next]_vars
  BY DEF allVars
<1> QED
  BY <1>1, <1>2, <1>3, StepKinds DEF ToolInv, ToolTypeOK

\* One tool call that changes its stage and its report.
LEMMA ToKept ==
    ASSUME ToolInv, NEW p \in Server, NEW s \in Stage, NEW r \in Report, To(p, s, r),
           s \in {"idle", "mfa", "verified"} => pc'[p] = "idle",
           r \in {"completed", "already_completed"} => s = "idle" /\ moved'[tok'[p]] > 0,
           \A q \in Server \ {p} : /\ pc[q] = "idle" => pc'[q] = "idle"
                                   /\ tok'[q] = tok[q]
                                   /\ moved[tok[q]] > 0 => moved'[tok[q]] > 0
    PROVE  /\ stage' \in [Server -> Stage] /\ report' \in [Server -> Report] /\ seen' = seen
           /\ StageInv' /\ ReportInv'
<1>1. /\ stage' = [stage EXCEPT ![p] = s] /\ report' = [report EXCEPT ![p] = r]
      /\ stage \in [Server -> Stage] /\ report \in [Server -> Report] /\ seen' = seen
  BY DEF To, ToolInv, ToolTypeOK
<1>2. stage' \in [Server -> Stage] /\ report' \in [Server -> Report]
  BY <1>1
<1>3. stage'[p] = s /\ report'[p] = r
  BY <1>1
<1>4. \A q \in Server \ {p} : stage'[q] = stage[q] /\ report'[q] = report[q]
  BY <1>1
<1>5. StageInv'
  BY <1>3, <1>4 DEF StageInv, ToolInv
<1>6. ReportInv'
  BY <1>3, <1>4 DEF ReportInv, ToolInv
<1> QED
  BY <1>1, <1>2, <1>5, <1>6

\* A step of which the tools keep nothing.
LEMMA ToolQuiet ==
    ASSUME ToolInv, UNCHANGED toolVars,
           \A q \in Server : /\ pc[q] = "idle" => pc'[q] = "idle"
                             /\ tok'[q] = tok[q]
                             /\ moved[tok[q]] > 0 => moved'[tok[q]] > 0
    PROVE  /\ stage' \in [Server -> Stage] /\ report' \in [Server -> Report] /\ seen' = seen
           /\ StageInv' /\ ReportInv'
  BY DEF toolVars, ToolInv, ToolTypeOK, StageInv, ReportInv

LEMMA ToolsKept ==
    ASSUME ToolInv, [ToolNext]_allVars
    PROVE  /\ stage' \in [Server -> Stage] /\ report' \in [Server -> Report]
           /\ seen' \in [Server -> {"none"} \cup Status]
           /\ StageInv' /\ ReportInv'
<1> DEFINE Goal == /\ stage' \in [Server -> Stage] /\ report' \in [Server -> Report]
                   /\ seen' \in [Server -> {"none"} \cup Status]
                   /\ StageInv' /\ ReportInv'
           Steady(q) == /\ pc[q] = "idle" => pc'[q] = "idle"
                        /\ tok'[q] = tok[q]
                        /\ moved[tok[q]] > 0 => moved'[tok[q]] > 0
<1> USE ToolAssumption
<1>0. /\ TypeOK /\ seen \in [Server -> {"none"} \cup Status]
      /\ \A q \in Server : tok[q] \in Token
  BY DEF ToolInv, ToolTypeOK, TypeOK
<1>1. UNCHANGED vars => \A q \in Server : Steady(q)
  BY DEF vars, callVars, bankVars
<1>2. ASSUME NEW q \in Proc,
             Acquire(q) \/ ProcStep(q) \/ Crash(q) \/ CallWrongToken(q) \/ Bank
      PROVE  \A p \in Server : Steady(p)
  BY <1>0, <1>2, IdleStays
<1>3. ASSUME NEW q \in Proc, NEW t \in Token, Call(q, t)
      PROVE  \A p \in Server \ {q} : Steady(p)
  BY <1>0, <1>3 DEF Call, TypeOK, bankVars
<1>4. ASSUME NEW p \in Server, NEW t \in Token, Begin(p, t) PROVE Goal
  <2>1. To(p, "first", "none") /\ \A q \in Server \ {p} : Steady(q)
    BY <1>3, <1>4 DEF Begin
  <2> QED
    BY <1>0, <2>1, ToKept DEF Stage, Report
<1>5. ASSUME NEW p \in Server, NEW t \in Token, GetStatus(p, t) PROVE Goal
  <2>1. disk[FileOf[p]][t] \in Status
    BY <1>0, ConstantsAssumption DEF TypeOK
  <2>2. seen' \in [Server -> {"none"} \cup Status]
    BY <1>0, <1>5, <2>1 DEF GetStatus
  <2>3. UNCHANGED <<stage, report, vars>> /\ \A q \in Server : Steady(q)
    BY <1>1, <1>5 DEF GetStatus
  <2> QED
    BY <2>2, <2>3 DEF ToolInv, ToolTypeOK, StageInv, ReportInv
<1>6. ASSUME NEW p \in Server, Refuse(p) PROVE Goal
  <2>1. pc[p] = "idle" /\ \A q \in Server : Steady(q)
    BY <1>1, <1>2, <1>6 DEF Refuse
  <2>2. To(p, "idle", "auth_required") \/ To(p, "idle", "validation_error")
    BY <1>6 DEF Refuse
  <2> QED
    BY <1>0, <2>1, <2>2, ToKept DEF Stage, Report
<1>7. ASSUME NEW p \in Server, Outcome(p) PROVE Goal
  <2>1. pc[p] = "idle" /\ UNCHANGED vars /\ \A q \in Server : Steady(q)
    BY <1>1, <1>7 DEF Outcome
  <2>2. CASE To(p, "mfa", "none")
    BY <1>0, <2>1, <2>2, ToKept DEF Stage, Report
  <2>3. CASE To(p, "idle", ReportOf(result[p]))
    <3>1. result[p] \in Result
      BY <1>0 DEF TypeOK
    <3>2. /\ ReportOf(result[p]) \in Report
          /\ ReportOf(result[p]) \in {"completed", "already_completed"} => ReportOf(result[p]) = result[p]
      BY <3>1 DEF ReportOf, Report, Result
    <3>3. result[p] \in {"completed", "already_completed"} => moved[tok[p]] > 0
      BY DEF ToolInv, DoneInv
    <3> QED
      BY <1>0, <2>1, <2>3, <3>2, <3>3, ToKept DEF Stage
  <2> QED
    BY <1>7, <2>2, <2>3 DEF Outcome
<1>8. ASSUME NEW p \in Server, HelperVerifies(p) \/ HelperFails(p) PROVE Goal
  <2>1. pc[p] = "idle" /\ UNCHANGED <<pc, tok, moved>>
    BY <1>8 DEF HelperVerifies, HelperFails, callVars, ToolInv, StageInv
  <2>2. To(p, "verified", "none") \/ To(p, "idle", "mfa_pending")
    BY <1>8 DEF HelperVerifies, HelperFails
  <2> QED
    BY <1>0, <2>1, <2>2, ToKept DEF Stage, Report
<1>9. ASSUME NEW p \in Server, Resubmit(p) PROVE Goal
  <2>1. To(p, "second", "none") /\ \A q \in Server \ {p} : Steady(q)
    BY <1>0, <1>9 DEF Resubmit, TypeOK, bankVars
  <2> QED
    BY <1>0, <2>1, ToKept DEF Stage, Report
<1>10. ASSUME NEW p \in Server, ServerDies(p) PROVE Goal
  <2>1. To(p, "idle", "none") /\ \A q \in Server : Steady(q)
    BY <1>1, <1>2, <1>10 DEF ServerDies
  <2>2. pc'[p] = "idle"
    BY <1>0, <1>10 DEF ServerDies, Crash, vars, callVars, TypeOK
  <2> QED
    BY <1>0, <2>1, <2>2, ToKept DEF Stage, Report
<1>11. ASSUME UNCHANGED toolVars, \A q \in Server : Steady(q) PROVE Goal
  BY <1>0, <1>11, ToolQuiet
<1>12. ASSUME NEW p \in Proc, InnerStep(p) PROVE Goal
  BY <1>2, <1>11, <1>12 DEF InnerStep
<1>13. ASSUME NEW p \in Proc \ Server, NEW t \in Token, Call(p, t), UNCHANGED toolVars PROVE Goal
  BY <1>3, <1>11, <1>13
<1>14. ASSUME NEW p \in Proc \ Server, Crash(p), UNCHANGED toolVars PROVE Goal
  BY <1>2, <1>11, <1>14
<1>15. ASSUME Bank, UNCHANGED toolVars PROVE Goal
  <2>1. CASE Server = {}
    BY <1>11, <1>15, <2>1
  <2> QED
    BY <1>2, <1>11, <1>15, <2>1
<1>16. CASE UNCHANGED allVars
  BY <1>1, <1>11, <1>16 DEF allVars
<1> QED
  BY <1>4, <1>5, <1>6, <1>7, <1>8, <1>9, <1>10, <1>12, <1>13, <1>14, <1>15, <1>16
     DEF ToolNext, ToolStep

LEMMA ToolInvKept == ToolInv /\ [ToolNext]_allVars => ToolInv'
<1> SUFFICES ASSUME ToolInv, [ToolNext]_allVars PROVE ToolInv'
  OBVIOUS
<1> QED
  BY InnerKept, ToolsKept DEF ToolInv, ToolTypeOK

LEMMA ToolAlways == ToolSpec => []ToolInv
  BY ToolInitial, ToolInvKept, PTL DEF ToolSpec

(***************************************************************************)
(* What the tools promise.                                                 *)
(***************************************************************************)

\* The tools keep every variable's type, whatever the constants are.
THEOREM ToolTypeCorrect == ToolSpec => []ToolTypeOK
<1>1. ToolInv => ToolTypeOK
  BY DEF ToolInv
<1> QED
  BY <1>1, ToolAlways, PTL

\* With two submissions per tool call, whose second repeats the plan of the
\* first, a completed record still means that the cash moved.
THEOREM ToolCompletedIsTrue == ToolSpec => []CompletedMeansMoved
<1>1. ToolInv => CompletedMeansMoved
  BY DEF ToolInv, DoneInv
<1> QED
  BY <1>1, ToolAlways, PTL

LEMMA ToolKeyAlways == Dedup => (ToolSpec => [](ToolInv /\ KeyInv))
<1> SUFFICES ASSUME Dedup PROVE ToolSpec => [](ToolInv /\ KeyInv)
  OBVIOUS
<1>1. ToolInit => ToolInv /\ KeyInv
  BY ToolInitial, KeyInit DEF ToolInit
<1>2. ToolInv /\ KeyInv /\ [ToolNext]_allVars => (ToolInv /\ KeyInv)'
  BY ToolInvKept, InnerKept
<1> QED
  BY <1>1, <1>2, PTL DEF ToolSpec

\* If Baselane honours the idempotency key, the two submissions of a tool call
\* and those of every other process move the cash of a plan at most once.
THEOREM ToolMovesOnce == Dedup => (ToolSpec => []AtMostOnce)
<1>1. ToolInv /\ KeyInv => AtMostOnce
  BY DEF ToolInv, ToolTypeOK, TypeOK, KeyInv, AtMostOnce
<1> QED
  BY <1>1, ToolKeyAlways, PTL

\* A report of completed or already_completed is only given when the cash of
\* the plan moved, and moved once, whichever process moved it.
THEOREM ReportIsTrue == Dedup => (ToolSpec => []ReportedDoneIsMoved)
<1>1. ToolInv /\ KeyInv => ReportedDoneIsMoved
  <2> SUFFICES ASSUME ToolInv, KeyInv, NEW p \in Server,
                      report[p] \in {"completed", "already_completed"}
               PROVE  moved[tok[p]] = 1
    BY DEF ReportedDoneIsMoved
  <2>1. tok[p] \in Token /\ moved[tok[p]] > 0
    BY ToolAssumption DEF ToolInv, ToolTypeOK, TypeOK, ReportInv
  <2>2. /\ working[tok[p]] \in Nat /\ moved[tok[p]] \in Nat
        /\ working[tok[p]] + moved[tok[p]] <= 1
    BY <2>1 DEF ToolInv, ToolTypeOK, TypeOK, KeyInv
  <2> QED
    BY <2>1, <2>2
<1> QED
  BY <1>1, ToolKeyAlways, PTL

\* get_transfer_status never calls submitting a transfer whose bridge still
\* runs: it reads under the lock that the submitting process holds.
THEOREM StatusIsOfAbandoned == ToolSpec => SubmittingIsAbandoned
<1> DEFINE Kept == \A p \in Server, t \in Token :
        GetStatus(p, t) /\ seen'[p] = "submitting" => ~Submitting(FileOf[p], t)
<1>1. ToolInv => Kept
  <2> SUFFICES ASSUME ToolInv, NEW p \in Server, NEW t \in Token, GetStatus(p, t),
                      NEW q \in Proc, FileOf[q] = FileOf[p], pc[q] = "bridge"
               PROVE  FALSE
    BY DEF Submitting
  <2>1. lock[FileOf[q]] = q
    BY DEF ToolInv, SectionInv, InSection
  <2> QED
    BY <2>1, ConstantsAssumption DEF GetStatus, MayRead, LockFree
<1>2. ToolInv /\ [ToolNext]_allVars => [Kept]_allVars
  BY <1>1
<1> QED
  BY <1>2, ToolAlways, PTL DEF ToolSpec, SubmittingIsAbandoned

=============================================================================
