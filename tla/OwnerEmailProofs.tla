-------------------------- MODULE OwnerEmailProofs --------------------------
(* Theorems about OwnerEmail, for all values of its constants.             *)
EXTENDS OwnerEmail, SequenceTheorems, TLAPS

\* The sequences of at most N elements, as TLC can enumerate them.
LEMMA BoundedSeq ==
    ASSUME NEW S, NEW N \in Nat
    PROVE  UNION {[1 .. n -> S] : n \in 0 .. N} = {s \in Seq(S) : Len(s) <= N}
<1>1. ASSUME NEW n \in 0 .. N, NEW s \in [1 .. n -> S] PROVE s \in Seq(S) /\ Len(s) = n
  BY <1>1
<1>2. ASSUME NEW s \in Seq(S), Len(s) <= N PROVE s \in [1 .. Len(s) -> S] /\ Len(s) \in 0 .. N
  BY <1>2
<1> QED
  BY <1>1, <1>2

(***************************************************************************)
(* What a mail changes.                                                    *)
(***************************************************************************)

\* The mail that run sends today.
NewMail == [route |-> run.route, month |-> run.month, day |-> today]

LEMMA MailAppends ==
    ASSUME TypeOK, NEW p \in Property, Mail(p), run.route # "none"
    PROVE  /\ mails' \in [Property -> UNION {[1 .. n -> Mails] : n \in 0 .. MailLimit}]
           /\ \A q \in Property : \A i \in DOMAIN mails[q] :
                 i \in DOMAIN mails'[q] /\ mails'[q][i] = mails[q][i]
           /\ \A q \in Property : \A i \in DOMAIN mails'[q] :
                 \/ i \in DOMAIN mails[q] /\ mails'[q][i] = mails[q][i]
                 \/ q = p /\ i = Len(mails[p]) + 1 /\ mails'[q][i] = NewMail
           /\ Len(mails[p]) + 1 \in DOMAIN mails'[p]
           /\ mails'[p][Len(mails[p]) + 1] = NewMail
<1>1. MailLimit \in Nat
  BY EmailAssumption
<1>2. DEFINE M == {s \in Seq(Mails) : Len(s) <= MailLimit}
<1>3. UNION {[1 .. n -> Mails] : n \in 0 .. MailLimit} = M
  BY <1>1, BoundedSeq
<1>4. mails \in [Property -> M]
  BY <1>3 DEF TypeOK
<1>5. NewMail \in Mails
  BY DEF TypeOK, Runs, Mails, NewMail
<1>6. mails' = [mails EXCEPT ![p] = Append(@, NewMail)] /\ Len(mails[p]) < MailLimit
  BY DEF Mail, NewMail
<1>7. mails[p] \in Seq(Mails) /\ Len(mails[p]) \in Nat
  BY <1>4
<1>8. DEFINE a == Append(mails[p], NewMail)
<1>9. /\ a \in Seq(Mails) /\ Len(a) = Len(mails[p]) + 1
      /\ \A i \in 1 .. Len(mails[p]) : a[i] = mails[p][i]
      /\ a[Len(mails[p]) + 1] = NewMail
  BY <1>5, <1>7, AppendProperties
<1>10. a \in M /\ DOMAIN a = 1 .. Len(mails[p]) + 1 /\ DOMAIN mails[p] = 1 .. Len(mails[p])
  BY <1>1, <1>6, <1>7, <1>9
<1>11. mails' = [mails EXCEPT ![p] = a]
  BY <1>6
<1> HIDE DEF a, M
<1>12. mails' \in [Property -> M] /\ mails'[p] = a /\ \A q \in Property \ {p} : mails'[q] = mails[q]
  BY <1>4, <1>10, <1>11
<1>13. /\ \A i \in DOMAIN mails[p] : i \in DOMAIN a /\ a[i] = mails[p][i]
       /\ \A i \in DOMAIN a : \/ i \in DOMAIN mails[p] /\ a[i] = mails[p][i]
                              \/ i = Len(mails[p]) + 1 /\ a[i] = NewMail
       /\ Len(mails[p]) + 1 \in DOMAIN a
  BY <1>7, <1>9, <1>10
<1>14. mails' \in [Property -> UNION {[1 .. n -> Mails] : n \in 0 .. MailLimit}]
  BY <1>3, <1>12
<1>15. \A q \in Property : q = p \/ mails'[q] = mails[q]
  BY <1>12
<1>16. a[Len(mails[p]) + 1] = NewMail /\ mails'[p] = a
  BY <1>9, <1>12
<1>17. ASSUME NEW q \in Property
       PROVE  /\ \A i \in DOMAIN mails[q] : i \in DOMAIN mails'[q] /\ mails'[q][i] = mails[q][i]
              /\ \A i \in DOMAIN mails'[q] :
                    \/ i \in DOMAIN mails[q] /\ mails'[q][i] = mails[q][i]
                    \/ q = p /\ i = Len(mails[p]) + 1 /\ mails'[q][i] = NewMail
  <2>1. CASE q = p
    <3>1. mails'[q] = a /\ mails[q] = mails[p]
      BY <2>1, <1>16
    <3> QED
      BY <2>1, <3>1, <1>13
  <2>2. CASE q # p
    <3>1. mails'[q] = mails[q]
      BY <2>2, <1>15
    <3> QED
      BY <3>1
  <2> QED
    BY <2>1, <2>2
<1>18. Len(mails[p]) + 1 \in DOMAIN mails'[p] /\ mails'[p][Len(mails[p]) + 1] = NewMail
  BY <1>13, <1>16
<1> QED
  BY <1>14, <1>17, <1>18

(***************************************************************************)
(* Type correctness.                                                       *)
(***************************************************************************)

LEMMA TypeInit == Init => TypeOK
<1> SUFFICES ASSUME Init PROVE TypeOK
  OBVIOUS
<1>1. mails \in [Property -> UNION {[1 .. n -> Mails] : n \in 0 .. MailLimit}]
  <2>1. <<>> \in {s \in Seq(Mails) : Len(s) <= MailLimit}
    BY EmailAssumption
  <2> QED
    BY <2>1, BoundedSeq, EmailAssumption DEF Init
<1> QED
  BY <1>1, EmailAssumption DEF Init, TypeOK, NoMail, NoState, NoRun, Untried, Month, Day, Runs

LEMMA TypeStep == TypeOK /\ [Next]_vars => TypeOK'
<1> SUFFICES ASSUME TypeOK, [Next]_vars PROVE TypeOK'
  OBVIOUS
<1> USE EmailAssumption DEF files
<1>1. CASE DaysPass
  BY <1>1 DEF DaysPass, TypeOK, Day
<1>2. ASSUME NEW m \in Month, NativeSends(m) PROVE TypeOK'
  BY <1>2 DEF NativeSends, Starts, TypeOK, Runs, Lock
<1>3. ASSUME NEW m \in Month, NativeHasIssues(m) PROVE TypeOK'
  BY <1>3 DEF NativeHasIssues, Starts, TypeOK
<1>4. ASSUME NEW m \in Month, NativeSkips(m) PROVE TypeOK'
  BY <1>4 DEF NativeSkips, Starts, Updated, TypeOK, Lock
<1>5. ASSUME NEW m \in Month, NEW to \in SUBSET Property, PacketsSend(m, to) PROVE TypeOK'
  BY <1>5 DEF PacketsSend, Starts, TypeOK, Runs
<1>6. ASSUME NEW p \in Property, PublishSends(p) PROVE TypeOK'
  <2>1. mails' \in [Property -> UNION {[1 .. n -> Mails] : n \in 0 .. MailLimit}]
    BY <1>6, MailAppends DEF PublishSends, Sending
  <2>2. posted' \in [Property -> Sent \cup {None}]
    <3>1. \A m \in {run.month, None} : Today(m) \in Sent
      BY DEF TypeOK, Runs, Today, Sent
    <3> QED
      BY <1>6, <3>1 DEF PublishSends, TypeOK
  <2> QED
    BY <1>6, <2>1, <2>2 DEF PublishSends, TypeOK
<1>7. ASSUME NEW p \in Property, PublishSendsNot(p) PROVE TypeOK'
  BY <1>7 DEF PublishSendsNot, TypeOK
<1>8. ASSUME NEW p \in Property, PacketGoes(p) PROVE TypeOK'
  <2>1. mails' \in [Property -> UNION {[1 .. n -> Mails] : n \in 0 .. MailLimit}]
    BY <1>8, MailAppends DEF PacketGoes, Sending, TypeOK
  <2> QED
    BY <1>8, <2>1 DEF PacketGoes, TypeOK
<1>9. CASE NativeEnds
  <2>1. run' \in Runs /\ result' = Untried
    BY <1>9 DEF NativeEnds, Ends, NoRun, Runs, Month
  <2>2. run.month \in Month /\ [month |-> run.month, review |-> TRUE] \in Lock
    BY DEF TypeOK, Runs, Lock
  <2>3. /\ sendLock' \in {None, [month |-> run.month, review |-> TRUE]}
        /\ sentMonth' \in {sentMonth, run.month}
    BY <1>9 DEF NativeEnds
  <2> QED
    BY <1>9, <2>1, <2>2, <2>3 DEF NativeEnds, TypeOK, Untried
<1>10. CASE LockRemoved
  BY <1>10 DEF LockRemoved, TypeOK
<1>11. CASE PacketsEnd
  <2>1. Today(run.month) \in Sent /\ run.month \in Month
    BY DEF TypeOK, Runs, Today, Sent
  <2>2. packets' \in [month : Month \cup {None}, last : [Property -> Sent \cup {None}]] \cup {Torn}
    <3>1. Known \in [Property -> Sent \cup {None}]
      BY DEF Known, NoMail, TypeOK
    <3>2. Keyed(run.month, To, Today(run.month)) \in [month : Month \cup {None}, last : [Property -> Sent \cup {None}]]
      BY <2>1, <3>1 DEF Keyed
    <3>3. packets' \in {packets, Keyed(run.month, To, Today(run.month))}
      BY <1>11 DEF PacketsEnd, Recorded
    <3> QED
      BY <3>2, <3>3 DEF TypeOK
  <2>3. NoRun \in Runs /\ [run EXCEPT !.sends = FALSE] \in Runs
    <3>1. NoRun \in Runs
      BY DEF NoRun, Runs, Month
    <3>2. \A r \in Runs : [r EXCEPT !.sends = FALSE] \in Runs
      BY DEF Runs
    <3> QED
      BY <3>1, <3>2 DEF TypeOK
  <2>4. run' \in Runs /\ result' \in {Untried, result}
    BY <1>11, <2>3 DEF PacketsEnd, Ends
  <2> QED
    BY <1>11, <2>2, <2>4 DEF PacketsEnd, TypeOK, Untried
<1>12. CASE CloseRecords
  <2>1. run' \in Runs /\ result' = Untried
    BY <1>12 DEF CloseRecords, Ends, NoRun, Runs, Month
  <2> QED
    BY <1>12, <2>1 DEF CloseRecords, TypeOK, Untried, Runs
<1>13. CASE Crash
  <2>1. run' \in Runs /\ result' = Untried
    BY <1>13 DEF Crash, Ends, NoRun, Runs, Month
  <2>2. mails' \in [Property -> UNION {[1 .. n -> Mails] : n \in 0 .. MailLimit}]
    BY <1>13, MailAppends DEF Crash, Sending, TypeOK
  <2> QED
    BY <1>13, <2>1, <2>2 DEF Crash, TypeOK, Untried
<1>14. CASE UNCHANGED vars
  BY <1>14 DEF vars, TypeOK
<1> QED
  BY <1>1, <1>2, <1>3, <1>4, <1>5, <1>6, <1>7, <1>8, <1>9, <1>10, <1>11, <1>12, <1>13, <1>14
     DEF Next

\* Every variable keeps its type, whatever runs are started, fail or die.
THEOREM TypeCorrect == Spec => []TypeOK
<1> QED
  BY TypeInit, TypeStep, PTL DEF Spec

(***************************************************************************)
(* The native route.                                                       *)
(***************************************************************************)

NativeMail(p, m) == \E i \in DOMAIN mails[p] : mails[p][i].route = "native" /\ mails[p][i].month = m

\* A run of the native route sends, for the latest month and under its lock.
RunInv ==
    /\ run.route # "none" => run.month = latest
    /\ run.route = "none" => result = Untried
    /\ run.route = "native" => run.sends /\ sendLock # None /\ sendLock.month = run.month

\* No month after the latest has been mailed, and the latest is on record or locked.
MonthInv ==
    \A p \in Property, m \in Month :
        NativeMail(p, m) => m <= latest /\ (m = latest => SentOrLocked(m))

\* Whom the run has not mailed, nobody has mailed for its month.
FreshInv ==
    run.route = "native" =>
        \A p \in Property : result[p] \in {"untried", "unneeded", "unapproved"}
            => ~NativeMail(p, run.month)

NativeInv == RunInv /\ MonthInv /\ FreshInv /\ NativeOncePerMonth

LEMMA NativeInit == Init => NativeInv
  BY DEF Init, NativeInv, RunInv, MonthInv, FreshInv, NativeOncePerMonth, NativeMail, NoRun

LEMMA NativeStep == ~Back /\ TypeOK /\ NativeInv /\ [Next]_vars => NativeInv'
<1> SUFFICES ASSUME ~Back, TypeOK, NativeInv, [Next]_vars PROVE NativeInv'
  OBVIOUS
<1> USE DEF NativeInv
<1>1. latest \in Nat /\ Month \subseteq Nat /\ run.month \in Month /\ latest \in Month
  BY EmailAssumption DEF TypeOK, Month, Runs
\* A run begins, or ends without one: it may be of a later month.
<1>2. ASSUME NEW m \in Month, Starts(m)
      PROVE  /\ run.route = "none" /\ latest' = m /\ m >= latest
             /\ \A p \in Property, n \in Month : NativeMail(p, n) /\ n = m => SentOrLocked(m)
             /\ \A p \in Property, n \in Month : NativeMail(p, n) => n <= m
  BY <1>1, <1>2 DEF Starts, NoRun, MonthInv
<1>3. UNCHANGED mails => NativeOncePerMonth' /\ \A p \in Property, m \in Month : NativeMail(p, m)' <=> NativeMail(p, m)
  BY DEF NativeOncePerMonth, NativeMail
<1>4. ASSUME NEW m \in Month, NativeSends(m) PROVE NativeInv'
  <2>1. UNCHANGED <<mails, sentMonth, result>> /\ run'.route = "native" /\ run'.month = m /\ run'.sends
        /\ sendLock' = [month |-> m, review |-> FALSE] /\ Starts(m) /\ ~SentOrLocked(m)
    BY <1>4 DEF NativeSends, files
  <2>2. RunInv'
    <3>1. [month |-> m, review |-> FALSE] \in Lock
      BY DEF Lock
    <3> QED
      BY <2>1, <3>1, <1>2, EmailAssumption DEF RunInv
  <2>3. \A p \in Property : ~NativeMail(p, m)
    BY <1>2, <2>1
  <2>4. FreshInv'
    BY <2>1, <2>3, <1>3 DEF FreshInv
  <2>5. MonthInv'
    BY <2>1, <2>3, <1>2, <1>3 DEF MonthInv
  <2> QED
    BY <2>1, <2>2, <2>4, <2>5, <1>3
<1>5. ASSUME NEW m \in Month, NativeHasIssues(m) PROVE NativeInv'
  <2>1. UNCHANGED <<mails, run, result>> /\ Starts(m) /\ ~SentOrLocked(m)
    BY <1>5 DEF NativeHasIssues
  <2>2. \A p \in Property : ~NativeMail(p, m)
    BY <1>2, <2>1
  <2> QED
    BY <2>1, <2>2, <1>2, <1>3 DEF RunInv, MonthInv, FreshInv
<1>6. ASSUME NEW m \in Month, NativeSkips(m) PROVE NativeInv'
  <2>1. UNCHANGED <<mails, run, result, sentMonth>> /\ Starts(m)
        /\ sendLock' = IF sendLock = None THEN None ELSE [month |-> m, review |-> FALSE]
    BY <1>6 DEF NativeSkips, Updated
  <2>2. SentOrLocked(m) => SentOrLocked(m)'
    <3>1. [month |-> m, review |-> FALSE] \in Lock
      BY DEF Lock
    <3> QED
      BY <2>1, <3>1, EmailAssumption DEF SentOrLocked
  <2> QED
    BY <2>1, <2>2, <1>2, <1>3 DEF RunInv, MonthInv, FreshInv
<1>7. ASSUME NEW m \in Month, NEW to \in SUBSET Property, PacketsSend(m, to) PROVE NativeInv'
  <2>1. UNCHANGED <<mails, sentMonth, sendLock>> /\ Starts(m)
        /\ run'.route = "packets" /\ run'.month = m
    BY <1>7 DEF PacketsSend, files
  <2> QED
    BY <2>1, <1>2, <1>3 DEF RunInv, MonthInv, FreshInv, SentOrLocked
\* The native run mails the owner of p.
<1>8. ASSUME NEW p \in Property, Mail(p), run.route = "native", result[p] = "untried"
      PROVE  /\ NativeOncePerMonth'
             /\ \A q \in Property, m \in Month :
                   NativeMail(q, m)' => NativeMail(q, m) \/ (q = p /\ m = run.month)
  <2>1. ~NativeMail(p, run.month)
    BY <1>8 DEF FreshInv
  <2>2. /\ \A q \in Property : \A i \in DOMAIN mails'[q] :
              \/ i \in DOMAIN mails[q] /\ mails'[q][i] = mails[q][i]
              \/ q = p /\ i = Len(mails[p]) + 1 /\ mails'[q][i] = NewMail
    BY <1>8, MailAppends
  <2>3. NewMail.route = "native" /\ NewMail.month = run.month
    BY <1>8 DEF NewMail
  <2> QED
    BY <2>1, <2>2, <2>3 DEF NativeMail, NativeOncePerMonth
\* The packets mail it.
<1>9. ASSUME NEW p \in Property, Mail(p), run.route = "packets"
      PROVE  /\ NativeOncePerMonth'
             /\ \A q \in Property, m \in Month : NativeMail(q, m)' => NativeMail(q, m)
  <2>1. /\ \A q \in Property : \A i \in DOMAIN mails'[q] :
              \/ i \in DOMAIN mails[q] /\ mails'[q][i] = mails[q][i]
              \/ q = p /\ i = Len(mails[p]) + 1 /\ mails'[q][i] = NewMail
    BY <1>9, MailAppends
  <2>2. NewMail.route = "packets"
    BY <1>9 DEF NewMail
  <2> QED
    BY <2>1, <2>2 DEF NativeMail, NativeOncePerMonth
<1>10. ASSUME NEW p \in Property, PublishSends(p) PROVE NativeInv'
  <2>1. /\ Mail(p) /\ run.route = "native" /\ result[p] = "untried"
        /\ UNCHANGED <<latest, sentMonth, sendLock, run>>
        /\ \E r \in {"proved", "unproved", "failed"} : result' = [result EXCEPT ![p] = r]
    BY <1>10 DEF PublishSends, Sending
  <2>2. result'[p] \notin {"untried", "unneeded", "unapproved"} /\ \A q \in Property \ {p} : result'[q] = result[q]
    BY <2>1 DEF TypeOK
  <2>3. RunInv'
    BY <2>1 DEF RunInv
  <2>4. MonthInv'
    BY <2>1, <1>1, <1>8 DEF MonthInv, RunInv, SentOrLocked
  <2>5. FreshInv'
    BY <2>1, <2>2, <1>1, <1>8 DEF FreshInv
  <2> QED
    BY <2>1, <2>3, <2>4, <2>5, <1>8
<1>11. ASSUME NEW p \in Property, PublishSendsNot(p) PROVE NativeInv'
  <2>1. /\ run.route = "native" /\ result[p] = "untried"
        /\ UNCHANGED <<mails, latest, sentMonth, sendLock, run>>
        /\ \E r \in {"unneeded", "unapproved", "failed"} : result' = [result EXCEPT ![p] = r]
    BY <1>11 DEF PublishSendsNot, Sending, files
  <2>2. \A q \in Property : result'[q] \in {"untried", "unneeded", "unapproved"}
           => result[q] \in {"untried", "unneeded", "unapproved"}
    BY <2>1 DEF TypeOK
  <2> QED
    BY <2>1, <2>2, <1>1, <1>3 DEF RunInv, MonthInv, FreshInv, SentOrLocked
<1>12. ASSUME NEW p \in Property, PacketGoes(p) PROVE NativeInv'
  <2>1. run.route = "packets" /\ UNCHANGED <<latest, sentMonth, sendLock, run>> /\ (Mail(p) \/ UNCHANGED mails)
    BY <1>12 DEF PacketGoes, Sending, files
  <2> QED
    BY <2>1, <1>3, <1>9 DEF RunInv, MonthInv, FreshInv, SentOrLocked
<1>13. CASE NativeEnds
  <2>1. run.route = "native" /\ UNCHANGED <<mails, latest>> /\ run' = NoRun /\ result' = Untried
    BY <1>13 DEF NativeEnds, Ends
  <2>2. \A p \in Property : NativeMail(p, latest) => SentOrLocked(latest)'
    <3>1. run.month = latest
      BY <2>1 DEF RunInv
    <3>2. [month |-> run.month, review |-> TRUE] \in Lock
      BY <1>1 DEF Lock
    <3>3. CASE sendLock' = [month |-> run.month, review |-> TRUE]
      BY <2>1, <3>1, <3>2, <3>3, EmailAssumption DEF SentOrLocked
    <3>4. CASE sentMonth' = run.month
      BY <2>1, <3>1, <3>4 DEF SentOrLocked
    <3>5. CASE ~Failed /\ "untried" \notin Outcomes /\ WillSend \cap Outcomes = {}
      <4>1. \A p \in Property : result[p] \in {"untried", "unneeded", "unapproved"}
        <5>1. \A p \in Property : result[p] \in Outcomes
          BY DEF Outcomes
        <5>2. \A p \in Property : result[p] \in
                 {"untried", "proved", "unproved", "unneeded", "unapproved", "failed"}
          BY DEF TypeOK
        <5> QED
          BY <3>5, <5>1, <5>2 DEF Failed, WillSend
      <4> QED
        BY <4>1, <3>1, <2>1 DEF FreshInv
    <3> QED
      BY <1>13, <3>3, <3>4, <3>5 DEF NativeEnds
  <2>3. \A p \in Property, m \in Month : NativeMail(p, m) => m <= latest
    BY DEF MonthInv
  <2> QED
    BY <2>1, <2>2, <2>3, <1>3 DEF RunInv, MonthInv, FreshInv, NoRun
<1>14. CASE LockRemoved
  <2>1. /\ sendLock # None /\ UNCHANGED <<mails, latest, run, result, sentMonth>> /\ run = NoRun
        /\ \A p \in Property : ~NativeMail(p, sendLock.month)
    BY <1>14 DEF LockRemoved, NativeMail
  <2> QED
    BY <2>1, <1>3 DEF RunInv, MonthInv, FreshInv, NoRun, SentOrLocked
<1>15. CASE PacketsEnd
  <2>1. /\ run.route = "packets" /\ UNCHANGED <<mails, latest, sentMonth, sendLock>>
        /\ \/ run' = NoRun /\ result' = Untried
           \/ run' = [run EXCEPT !.sends = FALSE]
    BY <1>15 DEF PacketsEnd, Ends
  <2>2. \/ run'.route = "none" /\ result' = Untried
        \/ run'.route = "packets" /\ run'.month = run.month
    BY <2>1 DEF NoRun, TypeOK, Runs
  <2> QED
    BY <2>1, <2>2, <1>3 DEF RunInv, MonthInv, FreshInv, SentOrLocked
<1>16. CASE CloseRecords
  <2>1. /\ run.route = "packets" /\ UNCHANGED <<mails, latest, sendLock>> /\ run' = NoRun /\ result' = Untried
        /\ sentMonth' = run.month
    BY <1>16 DEF CloseRecords, Ends
  <2>2. SentOrLocked(latest)'
    BY <2>1 DEF RunInv, SentOrLocked
  <2> QED
    BY <2>1, <2>2, <1>3 DEF RunInv, MonthInv, FreshInv, NoRun
<1>17. CASE Crash
  <2>1. /\ UNCHANGED <<latest, sentMonth, sendLock>> /\ run' = NoRun /\ result' = Untried
        /\ \/ UNCHANGED mails
           \/ \E p \in Property : Mail(p) /\ run.route = "packets"
           \/ \E p \in Property : Mail(p) /\ run.route = "native" /\ result[p] = "untried"
    BY <1>17 DEF Crash, Ends, Sending
  <2>2. NativeOncePerMonth'
    BY <2>1, <1>3, <1>8, <1>9
  <2>3. \A q \in Property, m \in Month : NativeMail(q, m)'
            => NativeMail(q, m) \/ (m = run.month /\ run.route = "native")
    BY <2>1, <1>3, <1>8, <1>9
  <2>4. MonthInv'
    BY <2>1, <2>3, <1>1 DEF MonthInv, RunInv, SentOrLocked
  <2> QED
    BY <2>1, <2>2, <2>4 DEF RunInv, FreshInv, NoRun
<1>18. CASE DaysPass \/ UNCHANGED vars
  <2>1. UNCHANGED <<mails, latest, sentMonth, sendLock, run, result>>
    BY <1>18 DEF DaysPass, vars, files
  <2> QED
    BY <2>1, <1>1, <1>3 DEF RunInv, MonthInv, FreshInv, SentOrLocked
<1> QED
  BY <1>4, <1>5, <1>6, <1>7, <1>10, <1>11, <1>12, <1>13, <1>14, <1>15, <1>16, <1>17, <1>18
     DEF Next

\* If months are run in order, no owner gets two native mails for a month,
\* however the runs fail, die and are started again.
THEOREM NativeMailsOnce == ~Back => (Spec => []NativeOncePerMonth)
<1> SUFFICES ASSUME ~Back PROVE Spec => []NativeOncePerMonth
  OBVIOUS
<1>1. TypeOK /\ NativeInv /\ [Next]_vars => NativeInv'
  BY NativeStep
<1>2. NativeInv => NativeOncePerMonth
  BY DEF NativeInv
<1> QED
  BY <1>1, <1>2, NativeInit, TypeCorrect, PTL DEF Spec

(***************************************************************************)
(* The packets.                                                            *)
(***************************************************************************)

PacketMail(p, m) == \E i \in DOMAIN mails[p] : mails[p][i].route = "packets" /\ mails[p][i].month = m

\* What the state file records, and what a run of the packets has counted, was sent.
PacketInv ==
    /\ RecordedWasSent
    /\ run.route = "none" => result = Untried
    /\ run.route = "packets" =>
          /\ \A p \in Property : /\ result[p] \in {"untried", "proved", "failed", "unneeded"}
                                 /\ result[p] = "proved" => PacketMail(p, run.month)
          /\ To # {}

LEMMA MailMonth ==
    ASSUME TypeOK, NEW p \in Property, NEW i \in DOMAIN mails[p]
    PROVE  mails[p][i].month \in Month
<1>1. PICK n \in 0 .. MailLimit : mails[p] \in [1 .. n -> Mails]
  BY DEF TypeOK
<1>2. mails[p][i] \in Mails
  BY <1>1
<1> QED
  BY <1>2 DEF Mails

\* What the state file records of an owner is the month of a mail.
LEMMA RecordedMonth ==
    ASSUME TypeOK, RecordedWasSent, packets # Torn, NEW p \in Property, packets.last[p] # None
    PROVE  packets.last[p].month \in Month /\ PacketMail(p, packets.last[p].month)
<1>1. PICK i \in DOMAIN mails[p] :
         mails[p][i].route = "packets" /\ mails[p][i].month = packets.last[p].month
  BY DEF RecordedWasSent
<1>2. mails[p][i].month \in Month
  BY MailMonth
<1> QED
  BY <1>1, <1>2 DEF PacketMail

LEMMA PacketMailStays ==
    ASSUME TypeOK, [Next]_vars, NEW p \in Property, NEW m \in Month, PacketMail(p, m)
    PROVE  PacketMail(p, m)'
<1>1. UNCHANGED mails \/ \E q \in Property : Mail(q) /\ run.route # "none"
  BY DEF Next, DaysPass, NativeSends, NativeHasIssues, NativeSkips, PacketsSend, PublishSends,
         PublishSendsNot, PacketGoes, NativeEnds, LockRemoved, PacketsEnd, CloseRecords, Crash,
         Sending, vars, files
<1>2. ASSUME NEW i \in DOMAIN mails[p] PROVE i \in DOMAIN mails'[p] /\ mails'[p][i] = mails[p][i]
  BY <1>1, MailAppends
<1> QED
  BY <1>2 DEF PacketMail

LEMMA PacketInit == Init => PacketInv
  BY DEF Init, PacketInv, RecordedWasSent, NoState, NoMail, NoRun

LEMMA PacketStep == TypeOK /\ PacketInv /\ [Next]_vars => PacketInv'
<1> SUFFICES ASSUME TypeOK, PacketInv, [Next]_vars PROVE PacketInv'
  OBVIOUS
<1> USE DEF PacketInv
<1>1. run.month \in Month
  BY DEF TypeOK, Runs
\* The state file stays: what it records stays true.
<1>2. ASSUME packets' \in {packets, Torn} PROVE RecordedWasSent'
  <2> SUFFICES ASSUME packets' # Torn PROVE RecordedWasSent'
    BY DEF RecordedWasSent
  <2>1. packets' = packets /\ packets # Torn
    BY <1>2
  <2>2. ASSUME NEW p \in Property, packets.last[p] # None
        PROVE  packets.last[p].month \in Month /\ PacketMail(p, packets.last[p].month)
    BY <2>1, <2>2, RecordedMonth
  <2>3. ASSUME NEW p \in Property, packets.last[p] # None
        PROVE  \E i \in DOMAIN mails'[p] :
                  mails'[p][i].route = "packets" /\ mails'[p][i].month = packets.last[p].month
    <3>1. PICK m \in Month : m = packets.last[p].month /\ PacketMail(p, m)
      BY <2>2, <2>3
    <3>2. PacketMail(p, m)'
      BY <3>1, PacketMailStays
    <3> QED
      BY <3>1, <3>2 DEF PacketMail
  <2> QED
    BY <2>1, <2>3 DEF RecordedWasSent
<1>3. ASSUME NEW m \in Month, NativeSends(m) \/ NativeHasIssues(m) \/ NativeSkips(m)
      PROVE  PacketInv'
  <2>1. UNCHANGED <<packets, result>> /\ run = NoRun /\ run'.route \in {"none", "native"}
    <3>1. UNCHANGED <<packets, result>> /\ run = NoRun
      BY <1>3 DEF NativeSends, NativeHasIssues, NativeSkips, Starts, files
    <3>2. run' = NoRun \/ run' = [route |-> "native", month |-> m, sends |-> TRUE]
      BY <1>3, <3>1 DEF NativeSends, NativeHasIssues, NativeSkips
    <3>3. run'.route = "none" \/ run'.route = "native"
      BY <3>2 DEF NoRun
    <3> QED
      BY <3>1, <3>3
  <2>2. result' = Untried
    BY <2>1 DEF NoRun
  <2> QED
    BY <2>1, <2>2, <1>2 DEF Untried
<1>10. ASSUME NEW m \in Month, NEW to \in SUBSET Property, PacketsSend(m, to) PROVE PacketInv'
  <2>1. /\ UNCHANGED packets /\ run'.route = "packets" /\ to # {}
        /\ result' = [p \in Property |-> IF p \in to THEN "untried" ELSE "unneeded"]
    BY <1>10 DEF PacketsSend, files
  <2>2. To' # {}
    BY <2>1 DEF To
  <2> QED
    BY <2>1, <2>2, <1>2
<1>4. ASSUME NEW p \in Property, PublishSends(p) \/ PublishSendsNot(p) PROVE PacketInv'
  <2>1. UNCHANGED <<packets, run>> /\ run.route = "native"
    BY <1>4 DEF PublishSends, PublishSendsNot, Sending, files
  <2> QED
    BY <2>1, <1>2
<1>5. ASSUME NEW p \in Property, PacketGoes(p) PROVE PacketInv'
  <2>1. /\ UNCHANGED <<packets, run>> /\ run.route = "packets"
        /\ \/ Mail(p) /\ result' = [result EXCEPT ![p] = "proved"]
           \/ result' = [result EXCEPT ![p] = "failed"]
    BY <1>5 DEF PacketGoes, Sending, files
  <2>2. Mail(p) => PacketMail(p, run.month)'
    <3>1. NewMail.route = "packets" /\ NewMail.month = run.month
      BY <2>1 DEF NewMail
    <3> QED
      BY <2>1, <3>1, MailAppends DEF PacketMail
  <2>3. ASSUME NEW q \in Property
        PROVE  result'[q] \in {"untried", "proved", "failed", "unneeded"}
               /\ (result'[q] = "proved" => PacketMail(q, run.month)')
    <3>1. CASE q = p
      <4>1. result'[p] = "failed" \/ (Mail(p) /\ result'[p] = "proved")
        BY <2>1 DEF TypeOK
      <4> QED
        BY <3>1, <4>1, <2>2
    <3>2. CASE q # p
      <4>1. result'[q] = result[q]
        BY <2>1, <3>2 DEF TypeOK
      <4>2. result[q] \in {"untried", "proved", "failed", "unneeded"}
            /\ (result[q] = "proved" => PacketMail(q, run.month))
        BY <2>1
      <4>3. PacketMail(q, run.month) => PacketMail(q, run.month)'
        <5>1. PICK m \in Month : m = run.month
          BY <1>1
        <5>2. PacketMail(q, m) => PacketMail(q, m)'
          BY PacketMailStays
        <5> QED
          BY <2>1, <5>1, <5>2 DEF PacketMail
      <4> QED
        BY <4>1, <4>2, <4>3
    <3> QED
      BY <3>1, <3>2
  <2>4. To' # {}
    BY <2>1 DEF To, TypeOK
  <2> QED
    BY <2>1, <2>3, <2>4, <1>2 DEF PacketMail
<1>6. CASE NativeEnds \/ CloseRecords
  <2>1. UNCHANGED packets /\ run' = NoRun /\ result' = Untried
    BY <1>6 DEF NativeEnds, CloseRecords, Ends
  <2> QED
    BY <2>1, <1>2 DEF NoRun
<1>7. CASE PacketsEnd
  <2>1. run.route = "packets" /\ "untried" \notin Outcomes /\ packets' = Recorded(run.month)
    BY <1>7 DEF PacketsEnd
  <2>2. CASE Failed
    <3>1. UNCHANGED packets /\ run' = NoRun /\ result' = Untried
      BY <1>7, <2>2 DEF PacketsEnd, Recorded, Ends
    <3> QED
      BY <3>1, <1>2 DEF NoRun
  <2>3. CASE ~Failed
    <3>1. \A p \in Property : result[p] \in Outcomes
      BY DEF Outcomes
    <3>2. To # {} /\ \A p \in To : result[p] = "proved" /\ PacketMail(p, run.month)
      <4>1. \A p \in Property : /\ result[p] \in {"untried", "proved", "failed", "unneeded"}
                                /\ result[p] = "proved" => PacketMail(p, run.month)
        BY <2>1
      <4>2. \A p \in Property : result[p] # "untried" /\ result[p] # "failed"
        BY <2>1, <2>3, <3>1 DEF Failed
      <4> QED
        BY <2>1, <4>1, <4>2 DEF To
    <3>3. PICK m \in Month : m = run.month
      BY <1>1
    <3>4. \A p \in To : PacketMail(p, m)'
      BY <3>2, <3>3, PacketMailStays DEF To
    <3>5. packets' = Keyed(m, To, Today(m))
      BY <2>1, <2>3, <3>3 DEF Recorded
    <3>6. Today(m).month = m /\ Today(m) # None
      BY EmailAssumption DEF Today, Sent, TypeOK
    <3>7. RecordedWasSent'
      <4>1. /\ packets'.month = m
            /\ \A p \in Property : packets'.last[p] = IF p \in To THEN Today(m) ELSE Known[p]
        BY <3>5 DEF Keyed
      <4>2. \A p \in Property : Known[p] # None =>
               Known[p].month \in Month /\ PacketMail(p, Known[p].month)
        <5>1. ASSUME NEW p \in Property, Known[p] # None
              PROVE  packets # Torn /\ Known[p] = packets.last[p]
          BY <5>1 DEF Known, NoMail
        <5> QED
          BY <5>1, RecordedMonth
      <4>3. ASSUME NEW p \in Property, packets'.last[p] # None
            PROVE  \E i \in DOMAIN mails'[p] :
                      mails'[p][i].route = "packets" /\ mails'[p][i].month = packets'.last[p].month
        <5>1. CASE p \in To
          BY <5>1, <4>1, <3>4, <3>6 DEF PacketMail
        <5>2. CASE p \notin To
          <6>1. packets'.last[p] = Known[p]
            BY <5>2, <4>1
          <6>2. PICK n \in Month : n = Known[p].month /\ PacketMail(p, n)
            BY <4>2, <4>3, <6>1
          <6>3. PacketMail(p, n)'
            BY <6>2, PacketMailStays
          <6> QED
            BY <6>1, <6>2, <6>3 DEF PacketMail
        <5> QED
          BY <5>1, <5>2
      <4>4. \E p \in Property : packets'.last[p] # None /\ packets'.last[p].month = m
        BY <3>2, <3>6, <4>1 DEF To
      <4> QED
        BY <4>1, <4>3, <4>4 DEF RecordedWasSent
    <3>8. UNCHANGED result /\ run' = [run EXCEPT !.sends = FALSE]
      BY <1>7, <2>3 DEF PacketsEnd
    <3>9. run'.route = "packets" /\ run'.month = m
      BY <3>3, <3>8, <2>1 DEF TypeOK, Runs
    <3>10. \A p \in Property : result'[p] = "proved" => PacketMail(p, m)'
      BY <3>4, <3>8 DEF To
    <3>11. To' # {}
      BY <3>2, <3>8 DEF To
    <3> QED
      BY <2>1, <3>7, <3>8, <3>9, <3>10, <3>11 DEF PacketMail
  <2> QED
    BY <2>2, <2>3
<1>8. CASE Crash
  <2>1. packets' \in {packets, Torn} /\ run' = NoRun /\ result' = Untried
    BY <1>8 DEF Crash, Ends
  <2> QED
    BY <2>1, <1>2 DEF NoRun
<1>9. CASE DaysPass \/ LockRemoved \/ UNCHANGED vars
  <2>1. UNCHANGED <<mails, packets, run, result>>
    BY <1>9 DEF DaysPass, LockRemoved, vars, files
  <2> QED
    BY <2>1, <1>2 DEF PacketMail, To
<1> QED
  BY <1>3, <1>4, <1>5, <1>6, <1>7, <1>8, <1>9, <1>10 DEF Next

\* The packets' state never records a mail that an owner did not receive,
\* whichever packets fail and wherever a run dies.
THEOREM RecordsAreSent == Spec => []RecordedWasSent
<1>1. TypeOK /\ PacketInv /\ [Next]_vars => PacketInv'
  BY PacketStep
<1>2. PacketInv => RecordedWasSent
  BY DEF PacketInv
<1> QED
  BY <1>1, <1>2, PacketInit, TypeCorrect, PTL DEF Spec

-----------------------------------------------------------------------------
\* No record is of a later day, and a run of the packets has found none of today
\* in the publish states it can read.
CoolInv ==
    /\ \A p \in Property : posted[p] # None => posted[p].day <= today
    /\ packets # Torn => \A p \in Property : packets.last[p] # None => packets.last[p].day <= today
    /\ run.route = "packets" => \A p \in To : ~OnRecordToday(Dated, p)

LEMMA CoolInit == Init => CoolInv
  BY DEF Init, CoolInv, NoMail, NoState, NoRun

LEMMA CoolStep == TypeOK /\ CoolInv /\ [Next]_vars => CoolInv'
<1> SUFFICES ASSUME TypeOK, CoolInv, [Next]_vars PROVE CoolInv'
  OBVIOUS
<1> USE DEF CoolInv
<1>1. today \in Nat /\ \A m \in Month \cup {None} : Today(m).day = today
  BY EmailAssumption DEF TypeOK, Day, Today
<1>2. CASE DaysPass
  <2>1. today' = today + 1 /\ UNCHANGED <<posted, packets, run, result>>
    BY <1>2 DEF DaysPass, files
  <2>2. \A p \in Property : posted[p] # None => posted[p].day \in Nat
    BY EmailAssumption DEF TypeOK, Sent, Day
  <2>3. packets # Torn => \A p \in Property : packets.last[p] # None => packets.last[p].day \in Nat
    BY EmailAssumption DEF TypeOK, Sent, Day
  <2>4. \A p \in Property : ~OnRecordToday(Dated, p)'
    BY <1>1, <2>1, <2>2 DEF OnRecordToday, Dated
  <2> QED
    BY <1>1, <2>1, <2>2, <2>3, <2>4 DEF To
<1>3. ASSUME NEW m \in Month, NativeSends(m) \/ NativeHasIssues(m) \/ NativeSkips(m) PROVE CoolInv'
  <2>1. /\ UNCHANGED <<today, posted, packets>>
        /\ run' \in {NoRun, [route |-> "native", month |-> m, sends |-> TRUE]}
    BY <1>3 DEF NativeSends, NativeHasIssues, NativeSkips, Starts
  <2>2. run'.route # "packets"
    BY <2>1 DEF NoRun
  <2> QED
    BY <2>1, <2>2
<1>4. ASSUME NEW m \in Month, NEW to \in SUBSET Property, PacketsSend(m, to) PROVE CoolInv'
  <2>1. /\ UNCHANGED <<today, posted, packets>> /\ Cooling(LastMails, to) = {}
        /\ result' = [p \in Property |-> IF p \in to THEN "untried" ELSE "unneeded"]
    BY <1>4 DEF PacketsSend, files
  <2>2. ASSUME NEW p \in to PROVE ~OnRecordToday(Dated, p)
    <3> SUFFICES ASSUME Dated[p] # None, Dated[p].day = today PROVE FALSE
      BY DEF OnRecordToday
    <3>1. Known[p] \in Sent \cup {None} /\ (Known[p] # None => Known[p].day <= today)
      BY DEF TypeOK, Known, NoMail
    <3>2. LastMails[p] = Later(Known[p], Dated[p])
      BY DEF LastMails
    <3>3. Known[p] # None => Known[p].day \in Nat
      BY <3>1, EmailAssumption DEF Sent, Day
    <3>4. Later(Known[p], Dated[p]) # None /\ Later(Known[p], Dated[p]).day = today
      BY <3>1, <3>3, <1>1 DEF Later
    <3> QED
      BY <2>1, <3>2, <3>4 DEF Cooling, OnRecordToday
  <2>3. To' = to
    BY <2>1 DEF To
  <2>4. \A p \in to : OnRecordToday(Dated, p)' <=> OnRecordToday(Dated, p)
    BY <2>1 DEF OnRecordToday, Dated
  <2> QED
    BY <2>1, <2>2, <2>3, <2>4
<1>5. ASSUME NEW p \in Property, PublishSends(p) PROVE CoolInv'
  <2>1. /\ run.route = "native" /\ UNCHANGED <<today, packets, run>>
        /\ \/ posted' = posted
           \/ \E m \in {run.month, None} : posted' = [posted EXCEPT ![p] = Today(m)]
    BY <1>5 DEF PublishSends, Sending
  <2>2. run.month \in Month /\ posted \in [Property -> Sent \cup {None}]
    BY DEF TypeOK, Runs
  <2>3. \A q \in Property : posted'[q] # None => posted'[q].day <= today
    BY <2>1, <2>2, <1>1
  <2> QED
    BY <2>1, <2>3
<1>6. CASE PacketsEnd
  <2>1. /\ UNCHANGED <<today, posted>> /\ packets' = Recorded(run.month) /\ run.route = "packets"
        /\ run' = NoRun \/ UNCHANGED result
    BY <1>6 DEF PacketsEnd, Ends
  <2>2. run.month \in Month
    BY DEF TypeOK, Runs
  <2>3. packets' # Torn => \A p \in Property : packets'.last[p] # None => packets'.last[p].day <= today
    <3>1. \A p \in Property : Known[p] # None => Known[p].day <= today
      BY DEF Known, NoMail
    <3>2. Today(run.month).day <= today
      BY <2>2, <1>1
    <3> QED
      BY <2>1, <3>1, <3>2 DEF Recorded, Keyed
  <2>4. run'.route = "packets" => UNCHANGED To
    BY <2>1 DEF NoRun, To
  <2> QED
    BY <2>1, <2>3, <2>4 DEF OnRecordToday, Dated, To
<1>7. CASE NativeEnds \/ CloseRecords \/ Crash
  <2>1. UNCHANGED <<today, posted>> /\ packets' \in {packets, Torn} /\ run' = NoRun
    BY <1>7 DEF NativeEnds, CloseRecords, Crash, Ends
  <2> QED
    BY <2>1 DEF NoRun
<1>8. CASE LockRemoved \/ UNCHANGED vars
  <2>1. UNCHANGED <<today, posted, packets, run, result>>
    BY <1>8 DEF LockRemoved, vars, files
  <2> QED
    BY <2>1 DEF OnRecordToday, Dated, To
<1>9. ASSUME NEW p \in Property, PublishSendsNot(p) PROVE CoolInv'
  BY <1>9 DEF PublishSendsNot, Sending, files
<1>10. ASSUME NEW p \in Property, PacketGoes(p) PROVE CoolInv'
  <2>1. /\ UNCHANGED <<today, posted, packets, run>> /\ result[p] = "untried"
        /\ \E r : result' = [result EXCEPT ![p] = r]
    BY <1>10 DEF PacketGoes, Sending, files
  <2>2. To' \subseteq To
    BY <2>1 DEF To, TypeOK
  <2> QED
    BY <2>1, <2>2 DEF OnRecordToday, Dated, To
<1> QED
  BY <1>2, <1>3, <1>4, <1>5, <1>6, <1>7, <1>8, <1>9, <1>10 DEF Next

\* The packets mail whom the run has a packet for.
LEMMA PacketMails ==
    ASSUME TypeOK, [Next]_vars, run.route = "packets", NEW p \in Property, mails'[p] # mails[p]
    PROVE  p \in To
<1>1. PICK q \in Property : Mail(q) /\ result[q] = "untried"
  BY DEF Next, DaysPass, NativeSends, NativeHasIssues, NativeSkips, PacketsSend, PublishSends,
         PublishSendsNot, PacketGoes, NativeEnds, LockRemoved, PacketsEnd, CloseRecords, Crash,
         Sending, vars, files
<1>2. p = q
  BY <1>1 DEF Mail, TypeOK
<1> QED
  BY <1>1, <1>2 DEF To

\* A packet never follows a dated record of a native mail within the cooldown.
THEOREM PacketsRespectCooldown == Spec => PacketAfterCooldown
<1>1. TypeOK /\ CoolInv /\ [Next]_vars
        => [\A p \in Property : mails'[p] # mails[p] /\ run.route = "packets"
                 => ~OnRecordToday(Dated, p)]_vars
  BY PacketMails DEF CoolInv
<1> QED
  BY <1>1, CoolInit, CoolStep, TypeCorrect, PTL DEF Spec, PacketAfterCooldown
=============================================================================
