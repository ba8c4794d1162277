------------------------------ MODULE OwnerEmail ------------------------------
(***************************************************************************)
(* The monthly email to the owners of each property, over two routes: the  *)
(* native send of scripts/lofty_monthly_publish_to_pm.py, which Lofty      *)
(* carries out, and the packets of                                         *)
(* scripts/lofty_monthly_owner_email_packet.py, which go through Gmail.    *)
(* The native route keeps the last month sent and a lock, the packets a    *)
(* state file with the last mail of each property.  The publish script of  *)
(* the lofty-pm skill keeps a state file per property too, which the       *)
(* packets read.                                                           *)
(*                                                                         *)
(* One run at a time: closes hold a flock.  A day here stands for the      *)
(* seven of PROPERTY_EMAIL_COOLDOWN_DAYS.                                  *)
(***************************************************************************)
EXTENDS Naturals, Sequences, FiniteSets

CONSTANTS
    Property,   \* properties with one recipient each
    None, Torn, \* nothing yet; a file cut off while it was written
    Back,       \* whether a month may be run after a later one
    LastMonth,  \* bound: run months 1 .. LastMonth
    LastDay,    \* bound: days 0 .. LastDay
    MailLimit   \* bound: mails to one property

Month == 1 .. LastMonth
Day   == 0 .. LastDay
Sent  == [month : Month \cup {None}, day : Day]  \* None: no month can be made out
Lock  == [month : Month, review : BOOLEAN]

ASSUME EmailAssumption ==
    /\ Back \in BOOLEAN /\ {LastMonth, LastDay, MailLimit} \subseteq Nat /\ LastMonth > 0
    /\ None \notin Month \cup Lock \cup Sent /\ None # Torn

VARIABLES
    mails,     \* mails[p]: what the owner of p has received
    today,
    latest,    \* the latest month that was run
    posted,    \* posted[p]: the last mail in the publish state of p
    sentMonth, \* the native route's sent-state file
    sendLock,  \* the native route's lock file
    packets,   \* the packets' sent-state file
    run,       \* the run: its route and month, and whether it sends
    result     \* result[p]: what this run has of p

files == <<posted, sentMonth, sendLock, packets>>
vars  == <<mails, today, latest, files, run, result>>

NoRun   == [route |-> "none", month |-> 1, sends |-> FALSE]
NoMail  == [p \in Property |-> None]
Untried == [p \in Property |-> "untried"]
NoState == [month |-> None, last |-> NoMail]

Init ==
    /\ mails = [p \in Property |-> <<>>] /\ today = 0 /\ latest = 1
    /\ posted = NoMail /\ sentMonth = None /\ sendLock = None /\ packets = NoState
    /\ run = NoRun /\ result = Untried

Today(m) == [month |-> m, day |-> today]

\* The owner of p receives a mail.
Mail(p) ==
    /\ Len(mails[p]) < MailLimit
    /\ mails' = [mails EXCEPT ![p] =
                    Append(@, [route |-> run.route, month |-> run.month, day |-> today])]

Ends == run' = NoRun /\ result' = Untried

DaysPass ==
    /\ today < LastDay /\ today' = today + 1
    /\ UNCHANGED <<mails, latest, files, run, result>>

\* The close, its recovery or an operator starts a run for a month.
Starts(m) ==
    /\ run = NoRun
    /\ Back \/ m >= latest
    /\ latest' = IF m > latest THEN m ELSE latest

-----------------------------------------------------------------------------
(* The native route, with --apply.                                         *)

\* update_send_lock: a lock that is there becomes this run's, whatever run left it.
Updated(l, m, review) == IF l = None THEN None ELSE [month |-> m, review |-> review]

BugLockUnread(m) == sentMonth = m
SentOrLocked(m) == sentMonth = m \/ (sendLock # None /\ sendLock.month = m)

\* The run sends if it was asked to, nothing blocks it and no issue was found
\* before; the lock is then written.
NativeSends(m) ==
    /\ Starts(m) /\ ~SentOrLocked(m)
    /\ sendLock' = [month |-> m, review |-> FALSE]
    /\ run' = [route |-> "native", month |-> m, sends |-> TRUE]
    /\ UNCHANGED <<mails, today, posted, sentMonth, packets, result>>

\* It was asked to and nothing blocks it, but there are issues: no lock, no
\* publish, and no send to count, so whatever lock there is goes.
NativeHasIssues(m) ==
    /\ Starts(m) /\ ~SentOrLocked(m)
    /\ sendLock' = None
    /\ UNCHANGED <<mails, today, posted, sentMonth, packets, run, result>>

\* It was not asked to send, or is blocked: it publishes with --skip-send.
NativeSkips(m) ==
    /\ Starts(m)
    /\ sendLock' = Updated(sendLock, m, FALSE)
    /\ UNCHANGED <<mails, today, posted, sentMonth, packets, run, result>>

Sending(route, p) == run.route = route /\ run.sends /\ result[p] = "untried"

OnRecordToday(last, p) == last[p] # None /\ last[p].day = today

\* The publish script (external) sends what was not sent in the last
\* --send-interval-days, and then writes its state.  Of a subprocess that fails
\* or times out the run does not know how far it got.
PublishSends(p) ==
    /\ Sending("native", p)
    /\ ~OnRecordToday(posted, p)
    /\ Mail(p)
    /\ posted' \in {posted} \cup {[posted EXCEPT ![p] = Today(m)] : m \in {run.month, None}}
    /\ \/ /\ posted' # posted
          /\ result' \in {[result EXCEPT ![p] = r] : r \in {"proved", "unproved"}}
       \/ result' = [result EXCEPT ![p] = "failed"]
    /\ UNCHANGED <<today, latest, sentMonth, sendLock, packets, run>>

\* Nothing was sent: there was no need to, no approved update, or a failure.
PublishSendsNot(p) ==
    /\ Sending("native", p)
    /\ result' \in {[result EXCEPT ![p] = r] : r \in {"unneeded", "unapproved", "failed"}}
    /\ UNCHANGED <<mails, today, latest, files, run>>

Outcomes == {result[p] : p \in Property}
WillSend == {"proved", "unproved"}

Failed == "failed" \in Outcomes

\* Every property has been tried, or a financial patch failed before the first.
NativeEnds ==
    /\ run.route = "native"
    /\ "untried" \notin Outcomes \/ Outcomes = {"untried"}
    /\ IF Failed \/ "untried" \in Outcomes
       THEN sendLock' = [month |-> run.month, review |-> TRUE] /\ UNCHANGED sentMonth
       ELSE IF WillSend \cap Outcomes = {}
       THEN sendLock' = None /\ UNCHANGED sentMonth
       ELSE IF "unproved" \notin Outcomes
       THEN sendLock' = None /\ sentMonth' = run.month
       ELSE sendLock' = [month |-> run.month, review |-> TRUE] /\ UNCHANGED sentMonth
    /\ Ends
    /\ UNCHANGED <<mails, today, latest, posted, packets>>

\* An operator removes a lock after verifying that no owner emails were sent.
LockRemoved ==
    /\ sendLock # None /\ run = NoRun
    /\ \A p \in Property : \A i \in DOMAIN mails[p] :
          mails[p][i].route = "native" => mails[p][i].month # sendLock.month
    /\ sendLock' = None
    /\ UNCHANGED <<mails, today, latest, posted, sentMonth, packets, run, result>>

-----------------------------------------------------------------------------
(* The packets.                                                            *)

Later(a, b) ==
    IF a = None THEN b ELSE IF b = None \/ a.day >= b.day THEN a ELSE b

\* The state file, or nothing if it cannot be read.
Known == IF packets = Torn THEN NoMail ELSE packets.last

\* A publish state of which no month can be made out is passed over.
Dated ==
    [p \in Property |-> IF posted[p] # None /\ posted[p].month = None THEN None ELSE posted[p]]

BugOwnStateOnly == Known

\* The state file, and what the publish states show to be later.
LastMails == [p \in Property |-> Later(Known[p], Dated[p])]

AlreadySent(last, to, m) ==
    \/ packets # Torn /\ packets.month = m
    \/ \A p \in to : last[p] # None /\ last[p].month = m

Cooling(last, to) == {p \in to : OnRecordToday(last, p)}

\* There are packets for some of the properties.  With any issue nothing is sent,
\* and nothing is changed.
PacketsSend(m, to) ==
    /\ Starts(m) /\ to # {}
    /\ ~AlreadySent(LastMails, to, m) /\ Cooling(LastMails, to) = {}
    /\ run' = [route |-> "packets", month |-> m, sends |-> TRUE]
    /\ result' = [p \in Property |-> IF p \in to THEN "untried" ELSE "unneeded"]
    /\ UNCHANGED <<mails, today, files>>

\* Gmail takes the mail, or the call fails, or a body guard stops it.
PacketGoes(p) ==
    /\ Sending("packets", p)
    /\ \/ Mail(p) /\ result' = [result EXCEPT ![p] = "proved"]
       \/ UNCHANGED mails /\ result' = [result EXCEPT ![p] = "failed"]
    /\ UNCHANGED <<today, latest, files, run>>

Keyed(m, to, mark) ==
    [month |-> m, last |-> [p \in Property |-> IF p \in to THEN mark ELSE Known[p]]]

To == {p \in Property : result[p] # "unneeded"}

BugPartRecorded(m) == Keyed(m, To, Today(m))
BugDayLost(m) == IF Failed THEN packets ELSE Keyed(m, To, [month |-> m])

\* Only if every packet went: the keys of all packets, beside what is there.
Recorded(m) == IF Failed THEN packets ELSE Keyed(m, To, Today(m))

PacketsEnd ==
    /\ run.route = "packets" /\ run.sends /\ "untried" \notin Outcomes
    /\ packets' = Recorded(run.month)
    /\ IF Failed THEN Ends ELSE run' = [run EXCEPT !.sends = FALSE] /\ UNCHANGED result
    /\ UNCHANGED <<mails, today, latest, posted, sentMonth, sendLock>>

\* The close writes the native route's sent state.
CloseRecords ==
    /\ run.route = "packets" /\ ~run.sends
    /\ sentMonth' = run.month
    /\ Ends
    /\ UNCHANGED <<mails, today, latest, posted, sendLock, packets>>

\* The process dies; the call of a packet that times out ends it too, and the
\* mail may have gone.  The packets' state is not written through a temporary file.
Crash ==
    /\ run # NoRun
    /\ \/ UNCHANGED mails
       \/ \E p \in Property : Sending("packets", p) /\ Mail(p)
       \/ \E p \in Property : /\ Sending("native", p) /\ ~OnRecordToday(posted, p) /\ Mail(p)
    /\ packets' \in IF run.route = "packets" /\ run.sends /\ Outcomes \subseteq {"proved", "unneeded"}
                    THEN {packets, Torn} ELSE {packets}
    /\ Ends
    /\ UNCHANGED <<today, latest, posted, sentMonth, sendLock>>

-----------------------------------------------------------------------------
Next ==
    \/ DaysPass
    \/ \E m \in Month : NativeSends(m) \/ NativeHasIssues(m) \/ NativeSkips(m)
    \/ \E m \in Month, to \in SUBSET Property : PacketsSend(m, to)
    \/ \E p \in Property : PublishSends(p) \/ PublishSendsNot(p) \/ PacketGoes(p)
    \/ NativeEnds \/ LockRemoved \/ PacketsEnd \/ CloseRecords \/ Crash

Spec == Init /\ [][Next]_vars

-----------------------------------------------------------------------------
(* Properties.                                                             *)

Runs == [route : {"none", "native", "packets"}, month : Month, sends : BOOLEAN]
Mails == [route : {"native", "packets"}, month : Month, day : Day]

TypeOK ==
    /\ mails \in [Property -> UNION {[1 .. n -> Mails] : n \in 0 .. MailLimit}]
    /\ today \in Day /\ latest \in Month
    /\ posted \in [Property -> Sent \cup {None}]
    /\ sentMonth \in Month \cup {None} /\ sendLock \in Lock \cup {None}
    /\ packets \in [month : Month \cup {None}, last : [Property -> Sent \cup {None}]] \cup {Torn}
    /\ run \in Runs
    /\ result \in [Property -> {"untried", "proved", "unproved", "unneeded", "unapproved", "failed"}]

\* An owner gets at most one native mail for a run month, although a run may
\* fail, time out or die after some of the mails, and be started again.
NativeOncePerMonth ==
    \A p \in Property : \A i, j \in DOMAIN mails[p] :
        (/\ mails[p][i].route = "native" /\ mails[p][j].route = "native"
         /\ mails[p][i].month = mails[p][j].month) => i = j

\* A packet never follows, within the cooldown, a native mail that is on record
\* with its month.
PacketAfterCooldown ==
    [][\A p \in Property : mails'[p] # mails[p] /\ run.route = "packets"
          => ~OnRecordToday(Dated, p)]_vars

\* What the packets' state records as sent, the owners have received: the last
\* month of each, and the month of the run by some of them.
RecordedWasSent ==
    packets # Torn =>
        /\ \A p \in Property : packets.last[p] # None =>
              \E i \in DOMAIN mails[p] :
                  mails[p][i].route = "packets" /\ mails[p][i].month = packets.last[p].month
        /\ packets.month # None =>
              \E p \in Property : packets.last[p] # None /\ packets.last[p].month = packets.month

\* No owner gets two packets within the cooldown.
CooldownHolds ==
    \A p \in Property : \A i, j \in DOMAIN mails[p] :
        (/\ mails[p][i].route = "packets" /\ mails[p][j].route = "packets"
         /\ mails[p][i].day = mails[p][j].day) => i = j
=============================================================================
