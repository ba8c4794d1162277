------------------------------ MODULE Fold7Mfa ------------------------------
(***************************************************************************)
(* scripts/baselane_fold7_mfa.py: a helper run pulls the newest unused     *)
(* Baselane code from the phone, submits it through                        *)
(* scripts/baselane_verify_bank_otp.js, and remembers the message in a     *)
(* JSON file so that it is not used again.                                 *)
(*                                                                         *)
(* A message is its numeric SMS id; ids and arrival times grow together.   *)
(* The file system is modelled by inodes, because the temporary file has   *)
(* one fixed name that all runs share.                                     *)
(***************************************************************************)
EXTENDS Naturals, FiniteSets

CONSTANTS
    Helper,    \* processes that run the helper, one run at a time each
    Message,   \* ids of the messages that arrive while the model runs
    Earlier,   \* ids of the messages that were used before
    Keep,      \* keys kept beside the newest one: 99 in the code
    Inode,     \* bound: inodes of the state directory
    NoInode    \* a name that is not there, a descriptor that is not open

ASSUME MfaAssumption ==
    /\ Message \subseteq Nat /\ Earlier \subseteq Nat
    /\ IsFiniteSet(Message) /\ IsFiniteSet(Earlier)
    /\ \A e \in Earlier, m \in Message : e < m
    /\ Keep \in Nat
    /\ NoInode \notin Inode

Key == Message \cup Earlier

VARIABLES
    inbox,     \* messages on the phone
    pc,        \* where a run is in main
    floor,     \* the oldest message a run accepts
    used,      \* the keys a run has read
    cand,      \* the message a run selected
    outcome,   \* what the last run emitted
    fd,        \* the inode of the temporary file a run has open
    data,      \* the content of an inode
    state,     \* the inode of the state file
    tmp,       \* the inode of the temporary file
    spent,     \* codes Baselane has accepted
    remembered, \* history: keys whose recording succeeded
    overlapped, \* history: whether two runs have been under way at once
    full        \* history: whether a run had more keys to record than are kept

phone   == <<inbox>>
locals  == <<pc, floor, used, cand, outcome, fd>>
files   == <<data, state, tmp>>
history == <<spent, remembered, overlapped, full>>
vars    == <<phone, locals, files, history>>

\* The content of a file: the keys it lists, nothing yet, or two writers' bytes.
Lists(keys) == [kind |-> "keys", keys |-> keys]
Empty       == [kind |-> "empty", keys |-> {}]
Torn        == [kind |-> "torn", keys |-> {}]

Init ==
    /\ inbox = {}
    /\ pc = [h \in Helper |-> "idle"]
    /\ floor = [h \in Helper |-> 0]
    /\ used = [h \in Helper |-> {}]
    /\ cand = [h \in Helper |-> 0]
    /\ outcome = [h \in Helper |-> "none"]
    /\ fd = [h \in Helper |-> NoInode]
    /\ \E i \in Inode :
        /\ data = [j \in Inode |-> IF j = i /\ Earlier # {} THEN Lists(Earlier) ELSE Empty]
        /\ state = IF Earlier = {} THEN NoInode ELSE i
    /\ tmp = NoInode
    /\ spent = Earlier
    /\ remembered = Earlier
    /\ overlapped = FALSE /\ full = FALSE

-----------------------------------------------------------------------------
(* A run up to the submission.                                             *)

\* The phone receives the next message.
Arrive ==
    \E m \in Message \ inbox :
        /\ \A n \in Message \ inbox : m <= n
        /\ inbox' = inbox \cup {m}
        /\ UNCHANGED <<locals, files, history>>

BugFloorOneOff == {k - 1 : k \in Key}
Floors == Key

\* minimum_received_ms: the age limit and the caller's --not-before-ms.
Start(h) ==
    /\ pc[h] = "idle"
    /\ \E f \in Floors : floor' = [floor EXCEPT ![h] = f]
    /\ pc' = [pc EXCEPT ![h] = "read"]
    /\ outcome' = [outcome EXCEPT ![h] = "none"]
    /\ cand' = [cand EXCEPT ![h] = 0]
    /\ overlapped' = (overlapped \/ \E g \in Helper : pc[g] # "idle")
    /\ UNCHANGED <<phone, used, fd, files, spent, remembered, full>>

\* A run ends with a status; its locals are gone.
End(h, status) ==
    /\ pc' = [pc EXCEPT ![h] = "idle"]
    /\ outcome' = [outcome EXCEPT ![h] = status]
    /\ used' = [used EXCEPT ![h] = {}]
    /\ floor' = [floor EXCEPT ![h] = 0]
    /\ fd' = [fd EXCEPT ![h] = NoInode]
    /\ UNCHANGED cand

Fail(h, status) == End(h, status) /\ UNCHANGED <<phone, files, history>>

\* validate_args or verify_device refuses.
PreflightFails(h) == pc[h] = "read" /\ Fail(h, "device_unavailable")

\* read_used_keys, once per run.
ReadUsed(h) ==
    /\ pc[h] = "read"
    /\ \/ /\ state = NoInode \/ data[state].kind = "keys"
          /\ used' = [used EXCEPT ![h] = IF state = NoInode THEN {} ELSE data[state].keys]
          /\ pc' = [pc EXCEPT ![h] = "poll"]
          /\ UNCHANGED <<phone, floor, cand, outcome, fd, files, history>>
       \/ state # NoInode /\ data[state].kind # "keys" /\ Fail(h, "invalid_state")

Fresh(h) == {m \in inbox \cup Earlier : m >= floor[h]} \ used[h]

\* The newest fresh message is selected.
Select(h) ==
    /\ pc[h] = "poll"
    /\ \E m \in Fresh(h) :
        /\ \A n \in Fresh(h) : n <= m
        /\ cand' = [cand EXCEPT ![h] = m]
    /\ pc' = [pc EXCEPT ![h] = "submit"]
    /\ UNCHANGED <<phone, floor, used, outcome, fd, files, history>>

\* The deadline passes, or the inbox cannot be queried.
PollFails(h) == pc[h] = "poll" /\ Fail(h, "no_fresh_code")

\* The verifier ends well only if Baselane gave a token for the code, and
\* Baselane takes a code once, whoever brings it.
BugReturnCodeIgnored(h) == TRUE
Accepts(h) == cand[h] \notin spent

\* The verifier's request; it may also fail or time out after Baselane has
\* accepted the code.
Submit(h) ==
    /\ pc[h] = "submit"
    /\ \/ /\ Accepts(h)
          /\ spent' = spent \cup {cand[h]}
          /\ pc' = [pc EXCEPT ![h] = "open"]
          /\ UNCHANGED <<phone, floor, used, cand, outcome, fd, files, remembered, overlapped, full>>
       \/ /\ spent' \in {spent, spent \cup {cand[h]}}
          /\ End(h, "mfa_submission_failed")
          /\ UNCHANGED <<phone, files, remembered, overlapped, full>>

-----------------------------------------------------------------------------
(* record_used_key: open, write, replace, unlink.                          *)

BugKeepOnlyNewest(keys, k) == {k}
\* The keys are strings, the id in front of ":", which sorts after the digits; the
\* code keeps the Keep last of the others in that order, and the new one.
Digits(m) == IF m < 10 THEN m * 1000 + 999 ELSE IF m < 100 THEN m * 100 + 99
             ELSE IF m < 1000 THEN m * 10 + 9 ELSE m
Later(m, n) == Digits(n) > Digits(m) \/ (Digits(n) = Digits(m) /\ n < m)
Retained(keys, k) ==
    {m \in keys \ {k} : Cardinality({n \in keys \ {k} : Later(m, n)}) < Keep} \cup {k}

\* O_CREAT and O_TRUNC under the shared name.
BugWriteInPlace(h) == IF state = NoInode THEN tmp ELSE state
Target(h) == tmp

OpenTmp(h) ==
    /\ pc[h] = "open"
    /\ \E i \in IF Target(h) # NoInode THEN {Target(h)}
                ELSE {j \in Inode : j # state /\ \A g \in Helper : fd[g] # j} :
        /\ tmp' = i
        /\ data' = [data EXCEPT ![i] = Empty]
        /\ fd' = [fd EXCEPT ![h] = i]
    /\ pc' = [pc EXCEPT ![h] = "write"]
    /\ UNCHANGED <<phone, floor, used, cand, outcome, state, history>>

\* Bytes of another writer may stay behind this run's.
WriteTmp(h) ==
    /\ pc[h] = "write"
    /\ LET mine == Lists(Retained(used[h], cand[h])) IN
        data' \in {[data EXCEPT ![fd[h]] = c] :
                       c \in {mine} \cup IF data[fd[h]] = Empty THEN {} ELSE {Torn}}
    /\ full' = (full \/ Cardinality(used[h] \ {cand[h]}) > Keep)
    /\ pc' = [pc EXCEPT ![h] = "replace"]
    /\ UNCHANGED <<phone, floor, used, cand, outcome, fd, state, tmp, spent, remembered, overlapped>>

\* os.replace; a missing temporary file is an error nobody catches.
ReplaceState(h) ==
    /\ pc[h] = "replace"
    /\ \/ /\ tmp # NoInode
          /\ state' = tmp /\ tmp' = NoInode
          /\ pc' = [pc EXCEPT ![h] = "unlink"]
          /\ fd' = [fd EXCEPT ![h] = NoInode]
          /\ UNCHANGED <<phone, floor, used, cand, outcome, data, history>>
       \/ /\ tmp = NoInode
          /\ End(h, "traceback")
          /\ UNCHANGED <<phone, files, history>>

\* The finally clause removes whatever has the temporary name by now.
Unlink(h) ==
    /\ pc[h] = "unlink"
    /\ tmp' = NoInode
    /\ remembered' = remembered \cup {cand[h]}
    /\ End(h, "verified")
    /\ UNCHANGED <<phone, data, state, spent, overlapped, full>>

\* A run is killed, by its caller's timeout among others; the verifier it may
\* have started lives on.
Killed(h) ==
    /\ pc[h] # "idle"
    /\ \/ UNCHANGED spent
       \/ pc[h] = "submit" /\ spent' = spent \cup {cand[h]}
    /\ End(h, "killed")
    /\ UNCHANGED <<phone, files, remembered, overlapped, full>>

-----------------------------------------------------------------------------
Step(h) ==
    \/ PreflightFails(h) \/ ReadUsed(h) \/ Select(h) \/ PollFails(h) \/ Submit(h)
    \/ OpenTmp(h) \/ WriteTmp(h) \/ ReplaceState(h) \/ Unlink(h)

Next == Arrive \/ \E h \in Helper : Start(h) \/ Step(h) \/ Killed(h)

Spec == Init /\ [][Next]_vars

-----------------------------------------------------------------------------
(* Properties.                                                             *)

Content == [kind : {"keys", "empty", "torn"}, keys : SUBSET Key]
Outcome == {"none", "verified", "device_unavailable", "invalid_state", "no_fresh_code",
            "mfa_submission_failed", "traceback", "killed"}

TypeOK ==
    /\ inbox \in SUBSET Message
    /\ pc \in [Helper -> {"idle", "read", "poll", "submit", "open", "write", "replace", "unlink"}]
    /\ floor \in [Helper -> {0} \cup Key]
    /\ used \in [Helper -> SUBSET Key]
    /\ cand \in [Helper -> {0} \cup Key]
    /\ outcome \in [Helper -> Outcome]
    /\ fd \in [Helper -> Inode \cup {NoInode}]
    /\ data \in [Inode -> Content]
    /\ state \in Inode \cup {NoInode}
    /\ tmp \in Inode \cup {NoInode}
    /\ spent \in SUBSET Key
    /\ remembered \in SUBSET Key
    /\ overlapped \in BOOLEAN /\ full \in BOOLEAN

\* A code is reported verified at most once, although runs that read the used keys
\* at the same time select the same message, one run's list of keys replaces
\* another's, and keys beyond Keep are dropped.
VerifiedOnce ==
    [][\A h \in Helper : outcome[h] # "verified" /\ outcome'[h] = "verified"
           => cand'[h] \notin remembered]_vars

\* At every moment, also right after a crash between two steps of
\* record_used_key, the state file is absent or can be read, unless two runs have
\* shared the temporary file.
StateReadable == ~overlapped /\ state # NoInode => data[state].kind = "keys"

\* What a verified run recorded survives: no later run or crash drops it, unless
\* two runs have overlapped or a list of keys was full.
RememberedOnDisk ==
    ~overlapped /\ ~full /\ remembered # {} =>
        state # NoInode /\ remembered \subseteq data[state].keys
=============================================================================
