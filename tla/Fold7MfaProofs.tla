--------------------------- MODULE Fold7MfaProofs ---------------------------
(* Theorems about Fold7Mfa, for all values of its constants.               *)
EXTENDS Fold7Mfa, FiniteSetTheorems, TLAPS

(***************************************************************************)
(* Type correctness.                                                       *)
(***************************************************************************)

Chosen == {"submit", "open", "write", "replace", "unlink"}

\* A run that has selected a message holds its key.
CandInv == \A h \in Helper : pc[h] \in Chosen => cand[h] \in Key

LEMMA RetainedTypes ==
    ASSUME NEW keys \in SUBSET Key, NEW k \in Key
    PROVE  Lists(Retained(keys, k)) \in Content
  BY DEF Lists, Retained, Content

LEMMA TypeInit == Init => TypeOK /\ CandInv
<1> SUFFICES ASSUME Init PROVE TypeOK /\ CandInv
  OBVIOUS
<1>1. PICK i \in Inode :
          /\ data = [j \in Inode |-> IF j = i /\ Earlier # {} THEN Lists(Earlier) ELSE Empty]
          /\ state = IF Earlier = {} THEN NoInode ELSE i
  BY DEF Init
<1>2. Lists(Earlier) \in Content /\ Empty \in Content
  BY DEF Lists, Empty, Content, Key
<1> HIDE DEF Content
<1>3. data \in [Inode -> Content] /\ state \in Inode \cup {NoInode}
  BY <1>1, <1>2
<1> QED
  BY <1>3 DEF Init, TypeOK, CandInv, Chosen, Key, Outcome

\* The end of a run leaves a file system and a phone of the right types.
LEMMA EndTypes ==
    ASSUME TypeOK, CandInv, NEW h \in Helper, NEW o \in Outcome, End(h, o),
           inbox' \in SUBSET Message, data' \in [Inode -> Content],
           state' \in Inode \cup {NoInode}, tmp' \in Inode \cup {NoInode},
           spent' \in SUBSET Key, remembered' \in SUBSET Key,
           overlapped' \in BOOLEAN, full' \in BOOLEAN
    PROVE  TypeOK' /\ CandInv'
<1> USE DEF End
<1>1. TypeOK'
  BY DEF TypeOK
<1>2. CandInv'
  BY DEF TypeOK, CandInv, Chosen
<1> QED
  BY <1>1, <1>2

LEMMA TypeStep == TypeOK /\ CandInv /\ [Next]_vars => TypeOK' /\ CandInv'
<1> SUFFICES ASSUME TypeOK, CandInv, [Next]_vars PROVE TypeOK' /\ CandInv'
  OBVIOUS
<1> USE DEF phone, files, history
<1>1. CASE Arrive \/ UNCHANGED vars
  BY <1>1 DEF Arrive, TypeOK, CandInv, locals, vars
<1>2. ASSUME NEW h \in Helper, Start(h) PROVE TypeOK' /\ CandInv'
  <2>1. TypeOK'
    BY <1>2 DEF Start, Floors, TypeOK, Outcome
  <2>2. CandInv'
    BY <1>2 DEF Start, TypeOK, CandInv, Chosen
  <2> QED
    BY <2>1, <2>2
<1>3. ASSUME NEW h \in Helper, NEW o \in Outcome, Fail(h, o) PROVE TypeOK' /\ CandInv'
  <2>1. End(h, o) /\ UNCHANGED <<inbox, data, state, tmp, spent, remembered, overlapped, full>>
    BY <1>3 DEF Fail
  <2> QED
    BY <2>1, EndTypes DEF TypeOK
<1>4. ASSUME NEW h \in Helper, PreflightFails(h) \/ PollFails(h) PROVE TypeOK' /\ CandInv'
  BY <1>3, <1>4 DEF PreflightFails, PollFails, Outcome
<1>5. ASSUME NEW h \in Helper, ReadUsed(h) PROVE TypeOK' /\ CandInv'
  <2>1. CASE Fail(h, "invalid_state")
    BY <1>3, <2>1 DEF Outcome
  <2>2. CASE ~ Fail(h, "invalid_state")
    <3>1. /\ used' = [used EXCEPT ![h] = IF state = NoInode THEN {} ELSE data[state].keys]
          /\ pc' = [pc EXCEPT ![h] = "poll"]
          /\ UNCHANGED <<inbox, floor, cand, outcome, fd, data, state, tmp, spent, remembered,
                        overlapped, full>>
      BY <1>5, <2>2 DEF ReadUsed
    <3>2. (IF state = NoInode THEN {} ELSE data[state].keys) \in SUBSET Key
      BY DEF TypeOK, Content
    <3>3. TypeOK'
      BY <3>1, <3>2 DEF TypeOK
    <3>4. CandInv'
      BY <3>1 DEF TypeOK, CandInv, Chosen
    <3> QED
      BY <3>3, <3>4
  <2> QED
    BY <2>1, <2>2
<1>6. ASSUME NEW h \in Helper, Select(h) PROVE TypeOK' /\ CandInv'
  <2>1. PICK m \in Fresh(h) : cand' = [cand EXCEPT ![h] = m]
    BY <1>6 DEF Select
  <2>2. m \in Key
    BY DEF Fresh, Key, TypeOK
  <2>3. TypeOK'
    BY <1>6, <2>1, <2>2 DEF Select, TypeOK
  <2>4. CandInv'
    BY <1>6, <2>1, <2>2 DEF Select, TypeOK, CandInv
  <2> QED
    BY <2>3, <2>4
<1>7. ASSUME NEW h \in Helper, Submit(h) PROVE TypeOK' /\ CandInv'
  <2>1. cand[h] \in Key
    BY <1>7 DEF Submit, CandInv, Chosen
  <2>2. spent' \in SUBSET Key
    BY <1>7, <2>1 DEF Submit, TypeOK
  <2>3. CASE End(h, "mfa_submission_failed") /\ UNCHANGED <<inbox, data, state, tmp, remembered, overlapped, full>>
    BY <2>2, <2>3, EndTypes DEF TypeOK, Outcome
  <2>4. CASE ~ (End(h, "mfa_submission_failed") /\ UNCHANGED <<inbox, data, state, tmp, remembered, overlapped, full>>)
    <3>1. TypeOK'
      BY <1>7, <2>2, <2>4 DEF Submit, TypeOK
    <3>2. CandInv'
      BY <1>7, <2>1, <2>4 DEF Submit, TypeOK, CandInv
    <3> QED
      BY <3>1, <3>2
  <2> QED
    BY <2>3, <2>4
<1>8. ASSUME NEW h \in Helper, OpenTmp(h) PROVE TypeOK' /\ CandInv'
  <2>1. PICK i \in Inode : /\ tmp' = i /\ data' = [data EXCEPT ![i] = Empty]
                           /\ fd' = [fd EXCEPT ![h] = i]
    BY <1>8 DEF OpenTmp, Target, TypeOK
  <2>2. Empty \in Content
    BY DEF Empty, Content
  <2>3. TypeOK'
    BY <1>8, <2>1, <2>2 DEF OpenTmp, TypeOK
  <2>4. CandInv'
    BY <1>8 DEF OpenTmp, TypeOK, CandInv, Chosen
  <2> QED
    BY <2>3, <2>4
<1>9. ASSUME NEW h \in Helper, WriteTmp(h) PROVE TypeOK' /\ CandInv'
  <2>1. cand[h] \in Key /\ used[h] \in SUBSET Key
    BY <1>9 DEF WriteTmp, TypeOK, CandInv, Chosen
  <2>2. Lists(Retained(used[h], cand[h])) \in Content /\ Torn \in Content
    BY <2>1, RetainedTypes DEF Torn, Content
  <2>3. PICK c \in Content : data' = [data EXCEPT ![fd[h]] = c]
    BY <1>9, <2>2 DEF WriteTmp
  <2>4. TypeOK'
    BY <1>9, <2>3 DEF WriteTmp, TypeOK
  <2>5. CandInv'
    BY <1>9 DEF WriteTmp, TypeOK, CandInv, Chosen
  <2> QED
    BY <2>4, <2>5
<1>10. ASSUME NEW h \in Helper, ReplaceState(h) PROVE TypeOK' /\ CandInv'
  <2>1. CASE End(h, "traceback") /\ UNCHANGED <<phone, files, history>>
    BY <1>3, <2>1 DEF Fail, Outcome
  <2>2. CASE ~ (End(h, "traceback") /\ UNCHANGED <<phone, files, history>>)
    <3>1. TypeOK'
      BY <1>10, <2>2 DEF ReplaceState, TypeOK
    <3>2. CandInv'
      BY <1>10, <2>2 DEF ReplaceState, TypeOK, CandInv, Chosen
    <3> QED
      BY <3>1, <3>2
  <2> QED
    BY <2>1, <2>2
<1>11. ASSUME NEW h \in Helper, Unlink(h) PROVE TypeOK' /\ CandInv'
  <2>1. cand[h] \in Key
    BY <1>11 DEF Unlink, CandInv, Chosen
  <2> QED
    BY <1>11, <2>1, EndTypes DEF Unlink, TypeOK, Outcome
<1>12. ASSUME NEW h \in Helper, Killed(h) PROVE TypeOK' /\ CandInv'
  <2>1. spent' \in SUBSET Key
    BY <1>12 DEF Killed, TypeOK, CandInv, Chosen
  <2> QED
    BY <1>12, <2>1, EndTypes DEF Killed, TypeOK, Outcome
<1> QED
  BY <1>1, <1>2, <1>4, <1>5, <1>6, <1>7, <1>8, <1>9, <1>10, <1>11, <1>12 DEF Next, Step

LEMMA TypeAlways == Spec => [](TypeOK /\ CandInv)
  BY TypeInit, TypeStep, PTL DEF Spec

\* Every variable keeps its type, for any helpers, messages and inodes.
THEOREM TypeCorrect == Spec => []TypeOK
  BY TypeAlways, PTL

(***************************************************************************)
(* Until two runs overlap, the state file is always a whole file.          *)
(***************************************************************************)

Single == \A g, h \in Helper : pc[g] # "idle" /\ pc[h] # "idle" => g = h

\* Where the temporary file is, and what is in it, as a run writes it.
Whole ==
    /\ state # NoInode => data[state].kind = "keys"
    /\ tmp # NoInode => tmp # state
    /\ \A h \in Helper :
        /\ pc[h] \in {"write", "replace"} => fd[h] = tmp /\ tmp # NoInode
        /\ pc[h] = "write" => data[tmp] = Empty
        /\ pc[h] = "replace" => data[tmp] = Lists(Retained(used[h], cand[h]))

FileInv == ~overlapped => Single /\ Whole

LEMMA FileInit == Init => FileInv
<1> SUFFICES ASSUME Init PROVE FileInv
  OBVIOUS
<1>1. PICK i \in Inode :
          /\ data = [j \in Inode |-> IF j = i /\ Earlier # {} THEN Lists(Earlier) ELSE Empty]
          /\ state = IF Earlier = {} THEN NoInode ELSE i
  BY DEF Init
<1>2. state # NoInode => data[state].kind = "keys"
  BY <1>1 DEF Lists
<1> QED
  BY <1>2 DEF Init, FileInv, Single, Whole

\* As long as no runs overlap there is one run, before and after a step, and the
\* others are idle.
LEMMA SingleStep ==
    ASSUME TypeOK, FileInv, [Next]_vars, ~overlapped'
    PROVE  ~overlapped /\ Single /\ Whole /\ Single'
<1> USE DEF history
<1>1. ASSUME NEW h \in Helper, Start(h) PROVE ~overlapped /\ Single'
  BY <1>1 DEF Start, TypeOK, Single
<1>2. ASSUME NEW h \in Helper, Step(h) \/ Killed(h)
      PROVE  /\ overlapped' = overlapped /\ pc[h] # "idle"
             /\ \A g \in Helper \ {h} : pc'[g] = pc[g]
  BY <1>2 DEF Step, Killed, PreflightFails, ReadUsed, Select, PollFails, Submit, OpenTmp, WriteTmp,
              ReplaceState, Unlink, Fail, End, TypeOK
<1>3. CASE Arrive \/ UNCHANGED vars
  BY <1>3 DEF Arrive, vars, locals, FileInv, Single
<1>4. CASE \E h \in Helper : Start(h)
  BY <1>1, <1>4 DEF FileInv
<1>5. ASSUME NEW h \in Helper, Step(h) \/ Killed(h) PROVE ~overlapped /\ Single'
  BY <1>2, <1>5 DEF FileInv, Single
<1> QED
  BY <1>3, <1>4, <1>5 DEF Next, FileInv

\* A step that touches no file keeps the files whole, if its run is not writing.
LEMMA FilesUntouched ==
    ASSUME Whole, UNCHANGED files,
           \A g \in Helper : pc'[g] \in {"write", "replace"} =>
               pc'[g] = pc[g] /\ fd'[g] = fd[g] /\ used'[g] = used[g] /\ cand'[g] = cand[g]
    PROVE  Whole'
  BY DEF Whole, files

LEMMA FileStep == TypeOK /\ FileInv /\ [Next]_vars => FileInv'
<1> SUFFICES ASSUME TypeOK, FileInv, [Next]_vars, ~overlapped' PROVE Single' /\ Whole'
  BY DEF FileInv
<1>0. Single /\ Whole /\ Single'
  BY SingleStep
<1> SUFFICES Whole'
  BY <1>0
<1>1. CASE Arrive \/ UNCHANGED vars
  BY <1>0, <1>1, FilesUntouched DEF Arrive, vars, locals
<1>2. ASSUME NEW h \in Helper, Start(h) PROVE Whole'
  BY <1>0, <1>2, FilesUntouched DEF Start, TypeOK
<1>3. ASSUME NEW h \in Helper, NEW o, End(h, o), UNCHANGED files PROVE Whole'
  BY <1>0, <1>3, FilesUntouched DEF End, TypeOK
<1>4. ASSUME NEW h \in Helper, PreflightFails(h) \/ PollFails(h) \/ Killed(h) PROVE Whole'
  BY <1>3, <1>4 DEF PreflightFails, PollFails, Fail, Killed
<1>5. ASSUME NEW h \in Helper, ReadUsed(h) \/ Select(h) \/ Submit(h) PROVE Whole'
  <2>1. CASE \E o : End(h, o) /\ UNCHANGED files
    BY <1>3, <2>1
  <2>2. CASE ~ \E o : End(h, o) /\ UNCHANGED files
    <3>1. /\ UNCHANGED files /\ pc'[h] \notin {"write", "replace"}
          /\ \A g \in Helper \ {h} : /\ pc'[g] = pc[g] /\ fd'[g] = fd[g]
                                     /\ used'[g] = used[g] /\ cand'[g] = cand[g]
      BY <1>5, <2>2 DEF ReadUsed, Select, Submit, Fail, TypeOK
    <3> QED
      BY <1>0, <3>1, FilesUntouched
  <2> QED
    BY <2>1, <2>2
<1>6. ASSUME NEW h \in Helper, OpenTmp(h) PROVE Whole'
  <2>1. PICK i \in Inode : /\ tmp' = i /\ i # state /\ data' = [data EXCEPT ![i] = Empty]
                           /\ fd' = [fd EXCEPT ![h] = i]
    BY <1>0, <1>6 DEF OpenTmp, Target, TypeOK, Whole
  <2>2. pc'[h] = "write" /\ state' = state /\ fd'[h] = i /\ data'[i] = Empty
    BY <1>6, <2>1 DEF OpenTmp, TypeOK
  <2>3. state # NoInode => data'[state] = data[state]
    BY <2>1 DEF TypeOK
  <2>4. i # NoInode
    BY MfaAssumption
  <2>5. \A g \in Helper \ {h} : pc'[g] = "idle"
    BY <1>0, <2>2 DEF Single
  <2> QED
    BY <1>0, <2>1, <2>2, <2>3, <2>4, <2>5 DEF Whole
<1>7. ASSUME NEW h \in Helper, WriteTmp(h) PROVE Whole'
  <2>1. fd[h] = tmp /\ tmp \in Inode /\ tmp # state /\ data[tmp] = Empty
    BY <1>0, <1>7 DEF WriteTmp, Whole, TypeOK
  <2>2. data' = [data EXCEPT ![tmp] = Lists(Retained(used[h], cand[h]))]
    BY <1>7, <2>1 DEF WriteTmp
  <2>3. pc'[h] = "replace" /\ UNCHANGED <<used, cand, fd, state, tmp>>
    BY <1>7 DEF WriteTmp, TypeOK
  <2>4. /\ data'[tmp] = Lists(Retained(used[h], cand[h]))
        /\ state # NoInode => data'[state] = data[state]
    BY <2>1, <2>2 DEF TypeOK
  <2>5. tmp # NoInode
    BY <2>1, MfaAssumption
  <2>6. Lists(Retained(used[h], cand[h]))' = Lists(Retained(used[h], cand[h]))
    BY <2>3
  <2>7. \A g \in Helper \ {h} : pc'[g] = "idle"
    BY <1>0, <2>3 DEF Single
  <2> QED
    BY <1>0, <2>1, <2>3, <2>4, <2>5, <2>6, <2>7 DEF Whole
<1>8. ASSUME NEW h \in Helper, ReplaceState(h), ~ End(h, "traceback") PROVE Whole'
  <2>1. pc[h] = "replace" /\ tmp # NoInode /\ data[tmp] = Lists(Retained(used[h], cand[h]))
    BY <1>0, <1>8 DEF ReplaceState, Whole
  <2>2. /\ state' = tmp /\ tmp' = NoInode /\ data' = data /\ pc'[h] = "unlink"
    BY <1>8, <2>1 DEF ReplaceState, TypeOK
  <2>3. data'[state'].kind = "keys"
    BY <2>1, <2>2 DEF Lists
  <2>4. \A g \in Helper \ {h} : pc'[g] = "idle"
    BY <1>0, <2>2 DEF Single
  <2> QED
    BY <2>2, <2>3, <2>4 DEF Whole
<1>9. ASSUME NEW h \in Helper, Unlink(h) PROVE Whole'
  <2>1. tmp' = NoInode /\ state' = state /\ data' = data /\ pc'[h] = "idle" /\ pc[h] = "unlink"
    BY <1>9 DEF Unlink, End, TypeOK
  <2>2. \A g \in Helper \ {h} : pc'[g] = "idle"
    BY <1>0, <1>9, <2>1 DEF Unlink, End, TypeOK, Single
  <2> QED
    BY <1>0, <2>1, <2>2 DEF Whole
<1>10. ASSUME NEW h \in Helper, ReplaceState(h), End(h, "traceback") PROVE Whole'
  <2>1. tmp = NoInode
    BY <1>10 DEF ReplaceState, End, TypeOK
  <2> QED
    BY <1>0, <1>10, <2>1 DEF ReplaceState, Whole
<1> QED
  BY <1>1, <1>2, <1>4, <1>5, <1>6, <1>7, <1>8, <1>9, <1>10 DEF Next, Step

LEMMA FileAlways == Spec => [](TypeOK /\ CandInv /\ FileInv)
  BY TypeInit, TypeStep, FileInit, FileStep, PTL DEF Spec

\* Until two runs overlap, kills between the truncation, the write and the
\* replacement never leave a state file that the next run cannot read.
THEOREM StateIsReadable == Spec => []StateReadable
<1>1. FileInv => StateReadable
  BY DEF FileInv, Whole, StateReadable
<1> QED
  BY <1>1, FileAlways, PTL

(***************************************************************************)
(* Until a list of keys is full as well, nothing recorded is lost.         *)
(***************************************************************************)

LEMMA NothingDropped ==
    ASSUME NEW keys \in SUBSET Key, NEW k \in Key, Cardinality(keys \ {k}) <= Keep
    PROVE  Retained(keys, k) = keys \cup {k}
<1> SUFFICES ASSUME NEW m \in keys \ {k}
             PROVE  Cardinality({n \in keys \ {k} : Later(m, n)}) < Keep
  BY DEF Retained
<1> DEFINE L == {n \in keys \ {k} : Later(m, n)}
<1>1. Key \subseteq Nat /\ IsFiniteSet(Key)
  BY MfaAssumption, FS_Union DEF Key
<1>2. m \notin L
  <2>1. m \in Nat
    BY <1>1
  <2>2. Digits(m) \in Nat
    BY <2>1 DEF Digits
  <2> QED
    BY <2>1, <2>2 DEF Later
<1>3. PICK S : S = keys \ {k}
  OBVIOUS
<1>4. L \subseteq S \ {m} /\ m \in S
  BY <1>2, <1>3
<1> HIDE DEF L
<1>5. IsFiniteSet(S) /\ Cardinality(S) <= Keep
  BY <1>1, <1>3, FS_Subset
<1>6. PICK T : T = S \ {m}
  OBVIOUS
<1>7. IsFiniteSet(T) /\ Cardinality(T) = Cardinality(S) - 1
  BY <1>4, <1>5, <1>6, FS_RemoveElement
<1>8. Cardinality(L) <= Cardinality(T) /\ IsFiniteSet(L)
  BY <1>4, <1>6, <1>7, FS_Subset
<1>9. Cardinality(L) \in Nat /\ Cardinality(T) \in Nat /\ Cardinality(S) \in Nat
  BY <1>5, <1>7, <1>8, FS_CardinalityType
<1>10. Cardinality(L) < Keep
  BY <1>5, <1>7, <1>8, <1>9, MfaAssumption
<1> QED
  BY <1>10 DEF L

\* What was recorded is on disk, and in what a run has read and writes since.
Kept ==
    /\ remembered # {} => state # NoInode /\ remembered \subseteq data[state].keys
    /\ \A h \in Helper :
        /\ pc[h] \in {"poll", "submit", "open", "write", "replace"} => remembered \subseteq used[h]
        /\ pc[h] = "replace" => Retained(used[h], cand[h]) = used[h] \cup {cand[h]}
        /\ pc[h] = "unlink" => state # NoInode /\ remembered \cup {cand[h]} \subseteq data[state].keys

KeptInv == ~overlapped /\ ~full => Kept

LEMMA KeptInit == Init => KeptInv
<1> SUFFICES ASSUME Init PROVE Kept
  BY DEF KeptInv
<1>1. PICK i \in Inode :
          /\ data = [j \in Inode |-> IF j = i /\ Earlier # {} THEN Lists(Earlier) ELSE Empty]
          /\ state = IF Earlier = {} THEN NoInode ELSE i
  BY DEF Init
<1>2. remembered # {} => state # NoInode /\ remembered \subseteq data[state].keys
  BY <1>1, MfaAssumption DEF Init, Lists
<1> QED
  BY <1>2 DEF Init, Kept

\* A step that changes no record and lets a run read or write nothing new keeps them.
LEMMA RecordsUntouched ==
    ASSUME Kept, UNCHANGED <<state, remembered>>, state # NoInode => data'[state] = data[state],
           \A g \in Helper :
               \/ pc'[g] \in {"idle", "read"}
               \/ /\ pc[g] \in {"poll", "submit", "open"} /\ pc'[g] \notin {"replace", "unlink"}
                  /\ used'[g] = used[g]
               \/ pc'[g] = pc[g] /\ used'[g] = used[g] /\ cand'[g] = cand[g]
    PROVE  Kept'
  BY DEF Kept

LEMMA KeptStep ==
    TypeOK /\ CandInv /\ FileInv /\ KeptInv /\ [Next]_vars => KeptInv'
<1> SUFFICES ASSUME TypeOK, CandInv, FileInv, KeptInv, [Next]_vars, ~overlapped', ~full' PROVE Kept'
  BY DEF KeptInv
<1>0. ~overlapped /\ Single /\ Whole /\ Single'
  BY SingleStep
<1>00. ~full
  BY DEF TypeOK, Next, Step, Killed, Arrive, Start, PreflightFails, ReadUsed, Select, PollFails, Submit,
         OpenTmp, WriteTmp, ReplaceState, Unlink, Fail, vars, history
<1>01. Kept
  BY <1>0, <1>00 DEF KeptInv
<1>1. CASE Arrive \/ UNCHANGED vars
  BY <1>01, <1>1, RecordsUntouched DEF Arrive, vars, locals, files, history
<1>2. ASSUME NEW h \in Helper, Start(h) PROVE Kept'
  BY <1>01, <1>2, RecordsUntouched DEF Start, TypeOK, files
<1>3. ASSUME NEW h \in Helper, NEW o, End(h, o), UNCHANGED <<data, state, remembered>> PROVE Kept'
  BY <1>01, <1>3, RecordsUntouched DEF End, TypeOK
<1>4. ASSUME NEW h \in Helper, PreflightFails(h) \/ PollFails(h) \/ Killed(h) PROVE Kept'
  BY <1>3, <1>4 DEF PreflightFails, PollFails, Fail, Killed, files, history
<1>5. ASSUME NEW h \in Helper, ReadUsed(h) PROVE Kept'
  <2>1. CASE Fail(h, "invalid_state")
    BY <1>3, <2>1 DEF Fail, files, history
  <2>2. CASE ~ Fail(h, "invalid_state")
    <3>1. /\ used' = [used EXCEPT ![h] = IF state = NoInode THEN {} ELSE data[state].keys]
          /\ pc'[h] = "poll" /\ UNCHANGED <<data, state, remembered, cand>>
      BY <1>5, <2>2 DEF ReadUsed, TypeOK, files, history
    <3>2. remembered \subseteq used'[h]
      BY <1>01, <3>1 DEF TypeOK, Kept
    <3>3. \A g \in Helper \ {h} : pc'[g] = "idle"
      BY <1>0, <3>1 DEF Single
    <3> QED
      BY <1>01, <3>1, <3>2, <3>3 DEF Kept
  <2> QED
    BY <2>1, <2>2
<1>6. ASSUME NEW h \in Helper, Select(h) PROVE Kept'
  BY <1>01, <1>6, RecordsUntouched DEF Select, TypeOK, files, history
<1>7. ASSUME NEW h \in Helper, Submit(h) PROVE Kept'
  <2>1. CASE End(h, "mfa_submission_failed") /\ UNCHANGED <<phone, files, remembered>>
    BY <1>3, <2>1 DEF files
  <2>2. CASE ~ (End(h, "mfa_submission_failed") /\ UNCHANGED <<phone, files, remembered>>)
    BY <1>01, <1>7, <2>2, RecordsUntouched DEF Submit, TypeOK, files
  <2> QED
    BY <2>1, <2>2
<1>8. ASSUME NEW h \in Helper, OpenTmp(h) PROVE Kept'
  <2>1. PICK i \in Inode : i # state /\ data' = [data EXCEPT ![i] = Empty]
    BY <1>0, <1>8 DEF OpenTmp, Target, TypeOK, Whole
  <2>2. state # NoInode => data'[state] = data[state]
    BY <2>1 DEF TypeOK
  <2> QED
    BY <1>01, <1>8, <2>2, RecordsUntouched DEF OpenTmp, TypeOK, history
<1>9. ASSUME NEW h \in Helper, WriteTmp(h) PROVE Kept'
  <2>1. fd[h] # state
    BY <1>0, <1>9 DEF WriteTmp, Whole
  <2>2. state # NoInode => data'[state] = data[state]
    BY <1>9, <2>1 DEF WriteTmp, TypeOK
  <2>3. pc[h] = "write" /\ pc'[h] = "replace" /\ UNCHANGED <<used, cand, state, remembered>>
    BY <1>9 DEF WriteTmp, TypeOK
  <2>4. cand[h] \in Key /\ used[h] \in SUBSET Key /\ remembered \subseteq used[h]
    BY <1>01, <2>3 DEF CandInv, Chosen, TypeOK, Kept
  <2>5. Cardinality(used[h] \ {cand[h]}) <= Keep
    <3>1. IsFiniteSet(Key)
      BY MfaAssumption, FS_Union DEF Key
    <3>2. Cardinality(used[h] \ {cand[h]}) \in Nat
      BY <2>4, <3>1, FS_Subset, FS_CardinalityType
    <3>3. ~ (Cardinality(used[h] \ {cand[h]}) > Keep)
      BY <1>9 DEF WriteTmp
    <3> QED
      BY <3>2, <3>3, MfaAssumption
  <2>6. Retained(used[h], cand[h]) = used[h] \cup {cand[h]}
    BY <2>4, <2>5, NothingDropped
  <2>7. Retained(used[h], cand[h])' = Retained(used[h], cand[h])
    BY <2>3
  <2>8. \A g \in Helper \ {h} : pc'[g] = "idle"
    BY <1>0, <2>3 DEF Single
  <2> QED
    BY <1>01, <2>2, <2>3, <2>4, <2>6, <2>7, <2>8 DEF Kept
<1>10. ASSUME NEW h \in Helper, ReplaceState(h) PROVE Kept'
  <2>1. /\ pc[h] = "replace" /\ tmp # NoInode /\ data[tmp] = Lists(Retained(used[h], cand[h]))
        /\ Retained(used[h], cand[h]) = used[h] \cup {cand[h]} /\ remembered \subseteq used[h]
    BY <1>0, <1>01, <1>10 DEF ReplaceState, Whole, Kept
  <2>2. /\ state' = tmp /\ pc'[h] = "unlink" /\ UNCHANGED <<data, cand, remembered>>
    BY <1>10, <2>1 DEF ReplaceState, TypeOK, history
  <2>3. data[tmp].keys = used[h] \cup {cand[h]}
    BY <2>1 DEF Lists
  <2>4. \A g \in Helper \ {h} : pc'[g] = "idle"
    BY <1>0, <2>2 DEF Single
  <2> QED
    BY <2>1, <2>2, <2>3, <2>4 DEF Kept
<1>11. ASSUME NEW h \in Helper, Unlink(h) PROVE Kept'
  <2>1. /\ pc[h] = "unlink" /\ remembered' = remembered \cup {cand[h]} /\ UNCHANGED <<data, state>>
        /\ pc'[h] = "idle" /\ \A g \in Helper \ {h} : pc'[g] = pc[g]
    BY <1>11 DEF Unlink, End, TypeOK
  <2>2. \A g \in Helper : pc'[g] = "idle"
    BY <1>0, <2>1 DEF Single
  <2> QED
    BY <1>01, <2>1, <2>2 DEF Kept
<1> QED
  BY <1>1, <1>2, <1>4, <1>5, <1>6, <1>7, <1>8, <1>9, <1>10, <1>11 DEF Next, Step

LEMMA KeptAlways == Spec => []KeptInv
  BY TypeInit, TypeStep, FileInit, FileStep, KeptInit, KeptStep, PTL DEF Spec

\* Until two runs overlap or a list of keys is full, what a verified run recorded
\* stays on disk, whatever is killed afterwards.
THEOREM RecordsStay == Spec => []RememberedOnDisk
<1>1. KeptInv => RememberedOnDisk
  BY DEF KeptInv, Kept, RememberedOnDisk
<1> QED
  BY <1>1, KeptAlways, PTL

(***************************************************************************)
(* Any number of runs at a time, and any number of keys kept.              *)
(***************************************************************************)

Recording == {"open", "write", "replace", "unlink"}

\* What is recorded, or about to be, was accepted for one run only.
OnceInv ==
    /\ remembered \subseteq spent
    /\ \A h \in Helper : pc[h] \in Recording => cand[h] \in spent \ remembered
    /\ \A g, h \in Helper : g # h /\ pc[g] \in Recording /\ pc[h] \in Recording => cand[g] # cand[h]

LEMMA OnceInit == Init => OnceInv
  BY DEF Init, OnceInv, Recording

\* Nothing new is recorded, or about to be.
LEMMA NoneAccepted ==
    ASSUME OnceInv, spent \subseteq spent', remembered' = remembered,
           \A g \in Helper : pc'[g] \in Recording => pc[g] \in Recording /\ cand'[g] = cand[g]
    PROVE  OnceInv'
  BY DEF OnceInv

LEMMA OnceStep == TypeOK /\ OnceInv /\ [Next]_vars => OnceInv'
<1> SUFFICES ASSUME TypeOK, OnceInv, [Next]_vars PROVE OnceInv'
  OBVIOUS
<1> USE DEF phone, files, history
<1>1. CASE Arrive \/ UNCHANGED vars
  BY <1>1, NoneAccepted DEF Arrive, vars, locals
<1>2. ASSUME NEW h \in Helper,
             Start(h) \/ PreflightFails(h) \/ ReadUsed(h) \/ Select(h) \/ PollFails(h) \/ Killed(h)
      PROVE  OnceInv'
  <2>1. /\ spent \subseteq spent' /\ remembered' = remembered /\ pc'[h] \notin Recording
        /\ \A g \in Helper \ {h} : pc'[g] = pc[g] /\ cand'[g] = cand[g]
    BY <1>2 DEF Start, PreflightFails, ReadUsed, Select, PollFails, Killed, Fail, End, TypeOK, Recording
  <2> QED
    BY <2>1, NoneAccepted
<1>3. ASSUME NEW h \in Helper, Submit(h) PROVE OnceInv'
  <2>1. CASE End(h, "mfa_submission_failed") /\ spent \subseteq spent' /\ remembered' = remembered
    BY <2>1, NoneAccepted DEF End, TypeOK, Recording
  <2>2. CASE /\ cand[h] \notin spent /\ spent' = spent \cup {cand[h]}
             /\ pc' = [pc EXCEPT ![h] = "open"] /\ UNCHANGED <<cand, remembered>>
    BY <2>2 DEF OnceInv, TypeOK, Recording
  <2> QED
    BY <1>3, <2>1, <2>2 DEF Submit, Accepts
<1>4. ASSUME NEW h \in Helper, OpenTmp(h) \/ WriteTmp(h) \/ ReplaceState(h) PROVE OnceInv'
  <2>1. /\ UNCHANGED <<cand, spent, remembered>> /\ pc[h] \in Recording
        /\ \A g \in Helper \ {h} : pc'[g] = pc[g]
    BY <1>4 DEF OpenTmp, WriteTmp, ReplaceState, End, TypeOK, Recording
  <2> QED
    BY <2>1, NoneAccepted
<1>5. ASSUME NEW h \in Helper, Unlink(h) PROVE OnceInv'
  <2>1. /\ pc[h] \in Recording /\ pc'[h] \notin Recording /\ UNCHANGED <<cand, spent>>
        /\ remembered' = remembered \cup {cand[h]} /\ \A g \in Helper \ {h} : pc'[g] = pc[g]
    BY <1>5 DEF Unlink, End, TypeOK, Recording
  <2> QED
    BY <2>1 DEF OnceInv
<1> QED
  BY <1>1, <1>2, <1>3, <1>4, <1>5 DEF Next, Step

\* No code is reported verified twice, however many runs race for it with stale
\* keys, whatever list of keys survives, and wherever runs are killed.
THEOREM CodesAreVerifiedOnce == Spec => VerifiedOnce
<1> DEFINE New == \A h \in Helper :
                    outcome[h] # "verified" /\ outcome'[h] = "verified" => cand'[h] \notin remembered
<1>1. TypeOK /\ OnceInv /\ [Next]_vars => [New]_vars
  <2> SUFFICES ASSUME TypeOK, OnceInv, [Next]_vars, NEW h \in Helper,
                      outcome[h] # "verified", outcome'[h] = "verified"
               PROVE  cand'[h] \notin remembered
    OBVIOUS
  <2>1. ~ Arrive /\ ~ UNCHANGED vars
    BY DEF Arrive, vars, locals
  <2>2. ASSUME NEW g \in Helper, Start(g) \/ Step(g) \/ Killed(g), ~ Unlink(g) PROVE outcome'[h] # "verified"
    BY <2>2 DEF Start, Step, Killed, PreflightFails, ReadUsed, Select, PollFails, Submit, OpenTmp,
                WriteTmp, ReplaceState, Fail, End, TypeOK
  <2>3. PICK g \in Helper : Unlink(g)
    BY <2>1, <2>2 DEF Next
  <2>4. g = h /\ cand'[h] = cand[h]
    BY <2>3 DEF Unlink, End, TypeOK
  <2> QED
    BY <2>3, <2>4 DEF Unlink, OnceInv, Recording
<1>2. Spec => [](TypeOK /\ OnceInv)
  BY TypeAlways, OnceInit, OnceStep, PTL DEF Spec
<1> QED
  BY <1>1, <1>2, PTL DEF Spec, VerifiedOnce
=============================================================================
