-------------------------- MODULE LogRotate_proofs --------------------------
(***************************************************************************)
(* Proofs that the names of the log files are sorted by age and that       *)
(* rotations drop only the oldest, whatever the number of names, files and *)
(* processes and wherever they are killed, and that a count is right,      *)
(* whatever the line and the size of the buffer.                           *)
(***************************************************************************)
EXTENDS LogRotate, FiniteSetTheorems, FunctionTheorems, SequenceTheorems, TLAPS

\* The part of the types that the names depend on.
NamesOK ==
  /\ nfiles \in 0 .. MaxFiles
  /\ name \in [Names -> 1 .. nfiles \cup {NoFile}]
  /\ i \in [Rotators -> 0 .. KEEP - 1]

\* A file is never younger than the last one created, so a new one is the youngest;
\* a rename moves a file by one place, so it passes no other.
IInv == NamesOK /\ SortedByAge

\* With the names of the start, each inode is its own place and nothing is out of order.
LEMMA InitIInv == Init => IInv
<1> SUFFICES ASSUME Init PROVE IInv
  OBVIOUS
<1>1. NamesOK
  BY SizeAssumption, SMT DEF Init, NamesOK, Names
<1>2. SortedByAge
  BY DEF Init, SortedByAge
<1> QED BY <1>1, <1>2 DEF IInv

\* Renaming any file to the next name keeps the names sorted.
LEMMA MovedSorted ==
  ASSUME IInv, NEW k \in 0 .. KEEP - 1, name' = Moved(k), nfiles' = nfiles
  PROVE  /\ name' \in [Names -> 1 .. nfiles' \cup {NoFile}]
         /\ SortedByAge'
<1> USE SizeAssumption, NoFileAssumption DEF Names
<1>1. k \in Names /\ k + 1 \in Names
  BY SMT
<1>2. CASE name[k] = NoFile
  BY <1>2 DEF IInv, NamesOK, SortedByAge, Moved
<1>3. CASE name[k] # NoFile
  <2>1. name' = [name EXCEPT ![k + 1] = name[k], ![k] = NoFile]
    BY <1>3 DEF Moved
  <2>2. name' \in [Names -> 1 .. nfiles' \cup {NoFile}]
    BY <1>1, <2>1 DEF IInv, NamesOK
  <2>3. /\ name'[k] = NoFile /\ name'[k + 1] = name[k]
        /\ \A a \in Names \ {k, k + 1} : name'[a] = name[a]
    BY <1>1, <2>1 DEF IInv, NamesOK
  <2>4. SortedByAge'
    <3> SUFFICES ASSUME NEW a \in Names, NEW b \in Names, a < b,
                        name'[a] # NoFile, name'[b] # NoFile
                 PROVE  name'[a] > name'[b]
      BY DEF SortedByAge
    <3>1. a # k /\ b # k
      BY <2>3
    <3>2. CASE a = k + 1
      <4>1. k < b /\ b \notin {k, k + 1}
        BY <3>2, SMT
      <4> QED BY <1>1, <1>3, <2>3, <3>2, <4>1 DEF IInv, SortedByAge
    <3>3. CASE b = k + 1
      <4>1. a < k /\ a \notin {k, k + 1}
        BY <3>1, <3>3, SMT
      <4> QED BY <1>1, <1>3, <2>3, <3>3, <4>1 DEF IInv, SortedByAge
    <3>4. CASE a # k + 1 /\ b # k + 1
      BY <2>3, <3>1, <3>4 DEF IInv, SortedByAge
    <3> QED BY <3>2, <3>3, <3>4
  <2> QED BY <2>2, <2>4
<1> QED BY <1>2, <1>3

\* Every step keeps the names sorted.
LEMMA NextIInv == IInv /\ [Next]_vars => IInv'
<1> SUFFICES ASSUME IInv, [Next]_vars PROVE IInv'
  OBVIOUS
<1> USE SizeAssumption, NoFileAssumption
<1>1. CASE UNCHANGED <<name, nfiles, i>>
  BY <1>1 DEF IInv, NamesOK, SortedByAge
<1>2. ASSUME NEW w \in Writers, OpenLog(w) PROVE IInv'
  <2>1. CASE UNCHANGED <<name, nfiles>>
    BY <1>1, <1>2, <2>1 DEF OpenLog
  <2>2. CASE /\ name[0] = NoFile /\ nfiles < MaxFiles
             /\ nfiles' = nfiles + 1 /\ name' = [name EXCEPT ![0] = nfiles']
    <3>1. 0 \in Names /\ nfiles' \in 1 .. MaxFiles
      BY <2>2, SMT DEF Names, IInv, NamesOK
    <3>2. name'[0] = nfiles' /\ \A a \in Names \ {0} : name'[a] = name[a]
      BY <2>2, <3>1 DEF IInv, NamesOK
    <3>3. \A a \in Names : name[a] \in 1 .. nfiles \cup {NoFile}
      BY DEF IInv, NamesOK
    <3>4. name' \in [Names -> 1 .. nfiles' \cup {NoFile}]
      <4>1. 1 .. nfiles \subseteq 1 .. nfiles' /\ nfiles' \in 1 .. nfiles'
        BY <2>2, <3>1, SMT DEF IInv, NamesOK
      <4> QED BY <2>2, <3>1, <4>1 DEF IInv, NamesOK
    <3>5. SortedByAge'
      <4> SUFFICES ASSUME NEW a \in Names, NEW b \in Names, a < b,
                          name'[a] # NoFile, name'[b] # NoFile
                   PROVE  name'[a] > name'[b]
        BY DEF SortedByAge
      <4>1. b # 0 /\ name'[b] = name[b] /\ name[b] \in 1 .. nfiles
        BY <3>2, <3>3, SMT DEF Names
      <4>2. CASE a = 0
        BY <2>2, <3>2, <4>1, <4>2, SMT DEF IInv, NamesOK
      <4>3. CASE a # 0
        BY <3>2, <4>1, <4>3 DEF IInv, SortedByAge
      <4> QED BY <4>2, <4>3
    <3> QED BY <1>2, <2>2, <3>1, <3>4, <3>5, SMT DEF IInv, NamesOK, OpenLog
  <2> QED BY <1>2, <2>1, <2>2 DEF OpenLog
<1>3. ASSUME NEW r \in Rotators, UnlinkLast(r) PROVE IInv'
  <2>1. name' = [name EXCEPT ![KEEP] = NoFile] /\ nfiles' = nfiles
        /\ i' = [i EXCEPT ![r] = KEEP - 1]
    BY <1>3 DEF UnlinkLast
  <2>2. NamesOK'
    BY <2>1, SMT DEF IInv, NamesOK, Names
  <2>3. SortedByAge'
    BY <2>1 DEF IInv, NamesOK, SortedByAge
  <2> QED BY <2>2, <2>3 DEF IInv
<1>4. ASSUME NEW r \in Rotators, Rename(r) PROVE IInv'
  <2>1. i[r] \in 0 .. KEEP - 1
    BY DEF IInv, NamesOK
  <2>2. name' = Moved(i[r]) /\ nfiles' = nfiles
        /\ i' = [i EXCEPT ![r] = IF @ = 0 THEN 0 ELSE @ - 1]
    BY <1>4 DEF Rename
  <2>3. i' \in [Rotators -> 0 .. KEEP - 1]
    BY <2>1, <2>2, SMT DEF IInv, NamesOK
  <2> QED BY <2>1, <2>2, <2>3, MovedSorted DEF IInv, NamesOK
<1>5. ASSUME NEW w \in Writers, AppendToLog(w), ~ OpenLog(w) PROVE IInv'
  BY <1>1, <1>5 DEF AppendToLog, LockLog, WriteByte, WriteShort, UnlockLog, users
<1>6. ASSUME NEW c \in Counters, CountLogLines(c) PROVE IInv'
  BY <1>1, <1>6 DEF CountLogLines, OpenCount, LockCount, ReadChunk, UnlockCount
<1>7. ASSUME NEW p \in Procs, Kill(p) PROVE IInv'
  BY <1>1, <1>7 DEF Kill
<1>8. CASE UNCHANGED vars
  BY <1>1, <1>8 DEF vars, users
<1> QED BY <1>2, <1>3, <1>4, <1>5, <1>6, <1>7, <1>8 DEF Next, RotateLogs

\* The names of the log files are always sorted by age, http.log the newest.
THEOREM SortedTheorem == Spec => []SortedByAge
<1>1. IInv => SortedByAge
  BY DEF IInv
<1> QED BY InitIInv, NextIInv, <1>1, PTL DEF Spec

-----------------------------------------------------------------------------
(* What rotations drop.                                                    *)

\* as long as rotations do not overlap, one rotator renames, into a free name
OneRotates ==
  ~ overlapped =>
    \A r \in Rotators : At(r, "rename") =>
      name[i[r] + 1] = NoFile /\ \A q \in Rotators : At(q, "rename") => q = r

Labelled == pc = [p \in Procs |-> pc[p]]

DInv == Labelled /\ OneRotates /\ OnlyOldestDropped

\* every step leaves pc a function on the processes
LEMMA LabelledKept == Labelled /\ [Next]_vars => Labelled'
<1> SUFFICES ASSUME Labelled, [Next]_vars PROVE Labelled'
  OBVIOUS
<1>p. pc = [p \in Procs |-> pc[p]] /\ Rotators \subseteq Procs /\ Writers \subseteq Procs
      /\ Counters \subseteq Procs
  BY DEF Labelled, Procs
<1>1. UNCHANGED pc \/ \E p \in Procs : \E l : pc' = [pc EXCEPT ![p] = l]
  <2>1. CASE UNCHANGED vars
    BY <2>1 DEF vars
  <2>2. ASSUME NEW p \in Procs, NEW l, Goto(p, l)
        PROVE  \E q \in Procs : \E m : pc' = [pc EXCEPT ![q] = m]
    BY <2>2 DEF Goto
  <2>3. CASE Next
    BY <1>p, <2>2, <2>3 DEF Next, AppendToLog, CountLogLines, RotateLogs, OpenLog, LockLog,
       WriteByte, WriteShort, UnlockLog, OpenCount, LockCount, ReadChunk, UnlockCount,
       UnlinkLast, Rename, Kill
  <2> QED
    BY <2>1, <2>3
<1> QED
  BY <1>p, <1>1 DEF Labelled

\* a step that neither renames nor creates a file
LEMMA NamesKept ==
  ASSUME DInv, UNCHANGED <<name, nfiles, i, overlapped>>,
         \A r \in Rotators : At(r, "rename")' => At(r, "rename")
  PROVE  OneRotates' /\ OnlyOldestDropped'
<1>1. OneRotates'
  BY DEF DInv, OneRotates
<1>2. Named' = Named
  BY DEF Named
<1> QED
  BY <1>1, <1>2 DEF DInv, OnlyOldestDropped

\* what is dropped with the oldest file is older than what is kept
LEMMA DropsOldest ==
  ASSUME IInv, OnlyOldestDropped, UNCHANGED nfiles, ~ overlapped,
         \E a \in Names : /\ name' = [name EXCEPT ![a] = NoFile]
                          /\ \A b \in Names : b > a => name[b] = NoFile
  PROVE  OnlyOldestDropped'
<1>1. PICK a \in Names : /\ name' = [name EXCEPT ![a] = NoFile]
                         /\ \A b \in Names : b > a => name[b] = NoFile
  OBVIOUS
<1>2. /\ \A b \in Names : name'[b] = IF b = a THEN NoFile ELSE name[b]
      /\ \A b \in Names : name[b] \in 1 .. nfiles \cup {NoFile}
      /\ nfiles \in 0 .. MaxFiles
  BY <1>1 DEF IInv, NamesOK
<1> SUFFICES ASSUME NEW f \in 1 .. nfiles, f \notin Named', NEW g \in Named' PROVE f < g
  BY DEF OnlyOldestDropped
<1>3. PICK b \in Names : g = name'[b] /\ g # NoFile
  BY DEF Named
<1>4. b # a /\ g = name[b] /\ g \in Named
  BY <1>2, <1>3 DEF Named
<1>5. CASE f \in Named
  <2>1. PICK c \in Names : f = name[c] /\ f # NoFile
    BY <1>5 DEF Named
  <2>2. c = a
    BY <1>2, <2>1 DEF Named
  <2>3. b < a
    <3>1. ~ (b > a)
      BY <1>1, <1>3, <1>4
    <3> QED
      BY <1>4, <3>1 DEF Names
  <2>4. name[b] > name[a]
    BY <1>3, <1>4, <2>1, <2>2, <2>3 DEF IInv, SortedByAge
  <2> QED
    BY <1>2, <1>3, <1>4, <2>1, <2>2, <2>4, NoFileAssumption
<1>6. CASE f \notin Named
  BY <1>4, <1>6 DEF OnlyOldestDropped
<1> QED
  BY <1>5, <1>6

\* Each step of a rotation, and of a writer that creates a file, drops only the oldest.
LEMMA NextDInv == IInv /\ IInv' /\ DInv /\ [Next]_vars => DInv'
<1> SUFFICES ASSUME IInv, IInv', DInv, [Next]_vars PROVE DInv'
  OBVIOUS
<1> USE SizeAssumption, NoFileAssumption DEF At, Goto
<1>i. /\ nfiles \in 0 .. MaxFiles /\ nfiles \in Nat
      /\ name \in [Names -> 1 .. nfiles \cup {NoFile}]
      /\ i \in [Rotators -> 0 .. KEEP - 1]
      /\ 0 \in Names /\ KEEP \in Names
  BY DEF IInv, NamesOK, Names
<1>p. pc = [p \in Procs |-> pc[p]] /\ Rotators \subseteq Procs /\ Writers \subseteq Procs
      /\ Counters \subseteq Procs
  BY DEF DInv, Labelled, Procs
<1>l. Labelled'
  BY LabelledKept DEF DInv
<1>1. ASSUME UNCHANGED <<name, nfiles, i, overlapped>>,
             \A r \in Rotators : At(r, "rename")' => At(r, "rename")
      PROVE  DInv'
  BY <1>1, <1>l, NamesKept DEF DInv
<1>2. CASE UNCHANGED vars
  BY <1>1, <1>2 DEF vars, users
<1>3. ASSUME NEW w \in Writers, OpenLog(w) PROVE DInv'
  <2>1. UNCHANGED <<i, overlapped>> /\ \A r \in Rotators : At(r, "rename")' => At(r, "rename")
    BY <1>3, <1>p DEF OpenLog
  <2>2. CASE UNCHANGED <<name, nfiles>>
    BY <1>1, <2>1, <2>2
  <2>3. CASE nfiles' = nfiles + 1 /\ name' = [name EXCEPT ![0] = nfiles'] /\ name[0] = NoFile
    <3>1. \A b \in Names : name'[b] = IF b = 0 THEN nfiles' ELSE name[b]
      BY <1>i, <2>3
    <3>2. Named' = Named \cup {nfiles'}
      BY <1>i, <2>3, <3>1 DEF Named, IInv, NamesOK
    <3>3. Named \subseteq 1 .. nfiles
      BY <1>i DEF Named
    <3>4. OnlyOldestDropped'
      <4> SUFFICES ASSUME ~ overlapped, NEW f \in 1 .. nfiles', f \notin Named', NEW g \in Named'
                   PROVE  f < g
        BY <2>1 DEF OnlyOldestDropped
      <4>1. f # nfiles' /\ f \in 1 .. nfiles /\ f \notin Named
        BY <1>i, <2>3, <3>2
      <4> QED
        BY <1>i, <2>3, <3>2, <4>1 DEF DInv, OnlyOldestDropped
    <3>5. OneRotates'
      <4>1. \A r \in Rotators : i[r] + 1 # 0 /\ i[r] + 1 \in Names
        BY <1>i DEF Names
      <4> QED
        BY <2>1, <3>1, <4>1 DEF DInv, OneRotates
    <3> QED
      BY <1>l, <3>4, <3>5 DEF DInv
  <2> QED
    BY <1>3, <2>2, <2>3 DEF OpenLog
<1>4. ASSUME NEW r \in Rotators, UnlinkLast(r) PROVE DInv'
  <2>1. /\ name' = [name EXCEPT ![KEEP] = NoFile] /\ i' = [i EXCEPT ![r] = KEEP - 1]
        /\ pc' = [pc EXCEPT ![r] = "rename"] /\ nfiles' = nfiles /\ pc[r] = "start"
        /\ overlapped' = (overlapped \/ \E q \in Rotators \ {r} : pc[q] = "rename")
    BY <1>4 DEF UnlinkLast, NoteOverlap
  <2>2. OnlyOldestDropped'
    <3>1. CASE overlapped'
      BY <3>1 DEF OnlyOldestDropped
    <3>2. CASE ~ overlapped'
      <4>1. ~ overlapped
        BY <2>1, <3>2
      <4>2. \A b \in Names : b > KEEP => name[b] = NoFile
        BY DEF Names
      <4> QED
        BY <1>i, <2>1, <4>1, <4>2, DropsOldest DEF DInv
    <3> QED
      BY <3>1, <3>2
  <2>3. OneRotates'
    <3> SUFFICES ASSUME ~ overlapped', NEW q \in Rotators, pc'[q] = "rename"
                 PROVE  name'[i'[q] + 1] = NoFile /\ q = r
      BY DEF OneRotates
    <3>1. q = r
      BY <1>p, <2>1
    <3>2. i'[r] + 1 = KEEP /\ name'[KEEP] = NoFile
      BY <1>i, <2>1
    <3> QED
      BY <3>1, <3>2
  <2> QED
    BY <1>l, <2>2, <2>3 DEF DInv
<1>5. ASSUME NEW r \in Rotators, Rename(r) PROVE DInv'
  <2>1. /\ name' = Moved(i[r]) /\ i' = [i EXCEPT ![r] = IF i[r] = 0 THEN 0 ELSE i[r] - 1]
        /\ pc' = [pc EXCEPT ![r] = IF i[r] = 0 THEN "start" ELSE "rename"]
        /\ pc[r] = "rename" /\ UNCHANGED <<nfiles, overlapped>>
    BY <1>i, <1>5 DEF Rename
  <2> DEFINE k == i[r]
  <2>2. k \in Names /\ k + 1 \in Names /\ k \in Nat
    BY <1>i DEF Names
  <2>3. CASE overlapped
    BY <1>l, <2>1, <2>3 DEF DInv, OneRotates, OnlyOldestDropped
  <2>4. CASE ~ overlapped
    <3>1. name[k + 1] = NoFile /\ \A q \in Rotators : pc[q] = "rename" => q = r
      BY <2>1, <2>4 DEF DInv, OneRotates
    <3>2. /\ \A b \in Names : name'[b] = IF b = k + 1 THEN name[k] ELSE
                                         IF b = k THEN NoFile ELSE name[b]
      BY <1>i, <2>1, <2>2, <3>1 DEF Moved
    <3>3. Named' = Named
      <4>1. ASSUME NEW g \in Named PROVE g \in Named'
        <5>1. PICK b \in Names : g = name[b] /\ g # NoFile
          BY DEF Named
        <5>2. b # k + 1
          BY <3>1, <5>1
        <5>3. g = name'[IF b = k THEN k + 1 ELSE b] /\ (IF b = k THEN k + 1 ELSE b) \in Names
          BY <2>2, <3>2, <5>1, <5>2
        <5> QED
          BY <5>1, <5>3 DEF Named
      <4>2. ASSUME NEW g \in Named' PROVE g \in Named
        <5>1. PICK b \in Names : g = name'[b] /\ g # NoFile
          BY DEF Named
        <5>2. g = name[IF b = k + 1 THEN k ELSE b] /\ (IF b = k + 1 THEN k ELSE b) \in Names
          BY <2>2, <3>2, <5>1
        <5> QED
          BY <5>1, <5>2 DEF Named
      <4> QED
        BY <4>1, <4>2
    <3>4. OnlyOldestDropped'
      BY <2>1, <3>3 DEF DInv, OnlyOldestDropped
    <3>5. OneRotates'
      <4> SUFFICES ASSUME NEW q \in Rotators, pc'[q] = "rename"
                   PROVE  name'[i'[q] + 1] = NoFile /\ q = r
        BY DEF OneRotates
      <4>1. q = r
        BY <1>p, <2>1, <3>1
      <4>2. i[r] # 0
        BY <1>p, <2>1, <4>1
      <4>3. i'[r] + 1 = k
        BY <1>i, <2>1, <4>2
      <4>4. name'[k] = NoFile
        BY <2>2, <3>2
      <4> QED
        BY <4>1, <4>3, <4>4
    <3> QED
      BY <1>l, <3>4, <3>5 DEF DInv
  <2> QED
    BY <2>3, <2>4
<1>6. ASSUME NEW w \in Writers, AppendToLog(w), ~ OpenLog(w) PROVE DInv'
  <2>1. UNCHANGED <<name, nfiles, i, overlapped>>
    BY <1>6 DEF AppendToLog, LockLog, WriteByte, WriteShort, UnlockLog, users
  <2>2. \A r \in Rotators : At(r, "rename")' => At(r, "rename")
    BY <1>6, <1>p DEF AppendToLog, LockLog, WriteByte, WriteShort, UnlockLog
  <2> QED
    BY <1>1, <2>1, <2>2
<1>7. ASSUME NEW c \in Counters, CountLogLines(c) PROVE DInv'
  <2>1. UNCHANGED <<name, nfiles, i, overlapped>>
    BY <1>7 DEF CountLogLines, OpenCount, LockCount, ReadChunk, UnlockCount
  <2>2. \A r \in Rotators : At(r, "rename")' => At(r, "rename")
    BY <1>7, <1>p DEF CountLogLines, OpenCount, LockCount, ReadChunk, UnlockCount
  <2> QED
    BY <1>1, <2>1, <2>2
<1>8. ASSUME NEW p \in Procs, Kill(p) PROVE DInv'
  <2>1. UNCHANGED <<name, nfiles, i, overlapped>>
        /\ \A r \in Rotators : At(r, "rename")' => At(r, "rename")
    BY <1>8, <1>p DEF Kill
  <2> QED
    BY <1>1, <2>1
<1> QED
  BY <1>2, <1>3, <1>4, <1>5, <1>6, <1>7, <1>8 DEF Next, RotateLogs

\* As long as rotations do not overlap, what is dropped is older than all that is kept,
\* wherever rotations are killed and whenever writers create files.
THEOREM OldestDroppedTheorem == Spec => []OnlyOldestDropped
<1>1. Spec => []IInv
  BY InitIInv, NextIInv, PTL DEF Spec
<1>2. Init => DInv
  <2> SUFFICES ASSUME Init PROVE DInv
    OBVIOUS
  <2>1. OneRotates
    BY DEF Init, OneRotates, At, Procs
  <2>2. nfiles = 0 /\ 1 .. 0 = {}
    BY DEF Init
  <2>3. OnlyOldestDropped
    BY <2>2 DEF OnlyOldestDropped
  <2> QED
    BY <2>1, <2>3 DEF Init, DInv, Labelled
<1>3. DInv => OnlyOldestDropped
  BY DEF DInv
<1> QED
  BY <1>1, <1>2, <1>3, NextDInv, PTL DEF Spec

-----------------------------------------------------------------------------
(* Counting newlines.                                                      *)

\* the newlines among the first n bytes
UpTo(t, n) == Cardinality({ j \in 1 .. n : t[j] = NL })

\* The newlines among the first n bytes can be counted.
LEMMA UpToType ==
  ASSUME NEW t, NEW n \in Nat
  PROVE  IsFiniteSet({ j \in 1 .. n : t[j] = NL }) /\ UpTo(t, n) \in Nat
<1>1. IsFiniteSet(1 .. n)
  BY FS_Interval
<1>2. IsFiniteSet({ j \in 1 .. n : t[j] = NL })
  BY <1>1, FS_Subset
<1> QED
  BY <1>2, FS_CardinalityType DEF UpTo

\* it depends on these bytes
LEMMA UpToSame ==
  ASSUME NEW t, NEW u, NEW n \in Nat, \A j \in 1 .. n : t[j] = u[j]
  PROVE  UpTo(t, n) = UpTo(u, n)
<1>1. { j \in 1 .. n : t[j] = NL } = { j \in 1 .. n : u[j] = NL }
  OBVIOUS
<1> QED
  BY <1>1 DEF UpTo

\* and does not become less with more bytes
LEMMA UpToMore ==
  ASSUME NEW t, NEW n \in Nat, NEW m \in Nat, n <= m
  PROVE  UpTo(t, n) <= UpTo(t, m)
<1> DEFINE S == { j \in 1 .. m : t[j] = NL }
           T == { j \in 1 .. n : t[j] = NL }
<1>1. IsFiniteSet(S)
  BY UpToType
<1>2. T \in SUBSET S
  OBVIOUS
<1> HIDE DEF S, T
<1>3. Cardinality(T) <= Cardinality(S)
  BY <1>1, <1>2, FS_Subset
<1> QED
  BY <1>3 DEF UpTo, S, T

\* a count chunk by chunk is the count of all
LEMMA UpToChunk ==
  ASSUME NEW C, NEW t \in Seq(C), NEW n \in Nat, NEW m \in Nat, n + m <= Len(t)
  PROVE  /\ UpTo(t, n + m) = UpTo(t, n) + NewLines(SubSeq(t, n + 1, n + m))
         /\ NewLines(SubSeq(t, n + 1, n + m)) \in Nat
         /\ Len(SubSeq(t, n + 1, n + m)) = m
<1> DEFINE s == SubSeq(t, n + 1, n + m)
           A == { j \in 1 .. m : t[n + j] = NL }
           B == { j \in n + 1 .. n + m : t[j] = NL }
           T == { j \in 1 .. n : t[j] = NL }
           U == { j \in 1 .. n + m : t[j] = NL }
           f == [j \in A |-> n + j]
<1>1. NewLines(s) = Cardinality(A)
  <2>1. s = [j \in 1 .. m |-> t[n + j]]
    <3>1. s = [j \in 1 .. n + m - (n + 1) + 1 |-> t[(n + 1) + j - 1]]
      OBVIOUS
    <3>2. n + m - (n + 1) + 1 = m /\ \A j \in 1 .. m : (n + 1) + j - 1 = n + j
      OBVIOUS
    <3> QED
      BY <3>1, <3>2
  <2>2. DOMAIN s = 1 .. m /\ \A j \in 1 .. m : s[j] = t[n + j]
    BY <2>1
  <2> HIDE DEF s
  <2>3. { j \in DOMAIN s : s[j] = NL } = A
    BY <2>2
  <2> QED
    BY <2>3 DEF NewLines
<1>2. IsFiniteSet(A) /\ IsFiniteSet(T) /\ IsFiniteSet(U) /\ IsFiniteSet(B)
  <2>1. IsFiniteSet(1 .. m)
    BY FS_Interval
  <2>2. IsFiniteSet(A)
    BY <2>1, FS_Subset
  <2>3. IsFiniteSet(T) /\ IsFiniteSet(U)
    <3> DEFINE e == n + m
    <3>1. e \in Nat
      OBVIOUS
    <3> HIDE DEF e
    <3>2. IsFiniteSet({ j \in 1 .. e : t[j] = NL })
      BY <3>1, UpToType
    <3>3. IsFiniteSet(T)
      BY UpToType
    <3> QED
      BY <3>2, <3>3 DEF e
  <2>4. B \in SUBSET U
    OBVIOUS
  <2> HIDE DEF B, U
  <2> QED
    BY <2>2, <2>3, <2>4, FS_Subset
<1>3. Cardinality(B) = Cardinality(A)
  <2>1. f \in [A -> B]
    OBVIOUS
  <2>2. \A j, k \in A : f[j] = f[k] => j = k
    OBVIOUS
  <2>3. \A k \in B : \E j \in A : f[j] = k
    <3> SUFFICES ASSUME NEW k \in B PROVE \E j \in A : f[j] = k
      OBVIOUS
    <3>1. k - n \in A /\ n + (k - n) = k
      OBVIOUS
    <3> QED
      BY <3>1
  <2> HIDE DEF f, A, B
  <2>4. f \in Bijection(A, B)
    BY <2>1, <2>2, <2>3, Fun_IsBij
  <2>5. ExistsBijection(A, B)
    BY <2>4 DEF ExistsBijection
  <2> QED
    BY <1>2, <2>5, FS_Bijection
<1>4. U = T \cup B /\ T \cap B = {}
  OBVIOUS
<1> HIDE DEF A, B, T, U, f
<1>5. Cardinality(U) = Cardinality(T) + Cardinality(B)
  <2>1. Cardinality(T \cup B) = Cardinality(T) + Cardinality(B) - Cardinality(T \cap B)
    BY <1>2, FS_Union
  <2>2. Cardinality(T \cap B) = 0
    BY <1>4, FS_EmptySet
  <2>3. Cardinality(T) \in Nat /\ Cardinality(B) \in Nat
    BY <1>2, FS_CardinalityType
  <2> QED
    BY <1>4, <2>1, <2>2, <2>3
<1>6. Cardinality(A) \in Nat
  BY <1>2, FS_CardinalityType
<1> QED
  BY <1>1, <1>3, <1>5, <1>6 DEF UpTo, U, T

\* the newlines of a file, and of one that a byte more was written to
LEMMA NewLinesOK ==
  ASSUME NEW C, NEW t \in Seq(C), NEW x \in C
  PROVE  /\ NewLines(t) = UpTo(t, Len(t)) /\ NewLines(t) \in Nat
         /\ NewLines(t) <= NewLines(Append(t, x))
<1>1. \A u \in Seq(C) : Len(u) \in Nat /\ NewLines(u) = UpTo(u, Len(u))
  <2> SUFFICES ASSUME NEW u \in Seq(C) PROVE Len(u) \in Nat /\ NewLines(u) = UpTo(u, Len(u))
    OBVIOUS
  <2>1. Len(u) \in Nat /\ DOMAIN u = 1 .. Len(u)
    OBVIOUS
  <2> QED
    BY <2>1 DEF NewLines, UpTo
<1> DEFINE u == Append(t, x)
           n == Len(t)
           m == Len(u)
<1>2. u \in Seq(C) /\ m = n + 1 /\ n \in Nat /\ m \in Nat /\ \A j \in 1 .. n : u[j] = t[j]
  OBVIOUS
<1> HIDE DEF u
<1>3. UpTo(t, n) = UpTo(u, n)
  BY <1>2, UpToSame
<1>4. UpTo(u, n) <= UpTo(u, m)
  <2> HIDE DEF n, m
  <2> QED
    BY <1>2, UpToMore
<1>5. UpTo(t, n) \in Nat
  BY <1>2, UpToType
<1> QED
  BY <1>1, <1>2, <1>3, <1>4, <1>5 DEF u

-----------------------------------------------------------------------------
(* Counting while lines are appended and files renamed.                    *)

Bytes == { Line[j] : j \in Nat }
Counting == {"lock_sh", "read", "unlock_sh", "unlock_eof", "counted"}

CTypes ==
  /\ text \in [Files -> Seq(Bytes)]
  /\ fd \in [Procs -> Files \cup {NoFile}]
  /\ sent \in [Writers -> Nat]
  /\ pos \in [Counters -> Nat] /\ count \in [Counters -> Nat] /\ atOpen \in [Counters -> Nat]

\* A counter's count is the newlines before its offset in the file it opened, which
\* only grows; at the end of the file that is all of them.
CountOK(c) ==
  /\ pc[c] \notin Counting \cup {"killed", "bailed"} => pos[c] = 0 /\ count[c] = 0
  /\ pc[c] \in Counting =>
       /\ fd[c] \in Files /\ pos[c] <= Len(text[fd[c]])
       /\ count[c] = UpTo(text[fd[c]], pos[c])
       /\ atOpen[c] <= NewLines(text[fd[c]])
  /\ pc[c] \in {"unlock_eof", "counted"} => atOpen[c] <= count[c]

CInv == Labelled /\ CTypes /\ \A c \in Counters : CountOK(c)

\* a byte, whatever is beyond the end of the line
LEMMA LineIsByte == \A j \in Nat : Line[j] \in Bytes
BY DEF Bytes

\* A counter that takes no step: its file at most becomes longer.
LEMMA CountKept ==
  ASSUME CTypes, NEW c \in Counters, CountOK(c),
         UNCHANGED <<pos[c], count[c], atOpen[c]>>,
         \/ UNCHANGED <<pc[c], fd[c]>>
         \/ pc'[c] \in {"killed", "bailed"}
         \/ /\ pc'[c] \notin Counting
            /\ pc[c] \notin Counting \cup {"killed", "bailed"},
         \/ UNCHANGED text
         \/ \E f \in Files, x \in Bytes : text' = [text EXCEPT ![f] = Append(@, x)]
  PROVE  CountOK(c)'
<1>1. CASE pc'[c] \notin Counting
  BY <1>1 DEF CountOK, Counting
<1>2. CASE pc'[c] \in Counting
  <2>1. UNCHANGED <<pc[c], fd[c]>> /\ fd[c] \in Files
    BY <1>2 DEF CountOK, Counting
  <2> DEFINE t == text[fd[c]]
             u == text'[fd[c]]
             n == pos[c]
  <2>2. t \in Seq(Bytes) /\ n \in Nat /\ Len(t) \in Nat /\ n <= Len(t)
    BY <1>2, <2>1 DEF CTypes, CountOK
  <2>3. CASE u = t
    BY <2>1, <2>3 DEF CountOK
  <2>4. CASE \E x \in Bytes : u = Append(t, x)
    <3>1. PICK x \in Bytes : u = Append(t, x)
      BY <2>4
    <3>2. /\ Len(u) = Len(t) + 1
          /\ \A j \in 1 .. n : t[j] = u[j]
      BY <2>2, <3>1
    <3> HIDE DEF t, u, n
    <3>3. UpTo(u, n) = UpTo(t, n)
      BY <2>2, <3>2, UpToSame
    <3>4. NewLines(t) <= NewLines(u) /\ NewLines(t) \in Nat
      BY <2>2, <3>1, NewLinesOK
    <3>5. NewLines(u) \in Nat
      <4>1. u \in Seq(Bytes)
        BY <2>2, <3>1
      <4> QED
        BY <3>1, <4>1, NewLinesOK
    <3>6. n <= Len(u)
      BY <2>2, <3>2
    <3>7. atOpen[c] \in Nat
      BY DEF CTypes
    <3>8. atOpen[c] <= NewLines(t) /\ count[c] = UpTo(t, n)
      BY <1>2, <2>1 DEF CountOK, t, n
    <3>9. atOpen[c] <= NewLines(u)
      BY <3>4, <3>5, <3>7, <3>8
    <3> QED
      BY <1>2, <2>1, <3>3, <3>6, <3>8, <3>9 DEF CountOK, u, n, Counting
  <2>5. u = t \/ \E x \in Bytes : u = Append(t, x)
    BY <2>1 DEF CTypes
  <2> QED
    BY <2>3, <2>4, <2>5
<1> QED
  BY <1>1, <1>2

\* A counter that reads: its chunk is what follows its offset, and is empty only at
\* the end of the file.
LEMMA CountRead ==
  ASSUME Labelled, CTypes, NEW c \in Counters, CountOK(c), ReadChunk(c)
  PROVE  CountOK(c)' /\ pos' \in [Counters -> Nat] /\ count' \in [Counters -> Nat]
<1> USE SizeAssumption
<1> DEFINE t == text[fd[c]]
           n == pos[c]
           left == Len(t) - n
           m == IF left < READ_BUFSZ THEN left ELSE READ_BUFSZ
           s == SubSeq(t, n + 1, n + m)
<1>1. pc[c] = "read"
  BY DEF ReadChunk, At
<1>2. /\ fd[c] \in Files /\ n <= Len(t) /\ count[c] = UpTo(t, n) /\ atOpen[c] <= NewLines(t)
      /\ t \in Seq(Bytes) /\ n \in Nat /\ Len(t) \in Nat /\ atOpen[c] \in Nat /\ count[c] \in Nat
  BY <1>1 DEF CountOK, Counting, CTypes
<1>3. m \in Nat /\ n + m <= Len(t) /\ (m = 0 => n = Len(t))
  BY <1>2
<1>4. Chunk(c) = s
  BY DEF Chunk
<1>5. /\ UpTo(t, n + m) = UpTo(t, n) + NewLines(s)
      /\ NewLines(s) \in Nat /\ Len(s) = m
  <2> HIDE DEF t, n, m
  <2> QED
    BY <1>2, <1>3, UpToChunk
<1>6. /\ pos'[c] = n + m /\ count'[c] = count[c] + NewLines(s)
      /\ UNCHANGED <<text, fd, atOpen>>
  BY <1>4, <1>5 DEF ReadChunk, CTypes
<1>7. s = <<>> => m = 0
  <2> HIDE DEF m, s
  <2> QED
    BY <1>5
<1> HIDE DEF t, n, m, s
<1>9. n + m \in Nat /\ count'[c] = UpTo(t, n + m) /\ count'[c] \in Nat
  BY <1>2, <1>3, <1>5, <1>6
<1>10. pos' \in [Counters -> Nat] /\ count' \in [Counters -> Nat]
  <2>1. /\ pos' = [pos EXCEPT ![c] = pos'[c]]
        /\ count' = [count EXCEPT ![c] = count'[c]]
    BY DEF ReadChunk, CTypes
  <2> QED
    BY <1>6, <1>9, <2>1 DEF CTypes
<1>11. pc'[c] = IF s = <<>> THEN "unlock_eof" ELSE "unlock_sh"
  <2>1. c \in DOMAIN pc
    BY DEF Labelled, Procs
  <2> QED
    BY <1>4, <2>1 DEF ReadChunk, Goto
<1>12. s = <<>> => atOpen[c] <= count'[c]
  <2>1. s = <<>> => n + m = Len(t)
    BY <1>2, <1>3, <1>7
  <2>2. NewLines(t) = UpTo(t, Len(t))
    BY <1>2, NewLinesOK, LineIsByte
  <2> QED
    BY <1>2, <1>9, <2>1, <2>2
<1>13. text'[fd'[c]] = t /\ fd'[c] = fd[c]
  BY <1>6 DEF t
<1> QED
  BY <1>2, <1>3, <1>6, <1>9, <1>10, <1>11, <1>12, <1>13 DEF CountOK, Counting

\* Every step keeps the counts right.
LEMMA NextCInv == IInv /\ IInv' /\ CInv /\ [Next]_vars => CInv'
<1> SUFFICES ASSUME IInv, IInv', CInv, [Next]_vars PROVE CInv'
  OBVIOUS
<1>l. Labelled'
  BY LabelledKept DEF CInv
<1>p. /\ pc = [p \in Procs |-> pc[p]]
      /\ Rotators \subseteq Procs /\ Writers \subseteq Procs /\ Counters \subseteq Procs
  BY DEF CInv, Labelled, Procs
<1>t. CTypes /\ \A c \in Counters : CountOK(c)
  BY DEF CInv
<1> DEFINE Idle == {"start", "lock", "write", "unlock", "rename"}
<1>1. ASSUME NEW p \in Procs, UNCHANGED <<pos, count, atOpen>>, CTypes',
             \A q \in Procs \ {p} : UNCHANGED <<pc[q], fd[q]>>,
             pc'[p] \in {"killed", "bailed"} \/ {pc[p], pc'[p]} \subseteq Idle,
             \/ UNCHANGED text
             \/ \E f \in Files, x \in Bytes : text' = [text EXCEPT ![f] = Append(@, x)]
      PROVE  CInv'
  <2> SUFFICES ASSUME NEW c \in Counters PROVE CountOK(c)'
    BY <1>1, <1>l DEF CInv
  <2>1. \/ UNCHANGED <<pc[c], fd[c]>>
        \/ pc'[c] \in {"killed", "bailed"}
        \/ /\ pc'[c] \notin Counting
           /\ pc[c] \notin Counting \cup {"killed", "bailed"}
    BY <1>1, <1>p DEF Counting
  <2> QED
    BY <1>1, <1>t, <2>1, CountKept
<1>2. ASSUME NEW c \in Counters, CountOK(c)', CTypes', UNCHANGED text,
             \A q \in Procs \ {c} : UNCHANGED <<pc[q], fd[q]>>,
             \A d \in Counters \ {c} : UNCHANGED <<pos[d], count[d], atOpen[d]>>
      PROVE  CInv'
  <2> SUFFICES ASSUME NEW d \in Counters \ {c} PROVE CountOK(d)'
    BY <1>2, <1>l DEF CInv
  <2> QED
    BY <1>2, <1>t, <1>p, CountKept
<1>n. /\ name[0] \in Files \cup {NoFile} /\ name'[0] \in Files \cup {NoFile}
      /\ nfiles' \in 0 .. MaxFiles /\ nfiles \in 0 .. MaxFiles
  BY SizeAssumption DEF IInv, NamesOK, Files, Names
<1>3. CASE UNCHANGED vars
  BY <1>3, <1>l DEF vars, users, CInv, CTypes, CountOK
<1>4. ASSUME NEW w \in Writers, AppendToLog(w) PROVE CInv'
  <2>1. /\ w \in Procs /\ UNCHANGED <<pos, count, atOpen>>
        /\ pc[w] \in Idle /\ pc'[w] \in Idle
        /\ \A q \in Procs \ {w} : UNCHANGED <<pc[q]>>
    BY <1>4, <1>p DEF AppendToLog, OpenLog, LockLog, WriteByte, WriteShort, UnlockLog, At, Goto, users
  <2>2. sent' \in [Writers -> Nat]
    BY <1>4, <1>t DEF AppendToLog, OpenLog, LockLog, WriteByte, WriteShort, UnlockLog, CTypes, users
  <2>3. fd' \in [Procs -> Files \cup {NoFile}] /\ \A q \in Procs \ {w} : UNCHANGED <<fd[q]>>
    <3>1. CASE UNCHANGED fd
      BY <1>t, <3>1 DEF CTypes
    <3>2. CASE OpenLog(w)
      <4>1. nfiles' = nfiles + 1 => nfiles' \in Files
        BY <1>n, SizeAssumption DEF Files
      <4>2. \E f \in Files \cup {NoFile} : fd' = [fd EXCEPT ![w] = f]
        BY <1>n, <3>2, <4>1 DEF OpenLog
      <4> QED
        BY <1>t, <4>2 DEF CTypes
    <3> QED
      BY <1>4, <3>1, <3>2 DEF AppendToLog, LockLog, WriteByte, WriteShort, UnlockLog, users
  <2>4. \/ UNCHANGED text
        \/ \E f \in Files, x \in Bytes : text' = [text EXCEPT ![f] = Append(@, x)]
    <3>1. CASE WriteByte(w)
      <4>1. Line[sent[w] + 1] \in Bytes
        BY <1>t, LineIsByte DEF CTypes
      <4>2. text' = [text EXCEPT ![fd[w]] = Append(@, Line[sent[w] + 1])]
        BY <3>1 DEF WriteByte
      <4>3. CASE fd[w] \in Files
        BY <4>1, <4>2, <4>3
      <4>4. CASE fd[w] \notin Files
        BY <1>t, <4>2, <4>4 DEF CTypes
      <4> QED
        BY <4>3, <4>4
    <3> QED
      BY <1>4, <3>1 DEF AppendToLog, OpenLog, LockLog, WriteShort, UnlockLog
  <2>5. text' \in [Files -> Seq(Bytes)]
    <3>1. ASSUME NEW f \in Files, NEW x \in Bytes, text' = [text EXCEPT ![f] = Append(@, x)]
          PROVE  text' \in [Files -> Seq(Bytes)]
      <4>1. Append(text[f], x) \in Seq(Bytes)
        BY <1>t, AppendProperties DEF CTypes
      <4> QED
        BY <1>t, <3>1, <4>1 DEF CTypes
    <3> QED
      BY <1>t, <2>4, <3>1 DEF CTypes
  <2>6. CTypes'
    BY <1>t, <2>1, <2>2, <2>3, <2>5 DEF CTypes
  <2> QED
    BY <1>1, <2>1, <2>3, <2>4, <2>6
<1>5. ASSUME NEW r \in Rotators, RotateLogs(r) PROVE CInv'
  <2>1. /\ UNCHANGED <<text, fd, sent, pos, count, atOpen>>
        /\ pc[r] \in Idle /\ pc'[r] \in Idle
        /\ \A q \in Procs \ {r} : UNCHANGED <<pc[q]>>
    BY <1>5, <1>p DEF RotateLogs, UnlinkLast, Rename, At, Goto
  <2>2. CTypes'
    BY <1>t, <2>1 DEF CTypes
  <2> QED
    BY <1>1, <1>p, <2>1, <2>2
<1>6. ASSUME NEW p \in Procs, Kill(p) PROVE CInv'
  <2>1. /\ UNCHANGED <<text, sent, pos, count, atOpen>> /\ fd' = [fd EXCEPT ![p] = NoFile]
        /\ pc'[p] = IF p \in Counters THEN "killed" ELSE "start"
        /\ \A q \in Procs \ {p} : UNCHANGED <<pc[q]>>
    BY <1>6, <1>p DEF Kill, Goto
  <2>2. CTypes'
    BY <1>t, <2>1 DEF CTypes
  <2>3. \A q \in Procs \ {p} : UNCHANGED <<fd[q]>>
    BY <1>t, <2>1 DEF CTypes
  <2>4. ASSUME NEW c \in Counters PROVE CountOK(c)'
    <3>1. \/ UNCHANGED <<pc[c], fd[c]>>
          \/ pc'[c] \in {"killed", "bailed"}
      BY <1>p, <2>1, <2>3
    <3> QED
      BY <1>t, <2>1, <3>1, CountKept
  <2> QED
    BY <1>l, <2>2, <2>4 DEF CInv
<1>7. ASSUME NEW c \in Counters, CountLogLines(c) PROVE CInv'
  <2>1. /\ UNCHANGED <<text, sent>> /\ \A q \in Procs \ {c} : UNCHANGED <<pc[q]>>
    BY <1>7, <1>p DEF CountLogLines, OpenCount, LockCount, ReadChunk, UnlockCount, Goto
  <2>2. CASE OpenCount(c) /\ name[0] = NoFile
    <3>1. UNCHANGED <<fd, pos, count, atOpen>> /\ pc'[c] = "bailed"
      BY <1>p, <2>2 DEF OpenCount, Goto
    <3>2. CTypes'
      BY <1>t, <2>1, <3>1 DEF CTypes
    <3> QED
      BY <1>1, <1>p, <2>1, <3>1, <3>2
  <2>3. CASE OpenCount(c) /\ name[0] # NoFile
    <3> DEFINE t == text[name[0]]
    <3>1. /\ name[0] \in Files /\ t \in Seq(Bytes) /\ Len(t) \in Nat
      BY <1>n, <1>t, <2>3 DEF CTypes
    <3>2. /\ fd' = [fd EXCEPT ![c] = name[0]] /\ atOpen' = [atOpen EXCEPT ![c] = NewLines(t)]
          /\ pc[c] = "start" /\ pc'[c] = "lock_sh" /\ UNCHANGED <<pos, count>>
      BY <1>p, <2>3 DEF OpenCount, At, Goto
    <3>3. NewLines(t) \in Nat
      BY <3>1, NewLinesOK, LineIsByte
    <3> HIDE DEF t
    <3>4. CTypes'
      BY <1>p, <1>t, <2>1, <3>1, <3>2, <3>3 DEF CTypes
    <3>5. pos[c] = 0 /\ count[c] = 0
      BY <1>t, <3>2 DEF CountOK, Counting
    <3>6. UpTo(t, 0) = 0
      BY FS_EmptySet DEF UpTo
    <3>7. /\ fd'[c] = name[0] /\ text'[name[0]] = t /\ atOpen'[c] = NewLines(t)
      BY <1>p, <1>t, <2>1, <3>2 DEF CTypes, t
    <3>8. CountOK(c)'
      BY <3>1, <3>2, <3>3, <3>5, <3>6, <3>7 DEF CountOK, Counting
    <3>9. /\ \A q \in Procs \ {c} : UNCHANGED <<fd[q]>>
          /\ \A d \in Counters \ {c} : UNCHANGED <<atOpen[d]>>
      BY <1>t, <3>2 DEF CTypes
    <3> QED
      BY <1>2, <2>1, <3>2, <3>4, <3>8, <3>9
  <2>4. CASE LockCount(c) \/ UnlockCount(c)
    <3>1. /\ UNCHANGED <<fd, pos, count, atOpen>>
          /\ pc[c] \in Counting /\ pc'[c] \in Counting
          /\ pc'[c] \in {"unlock_eof", "counted"} => pc[c] = "unlock_eof"
      BY <1>p, <2>4 DEF LockCount, UnlockCount, At, Goto, Counting
    <3>2. CTypes'
      BY <1>t, <2>1, <3>1 DEF CTypes
    <3>3. CountOK(c)'
      BY <1>t, <2>1, <3>1 DEF CountOK
    <3> QED
      BY <1>2, <2>1, <3>1, <3>2, <3>3
  <2>5. CASE ReadChunk(c)
    <3>1. CountOK(c)' /\ pos' \in [Counters -> Nat] /\ count' \in [Counters -> Nat]
      BY <1>t, <2>5, CountRead DEF CInv
    <3>2. /\ UNCHANGED <<fd, atOpen>>
          /\ \A d \in Counters \ {c} : UNCHANGED <<pos[d], count[d]>>
      BY <1>t, <2>5 DEF ReadChunk, CTypes
    <3>3. CTypes'
      BY <1>t, <2>1, <3>1, <3>2 DEF CTypes
    <3> QED
      BY <1>2, <2>1, <3>1, <3>2, <3>3
  <2> QED
    BY <1>7, <2>2, <2>3, <2>4, <2>5 DEF CountLogLines
<1> QED
  BY <1>3, <1>4, <1>5, <1>6, <1>7 DEF Next

\* Nobody counts at the start.
LEMMA InitCInv == Init => CInv
<1> SUFFICES ASSUME Init PROVE CInv
  OBVIOUS
<1>1. CTypes
  BY DEF Init, CTypes
<1>2. \A c \in Counters : CountOK(c)
  BY DEF Init, CountOK, Counting, Procs
<1> QED
  BY <1>1, <1>2 DEF Init, CInv, Labelled

\* A count that is finished lies between the lines the file had when the counter opened
\* it and those it has now, however many chunks, appends, rotations and kills came between.
THEOREM CountTheorem == Spec => []CountBetween
<1>1. Spec => []IInv
  BY InitIInv, NextIInv, PTL DEF Spec
<1>2. CInv => CountBetween
  <2> SUFFICES ASSUME CInv, NEW c \in Counters, pc[c] = "counted"
               PROVE  count[c] \in atOpen[c] .. NewLines(text[fd[c]])
    BY DEF CountBetween
  <2> DEFINE t == text[fd[c]]
             n == pos[c]
  <2>1. /\ t \in Seq(Bytes) /\ Len(t) \in Nat /\ n \in Nat /\ n <= Len(t)
        /\ count[c] = UpTo(t, n) /\ count[c] \in Nat /\ atOpen[c] \in Nat
        /\ atOpen[c] <= count[c]
    BY DEF CInv, CTypes, CountOK, Counting
  <2> HIDE DEF t, n
  <2>2. NewLines(t) = UpTo(t, Len(t)) /\ NewLines(t) \in Nat
    BY <2>1, NewLinesOK, LineIsByte
  <2>3. UpTo(t, n) <= UpTo(t, Len(t))
    BY <2>1, UpToMore
  <2> QED
    BY <2>1, <2>2, <2>3 DEF t
<1> QED
  BY <1>1, <1>2, InitCInv, NextCInv, PTL DEF Spec
=============================================================================
