-------------------------- MODULE LoggedFile_proofs --------------------------
(***************************************************************************)
(* Proofs that a logged write is atomic (the refinement of AtomicFile) and *)
(* durable, for any size of the file, any writes, and any number of saves, *)
(* crashes and failing calls.                                              *)
(***************************************************************************)
EXTENDS LoggedFile, TLAPS

Log == [w : Writes \cup {NoWrite}, n : Nat, synced : Nat]

Creating == {"write_off", "write_len", "write_data", "fsync_log", "sync_log_dir"}
Applying == {"open_file", "apply", "fsync_file", "unlink_log"}
Opened == {"apply", "fsync_file", "unlink_log", "sync_dir"}
Quiet == {"idle", "create_log", "read_log"}

Types ==
  /\ file \in [Cells -> Bytes]
  /\ exists \in BOOLEAN
  /\ log \in [Inodes -> Log]
  /\ logName \in Inodes \cup {NoLog}
  /\ fileDisk \in [Cells -> SUBSET Bytes]
  /\ existsDisk \subseteq BOOLEAN
  /\ logNameDisk \subseteq Inodes \cup {NoLog}
  /\ pc \in Creating \cup Applying \cup Opened \cup Quiet
  /\ w \in Writes \cup {NoWrite}
  /\ ino \in Inodes \cup {NoLog}
  /\ nlogs \in 0 .. MaxSaves /\ nerrors \in Nat
  /\ pc \in Creating => ino \in Inodes /\ log[ino].w = w
  /\ pc \in Creating \cup {"create_log"} => w \in Writes
  /\ \A l \in Inodes : log[l].n \in {0, 1, 2, Size(log[l].w)}

\* what holds also after a call has failed: the last part of a command leaves the
\* file written, and the log unlinked
Ordered ==
  /\ pc \in Opened => exists
  /\ pc \in {"unlink_log", "sync_dir"} => \A c \in Cells : fileDisk[c] = {file[c]}
  /\ pc = "sync_dir" => logName = NoLog

\* the directory entry of the file: it may be lost only until the directory is synced,
\* and then no file was there since the last acknowledgement
Entry ==
  /\ ~ exists => file = NoFile
  /\ existsDisk \subseteq {exists} \/ (pc \in Opened /\ exists)
  /\ FALSE \in existsDisk => NoFile \in recent
  /\ FALSE \in existsDisk =>
       IF pc \in Opened THEN Overwrite(NoFile, w) = Overwrite(file, w) ELSE file = NoFile

\* the file on disk differs from the cached one only where it is being written
Cached ==
  \A c \in Cells :
    \/ fileDisk[c] = {file[c]}
    \/ pc = "fsync_file" /\ c \in w.off .. w.off + Len(w.data) - 1

\* the open log: it is complete when the file is touched, and on disk
InLog ==
  /\ ino \in Inodes /\ log[ino].w = w
  /\ pc \in {"write_off", "write_len"} => log[ino].n < 2
  /\ pc = "write_data" => log[ino].n = 2
  /\ pc \in {"fsync_log", "sync_log_dir"} => log[ino].n = Size(w)
  /\ pc = "sync_log_dir" => log[ino].synced = Size(w)
  /\ pc \in Applying \cup {"sync_dir"} => log[ino].n = Size(w) /\ log[ino].synced = Size(w)

\* the directory entry of the log, in each part of a command
Logged ==
  /\ pc \in Quiet =>
       logNameDisk = {logName} /\ (logName # NoLog => log[logName].synced = log[logName].n)
  /\ pc \in Creating => logName = ino /\ logNameDisk \subseteq {NoLog, ino} /\ file \in recent
  /\ pc \in Applying => logName = ino /\ logNameDisk = {ino}
  /\ pc = "sync_dir" => logNameDisk \subseteq {NoLog, ino}
  /\ pc \notin Quiet => InLog

\* what holds as long as no call has failed
Clean ==
  /\ Content \in recent
  /\ Entry /\ Cached /\ Logged
  /\ pc \in {"fsync_file", "unlink_log", "sync_dir"} => file = Overwrite(file, w)

IInv == Types /\ Ordered /\ (nerrors = 0 => Clean)

-----------------------------------------------------------------------------
(* What a write does to the content of a file.                             *)

\* any write that the program knows is one of bytes within the file
LEMMA WriteOK ==
  ASSUME NEW v \in Writes \cup {NoWrite}
  PROVE  /\ v.off \in Nat /\ v.data \in Seq(Vals) /\ Len(v.data) \in Nat
         /\ Size(v) \in Nat /\ Size(v) >= 2
<1>1. v.off \in Nat /\ v.data \in Seq(Vals)
  <2>1. CASE v \in Writes
    BY <2>1, BoundAssumption
  <2>2. CASE v = NoWrite
    <3>1. v.off = 0 /\ v.data = <<>>
      BY <2>2 DEF NoWrite
    <3> QED
      BY <3>1
  <2> QED
    BY <2>1, <2>2
<1>2. Len(v.data) \in Nat
  BY <1>1
<1> QED
  BY <1>1, <1>2 DEF Size

\* the content after a write, which does not change when the write is repeated
LEMMA OverwriteOK ==
  ASSUME NEW f \in [Cells -> Bytes], NEW v \in Writes \cup {NoWrite}
  PROVE  /\ Overwrite(f, v) \in [Cells -> Bytes]
         /\ Overwrite(Overwrite(f, v), v) = Overwrite(f, v)
         /\ Size(v) = 2 => Overwrite(f, v) = f
<1> DEFINE l == Len(v.data)
           In(c) == c \in v.off .. v.off + l - 1
           g == Overwrite(f, v)
           h == Overwrite(g, v)
<1>1. v.off \in Nat /\ v.data \in Seq(Vals) /\ l \in Nat /\ Cells \subseteq Nat
  BY WriteOK, BoundAssumption
<1>2. \A c \in Cells : In(c) => v.data[c - v.off + 1] \in Vals
  <2> SUFFICES ASSUME NEW c \in Cells, In(c) PROVE v.data[c - v.off + 1] \in Vals
    OBVIOUS
  <2>1. c - v.off + 1 \in 1 .. l
    BY <1>1
  <2> QED
    BY <1>1, <2>1
<1>3. g = [c \in Cells |-> IF In(c) THEN v.data[c - v.off + 1] ELSE f[c]]
  BY DEF Overwrite
<1>4. h = [c \in Cells |-> IF In(c) THEN v.data[c - v.off + 1] ELSE g[c]]
  BY DEF Overwrite
<1>5. Size(v) = 2 => l = 0
  BY <1>1 DEF Size
<1>6. l = 0 => \A c \in Cells : ~ In(c)
  BY <1>1
<1> HIDE DEF In, g, h, l
<1>7. g \in [Cells -> Bytes]
  BY <1>2, <1>3 DEF Bytes
<1>8. h = g
  BY <1>3, <1>4
<1>9. Size(v) = 2 => g = f
  BY <1>3, <1>5, <1>6
<1> QED
  BY <1>7, <1>8, <1>9 DEF g, h

\* a write makes contents equal that differ only where it writes
LEMMA OverwriteSame ==
  ASSUME NEW f, NEW g, NEW v,
         \A c \in Cells : f[c] = g[c] \/ c \in v.off .. v.off + Len(v.data) - 1
  PROVE  Overwrite(f, v) = Overwrite(g, v)
<1> DEFINE In(c) == c \in v.off .. v.off + Len(v.data) - 1
<1>1. \A c \in Cells : f[c] = g[c] \/ In(c)
  OBVIOUS
<1>2. /\ Overwrite(f, v) = [c \in Cells |-> IF In(c) THEN v.data[c - v.off + 1] ELSE f[c]]
      /\ Overwrite(g, v) = [c \in Cells |-> IF In(c) THEN v.data[c - v.off + 1] ELSE g[c]]
  BY DEF Overwrite
<1> HIDE DEF In
<1> QED
  BY <1>1, <1>2

-----------------------------------------------------------------------------
(* What a crash leaves.                                                    *)

\* a crash leaves a file, an entry of the log, and units of it
Left(left, l, k) ==
  /\ file' = left.file /\ exists' = left.exists
  /\ fileDisk' = [c \in Cells |-> {left.file[c]}]
  /\ existsDisk' = {left.exists}
  /\ logName' = l /\ logNameDisk' = {l}
  /\ log' = IF l = NoLog THEN log ELSE [log EXCEPT ![l].n = k, ![l].synced = k]

\* A crash leaves some file, some log and some units of that log.
LEMMA CrashLeaves ==
  ASSUME Crash
  PROVE  \E left \in FilesLeft, l \in logNameDisk : \E k \in UnitsLeft(l) : Left(left, l, k)
BY DEF Crash, Left

\* the file is there with some of its bytes as they were before, or is not there
LEMMA FileLeft ==
  ASSUME NEW left \in FilesLeft
  PROVE  \/ /\ left.exists = TRUE /\ TRUE \in existsDisk
            /\ left.file \in [Cells -> Bytes] /\ \A c \in Cells : left.file[c] \in fileDisk[c]
         \/ left.exists = FALSE /\ FALSE \in existsDisk /\ left.file = NoFile
<1> DEFINE G == { g \in [Cells -> Bytes] : \A c \in Cells : g[c] \in fileDisk[c] }
           There == { [exists |-> TRUE, file |-> f] : f \in G }
<1>1. \/ TRUE \in existsDisk /\ left \in There
      \/ FALSE \in existsDisk /\ left = [exists |-> FALSE, file |-> NoFile]
  BY DEF FilesLeft
<1>2. CASE TRUE \in existsDisk /\ left \in There
  <2>1. PICK f \in G : left = [exists |-> TRUE, file |-> f]
    BY <1>2
  <2>2. left.exists = TRUE /\ left.file = f
    BY <2>1
  <2> QED
    BY <1>2, <2>1, <2>2
<1>3. CASE FALSE \in existsDisk /\ left = [exists |-> FALSE, file |-> NoFile]
  BY <1>3
<1> QED
  BY <1>1, <1>2, <1>3

\* it is the cached file, but for the bytes of a write whose log is complete
LEMMA FileLeftClean ==
  ASSUME Types, Entry, Cached, NEW left \in FilesLeft
  PROVE  /\ left.file \in [Cells -> Bytes] /\ left.exists \in BOOLEAN
         /\ pc \notin Opened => left.file = file
         /\ pc \in Opened => Overwrite(left.file, w) = Overwrite(file, w)
         /\ pc \in Opened \ {"fsync_file"} =>
              left.file = file \/ (left.file = NoFile /\ NoFile \in recent)
         /\ left.exists = FALSE => left.file = NoFile /\ NoFile \in recent
<1>1. file \in [Cells -> Bytes] /\ NoFile \in [Cells -> Bytes]
  BY DEF Types, NoFile, Bytes
<1>2. CASE left.exists = FALSE /\ FALSE \in existsDisk /\ left.file = NoFile
  BY <1>1, <1>2 DEF Entry
<1>3. CASE /\ left.exists = TRUE /\ left.file \in [Cells -> Bytes]
           /\ \A c \in Cells : left.file[c] \in fileDisk[c]
  <2>1. \A c \in Cells : \/ left.file[c] = file[c]
                         \/ pc = "fsync_file" /\ c \in w.off .. w.off + Len(w.data) - 1
    BY <1>3 DEF Cached
  <2>2. pc # "fsync_file" => left.file = file
    BY <1>1, <1>3, <2>1
  <2>3. pc = "fsync_file" => Overwrite(left.file, w) = Overwrite(file, w)
    <3> SUFFICES ASSUME pc = "fsync_file" PROVE Overwrite(left.file, w) = Overwrite(file, w)
      OBVIOUS
    <3>1. \A c \in Cells : left.file[c] = file[c] \/ c \in w.off .. w.off + Len(w.data) - 1
      BY <2>1
    <3> HIDE DEF Types, Entry, Cached
    <3> QED
      BY <3>1, OverwriteSame
  <2> QED
    BY <1>3, <2>2, <2>3 DEF Opened
<1> QED
  BY <1>2, <1>3, FileLeft

\* Whatever is left of file, directory and log, recover makes a content of it that
\* there was since the last acknowledgement.
LEMMA VersionsKnown ==
  ASSUME Types, Ordered, Clean,
         NEW left \in FilesLeft, NEW l \in logNameDisk, NEW k \in UnitsLeft(l)
  PROVE  Recovered(left.file, l, k) \in recent
<1>f. /\ pc \notin Opened => left.file = file
      /\ pc \in Opened => Overwrite(left.file, w) = Overwrite(file, w)
      /\ pc \in Opened \ {"fsync_file"} =>
           left.file = file \/ (left.file = NoFile /\ NoFile \in recent)
  BY FileLeftClean DEF Clean
<1>l. l \in Inodes \cup {NoLog} /\ NoLog \notin Inodes
  BY DEF Types, Inodes, NoLog
<1>k. /\ l = NoLog => k = 0
      /\ l # NoLog => k \in log[l].synced .. log[l].n
  BY DEF UnitsLeft
<1>n. \A j \in Inodes : log[j].n \in Nat /\ log[j].synced \in Nat
  BY DEF Types, Log
<1>1. CASE pc \in Quiet
  <2>1. l = logName /\ left.file = file
    BY <1>1, <1>f DEF Clean, Logged, Quiet, Opened
  <2>2. k = Units(l)
    BY <1>1, <1>k, <1>l, <1>n, <2>1 DEF Clean, Logged, Units
  <2> QED
    BY <2>1, <2>2 DEF Clean, Content
<1>2. CASE pc \in Creating
  <2>1. /\ logName = ino /\ l \in {NoLog, ino} /\ file \in recent /\ left.file = file
        /\ ino \in Inodes /\ log[ino].w = w
    BY <1>2, <1>f DEF Clean, Logged, InLog, Creating, Opened, Quiet
  <2>2. CASE ~ (l # NoLog /\ k = Size(w))
    BY <2>1, <2>2 DEF Recovered
  <2>3. CASE l # NoLog /\ k = Size(w)
    <3>1. l = ino /\ k <= log[ino].n /\ log[ino].n \in {0, 1, 2, Size(w)}
      BY <1>k, <1>n, <2>1, <2>3 DEF Types
    <3>2. Size(w) \in Nat /\ Size(w) >= 2
      BY WriteOK DEF Types
    <3>3. log[ino].n = Size(w)
      BY <2>3, <3>1, <3>2
    <3> QED
      BY <2>1, <2>3, <3>1, <3>3, <1>l DEF Clean, Content, Recovered, Units
  <2> QED
    BY <2>2, <2>3
<1>3. CASE pc \in Applying
  <2>1. /\ logName = ino /\ l = ino /\ ino # NoLog
        /\ log[ino].w = w /\ log[ino].n = Size(w) /\ log[ino].synced = Size(w)
    BY <1>3, <1>l DEF Clean, Logged, InLog, Applying, Quiet
  <2>2. Size(w) \in Nat
    BY WriteOK DEF Types
  <2>3. k = Size(w)
    BY <1>k, <2>1, <2>2
  <2>4. Recovered(left.file, l, k) = Overwrite(left.file, w) /\ Content = Overwrite(file, w)
    BY <2>1, <2>3 DEF Recovered, Content, Units
  <2>5. Overwrite(left.file, w) = Overwrite(file, w)
    BY <1>f
  <2> QED
    BY <2>4, <2>5 DEF Clean
<1>4. CASE pc = "sync_dir"
  <2>1. /\ l \in {NoLog, ino} /\ ino # NoLog /\ logName = NoLog
        /\ log[ino].w = w /\ log[ino].n = Size(w) /\ log[ino].synced = Size(w)
        /\ file = Overwrite(file, w)
    BY <1>4, <1>l DEF Clean, Logged, InLog, Applying, Quiet, Ordered
  <2>2. Content = file
    BY <2>1 DEF Content, Recovered
  <2>3. CASE l = NoLog
    <3>1. Recovered(left.file, l, k) = left.file
      BY <2>3 DEF Recovered
    <3> QED
      BY <1>4, <1>f, <2>2, <3>1 DEF Clean, Opened
  <2>4. CASE l = ino
    <3>1. Size(w) \in Nat
      BY WriteOK DEF Types
    <3>2. k = Size(w)
      BY <1>k, <2>1, <2>4, <3>1
    <3>3. Recovered(left.file, l, k) = Overwrite(left.file, w)
      BY <2>1, <2>4, <3>2 DEF Recovered
    <3> QED
      BY <1>4, <1>f, <2>1, <2>2, <3>3 DEF Clean, Opened
  <2> QED
    BY <2>1, <2>3, <2>4
<1> QED
  BY <1>1, <1>2, <1>3, <1>4 DEF Types, Opened, Applying

-----------------------------------------------------------------------------
(* The invariant is inductive.                                             *)

\* At the start everything is on disk and there is no log.
LEMMA InitIInv == Init => IInv
<1> SUFFICES ASSUME Init PROVE IInv
  OBVIOUS
<1>1. file \in [Cells -> Bytes] /\ (~ exists => file = NoFile) /\ exists \in BOOLEAN
  BY DEF Init, NoFile, Bytes
<1>2. \A l \in Inodes : log[l] = [w |-> NoWrite, n |-> 0, synced |-> 0]
  BY DEF Init
<1>3. Types
  <2>1. log \in [Inodes -> Log]
    BY DEF Init, Log
  <2> QED
    BY <1>1, <1>2, <2>1, BoundAssumption
    DEF Init, Types, Quiet, Creating, Applying, Opened, Bytes
<1>4. Ordered
  BY DEF Init, Ordered, Opened
<1>5. Content = file
  BY DEF Init, Content, Recovered
<1>6. Clean
  <2>1. Entry
    BY <1>1 DEF Init, Entry, Opened
  <2>2. Cached
    BY DEF Init, Cached
  <2>3. Logged
    BY DEF Init, Logged, Quiet, Creating, Applying
  <2> QED
    BY <1>5, <2>1, <2>2, <2>3 DEF Init, Clean
<1> QED
  BY <1>3, <1>4, <1>6 DEF IInv

\* replacing one log by another
LEMMA LogReplaced ==
  ASSUME Types, NEW l \in Inodes, NEW y \in Log, y.n \in {0, 1, 2, Size(y.w)},
         log' = [log EXCEPT ![l] = y]
  PROVE  /\ log' \in [Inodes -> Log] /\ log'[l] = y
         /\ \A j \in Inodes \ {l} : log'[j] = log[j]
         /\ \A j \in Inodes : log'[j].n \in {0, 1, 2, Size(log'[j].w)}
<1>1. log \in [Inodes -> Log] /\ \A j \in Inodes : log[j].n \in {0, 1, 2, Size(log[j].w)}
  BY DEF Types
<1>2. log' \in [Inodes -> Log] /\ log'[l] = y /\ \A j \in Inodes \ {l} : log'[j] = log[j]
  BY <1>1
<1>3. ASSUME NEW j \in Inodes PROVE log'[j].n \in {0, 1, 2, Size(log'[j].w)}
  <2>1. CASE j = l
    BY <1>2, <2>1
  <2>2. CASE j # l
    <3>1. log'[j] = log[j]
      BY <1>2, <2>2
    <3> QED
      BY <1>1, <3>1
  <2> QED
    BY <2>1, <2>2
<1> QED
  BY <1>2, <1>3

\* appending units to the open log
LEMMA Appended ==
  ASSUME Types, NEW n, ino \in Inodes, n \in {0, 1, 2, Size(log[ino].w)},
         log' = [log EXCEPT ![ino].n = n]
  PROVE  /\ log' \in [Inodes -> Log]
         /\ log'[ino].w = log[ino].w /\ log'[ino].n = n /\ log'[ino].synced = log[ino].synced
         /\ \A j \in Inodes \ {ino} : log'[j] = log[j]
         /\ \A j \in Inodes : log'[j].n \in {0, 1, 2, Size(log'[j].w)}
<1> DEFINE y == [log[ino] EXCEPT !.n = n]
<1>1. log[ino] \in Log
  BY DEF Types
<1>2. Size(log[ino].w) \in Nat
  BY <1>1, WriteOK DEF Log
<1>3. n \in Nat
  BY <1>2
<1>4. y \in Log /\ y.n = n /\ y.w = log[ino].w /\ y.synced = log[ino].synced
  BY <1>1, <1>3 DEF Log
<1>5. y.n \in {0, 1, 2, Size(y.w)} /\ log' = [log EXCEPT ![ino] = y]
  BY <1>4
<1> HIDE DEF y
<1>6. /\ log' \in [Inodes -> Log] /\ log'[ino] = y
      /\ \A j \in Inodes \ {ino} : log'[j] = log[j]
      /\ \A j \in Inodes : log'[j].n \in {0, 1, 2, Size(log'[j].w)}
  BY <1>4, <1>5, LogReplaced
<1> QED
  BY <1>4, <1>6

\* syncing the open log
LEMMA Synced ==
  ASSUME Types, ino \in Inodes, log' = [log EXCEPT ![ino].synced = log[ino].n]
  PROVE  /\ log' \in [Inodes -> Log]
         /\ log'[ino].w = log[ino].w /\ log'[ino].n = log[ino].n
         /\ log'[ino].synced = log[ino].n
         /\ \A j \in Inodes \ {ino} : log'[j] = log[j]
         /\ \A j \in Inodes : log'[j].n \in {0, 1, 2, Size(log'[j].w)}
<1> DEFINE y == [log[ino] EXCEPT !.synced = log[ino].n]
<1>1. log[ino] \in Log /\ log[ino].n \in {0, 1, 2, Size(log[ino].w)}
  BY DEF Types
<1>4. y \in Log /\ y.n = log[ino].n /\ y.w = log[ino].w /\ y.synced = log[ino].n
  BY <1>1 DEF Log
<1>5. y.n \in {0, 1, 2, Size(y.w)} /\ log' = [log EXCEPT ![ino] = y]
  BY <1>1, <1>4
<1> HIDE DEF y
<1>6. /\ log' \in [Inodes -> Log] /\ log'[ino] = y
      /\ \A j \in Inodes \ {ino} : log'[j] = log[j]
      /\ \A j \in Inodes : log'[j].n \in {0, 1, 2, Size(log'[j].w)}
  BY <1>4, <1>5, LogReplaced
<1> QED
  BY <1>4, <1>6

\* a crash cuts the log that is left
LEMMA Cut ==
  ASSUME Types, NEW l \in Inodes, NEW k \in UnitsLeft(l),
         log' = [log EXCEPT ![l].n = k, ![l].synced = k]
  PROVE  /\ log' \in [Inodes -> Log]
         /\ log'[l].w = log[l].w /\ log'[l].n = k /\ log'[l].synced = k
         /\ \A j \in Inodes \ {l} : log'[j] = log[j]
         /\ \A j \in Inodes : log'[j].n \in {0, 1, 2, Size(log'[j].w)}
<1> DEFINE y == [log[l] EXCEPT !.n = k, !.synced = k]
<1>1. log[l] \in Log /\ log[l].n \in {0, 1, 2, Size(log[l].w)}
  BY DEF Types
<1>2. log[l].n \in Nat /\ log[l].synced \in Nat /\ l # NoLog
  BY <1>1 DEF Log, Inodes, NoLog
<1>3. k \in Nat /\ (k \in {0, 1, 2} \/ k = log[l].n)
  BY <1>2 DEF UnitsLeft
<1>4. y \in Log /\ y.n = k /\ y.w = log[l].w /\ y.synced = k
  BY <1>1, <1>3 DEF Log
<1>5. y.n \in {0, 1, 2, Size(y.w)}
  BY <1>1, <1>3, <1>4
<1>6. log' = [log EXCEPT ![l] = y]
  BY DEF Types
<1> HIDE DEF y
<1>7. /\ log' \in [Inodes -> Log] /\ log'[l] = y
      /\ \A j \in Inodes \ {l} : log'[j] = log[j]
      /\ \A j \in Inodes : log'[j].n \in {0, 1, 2, Size(log'[j].w)}
  BY <1>4, <1>5, <1>6, LogReplaced
<1> QED
  BY <1>4, <1>7

\* Every step keeps the types.
LEMMA NextTypes == Types /\ [Next]_vars => Types'
<1> SUFFICES ASSUME Types, [Next]_vars PROVE Types'
  OBVIOUS
<1> USE DEF Types, disk, bounds, Goto, End, Creating, Applying, Opened, Quiet
<1>0. CASE UNCHANGED vars
  BY <1>0 DEF vars, Size
<1>1. ASSUME NEW write \in Writes, Save(write) PROVE Types'
  BY <1>1 DEF Save
<1>2. CASE CreateLog
  <2>1. CASE logName # NoLog
    BY <1>2, <2>1 DEF CreateLog
  <2>2. CASE logName = NoLog
    <3> DEFINE y == [w |-> w, n |-> 0, synced |-> 0]
    <3>1. nlogs' = nlogs + 1 /\ nlogs' \in Inodes /\ ino' = nlogs' /\ nlogs' \in 0 .. MaxSaves
      BY <1>2, <2>2, BoundAssumption DEF CreateLog, Inodes
    <3>2. y \in Log /\ y.n = 0 /\ y.w = w /\ log' = [log EXCEPT ![nlogs'] = y]
      BY <1>2, <2>2, <3>1 DEF CreateLog, Log
    <3> HIDE DEF y
    <3>3. /\ log' \in [Inodes -> Log] /\ log'[nlogs'] = y
          /\ \A j \in Inodes : log'[j].n \in {0, 1, 2, Size(log'[j].w)}
      BY <3>1, <3>2, LogReplaced
    <3>4. logName' = nlogs' /\ ino' = nlogs' /\ log'[ino'].w = w
      BY <1>2, <2>2, <3>1, <3>2, <3>3 DEF CreateLog
    <3> QED
      BY <1>2, <3>1, <3>3, <3>4 DEF CreateLog
  <2> QED
    BY <2>1, <2>2
<1>3. ASSUME NEW from \in Creating, NEW n \in {1, 2, Size(log[ino].w)}, NEW to \in Creating,
             AppendLog(from, n, to)
      PROVE  Types'
  <2>1. ino \in Inodes /\ w \in Writes /\ log[ino].w = w /\ log' = [log EXCEPT ![ino].n = n]
    BY <1>3 DEF AppendLog
  <2>2. /\ log' \in [Inodes -> Log] /\ log'[ino].w = w
        /\ \A j \in Inodes : log'[j].n \in {0, 1, 2, Size(log'[j].w)}
    <3> HIDE DEF Types
    <3> QED
      BY <2>1, Appended
  <2>3. /\ UNCHANGED <<file, exists, logName, fileDisk, existsDisk, logNameDisk, w, ino, nlogs, nerrors>>
        /\ pc' = to
    BY <1>3 DEF AppendLog
  <2> QED
    BY <2>1, <2>2, <2>3
<1>4. CASE WriteOffset \/ WriteLength
  BY <1>3, <1>4 DEF WriteOffset, WriteLength
<1>5. CASE WriteData
  <2>1. pc = "write_data" /\ log[ino].w = w /\ AppendLog("write_data", Size(w), "fsync_log")
    BY <1>5 DEF WriteData, AppendLog
  <2> QED
    BY <1>3, <2>1
<1>6. CASE FsyncLog
  <2>1. /\ ino \in Inodes /\ w \in Writes /\ log[ino].w = w
        /\ log' = [log EXCEPT ![ino].synced = log[ino].n]
    BY <1>6 DEF FsyncLog
  <2>3. /\ log' \in [Inodes -> Log] /\ log'[ino].w = w
        /\ \A j \in Inodes : log'[j].n \in {0, 1, 2, Size(log'[j].w)}
    <3> HIDE DEF Types
    <3> QED
      BY <2>1, Synced
  <2>4. /\ UNCHANGED <<file, exists, logName, fileDisk, existsDisk, logNameDisk, w, ino, nlogs, nerrors>>
        /\ pc' = "sync_log_dir"
    BY <1>6 DEF FsyncLog
  <2> QED
    BY <2>1, <2>3, <2>4
<1>7. CASE SyncLogDir
  BY <1>7 DEF SyncLogDir, SyncDir
<1>8. CASE OpenFile
  BY <1>8 DEF OpenFile
<1>9. CASE Apply
  <2>1. file' \in [Cells -> Bytes]
    BY <1>9, OverwriteOK DEF Apply
  <2> QED
    BY <1>9, <2>1 DEF Apply
<1>10. CASE FsyncFile
  BY <1>10 DEF FsyncFile
<1>11. CASE UnlinkLog
  BY <1>11 DEF UnlinkLog, NoLog
<1>12. CASE Finish
  BY <1>12 DEF Finish, SyncDir
<1>13. CASE Recover
  BY <1>13 DEF Recover
<1>14. CASE ReadLog
  <2>1. CASE DataIsNull
    BY <1>14, <2>1 DEF ReadLog
  <2>2. CASE ~ DataIsNull
    <3>1. logName \in Inodes
      BY <2>2 DEF DataIsNull, Units, NoLog
    <3>2. log[logName].w \in Writes \cup {NoWrite}
      BY <3>1 DEF Log
    <3> QED
      BY <1>14, <2>2, <3>1, <3>2 DEF ReadLog
  <2> QED
    BY <2>1, <2>2
<1>15. CASE Fail
  BY <1>15 DEF Fail
<1>16. CASE Crash
  <2>1. PICK left \in FilesLeft, l \in logNameDisk : \E k \in UnitsLeft(l) : Left(left, l, k)
    BY <1>16, CrashLeaves
  <2>k. PICK k \in UnitsLeft(l) : Left(left, l, k)
    BY <2>1
  <2>2. left.exists \in BOOLEAN /\ left.file \in [Cells -> Bytes]
    BY FileLeft DEF NoFile, Bytes
  <2>3. log' \in [Inodes -> Log] /\ \A j \in Inodes : log'[j].n \in {0, 1, 2, Size(log'[j].w)}
    <3>1. CASE l = NoLog
      BY <2>k, <3>1 DEF Left
    <3>2. CASE l # NoLog
      <4>1. l \in Inodes /\ log' = [log EXCEPT ![l].n = k, ![l].synced = k]
        BY <2>k, <3>2 DEF Left
      <4> HIDE DEF Types
      <4> QED
        BY <4>1, Cut
    <3> QED
      BY <3>1, <3>2
  <2>4. UNCHANGED <<w, ino, nlogs, nerrors>> /\ pc' = "idle"
    BY <1>16 DEF Crash
  <2> QED
    BY <2>1, <2>k, <2>2, <2>3, <2>4 DEF Left
<1> QED
  BY <1>0, <1>1, <1>2, <1>4, <1>5, <1>6, <1>7, <1>8, <1>9, <1>10, <1>11,
     <1>12, <1>13, <1>14, <1>15, <1>16 DEF Next

\* Every step keeps the order in which certainty is gained: nothing on disk is ahead of the call that syncs it.
LEMMA NextOrdered == Types /\ Ordered /\ [Next]_vars => Ordered'
<1> SUFFICES ASSUME Types, Ordered, [Next]_vars PROVE Ordered'
  OBVIOUS
<1> USE DEF Ordered, disk, Goto, End, Opened
<1>1. CASE UNCHANGED vars \/ Fail
  BY <1>1 DEF vars, Fail
<1>2. ASSUME NEW write \in Writes, Save(write) PROVE Ordered'
  BY <1>2 DEF Save
<1>3. CASE CreateLog \/ WriteOffset \/ WriteLength \/ WriteData \/ FsyncLog \/ SyncLogDir
  BY <1>3 DEF CreateLog, WriteOffset, WriteLength, WriteData, AppendLog, FsyncLog, SyncLogDir
<1>4. CASE OpenFile \/ Apply \/ FsyncFile \/ UnlinkLog \/ Finish
  BY <1>4 DEF OpenFile, Apply, FsyncFile, UnlinkLog, Finish
<1>5. CASE Recover \/ ReadLog
  BY <1>5 DEF Recover, ReadLog
<1>6. CASE Crash
  BY <1>6 DEF Crash
<1> QED
  BY <1>1, <1>2, <1>3, <1>4, <1>5, <1>6 DEF Next

\* the content depends on the file and the log that is named
LEMMA SameContent ==
  ASSUME UNCHANGED <<file, logName>>,
         logName # NoLog => log'[logName].n = log[logName].n /\ log'[logName].w = log[logName].w
  PROVE  Content' = Content
BY DEF Content, Recovered, Units

\* with a complete log, the content is the file with the write done
LEMMA LogComplete ==
  ASSUME logName = ino, InLog, log[ino].n = Size(w)
  PROVE  Content = Overwrite(file, w)
BY DEF Content, Recovered, Units, InLog, Inodes, NoLog

\* the steps of a command up to the end of the log
LEMMA CleanSave ==
  ASSUME Types, Types', Ordered, Clean,
         CreateLog \/ WriteOffset \/ WriteLength \/ WriteData \/ FsyncLog \/ SyncLogDir
  PROVE  Clean'
<1> USE DEF disk, bounds, Goto, End, Creating, Applying, Opened, Quiet
<1>1. ASSUME UNCHANGED <<file, exists, fileDisk, existsDisk, w>>, recent \subseteq recent',
             pc \notin Opened, pc' \notin Opened
      PROVE  Entry' /\ Cached'
  BY <1>1 DEF Clean, Entry, Cached, NoFile
<1>2. CASE CreateLog
  <2>1. CASE logName # NoLog
    <3>1. /\ UNCHANGED <<file, exists, log, logName, logNameDisk, fileDisk, existsDisk, w, recent>>
          /\ pc = "create_log" /\ pc' = "idle"
      BY <1>2, <2>1 DEF CreateLog
    <3>2. Entry' /\ Cached'
      BY <1>1, <3>1
    <3>3. Content' = Content
      BY <3>1, SameContent
    <3>4. Logged'
      BY <3>1 DEF Clean, Logged
    <3> QED
      BY <3>1, <3>2, <3>3, <3>4 DEF Clean
  <2>2. CASE logName = NoLog
    <3> DEFINE y == [w |-> w, n |-> 0, synced |-> 0]
    <3>1. /\ UNCHANGED <<file, exists, fileDisk, existsDisk, w, recent>>
          /\ pc = "create_log" /\ pc' = "write_off" /\ logNameDisk' = logNameDisk \cup {ino'}
          /\ logName' = ino' /\ log' = [log EXCEPT ![ino'] = y]
      BY <1>2, <2>2 DEF CreateLog
    <3>2. Entry' /\ Cached'
      BY <1>1, <3>1
    <3>3. ino' \in Inodes /\ log'[ino'] = y /\ w \in Writes
      BY <3>1 DEF Types
    <3>4. Size(w) \in Nat /\ Size(w) >= 2
      BY <3>3, WriteOK
    <3>5. Content' = file /\ Content = file
      BY <2>2, <3>1, <3>3, <3>4 DEF Content, Recovered, Units, Inodes, NoLog
    <3>6. Logged'
      <4>1. logNameDisk = {NoLog}
        BY <2>2, <3>1 DEF Clean, Logged
      <4> QED
        BY <3>1, <3>3, <3>5, <4>1 DEF Clean, Logged, InLog
    <3> QED
      BY <3>1, <3>2, <3>5, <3>6 DEF Clean
  <2> QED
    BY <2>1, <2>2
<1>3. ASSUME NEW from, NEW n \in {1, 2, Size(w)}, NEW to, AppendLog(from, n, to),
             from \in Creating, to \in Creating,
             to = "write_len" => n < 2,
             to = "write_data" => n = 2,
             to \in {"fsync_log", "sync_log_dir"} => n = Size(w),
             to \notin {"write_off", "sync_log_dir"}
      PROVE  Clean'
  <2>1. /\ UNCHANGED <<file, exists, logName, logNameDisk, fileDisk, existsDisk, w, ino>>
        /\ pc = from /\ pc' = to /\ log' = [log EXCEPT ![ino].n = n]
        /\ recent' = recent \cup {Content'}
    BY <1>3 DEF AppendLog
  <2>2. ino \in Inodes /\ log[ino].w = w /\ logName = ino /\ logNameDisk \subseteq {NoLog, ino}
        /\ file \in recent
    BY <1>3, <2>1 DEF Clean, Logged, InLog
  <2>3. log'[ino].w = w /\ log'[ino].n = n
    BY <2>1, <2>2 DEF Types, Log
  <2>4. Entry' /\ Cached'
    BY <1>1, <1>3, <2>1
  <2>5. InLog'
    BY <1>3, <2>1, <2>2, <2>3 DEF InLog
  <2>6. Logged'
    BY <1>3, <2>1, <2>2, <2>5 DEF Logged
  <2> QED
    BY <1>3, <2>1, <2>4, <2>6 DEF Clean
<1>4. CASE WriteOffset
  BY <1>3, <1>4 DEF WriteOffset
<1>5. CASE WriteLength
  BY <1>3, <1>5 DEF WriteLength
<1>6. CASE WriteData
  BY <1>3, <1>6 DEF WriteData
<1>7. CASE FsyncLog
  <2>1. /\ UNCHANGED <<file, exists, logName, logNameDisk, fileDisk, existsDisk, w, ino, recent>>
        /\ pc = "fsync_log" /\ pc' = "sync_log_dir"
        /\ log' = [log EXCEPT ![ino].synced = log[ino].n]
    BY <1>7 DEF FsyncLog
  <2>2. ino \in Inodes /\ log[ino].w = w /\ log[ino].n = Size(w) /\ logName = ino
        /\ logNameDisk \subseteq {NoLog, ino} /\ file \in recent
    BY <2>1 DEF Clean, Logged, InLog
  <2>3. log'[ino].w = w /\ log'[ino].n = Size(w) /\ log'[ino].synced = Size(w)
    BY <2>1, <2>2 DEF Types, Log
  <2>4. Entry' /\ Cached'
    BY <1>1, <2>1
  <2>5. Content' = Content
    BY <2>1, <2>2, <2>3, SameContent
  <2>6. Logged'
    BY <2>1, <2>2, <2>3 DEF Logged, InLog
  <2> QED
    BY <2>1, <2>4, <2>5, <2>6 DEF Clean
<1>8. CASE SyncLogDir
  <2>1. /\ UNCHANGED <<file, exists, log, logName, fileDisk, w, ino, recent>>
        /\ pc = "sync_log_dir" /\ pc' = "open_file"
        /\ logNameDisk' = {logName} /\ existsDisk' = {exists}
    BY <1>8 DEF SyncLogDir, SyncDir
  <2>2. Content' = Content
    BY <2>1, SameContent
  <2>3. Logged'
    BY <2>1 DEF Clean, Logged, InLog
  <2>4. Entry' /\ Cached'
    BY <2>1 DEF Clean, Logged, Entry, Cached, NoFile
  <2> QED
    BY <2>1, <2>2, <2>3, <2>4 DEF Clean
<1> QED
  BY <1>2, <1>4, <1>5, <1>6, <1>7, <1>8

\* the steps that touch the file and delete the log
LEMMA CleanApply ==
  ASSUME Types, Types', Ordered, Ordered', Clean,
         OpenFile \/ Apply \/ FsyncFile \/ UnlinkLog \/ Finish
  PROVE  Clean'
<1> USE DEF disk, bounds, Goto, End, Creating, Applying, Opened, Quiet
<1>1. CASE OpenFile
  <2>1. /\ UNCHANGED <<file, log, logName, logNameDisk, fileDisk, w, ino, recent>>
        /\ pc = "open_file" /\ pc' = "apply"
        /\ exists' /\ existsDisk' = existsDisk \cup {TRUE}
    BY <1>1 DEF OpenFile
  <2>2. Content' = Content
    BY <2>1, SameContent
  <2>3. Logged'
    BY <2>1 DEF Clean, Logged, InLog
  <2>4. Entry' /\ Cached'
    BY <2>1 DEF Clean, Entry, Cached, NoFile, Overwrite
  <2> QED
    BY <2>1, <2>2, <2>3, <2>4 DEF Clean
<1>2. CASE Apply
  <2>1. /\ UNCHANGED <<exists, log, logName, existsDisk, logNameDisk, w, ino, recent>>
        /\ pc = "apply" /\ pc' = "fsync_file"
        /\ file' = Overwrite(file, w)
        /\ fileDisk' = [c \in Cells |-> fileDisk[c] \cup {file'[c]}]
    BY <1>2 DEF Apply
  <2>2. Overwrite(file', w) = Overwrite(file, w)
    BY <2>1, OverwriteOK DEF Types
  <2>3. logName = ino /\ InLog /\ log[ino].n = Size(w)
    BY <2>1 DEF Clean, Logged, InLog
  <2>4. logName' = ino' /\ InLog' /\ log'[ino'].n = Size(w')
    BY <2>1, <2>3 DEF InLog, Size
  <2>5. Content' = Overwrite(file', w)
    BY <2>1, <2>3, <2>4 DEF Content, Recovered, Units, InLog, Inodes, NoLog
  <2>6. Content = Overwrite(file, w)
    BY <2>3, LogComplete
  <2>7. Entry'
    BY <2>1, <2>2 DEF Clean, Entry, Ordered, NoFile
  <2>8. Cached'
    BY <2>1 DEF Clean, Cached, Overwrite, Types
  <2>9. Logged'
    BY <2>1, <2>4 DEF Clean, Logged
  <2> QED
    BY <2>1, <2>2, <2>5, <2>6, <2>7, <2>8, <2>9 DEF Clean
<1>3. CASE FsyncFile
  <2>1. /\ UNCHANGED <<file, exists, log, logName, existsDisk, logNameDisk, w, ino, recent>>
        /\ pc = "fsync_file" /\ pc' = "unlink_log"
        /\ fileDisk' = [c \in Cells |-> {file[c]}]
    BY <1>3 DEF FsyncFile
  <2>2. Content' = Content
    BY <2>1, SameContent
  <2>3. Logged'
    BY <2>1 DEF Clean, Logged, InLog
  <2>4. Entry'
    BY <2>1 DEF Clean, Entry, NoFile
  <2>5. Cached'
    BY <2>1 DEF Cached
  <2> QED
    BY <2>1, <2>2, <2>3, <2>4, <2>5 DEF Clean, Overwrite
<1>4. CASE UnlinkLog
  <2>1. /\ UNCHANGED <<file, exists, log, fileDisk, existsDisk, w, ino, recent>>
        /\ pc = "unlink_log" /\ pc' = "sync_dir"
        /\ logName' = NoLog /\ logNameDisk' = logNameDisk \cup {NoLog}
    BY <1>4 DEF UnlinkLog
  <2>2. logName = ino /\ InLog /\ log[ino].n = Size(w) /\ file = Overwrite(file, w)
    BY <2>1 DEF Clean, Logged, InLog
  <2>3. Content = file
    BY <2>2, LogComplete
  <2>4. Content' = file
    BY <2>1 DEF Content, Recovered
  <2>5. Logged'
    BY <2>1 DEF Clean, Logged, InLog
  <2>6. Entry' /\ Cached'
    BY <2>1 DEF Clean, Entry, Cached, NoFile, Overwrite
  <2> QED
    BY <2>1, <2>2, <2>3, <2>4, <2>5, <2>6 DEF Clean, Overwrite
<1>5. CASE Finish
  <2>1. /\ UNCHANGED <<file, exists, log, logName, fileDisk, w, ino>>
        /\ pc = "sync_dir" /\ pc' = "idle" /\ recent' = {file}
        /\ logNameDisk' = {logName} /\ existsDisk' = {exists}
        /\ logName = NoLog /\ exists
    BY <1>5 DEF Finish, SyncDir, Ordered
  <2>2. Content' = file
    BY <2>1 DEF Content, Recovered
  <2>3. Logged'
    BY <2>1 DEF Logged
  <2>4. Entry' /\ Cached'
    BY <2>1 DEF Clean, Entry, Cached
  <2> QED
    BY <2>1, <2>2, <2>3, <2>4 DEF Clean
<1> QED
  BY <1>1, <1>2, <1>3, <1>4, <1>5

\* the steps between commands, and those of recover up to the write
LEMMA CleanStart ==
  ASSUME Types, Ordered, Clean,
         (\E write \in Writes : Save(write)) \/ Recover \/ ReadLog
  PROVE  Clean'
<1> USE DEF disk, bounds, Goto, End, Creating, Applying, Opened, Quiet
<1>1. /\ UNCHANGED <<file, exists, log, logName, fileDisk, existsDisk, logNameDisk, recent>>
      /\ pc \in {"idle", "read_log"}
  BY DEF Save, Recover, ReadLog
<1>2. Content' = Content
  BY <1>1, SameContent
<1>3. Entry' /\ Cached' /\ pc' \notin {"fsync_file", "unlink_log", "sync_dir"}
  BY <1>1 DEF Clean, Entry, Cached, NoFile, Save, Recover, ReadLog
<1>4. Logged'
  <2>1. CASE pc' \in Quiet
    BY <1>1, <2>1 DEF Clean, Logged
  <2>2. CASE pc' \notin Quiet
    <3>1. /\ ~ DataIsNull /\ pc = "read_log" /\ pc' = "open_file"
          /\ w' = log[logName].w /\ ino' = logName
      BY <2>2 DEF Save, Recover, ReadLog
    <3>2. logName \in Inodes
      BY <3>1 DEF DataIsNull, Units, NoLog, Types
    <3>3. log[logName].n \in {0, 1, 2, Size(log[logName].w)} /\ log[logName].w \in Writes \cup {NoWrite}
      BY <3>2 DEF Types, Log
    <3>4. Size(log[logName].w) \in Nat
      BY <3>3, WriteOK
    <3>5. log[logName].n = Size(log[logName].w)
      BY <3>1, <3>2, <3>3, <3>4 DEF DataIsNull, Units, Inodes, NoLog
    <3>6. logNameDisk = {logName} /\ log[logName].synced = log[logName].n
      BY <3>1, <3>2 DEF Clean, Logged, Inodes, NoLog
    <3>7. InLog'
      BY <1>1, <3>1, <3>2, <3>5, <3>6 DEF InLog, Size
    <3> QED
      BY <1>1, <3>1, <3>6, <3>7 DEF Logged
  <2> QED
    BY <2>1, <2>2
<1> QED
  BY <1>1, <1>2, <1>3, <1>4 DEF Clean

\* After a crash the cache shows what was left on disk, all of it certain.
LEMMA CleanCrash ==
  ASSUME Types, Types', Ordered, Clean, Crash
  PROVE  Clean'
<1>1. PICK left \in FilesLeft, l \in logNameDisk : \E k \in UnitsLeft(l) : Left(left, l, k)
  BY CrashLeaves
<1>2. PICK k \in UnitsLeft(l) : Left(left, l, k)
  BY <1>1
<1>3. recent' = recent /\ w' = w /\ pc' = "idle"
  BY DEF Crash, End
<1>4. Recovered(left.file, l, k) \in recent
  BY <1>1, <1>2, VersionsKnown
<1>5. /\ left.file \in [Cells -> Bytes] /\ left.exists \in BOOLEAN
      /\ left.exists = FALSE => left.file = NoFile /\ NoFile \in recent
  BY <1>1, FileLeftClean DEF Clean
<1>6. l \in Inodes \cup {NoLog} /\ NoLog \notin Inodes
  BY <1>1 DEF Types, Inodes, NoLog
<1>7. l # NoLog => log'[l].w = log[l].w /\ log'[l].n = k /\ log'[l].synced = k
  <2> SUFFICES ASSUME l # NoLog PROVE log'[l].w = log[l].w /\ log'[l].n = k /\ log'[l].synced = k
    OBVIOUS
  <2>1. l \in Inodes /\ log' = [log EXCEPT ![l].n = k, ![l].synced = k]
    BY <1>2, <1>6 DEF Left
  <2> QED
    BY <1>2, <2>1, Cut
<1>8. Content' = Recovered(left.file, l, k)
  BY <1>2, <1>7 DEF Left, Content, Recovered, Units, Size
<1>9. Entry' /\ Cached'
  BY <1>2, <1>3, <1>5 DEF Left, Entry, Cached, NoFile, Opened
<1>10. Logged'
  BY <1>2, <1>3, <1>7 DEF Left, Logged, Quiet, Creating, Applying
<1> QED
  BY <1>3, <1>4, <1>8, <1>9, <1>10 DEF Clean

\* as long as no call has failed, none had before
LEMMA NoErrorStep ==
  ASSUME Types, [Next]_vars, nerrors' = 0
  PROVE  nerrors = 0 /\ ~ Fail
<1>1. CASE Fail
  BY <1>1 DEF Fail, Types
<1>2. CASE ~ Fail
  BY <1>2 DEF Next, vars, bounds, Goto, Save, CreateLog, WriteOffset, WriteLength, WriteData,
     AppendLog, FsyncLog, SyncLogDir, OpenFile, Apply, FsyncFile, UnlinkLog, Finish, Recover,
     ReadLog, Crash
<1> QED
  BY <1>1, <1>2

\* The invariant that both theorems rest on holds initially, and every step keeps it.
LEMMA NextIInv == IInv /\ [Next]_vars => IInv'
<1> SUFFICES ASSUME IInv, [Next]_vars PROVE IInv'
  OBVIOUS
<1>1. Types /\ Ordered /\ Types' /\ Ordered'
  BY NextTypes, NextOrdered DEF IInv
<1>2. nerrors' = 0 => nerrors = 0 /\ ~ Fail
  BY <1>1, NoErrorStep
<1>3. ASSUME nerrors' = 0 PROVE Clean'
  <2>1. Clean /\ ~ Fail
    BY <1>2, <1>3 DEF IInv
  <2>2. CASE UNCHANGED vars
    <3> USE <2>2 DEF vars, disk
    <3>1. Content' = Content
      BY DEF Content, Recovered, Units, Size, Overwrite
    <3>2. Entry' /\ Cached'
      BY <2>1 DEF Clean, Entry, Cached, NoFile, Overwrite
    <3>3. InLog => InLog'
      BY DEF InLog, Size
    <3>4. Logged'
      BY <2>1, <3>3 DEF Clean, Logged
    <3>5. Overwrite(file, w)' = Overwrite(file, w)
      BY DEF Overwrite
    <3> QED
      BY <2>1, <3>1, <3>2, <3>4, <3>5 DEF Clean
  <2>3. CASE Next
    BY <1>1, <2>1, <2>3, CleanSave, CleanApply, CleanStart, CleanCrash DEF Next
  <2> QED
    BY <2>2, <2>3
<1> QED
  BY <1>1, <1>3 DEF IInv

\* The invariant holds in every state of every behaviour.
THEOREM Invariant == Spec => []IInv
BY InitIInv, NextIInv, PTL DEF Spec

-----------------------------------------------------------------------------
(* Durability.                                                             *)

\* What a command that has ended well leaves on disk is certain, also after earlier
\* calls have failed.
Durable ==
  ret = "ok" /\ pc = "idle" =>
    /\ fileDisk = [c \in Cells |-> {file[c]}]
    /\ logNameDisk = {NoLog} /\ existsDisk = {TRUE}

\* When everything is on disk, a crash after the return loses nothing of the returned save.
LEMMA DurableVersion ==
  ASSUME Types, Durable
  PROVE  DurableOnReturn
<1> SUFFICES ASSUME ret = "ok", pc = "idle"
             PROVE  Versions = {file} /\ logNameDisk = {NoLog} /\ existsDisk = {TRUE}
  BY DEF DurableOnReturn
<1>1. /\ fileDisk = [c \in Cells |-> {file[c]}]
      /\ logNameDisk = {NoLog} /\ existsDisk = {TRUE}
  BY DEF Durable
<1>2. file \in [Cells -> Bytes]
  BY DEF Types
<1>3. { g \in [Cells -> Bytes] : \A c \in Cells : g[c] \in fileDisk[c] } = {file}
  BY <1>1, <1>2
<1>4. FilesLeft = { [exists |-> TRUE, file |-> file] }
  BY <1>1, <1>3 DEF FilesLeft
<1>5. UnitsLeft(NoLog) = {0}
  BY DEF UnitsLeft
<1> DEFINE left == [exists |-> TRUE, file |-> file]
<1>6. UNION { { <<a, l, k>> : k \in UnitsLeft(l) } : a \in FilesLeft, l \in logNameDisk }
        = { <<left, NoLog, 0>> }
  <2> DEFINE T(a, l) == { <<a, l, k>> : k \in UnitsLeft(l) }
             S == { T(a, l) : a \in FilesLeft, l \in logNameDisk }
  <2>1. T(left, NoLog) = { <<left, NoLog, 0>> }
    BY <1>5
  <2>2. FilesLeft = {left} /\ logNameDisk = {NoLog}
    BY <1>1, <1>4
  <2> HIDE DEF T, left
  <2>3. S = { T(left, NoLog) }
    BY <2>2
  <2>4. UNION S = { <<left, NoLog, 0>> }
    BY <2>1, <2>3
  <2> QED
    BY <2>4 DEF T
<1>7. Versions = { Recovered(left.file, NoLog, 0) }
  <2> DEFINE O == UNION { { <<a, l, k>> : k \in UnitsLeft(l) } : a \in FilesLeft, l \in logNameDisk }
             F(o) == Recovered(o[1].file, o[2], o[3])
  <2>1. Versions = { F(o) : o \in O }
    BY DEF Versions
  <2>2. F(<<left, NoLog, 0>>) = Recovered(left.file, NoLog, 0)
    OBVIOUS
  <2>3. O = { <<left, NoLog, 0>> }
    BY <1>6
  <2> HIDE DEF O, F, left
  <2>4. Versions = { F(<<left, NoLog, 0>>) }
    BY <2>1, <2>3
  <2> QED
    BY <2>2, <2>4
<1>8. Recovered(left.file, NoLog, 0) = file
  BY DEF Recovered
<1> QED
  BY <1>1, <1>7, <1>8

\* the state of the disk changes only while ret says that a command is running or has failed
LEMMA NextDurable == Types /\ Ordered /\ Durable /\ [Next]_vars => Durable'
<1> SUFFICES ASSUME Types, Ordered, Durable, [Next]_vars PROVE Durable'
  OBVIOUS
<1> USE DEF Durable, disk, Goto, End
<1>1. CASE UNCHANGED vars
  BY <1>1 DEF vars
<1>2. CASE Finish
  <2>1. \A c \in Cells : fileDisk[c] = {file[c]}
    BY <1>2 DEF Finish, Ordered
  <2>2. fileDisk = [c \in Cells |-> {file[c]}]
    BY <2>1 DEF Types
  <2> QED
    BY <1>2, <2>2 DEF Finish, SyncDir, Ordered, Opened
<1>3. CASE ~ Finish /\ Next
  <2>1. ~ (ret' = "ok" /\ pc' = "idle")
    BY <1>3 DEF Next, Save, CreateLog, WriteOffset, WriteLength, WriteData, AppendLog, FsyncLog,
       SyncLogDir, OpenFile, Apply, FsyncFile, UnlinkLog, Recover, ReadLog, Fail, Crash
  <2> QED
    BY <2>1
<1> QED
  BY <1>1, <1>2, <1>3

\* Once save or recover has ended well, no crash loses the write or brings the log back:
\* for any number of crashes and failing calls before.
THEOREM SavedIsDurable == Spec => []DurableOnReturn
<1>1. Init => Durable
  BY DEF Init, Durable
<1>2. Types /\ Ordered /\ Durable /\ [Next]_vars => Durable'
  BY NextDurable
<1>3. Types /\ Durable => DurableOnReturn
  BY DurableVersion
<1> QED
  BY <1>1, <1>2, <1>3, Invariant, PTL DEF Spec, IInv

-----------------------------------------------------------------------------
(* Atomicity: a command is one Put, when the last byte of its log is there, *)
(* and one Acknowledge, when it ends; all its other steps are invisible.   *)

\* while the log is being written, the content is the file, and afterwards it is the
\* file with the write done
LEMMA LogPartial ==
  ASSUME Types, logName = ino, ino \in Inodes, log[ino].w = w, log[ino].n \in {0, 1, 2}
  PROVE  Content = file
<1>1. file \in [Cells -> Bytes] /\ w \in Writes \cup {NoWrite}
  BY DEF Types
<1>2. Size(w) \in Nat /\ Size(w) >= 2
  BY <1>1, WriteOK
<1>3. Size(w) = 2 => Overwrite(file, w) = file
  BY <1>1, OverwriteOK
<1>4. log[ino].n = Size(w) => Size(w) = 2
  BY <1>2
<1> QED
  BY <1>3, <1>4 DEF Content, Recovered, Units, Inodes, NoLog

\* the same of the next state
LEMMA LogPartialNext ==
  ASSUME Types', logName' = ino', ino' \in Inodes, log'[ino'].w = w', log'[ino'].n \in {0, 1, 2}
  PROVE  Content' = file'
<1>1. file' \in [Cells -> Bytes] /\ w' \in Writes \cup {NoWrite}
  BY DEF Types
<1>2. Size(w') \in Nat /\ Size(w') >= 2
  BY <1>1, WriteOK
<1>3. Size(w') = 2 => Overwrite(file', w') = file'
  BY <1>1, OverwriteOK
<1>4. log'[ino'].n = Size(w') => Size(w') = 2
  BY <1>2
<1>5. /\ Content' = IF ino' # NoLog /\ log'[ino'].n = Size(w') THEN Overwrite(file', w') ELSE file'
  BY DEF Content, Recovered, Units, Inodes, NoLog
<1> QED
  BY <1>3, <1>4, <1>5

\* a part of the log is invisible, and all of it is the write
LEMMA AppendIsPut ==
  ASSUME Types, Types', Clean, WriteOffset \/ WriteLength \/ WriteData
  PROVE  Atomic!Next \/ UNCHANGED <<Content, recent>>
<1>1. ASSUME NEW from, NEW n \in {1, 2, Size(w)}, NEW to, AppendLog(from, n, to)
      PROVE  /\ UNCHANGED <<file, logName, ino, w>> /\ recent' = recent \cup {Content'}
             /\ pc = from /\ log' = [log EXCEPT ![ino].n = n]
  BY <1>1 DEF AppendLog
<1>2. PICK n \in {1, 2, Size(w)} :
        /\ UNCHANGED <<file, logName, ino, w>> /\ recent' = recent \cup {Content'}
        /\ log' = [log EXCEPT ![ino].n = n]
        /\ pc \in {"write_off", "write_len", "write_data"}
        /\ (n = Size(w) /\ pc = "write_data") \/ n \in {1, 2}
  BY <1>1 DEF WriteOffset, WriteLength, WriteData
<1>3. /\ logName = ino /\ ino \in Inodes /\ log[ino].w = w /\ w \in Writes
      /\ Content \in recent
      /\ pc \in {"write_off", "write_len"} => log[ino].n < 2
      /\ pc = "write_data" => log[ino].n = 2
  BY <1>2 DEF Clean, Logged, InLog, Quiet, Creating, Types
<1>4. log[ino].n \in {0, 1, 2}
  <2>1. log[ino].n \in Nat
    BY <1>3 DEF Types, Log
  <2> QED
    BY <1>2, <1>3, <2>1
<1>5. Content = file
  BY <1>3, <1>4, LogPartial
<1>6. log'[ino].w = w /\ log'[ino].n = n
  BY <1>2, <1>3 DEF Types, Log
<1>7. CASE n \in {1, 2}
  <2>1. Content' = file'
    BY <1>2, <1>3, <1>6, <1>7, LogPartialNext
  <2> QED
    BY <1>2, <1>3, <1>5, <2>1
<1>8. CASE n = Size(w)
  <2>1. Content' = Overwrite(file, w)
    BY <1>2, <1>3, <1>6, <1>8 DEF Content, Recovered, Units, Inodes, NoLog, Size
  <2>2. Content' = Overwrite(Content, w) /\ recent' = recent \cup {Content'}
    BY <1>2, <1>5, <2>1
  <2>3. Atomic!Put(w)
    BY <2>2 DEF Atomic!Put
  <2> QED
    BY <1>3, <2>3 DEF Atomic!Next
<1> QED
  BY <1>7, <1>8

\* every step is one of the abstract file, or none
LEMMA StepIsAtomic ==
  ASSUME IInv, IInv', Next, nerrors' = 0, nerrors = 0, ~ Fail
  PROVE  Atomic!Next \/ UNCHANGED <<Content, recent>>
<1> USE DEF disk, bounds, Goto, End
<1>1. Types /\ Ordered /\ Clean /\ Types' /\ Clean'
  BY DEF IInv
<1>2. CASE (\E write \in Writes : Save(write)) \/ Recover \/ ReadLog
  <2>1. UNCHANGED <<file, log, logName, recent>>
    BY <1>2 DEF Save, Recover, ReadLog
  <2> QED
    BY <2>1, SameContent
<1>3. CASE CreateLog
  <2>1. CASE logName # NoLog
    <3>1. UNCHANGED <<file, log, logName, recent>>
      BY <1>3, <2>1 DEF CreateLog
    <3> QED
      BY <3>1, SameContent
  <2>2. CASE logName = NoLog
    <3> DEFINE y == [w |-> w, n |-> 0, synced |-> 0]
    <3>1. /\ UNCHANGED <<file, w, recent>> /\ pc' = "write_off" /\ pc = "create_log"
          /\ logName' = ino' /\ log' = [log EXCEPT ![ino'] = y]
      BY <1>3, <2>2 DEF CreateLog
    <3>2. ino' \in Inodes
      BY <1>1, <3>1 DEF Types, Creating
    <3>3. log'[ino'] = y
      BY <1>1, <3>1, <3>2 DEF Types
    <3>4. log'[ino'].w = w' /\ log'[ino'].n = 0
      BY <3>1, <3>3
    <3>5. Content' = file'
      BY <1>1, <3>1, <3>2, <3>4, LogPartialNext
    <3>6. Content = file
      BY <2>2 DEF Content, Recovered
    <3> QED
      BY <3>1, <3>5, <3>6
  <2> QED
    BY <2>1, <2>2
<1>4. CASE WriteOffset \/ WriteLength \/ WriteData
  BY <1>1, <1>4, AppendIsPut
<1>5. CASE FsyncLog
  <2>1. /\ UNCHANGED <<file, logName, ino, recent>> /\ logName = ino /\ ino \in Inodes
        /\ log' = [log EXCEPT ![ino].synced = log[ino].n]
    BY <1>1, <1>5 DEF FsyncLog, Clean, Logged, InLog, Creating, Quiet
  <2>2. log'[ino].n = log[ino].n /\ log'[ino].w = log[ino].w
    BY <1>1, <2>1 DEF Types, Log
  <2> QED
    BY <2>1, <2>2, SameContent
<1>6. CASE SyncLogDir \/ OpenFile \/ FsyncFile
  <2>1. UNCHANGED <<file, log, logName, recent>>
    BY <1>6 DEF SyncLogDir, OpenFile, FsyncFile
  <2> QED
    BY <2>1, SameContent
<1>7. CASE Apply
  <2>1. /\ UNCHANGED <<log, logName, ino, w, recent>> /\ file' = Overwrite(file, w)
        /\ pc = "apply"
    BY <1>7 DEF Apply
  <2>2. Overwrite(file', w) = Overwrite(file, w)
    BY <1>1, <2>1, OverwriteOK DEF Types
  <2>3. logName = ino /\ InLog /\ log[ino].n = Size(w)
    BY <1>1, <2>1 DEF Clean, Logged, InLog, Applying, Quiet
  <2>4. Content = Overwrite(file, w)
    BY <2>3, LogComplete
  <2>5. Content' = Overwrite(file', w)
    BY <2>1, <2>3 DEF Content, Recovered, Units, InLog, Inodes, NoLog, Size
  <2> QED
    BY <2>1, <2>2, <2>4, <2>5
<1>8. CASE UnlinkLog
  <2>1. UNCHANGED <<file, recent>> /\ logName' = NoLog /\ pc = "unlink_log"
    BY <1>8 DEF UnlinkLog
  <2>2. logName = ino /\ InLog /\ log[ino].n = Size(w) /\ file = Overwrite(file, w)
    BY <1>1, <2>1 DEF Clean, Logged, InLog, Applying, Quiet
  <2>3. Content = file
    BY <2>2, LogComplete
  <2>4. Content' = file
    BY <2>1 DEF Content, Recovered
  <2> QED
    BY <2>1, <2>3, <2>4
<1>9. CASE Finish
  <2>1. UNCHANGED <<file, logName>> /\ recent' = {file} /\ logName = NoLog
    BY <1>1, <1>9 DEF Finish, Ordered
  <2>2. Content = file /\ Content' = file
    BY <2>1 DEF Content, Recovered
  <2>3. Atomic!Acknowledge
    BY <2>1, <2>2 DEF Atomic!Acknowledge
  <2> QED
    BY <2>3 DEF Atomic!Next
<1>10. CASE Crash
  <2>1. recent' = recent /\ Content' \in recent'
    BY <1>1, <1>10 DEF Crash, Clean
  <2>2. Atomic!Crash
    BY <2>1 DEF Atomic!Crash
  <2> QED
    BY <2>2 DEF Atomic!Next
<1> QED
  BY <1>2, <1>3, <1>4, <1>5, <1>6, <1>7, <1>8, <1>9, <1>10 DEF Next

\* The file with its log implements the atomic file: whatever crashes happen, the content
\* that recover leaves is one that whole writes produced, as long as no call has failed.
THEOREM LoggedWritesAreAtomic == Spec => IsAtomicFile
<1>1. Init => Atomic!Init
  BY DEF Init, Atomic!Init, Content, Recovered
<1>2. IInv /\ IInv' /\ [Next]_vars => [nerrors' = 0 => Atomic!Next]_(Atomic!vars)
  <2> SUFFICES ASSUME IInv, IInv', [Next]_vars, nerrors' = 0
               PROVE  Atomic!Next \/ UNCHANGED Atomic!vars
    OBVIOUS
  <2>1. CASE UNCHANGED vars
    BY <2>1, SameContent DEF vars, Atomic!vars
  <2>2. CASE Next
    BY <2>2, StepIsAtomic, NoErrorStep DEF Atomic!vars, IInv
  <2> QED
    BY <2>1, <2>2
<1> QED
  BY <1>1, <1>2, Invariant, PTL DEF Spec, IsAtomicFile

=============================================================================
