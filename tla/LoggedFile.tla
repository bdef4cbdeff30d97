----------------------------- MODULE LoggedFile -----------------------------
(***************************************************************************)
(* The write-ahead log of                                                  *)
(* archive/2025-002-fall/week3/solutions/files-are-hard.c: `save` writes   *)
(* its intent to FILE.log and makes it durable before it touches FILE;     *)
(* `recover` repeats the logged write.  One process at a time runs a       *)
(* command; the machine may crash between any two system calls, and any    *)
(* call may fail, on which the program bails out and leaves all as it is.  *)
(*                                                                         *)
(* Next to what a process sees (the page cache), the model keeps what a    *)
(* crash may leave on disk: for each cell of the file the values it may    *)
(* have, for both directory entries whether they are there, for each log   *)
(* how much of it is certain.  fsync makes one of these certain.  A log    *)
(* has its offset, its length and its bytes as units, 2 + Len(data) of     *)
(* them; one write() reaches the disk as a whole or not at all, the data   *)
(* of one write being assumed to fit in a sector.                          *)
(***************************************************************************)
EXTENDS Naturals, Sequences

CONSTANTS Cells,        \* 0 .. size of the file - 1
          Vals,         \* the values of a byte
          NoByte,       \* where the file has no byte
          Writes,       \* the writes saved: [off, data]
          MaxSaves,     \* bound: logs created
          MaxCrashes,   \* bound: crashes of the machine
          MaxErrors     \* bound: failing system calls

ASSUME BoundAssumption ==
  /\ Cells \subseteq Nat /\ NoByte \notin Vals
  /\ MaxSaves \in Nat /\ MaxCrashes \in Nat /\ MaxErrors \in Nat
  /\ \A w \in Writes : w.off \in Nat /\ w.data \in Seq(Vals)
                       /\ \A k \in 1 .. Len(w.data) : w.off + k - 1 \in Cells

Bytes == Vals \cup {NoByte}
Inodes == 1 .. MaxSaves
NoLog == 0

VARIABLES file,        \* content of the file
          exists,      \* whether the file has been created
          log,         \* the logs: the write, units written, units certain
          logName,     \* the log FILE.log names, or NoLog
          fileDisk,    \* per cell, the values it may have after a crash
          existsDisk,  \* whether the file may exist, and may not, after one
          logNameDisk, \* what FILE.log may name after one
          pc, w, ino,  \* the command: where it is, its write, the log it opened
          ret,         \* how the last command ended
          recent,      \* history: the contents since a command last ended well
          nlogs, ncrashes, nerrors

disk == <<fileDisk, existsDisk, logNameDisk>>
bounds == <<nlogs, ncrashes, nerrors>>
vars == <<file, exists, log, logName, disk, pc, w, ino, ret, recent, bounds>>

NoWrite == [off |-> 0, data |-> <<>>]
NoFile == [c \in Cells |-> NoByte]

\* the file is there, complete and on disk, or was never created
Init ==
  /\ exists \in BOOLEAN
  /\ file \in IF exists THEN [Cells -> Vals] ELSE {NoFile}
  /\ log = [l \in Inodes |-> [w |-> NoWrite, n |-> 0, synced |-> 0]]
  /\ logName = NoLog
  /\ fileDisk = [c \in Cells |-> {file[c]}]
  /\ existsDisk = {exists}
  /\ logNameDisk = {NoLog}
  /\ pc = "idle" /\ w = NoWrite /\ ino = NoLog /\ ret = "none"
  /\ recent = {file}
  /\ nlogs = 0 /\ ncrashes = 0 /\ nerrors = 0

Size(write) == 2 + Len(write.data)

\* the content after writing all of write.data at write.off
Overwrite(f, write) ==
  [c \in Cells |-> IF c \in write.off .. write.off + Len(write.data) - 1
                     THEN write.data[c - write.off + 1] ELSE f[c]]

Units(l) == IF l = NoLog THEN 0 ELSE log[l].n

\* what recover makes of file f and k units of log l
Recovered(f, l, k) ==
  IF l # NoLog /\ k = Size(log[l].w) THEN Overwrite(f, log[l].w) ELSE f

Content == Recovered(file, logName, Units(logName))

Goto(label) == pc' = label /\ UNCHANGED <<ret, bounds>>
End(how) == pc' = "idle" /\ ret' = how

-----------------------------------------------------------------------------
(* log_write.                                                              *)

Save(write) ==
  /\ pc = "idle"
  /\ w' = write
  /\ pc' = "create_log" /\ ret' = "none"
  /\ UNCHANGED <<file, exists, log, logName, disk, ino, recent, bounds>>

CreateLog ==
  /\ pc = "create_log"
  /\ \/ /\ logName # NoLog                        \* O_EXCL
        /\ End("failed")
        /\ UNCHANGED <<log, logName, logNameDisk, ino, nlogs>>
     \/ /\ logName = NoLog
        /\ nlogs < MaxSaves
        /\ nlogs' = nlogs + 1
        /\ ino' = nlogs'
        /\ log' = [log EXCEPT ![ino'] = [w |-> w, n |-> 0, synced |-> 0]]
        /\ logName' = ino'
        /\ logNameDisk' = logNameDisk \cup {ino'}
        /\ pc' = "write_off" /\ UNCHANGED ret
  /\ UNCHANGED <<file, exists, fileDisk, existsDisk, w, recent, ncrashes, nerrors>>

\* one write() appends to the log up to its n-th unit
AppendLog(from, n, to) ==
  /\ pc = from
  /\ log' = [log EXCEPT ![ino].n = n]
  /\ Goto(to)
  /\ UNCHANGED <<file, exists, logName, disk, w, ino>>
  /\ recent' = recent \cup {Content'}

WriteOffset == AppendLog("write_off", 1, "write_len")
WriteLength == AppendLog("write_len", 2, "write_data")
WriteData == AppendLog("write_data", Size(w), "fsync_log")

\* mutant: fsync forgotten
FsyncLogNot ==
  /\ pc = "fsync_log"
  /\ Goto("sync_log_dir")
  /\ UNCHANGED <<file, exists, log, logName, disk, w, ino, recent>>

FsyncLog ==
  /\ pc = "fsync_log"
  /\ log' = [log EXCEPT ![ino].synced = log[ino].n]
  /\ Goto("sync_log_dir")
  /\ UNCHANGED <<file, exists, logName, disk, w, ino, recent>>

\* mutant: the directory is opened but not synced
SyncDirNot == UNCHANGED <<logNameDisk, existsDisk>>

\* sync_parent_dir: FILE and FILE.log are in the same directory
SyncDir ==
  /\ logNameDisk' = {logName}
  /\ existsDisk' = {exists}

SyncLogDir ==
  /\ pc = "sync_log_dir"
  /\ SyncDir
  /\ Goto("open_file")
  /\ UNCHANGED <<file, exists, log, logName, fileDisk, w, ino, recent>>

-----------------------------------------------------------------------------
(* Opening the file, apply_logged_write and delete_log.                    *)

OpenFile ==
  /\ pc = "open_file"
  /\ exists' = TRUE
  /\ existsDisk' = existsDisk \cup {TRUE}
  /\ Goto("apply")
  /\ UNCHANGED <<file, log, logName, fileDisk, logNameDisk, w, ino, recent>>

Apply ==
  /\ pc = "apply"
  /\ file' = Overwrite(file, w)
  /\ fileDisk' = [c \in Cells |-> fileDisk[c] \cup {file'[c]}]
  /\ Goto("fsync_file")
  /\ UNCHANGED <<exists, log, logName, existsDisk, logNameDisk, w, ino, recent>>

FsyncFile ==
  /\ pc = "fsync_file"
  /\ fileDisk' = [c \in Cells |-> {file[c]}]
  /\ Goto("unlink_log")
  /\ UNCHANGED <<file, exists, log, logName, existsDisk, logNameDisk, w, ino, recent>>

UnlinkLog ==
  /\ pc = "unlink_log"
  /\ logName' = NoLog
  /\ logNameDisk' = logNameDisk \cup {NoLog}
  /\ Goto("sync_dir")
  /\ UNCHANGED <<file, exists, log, fileDisk, existsDisk, w, ino, recent>>

Finish ==
  /\ pc = "sync_dir"
  /\ SyncDir
  /\ End("ok")
  /\ recent' = {file}
  /\ UNCHANGED <<file, exists, log, logName, fileDisk, w, ino, bounds>>

-----------------------------------------------------------------------------
(* read_log and recover.                                                   *)

\* cs644_readfile returns NULL when there is nothing after the two numbers
DataIsNull == Units(logName) <= 2

Recover ==
  /\ pc = "idle"
  /\ pc' = "read_log" /\ ret' = "none"
  /\ UNCHANGED <<file, exists, log, logName, disk, w, ino, recent, bounds>>

ReadLog ==
  /\ pc = "read_log"
  /\ \/ /\ DataIsNull
        /\ End("nothing to recover")
        /\ UNCHANGED <<w, ino>>
     \/ /\ ~ DataIsNull
        /\ w' = log[logName].w
        /\ ino' = logName
        /\ pc' = "open_file" /\ UNCHANGED ret
  /\ UNCHANGED <<file, exists, log, logName, disk, recent, bounds>>

-----------------------------------------------------------------------------
(* Failures.                                                               *)

\* a system call fails (cs644_bail_if_err), or the process is interrupted
Fail ==
  /\ pc # "idle"
  /\ nerrors < MaxErrors
  /\ nerrors' = nerrors + 1
  /\ End("failed")
  /\ UNCHANGED <<file, exists, log, logName, disk, w, ino, recent, nlogs, ncrashes>>

\* what a crash may leave: the file, what FILE.log names, and its units
FilesLeft ==
  (IF TRUE \in existsDisk
     THEN { [exists |-> TRUE, file |-> f] :
              f \in { g \in [Cells -> Bytes] : \A c \in Cells : g[c] \in fileDisk[c] } }
     ELSE {})
  \cup (IF FALSE \in existsDisk THEN { [exists |-> FALSE, file |-> NoFile] } ELSE {})

UnitsLeft(l) ==
  IF l = NoLog THEN {0}
  ELSE { k \in log[l].synced .. log[l].n : k <= 2 \/ k = log[l].n }

Crash ==
  /\ ncrashes < MaxCrashes
  /\ ncrashes' = ncrashes + 1
  /\ \E left \in FilesLeft, l \in logNameDisk :
       \E k \in UnitsLeft(l) :
         /\ file' = left.file /\ exists' = left.exists
         /\ fileDisk' = [c \in Cells |-> {left.file[c]}]
         /\ existsDisk' = {left.exists}
         /\ logName' = l /\ logNameDisk' = {l}
         /\ log' = IF l = NoLog THEN log
                   ELSE [log EXCEPT ![l].n = k, ![l].synced = k]
  /\ End("crashed")
  /\ UNCHANGED <<w, ino, recent, nlogs, nerrors>>

-----------------------------------------------------------------------------
Next ==
  \/ \E write \in Writes : Save(write)
  \/ CreateLog \/ WriteOffset \/ WriteLength \/ WriteData \/ FsyncLog \/ SyncLogDir
  \/ OpenFile \/ Apply \/ FsyncFile \/ UnlinkLog \/ Finish
  \/ Recover \/ ReadLog
  \/ Fail \/ Crash

Spec == Init /\ [][Next]_vars

-----------------------------------------------------------------------------
(* Properties.                                                             *)

Versions ==
  { Recovered(o[1].file, o[2], o[3]) :
      o \in UNION { { <<left, l, k>> : k \in UnitsLeft(l) } :
                    left \in FilesLeft, l \in logNameDisk } }

\* The file as recover leaves it is always one that whole saves produced: as long
\* as no call has failed, no crash in save or in recover makes part of a write
\* visible.  (A failing call may leave a log that is in the directory and not on
\* disk, which recover then trusts.)
Atomic == INSTANCE AtomicFile WITH content <- Content
IsAtomicFile ==
  Atomic!Init /\ [][nerrors' = 0 => Atomic!Next]_(Atomic!vars)

\* Once save or recover has ended well, no crash loses the write, the log cannot
\* come back, and a second save will not find it in its way.
DurableOnReturn ==
  ret = "ok" /\ pc = "idle" =>
    /\ Versions = {file}
    /\ logNameDisk = {NoLog}
    /\ existsDisk = {TRUE}
=============================================================================
