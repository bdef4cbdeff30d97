------------------------------ MODULE LogRotate ------------------------------
(***************************************************************************)
(* The heartbeat log of archive/2025-001-spring/final/http/main.c: `run`   *)
(* appends lines to http.log, `count` counts its lines, `rotate` renames   *)
(* http.log to http.1.log, that to http.2.log and so on, dropping the      *)
(* last.  Appending and counting hold an flock on the open file; rotating  *)
(* takes no lock, and an open file keeps its inode whatever is renamed.    *)
(*                                                                         *)
(* Files are numbered as they are created.  The bytes of one write() get   *)
(* into the file one by one, so that a reader without the lock could see   *)
(* some of them; a full disk may cut a write() short.  A process may be    *)
(* killed between two system calls; a rotator then starts again.           *)
(***************************************************************************)
EXTENDS Naturals, Sequences, FiniteSets

CONSTANTS Writers, Counters, Rotators,
          KEEP,            \* number of the oldest file kept (5)
          Line,            \* the bytes of a line, the last of them NL
          NL,
          READ_BUFSZ,
          NoFile,
          MaxFiles,        \* bound: files created
          Budgets          \* bounds: the lines, rotations, kills and short writes
                           \* of a behaviour, one of these records

ASSUME SizeAssumption == KEEP \in Nat \ {0} /\ READ_BUFSZ \in Nat \ {0} /\ MaxFiles \in Nat
ASSUME NoFileAssumption == NoFile \notin 1 .. MaxFiles
ASSUME BudgetAssumption ==
  Budgets \subseteq [lines : Nat, rotations : Nat, kills : Nat, shorts : Nat]
ASSUME LineAssumption ==
  Line # <<>> /\ \A j \in 1 .. Len(Line) : Line[j] = NL <=> j = Len(Line)

Procs == Writers \cup Counters \cup Rotators
Files == 1 .. MaxFiles
Names == 0 .. KEEP

VARIABLES name,       \* log_file_n(i) -> the file it names
          nfiles,     \* files created so far
          text,       \* the bytes of each file
          pc,
          fd,         \* the file each writer and counter has open
          flock,      \* the lock each has on it: "no", "sh" or "ex"
          sent,       \* bytes of its line each writer has written
          pos, count, \* the counters' offset and line_count
          i,          \* the rotators' loop variable
          atOpen,     \* history: lines in the file when a counter opened it
          overlapped, \* history: whether a rotation began during another
          budget      \* what is left of the bounds

users == <<fd, flock, sent, pos, count, i, atOpen>>
vars == <<name, nfiles, text, pc, users, overlapped, budget>>

NewLines(t) == Cardinality({ j \in DOMAIN t : t[j] = NL })

Init ==
  /\ name = [k \in Names |-> NoFile]
  /\ nfiles = 0
  /\ text = [f \in Files |-> <<>>]
  /\ pc = [p \in Procs |-> "start"]
  /\ fd = [p \in Procs |-> NoFile]
  /\ flock = [p \in Procs |-> "no"]
  /\ sent = [w \in Writers |-> 0]
  /\ pos = [c \in Counters |-> 0] /\ count = [c \in Counters |-> 0]
  /\ i = [r \in Rotators |-> 0]
  /\ atOpen = [c \in Counters |-> 0]
  /\ overlapped = FALSE
  /\ budget \in Budgets

At(p, label) == pc[p] = label
Goto(p, label) == pc' = [pc EXCEPT ![p] = label]
Spend(what) == budget[what] > 0 /\ budget' = [budget EXCEPT ![what] = @ - 1]

-----------------------------------------------------------------------------
(* flock, on the file p has open.                                          *)

Others(p) == { q \in Procs \ {p} : fd[q] = fd[p] }

FlockEx(p) ==
  /\ \A q \in Others(p) : flock[q] = "no"
  /\ flock' = [flock EXCEPT ![p] = "ex"]

FlockSh(p) ==
  /\ \A q \in Others(p) : flock[q] # "ex"
  /\ flock' = [flock EXCEPT ![p] = "sh"]

FlockUn(p) == flock' = [flock EXCEPT ![p] = "no"]

-----------------------------------------------------------------------------
(* append_to_log.                                                          *)

\* open with O_CREAT: the file named http.log, or a new one
OpenLog(w) ==
  /\ At(w, "start")
  /\ \/ /\ name[0] # NoFile
        /\ fd' = [fd EXCEPT ![w] = name[0]]
        /\ UNCHANGED <<name, nfiles>>
     \/ /\ name[0] = NoFile /\ nfiles < MaxFiles
        /\ nfiles' = nfiles + 1
        /\ name' = [name EXCEPT ![0] = nfiles']
        /\ fd' = [fd EXCEPT ![w] = nfiles']
  /\ Goto(w, "lock")
  /\ UNCHANGED <<text, flock, sent, pos, count, i, atOpen, overlapped, budget>>

LockLog(w) ==
  /\ At(w, "lock")
  /\ Spend("lines")
  /\ FlockEx(w)
  /\ sent' = [sent EXCEPT ![w] = 0]
  /\ Goto(w, "write")
  /\ UNCHANGED <<name, nfiles, text, fd, pos, count, i, atOpen, overlapped>>

\* one more byte of the line gets into the file
WriteByte(w) ==
  /\ At(w, "write")
  /\ text' = [text EXCEPT ![fd[w]] = Append(@, Line[sent[w] + 1])]
  /\ sent' = [sent EXCEPT ![w] = @ + 1]
  /\ Goto(w, IF sent[w] + 1 = Len(Line) THEN "unlock" ELSE "write")
  /\ UNCHANGED <<name, nfiles, fd, flock, pos, count, i, atOpen, overlapped, budget>>

\* write() returns fewer bytes than asked for; only a negative result is looked at
WriteShort(w) ==
  /\ At(w, "write")
  /\ sent[w] > 0
  /\ Spend("shorts")
  /\ Goto(w, "unlock")
  /\ UNCHANGED <<name, nfiles, text, users, overlapped>>

UnlockLog(w) ==
  /\ At(w, "unlock")
  /\ FlockUn(w)
  /\ Goto(w, "lock")
  /\ UNCHANGED <<name, nfiles, text, fd, sent, pos, count, i, atOpen, overlapped, budget>>

-----------------------------------------------------------------------------
(* count_log_lines.                                                        *)

OpenCount(c) ==
  /\ At(c, "start")
  /\ \/ /\ name[0] = NoFile
        /\ Goto(c, "bailed")
        /\ UNCHANGED <<fd, atOpen>>
     \/ /\ name[0] # NoFile
        /\ fd' = [fd EXCEPT ![c] = name[0]]
        /\ atOpen' = [atOpen EXCEPT ![c] = NewLines(text[name[0]])]
        /\ Goto(c, "lock_sh")
  /\ UNCHANGED <<name, nfiles, text, flock, sent, pos, count, i, overlapped, budget>>

LockCount(c) ==
  /\ At(c, "lock_sh")
  /\ FlockSh(c)
  /\ Goto(c, "read")
  /\ UNCHANGED <<name, nfiles, text, fd, sent, pos, count, i, atOpen, overlapped, budget>>

\* the bytes the next read returns
Chunk(c) ==
  LET t == text[fd[c]]
      left == Len(t) - pos[c]
  IN  SubSeq(t, pos[c] + 1, pos[c] + (IF left < READ_BUFSZ THEN left ELSE READ_BUFSZ))

\* mutant: a chunk that does not fill the buffer is taken for the end
ReadShortIsEnd(c) ==
  /\ At(c, "read")
  /\ Goto(c, IF Len(Chunk(c)) < READ_BUFSZ THEN "unlock_eof" ELSE "unlock_sh")
  /\ pos' = [pos EXCEPT ![c] = @ + Len(Chunk(c))]
  /\ count' = [count EXCEPT ![c] = IF Len(Chunk(c)) < READ_BUFSZ THEN @ ELSE @ + NewLines(Chunk(c))]
  /\ UNCHANGED <<name, nfiles, text, fd, flock, sent, i, atOpen, overlapped, budget>>

ReadChunk(c) ==
  /\ At(c, "read")
  /\ pos' = [pos EXCEPT ![c] = @ + Len(Chunk(c))]
  /\ count' = [count EXCEPT ![c] = @ + NewLines(Chunk(c))]
  /\ Goto(c, IF Chunk(c) = <<>> THEN "unlock_eof" ELSE "unlock_sh")
  /\ UNCHANGED <<name, nfiles, text, fd, flock, sent, i, atOpen, overlapped, budget>>

UnlockCount(c) ==
  /\ pc[c] \in {"unlock_sh", "unlock_eof"}
  /\ FlockUn(c)
  /\ Goto(c, IF At(c, "unlock_eof") THEN "counted" ELSE "lock_sh")
  /\ UNCHANGED <<name, nfiles, text, fd, sent, pos, count, i, atOpen, overlapped, budget>>

-----------------------------------------------------------------------------
(* rotate_logs.                                                            *)

NoteOverlap(r) ==
  overlapped' = (overlapped \/ \E q \in Rotators \ {r} : At(q, "rename"))

UnlinkLast(r) ==
  /\ At(r, "start")
  /\ Spend("rotations")
  /\ NoteOverlap(r)
  /\ name' = [name EXCEPT ![KEEP] = NoFile]       \* ENOENT is no error
  /\ i' = [i EXCEPT ![r] = KEEP - 1]
  /\ Goto(r, "rename")
  /\ UNCHANGED <<nfiles, text, fd, flock, sent, pos, count, atOpen>>

\* mutant: linked to the new name and not unlinked from the old one
Linked(k) == IF name[k] = NoFile THEN name ELSE [name EXCEPT ![k + 1] = name[k]]

\* rename log file k to k + 1, which it replaces; ENOENT is no error
Moved(k) ==
  IF name[k] = NoFile THEN name ELSE [name EXCEPT ![k + 1] = name[k], ![k] = NoFile]

\* mutant: from the newest to the oldest
RenameUpwards(r) ==
  LET k == KEEP - 1 - i[r]
  IN  /\ At(r, "rename")
      /\ name' = Moved(k)
      /\ i' = [i EXCEPT ![r] = IF @ = 0 THEN 0 ELSE @ - 1]
      /\ Goto(r, IF i[r] = 0 THEN "start" ELSE "rename")
      /\ UNCHANGED <<nfiles, text, fd, flock, sent, pos, count, atOpen, overlapped, budget>>

Rename(r) ==
  /\ At(r, "rename")
  /\ name' = Moved(i[r])
  /\ i' = [i EXCEPT ![r] = IF @ = 0 THEN 0 ELSE @ - 1]
  /\ Goto(r, IF i[r] = 0 THEN "start" ELSE "rename")
  /\ UNCHANGED <<nfiles, text, fd, flock, sent, pos, count, atOpen, overlapped, budget>>

-----------------------------------------------------------------------------
\* killed between two calls: its lock goes, what it renamed stays renamed.
\* Writers and rotators are started again.
Kill(p) ==
  /\ pc[p] \notin {"start", "write", "counted", "bailed", "killed"}
  /\ Spend("kills")
  /\ Goto(p, IF p \in Counters THEN "killed" ELSE "start")
  /\ fd' = [fd EXCEPT ![p] = NoFile]
  /\ FlockUn(p)
  /\ UNCHANGED <<name, nfiles, text, sent, pos, count, i, atOpen, overlapped>>

AppendToLog(w) == OpenLog(w) \/ LockLog(w) \/ WriteByte(w) \/ WriteShort(w) \/ UnlockLog(w)
CountLogLines(c) == OpenCount(c) \/ LockCount(c) \/ ReadChunk(c) \/ UnlockCount(c)
RotateLogs(r) == UnlinkLast(r) \/ Rename(r)

Next ==
  \/ \E w \in Writers : AppendToLog(w)
  \/ \E c \in Counters : CountLogLines(c)
  \/ \E r \in Rotators : RotateLogs(r)
  \/ \E p \in Procs : Kill(p)

Spec == Init /\ [][Next]_vars

-----------------------------------------------------------------------------
(* Properties.                                                             *)

\* The names are sorted by age, http.log the newest, and no file has two names: also
\* while rotations overlap or stop half way, and while a writer creates http.log.
SortedByAge ==
  \A a, b \in Names :
    a < b /\ name[a] # NoFile /\ name[b] # NoFile => name[a] > name[b]

Named == { name[k] : k \in Names } \ {NoFile}

\* If rotations do not overlap, what is dropped is older than all that is kept,
\* even when rotations are killed half way.
OnlyOldestDropped ==
  ~ overlapped => \A f \in 1 .. nfiles : f \notin Named => \A g \in Named : f < g

\* A count is neither less than the lines its file had when it was opened nor more
\* than it has when the count ends, however many chunks, appends and rotations
\* come between.
CountBetween ==
  \A c \in Counters :
    pc[c] = "counted" => count[c] \in atOpen[c] .. NewLines(text[fd[c]])

\* "this assumes that the file terminates with a newline (which our logging
\* function ensures)": a counter sees the end of the file only behind a newline.
EndsWithNewline ==
  \A c \in Counters :
    pc[c] \in {"unlock_eof", "counted"} /\ pos[c] > 0 => text[fd[c]][pos[c]] = NL
=============================================================================
