----------------------------- MODULE SharedBlock -----------------------------
(***************************************************************************)
(* A file that one process fills with one letter after the other while     *)
(* another reads it and checks that all of it is the same letter:          *)
(* simultaneous.c ("plain"), simultaneous-with-locking.c ("locking") and   *)
(* week1/simultaneous.py ("py"), which has a wait point between the first  *)
(* write and the first read.                                               *)
(*                                                                         *)
(* A write() and a read() go byte by byte.  The kernel lets one write() or *)
(* truncation of a file run at a time, but reads run beside them.          *)
(***************************************************************************)
EXTENDS Integers, Sequences

CONSTANTS Programs,
          Writers, Readers,
          Sizes,            \* block sizes given on the command line
          NLETTERS,         \* 26
          Reps,             \* of simultaneous.py, which stops
          MaxFaults         \* bound: kills, failed writes and short writes

Procs == Writers \cup Readers

VARIABLES program,
          exists, file,
          flock,            \* what each process holds: "no", "sh" or "ex"
          pc,
          size, n,          \* length of the buffer; bytes moved by the current call
          letter, buf,      \* of each writer, of each reader
          todo, marked,     \* rounds left; the wait point
          sampled,          \* whether a sample of simultaneous.py was not one letter
          cut,              \* whether a write ended early
          faults

disk == <<exists, file>>
locals == <<size, n, letter, buf>>
py == <<todo, marked, sampled>>
vars == <<program, disk, flock, pc, locals, py, cut, faults>>

Init ==
  /\ program \in Programs
  /\ \/ exists = FALSE /\ file = <<>>
     \/ exists = TRUE /\ file = <<0, 0>> /\ program # "py"   \* of an earlier run
  /\ flock = [p \in Procs |-> "no"]
  /\ \E started \in SUBSET Writers :              \* as many as there are terminals
       /\ program = "py" => \E w \in Writers : started = {w}
       /\ pc = [p \in Procs |-> IF p \in Writers \ started THEN "none"
                                ELSE IF program = "py" /\ p \in Readers THEN "wait"
                                ELSE "open"]
  /\ size \in [Procs -> Sizes]
  /\ program = "py" => \A p, q \in Procs : size[p] = size[q]
  /\ n = [p \in Procs |-> 0]
  /\ letter = [w \in Writers |-> 0]
  /\ buf = [r \in Readers |-> <<>>]
  /\ \E k \in Reps : todo = [p \in Procs |-> k]
  /\ marked = FALSE /\ sampled = FALSE /\ cut = FALSE /\ faults = 0

At(p, label) == pc[p] = label
Goto(p, label) == pc' = [pc EXCEPT ![p] = label]

\* the first call of a round
Top(p) ==
  IF program = "locking" THEN "lock"
  ELSE IF program = "py" /\ todo'[p] = 0 THEN "finished"
  ELSE IF p \in Writers THEN "write" ELSE "read"

\* the kernel's lock of the file, which a write() that has begun holds
Inside(w) == At(w, "write") /\ n[w] > 0
Alone(w) == \A v \in Writers \ {w} : ~ Inside(v)

-----------------------------------------------------------------------------
(* main_write, and writer of simultaneous.py.                              *)

\* O_TRUNC, or O_EXCL and a new name
OpenWrite(w) ==
  /\ At(w, "open") /\ w \in Writers
  /\ Alone(w)
  /\ exists' = TRUE /\ file' = <<>>
  /\ UNCHANGED <<program, flock, locals, py, cut, faults>>
  /\ Goto(w, Top(w))

LockEx(w) ==
  /\ At(w, "lock") /\ w \in Writers
  /\ \A p \in Procs \ {w} : flock[p] = "no"
  /\ flock' = [flock EXCEPT ![w] = "ex"]
  /\ Goto(w, "write")
  /\ UNCHANGED <<program, disk, locals, py, cut, faults>>

WriteByte(w) ==
  /\ At(w, "write") /\ n[w] < size[w]
  /\ Alone(w)
  /\ file' = [j \in 1 .. Len(file) |-> IF j = n[w] + 1 THEN letter[w] ELSE file[j]]
             \o (IF n[w] = Len(file) THEN <<letter[w]>> ELSE <<>>)
  /\ n' = [n EXCEPT ![w] = @ + 1]
  /\ UNCHANGED <<program, exists, flock, pc, size, letter, buf, py, cut, faults>>

\* write() returns, and everything up to the next round that no one else sees
Written(w) ==
  /\ n' = [n EXCEPT ![w] = 0]
  /\ letter' = [letter EXCEPT ![w] = (@ + 1) % NLETTERS]
  /\ todo' = IF program = "py" THEN [todo EXCEPT ![w] = @ - 1] ELSE todo
  /\ UNCHANGED <<program, disk, flock, size, buf, marked, sampled>>
  /\ Goto(w, IF program = "locking" THEN "unlock"
             ELSE IF program = "py" /\ ~ marked THEN "mark" ELSE Top(w))

WriteEnd(w) == At(w, "write") /\ n[w] = size[w] /\ Written(w) /\ UNCHANGED <<cut, faults>>

\* only an error is looked for, not a short count
ShortWrite(w) ==
  /\ Inside(w) /\ n[w] < size[w]
  /\ faults < MaxFaults /\ faults' = faults + 1
  /\ cut' = TRUE
  /\ Written(w)

UnlockWrite(w) ==
  /\ At(w, "unlock") /\ w \in Writers
  /\ flock' = [flock EXCEPT ![w] = "no"]
  /\ Goto(w, "lock")
  /\ UNCHANGED <<program, disk, locals, py, cut, faults>>

-----------------------------------------------------------------------------
(* main_read.                                                              *)

\* check_all_same_char
Same(s) == \A j \in 2 .. Len(s) : s[j] = s[1]

OpenRead(r) ==
  /\ At(r, "open") /\ r \in Readers
  /\ UNCHANGED <<program, disk, flock, locals, py, cut, faults>>
  /\ Goto(r, IF exists THEN Top(r) ELSE "failed")

\* mutant: flock(LOCK_SH) does not wait
LockShNoWait(r) ==
  /\ At(r, "lock") /\ r \in Readers
  /\ flock' = [flock EXCEPT ![r] = "sh"]
  /\ Goto(r, "read")
  /\ UNCHANGED <<program, disk, locals, py, cut, faults>>

LockSh(r) ==
  /\ At(r, "lock") /\ r \in Readers
  /\ \A w \in Writers : flock[w] # "ex"
  /\ flock' = [flock EXCEPT ![r] = "sh"]
  /\ Goto(r, "read")
  /\ UNCHANGED <<program, disk, locals, py, cut, faults>>

ReadByte(r) ==
  /\ At(r, "read") /\ Len(buf[r]) < size[r] /\ Len(buf[r]) < Len(file)
  /\ buf' = [buf EXCEPT ![r] = Append(@, file[Len(@) + 1])]
  /\ UNCHANGED <<program, disk, flock, pc, size, n, letter, py, cut, faults>>

\* the buffer is full or the file ends here
ReadEnd(r) ==
  /\ At(r, "read")
  /\ Len(buf[r]) = size[r] \/ Len(buf[r]) >= Len(file)
  /\ flock' = [flock EXCEPT ![r] = "no"]
  /\ Goto(r, "check")
  /\ UNCHANGED <<program, disk, locals, py, cut, faults>>

Check(r) ==
  /\ At(r, "check") /\ program # "py"
  /\ buf' = IF Same(buf[r]) THEN [buf EXCEPT ![r] = <<>>] ELSE buf
  /\ UNCHANGED <<program, disk, flock, size, n, letter, py, cut, faults>>
  /\ Goto(r, IF Same(buf[r]) THEN Top(r) ELSE "detected")

-----------------------------------------------------------------------------
(* simultaneous.py and utils/lib.py.                                       *)

\* mutant: the wait point is marked in the second round
MarkDoneLate(w) ==
  /\ At(w, "mark")
  /\ marked' = (letter[w] # 1)
  /\ UNCHANGED <<program, disk, flock, locals, todo, sampled, cut, faults>>
  /\ Goto(w, Top(w))

MarkDone(w) ==
  /\ At(w, "mark")
  /\ marked' = TRUE
  /\ UNCHANGED <<program, disk, flock, locals, todo, sampled, cut, faults>>
  /\ Goto(w, Top(w))

Wait(r) ==
  /\ At(r, "wait") /\ marked
  /\ Goto(r, "open")
  /\ UNCHANGED <<program, disk, flock, locals, py, cut, faults>>

\* assert len(buf) == chunk_size; the samples are looked at when all are read
Sample(r) ==
  /\ At(r, "check") /\ program = "py"
  /\ todo' = [todo EXCEPT ![r] = @ - 1]
  /\ sampled' = (sampled \/ ~ Same(buf[r]))
  /\ buf' = [buf EXCEPT ![r] = <<>>]
  /\ UNCHANGED <<program, disk, flock, size, n, letter, marked, cut, faults>>
  /\ Goto(r, IF Len(buf[r]) # size[r] THEN "assertion" ELSE Top(r))

\* os._exit: 0, or 1 after a traceback; the samples decide only what is printed
Ended(p) == pc[p] \in {"none", "finished", "failed", "assertion", "detected", "killed", "raised"}

\* the parent waits for the child, raises if that failed, and unlinks the file
Join(w) ==
  /\ program = "py" /\ At(w, "finished") /\ exists
  /\ \A r \in Readers : Ended(r)
  /\ exists' = FALSE
  /\ Goto(w, IF \A r \in Readers : At(r, "finished") THEN "finished" ELSE "raised")
  /\ UNCHANGED <<program, file, flock, locals, py, cut, faults>>

-----------------------------------------------------------------------------
(* Faults.                                                                 *)

\* write() fails: the C programs exit, simultaneous.py raises and unlinks
WriteError(w) ==
  /\ At(w, "write") /\ n[w] = 0
  /\ faults < MaxFaults /\ faults' = faults + 1
  /\ flock' = [flock EXCEPT ![w] = "no"]
  /\ exists' = (exists /\ program # "py")
  /\ Goto(w, "failed")
  /\ UNCHANGED <<program, file, locals, py, cut>>

Kill(p) ==
  /\ ~ Ended(p)
  /\ faults < MaxFaults /\ faults' = faults + 1
  /\ cut' = (cut \/ Inside(p))
  /\ flock' = [flock EXCEPT ![p] = "no"]
  /\ Goto(p, "killed")
  /\ UNCHANGED <<program, disk, locals, py>>

-----------------------------------------------------------------------------
main_write(w) == OpenWrite(w) \/ WriteByte(w) \/ WriteEnd(w)
main_read(r) == OpenRead(r) \/ ReadByte(r) \/ ReadEnd(r) \/ Check(r)
locked_write(w) == LockEx(w) \/ UnlockWrite(w)
writer(w) == MarkDone(w) \/ Join(w)
reader(r) == Wait(r) \/ Sample(r)

Step(p) ==
  \/ p \in Writers /\ (main_write(p) \/ locked_write(p) \/ writer(p))
  \/ p \in Readers /\ (main_read(p) \/ LockSh(p) \/ reader(p))

Next ==
  \/ \E p \in Procs : Step(p) \/ Kill(p)
  \/ \E w \in Writers : ShortWrite(w) \/ WriteError(w)

\* a process that can run does; flock() gives no order among those that wait
Fairness == \A p \in Procs : WF_vars(Step(p))

Spec == Init /\ [][Next]_vars /\ Fairness

-----------------------------------------------------------------------------
(* Properties.                                                             *)

\* With the lock a reader detects a partial write only if one write() was cut
\* short, by a kill or a full disk, or two processes were started with blocks of
\* different sizes; that the file is truncated without the lock does no harm.
LockedReadsWhole ==
  program = "locking" =>
    \A r \in Readers : At(r, "detected") =>
      cut \/ \E v, w \in Writers : size[v] # size[w]

\* The assertion of simultaneous.py (:37) holds once the wait point was passed: a
\* read that runs beside a later write gets a whole block, though maybe a mixed one.
PyReadsFullBlocks ==
  program = "py" /\ (\E r \in Readers : At(r, "assertion")) => cut

\* Both processes of simultaneous.py end, if there is a round to be done and the
\* writer does not stop before the wait point is marked: else the child waits for
\* ever, and the parent, if it lives, for the child.
PyEnds ==
  program = "py" /\ (\A p \in Procs : todo[p] > 0) =>
    <>( \/ \A p \in Procs : Ended(p)
        \/ ~ marked /\ \E w \in Writers : pc[w] \in {"failed", "killed"} )
=============================================================================
