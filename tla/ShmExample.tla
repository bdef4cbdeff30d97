----------------------------- MODULE ShmExample -----------------------------
(***************************************************************************)
(* archive/2025-001-spring/week5/shm_example.c: a writer increments every  *)
(* byte of a shared array under a semaphore, a reader compares them under  *)
(* it.  The writer creates both names, memory first, and unlinks them in   *)
(* the opposite order, so that a later writer may create them again while  *)
(* a reader is between the two.  Objects are named after their creator.    *)
(***************************************************************************)
EXTENDS Naturals

CONSTANTS Writers, Readers,
          None,
          SIZE,           \* bytes of the array
          WIDTH           \* values of an unsigned char

Procs == Writers \cup Readers
Cells == 0 .. SIZE - 1

VARIABLES mem, sem,       \* what shared_mem_path and shared_sem_path refer to
          arr, value,     \* contents of each memory, value of each semaphore
          pc, i,
          mapped, opened  \* the memory and the semaphore each process uses

paths == <<mem, sem>>
handles == <<mapped, opened>>
vars == <<paths, arr, value, pc, i, handles>>

Init ==
  /\ mem = None /\ sem = None
  /\ arr = [w \in Writers |-> <<>>]                 \* no ftruncate yet
  /\ value = [w \in Writers |-> 0]
  /\ pc = [p \in Procs |-> "shm_open"]
  /\ i = [p \in Procs |-> 0]
  /\ mapped = [p \in Procs |-> None] /\ opened = [p \in Procs |-> None]

At(p, label) == pc[p] = label
Goto(p, label) == pc' = [pc EXCEPT ![p] = label]

CreateMem(w) ==
  /\ At(w, "shm_open") /\ w \in Writers
  /\ IF mem = None
       THEN mem' = w /\ mapped' = [mapped EXCEPT ![w] = w] /\ Goto(w, "ftruncate")
       ELSE UNCHANGED <<mem, mapped>> /\ Goto(w, "bailed")
  /\ UNCHANGED <<sem, arr, value, i, opened>>

Ftruncate(w) ==
  /\ At(w, "ftruncate")
  /\ arr' = [arr EXCEPT ![w] = [c \in Cells |-> 0]]
  /\ Goto(w, "sem_open")
  /\ UNCHANGED <<paths, value, i, handles>>

CreateSem(w) ==
  /\ At(w, "sem_open") /\ w \in Writers
  /\ IF sem = None
       THEN /\ sem' = w /\ opened' = [opened EXCEPT ![w] = w]
            /\ value' = [value EXCEPT ![w] = 1]
            /\ Goto(w, "loop")
       ELSE UNCHANGED <<sem, opened, value>> /\ Goto(w, "bailed")
  /\ UNCHANGED <<mem, arr, i, mapped>>

OpenMem(r) ==
  /\ At(r, "shm_open") /\ r \in Readers
  /\ mapped' = [mapped EXCEPT ![r] = mem]
  /\ Goto(r, IF mem = None THEN "bailed" ELSE "sem_open")
  /\ UNCHANGED <<paths, arr, value, i, opened>>

OpenSem(r) ==
  /\ At(r, "sem_open") /\ r \in Readers
  /\ opened' = [opened EXCEPT ![r] = sem]
  /\ Goto(r, IF sem = None THEN "bailed" ELSE "loop")
  /\ UNCHANGED <<paths, arr, value, i, mapped>>

SemWait(p) ==
  /\ At(p, "loop") /\ value[opened[p]] > 0
  /\ value' = [value EXCEPT ![opened[p]] = @ - 1]
  /\ i' = [i EXCEPT ![p] = IF p \in Writers THEN 0 ELSE 1]
  /\ Goto(p, "body")
  /\ UNCHANGED <<paths, arr, handles>>

Increment(w) ==
  /\ At(w, "body") /\ w \in Writers /\ i[w] < SIZE
  /\ arr' = [arr EXCEPT ![w][i[w]] = (@ + 1) % WIDTH]
  /\ i' = [i EXCEPT ![w] = @ + 1]
  /\ UNCHANGED <<paths, value, pc, handles>>

\* returns without sem_post if they differ
Compare(r) ==
  /\ At(r, "body") /\ r \in Readers /\ i[r] < SIZE
  /\ \/ /\ arr[mapped[r]] = <<>>                    \* SIGBUS
        /\ Goto(r, "faulted") /\ UNCHANGED i
     \/ /\ arr[mapped[r]] # <<>>
        /\ i' = [i EXCEPT ![r] = @ + 1]
        /\ IF arr[mapped[r]][0] = arr[mapped[r]][i[r]] THEN UNCHANGED pc
                                                       ELSE Goto(r, "detected")
  /\ UNCHANGED <<paths, arr, value, handles>>

SemPost(p) ==
  /\ At(p, "body") /\ i[p] = SIZE
  /\ value' = [value EXCEPT ![opened[p]] = @ + 1]
  /\ Goto(p, "loop")
  /\ UNCHANGED <<paths, arr, i, handles>>

\* the loops end after so many rounds that the number is left open
ReaderEnds(r) ==
  /\ At(r, "loop") /\ r \in Readers
  /\ Goto(r, "done")
  /\ UNCHANGED <<paths, arr, value, i, handles>>

\* mutant: the memory is unlinked first, and the semaphore not at all
UnlinkMemFirst(w) ==
  /\ At(w, "loop") /\ w \in Writers
  /\ mem' = None
  /\ Goto(w, "unlink_mem")
  /\ UNCHANGED <<sem, arr, value, i, handles>>

UnlinkSem(w) ==
  /\ At(w, "loop") /\ w \in Writers
  /\ sem' = None
  /\ Goto(w, "unlink_mem")
  /\ UNCHANGED <<mem, arr, value, i, handles>>

UnlinkMem(w) ==
  /\ At(w, "unlink_mem")
  /\ mem' = None
  /\ Goto(w, "done")
  /\ UNCHANGED <<sem, arr, value, i, handles>>

Kill(p) ==
  /\ pc[p] \notin {"done", "bailed", "killed", "detected", "faulted"}
  /\ Goto(p, "killed")
  /\ UNCHANGED <<paths, arr, value, i, handles>>

writer(w) ==
  \/ CreateMem(w) \/ Ftruncate(w) \/ CreateSem(w)
  \/ SemWait(w) \/ Increment(w) \/ SemPost(w) \/ UnlinkSem(w) \/ UnlinkMem(w)

reader(r) ==
  OpenMem(r) \/ OpenSem(r) \/ SemWait(r) \/ Compare(r) \/ SemPost(r) \/ ReaderEnds(r)

Next ==
  \/ \E w \in Writers : writer(w)
  \/ \E r \in Readers : reader(r)
  \/ \E p \in Procs : Kill(p)

Spec == Init /\ [][Next]_vars

-----------------------------------------------------------------------------
\* No reader sees a partial increment or touches memory that is not there, whoever
\* is killed and also when it has the memory of one writer and the semaphore of the
\* next: the semaphore is unlinked first, so that the memory is then a finished one.
ReaderSeesWhole == \A r \in Readers : pc[r] \notin {"detected", "faulted"}
=============================================================================
