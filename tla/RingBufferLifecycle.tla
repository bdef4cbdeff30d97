------------------------ MODULE RingBufferLifecycle ------------------------
(***************************************************************************)
(* Creation, opening and destruction of the ring buffer of                 *)
(* archive/2025-002-fall/week5/solutions/ringbuffer.c: two names, MEM and  *)
(* SEM, that producers create one after the other and unlink one after the *)
(* other while consumers look both up.  The names are reused, so a name    *)
(* may refer to the object of an earlier or of a later producer.           *)
(*                                                                         *)
(* A process runs once.  Every producer that gets that far creates one     *)
(* memory object and one semaphore, so both are named after it.  What is   *)
(* written and read under the semaphore is the subject of RingBuffer; here *)
(* an access only touches the memory the process has mapped.               *)
(***************************************************************************)
EXTENDS Naturals, FiniteSets

CONSTANTS Producers, Consumers,
          None        \* a name that refers to nothing, a handle not yet held

ASSUME ProcAssumption == Producers \cap Consumers = {} /\ None \notin Producers

Procs == Producers \cup Consumers
Objects == Producers \cup {None}

VARIABLES memName,    \* the memory object MEM refers to
          semName,    \* the semaphore SEM refers to
          sized,      \* the memory objects ftruncate has given their size
          semval,     \* value of each semaphore
          pc,
          mem, sem,   \* the memory each process maps, the semaphore it holds open
          unlinked    \* the producers whose shm_unlink has succeeded

names == <<memName, semName>>
handles == <<mem, sem>>
vars == <<names, sized, semval, pc, handles, unlinked>>

Init ==
  /\ memName = None /\ semName = None
  /\ sized = {}
  /\ semval = [p \in Producers |-> 0]
  /\ pc = [p \in Procs |-> "start"]
  /\ mem = [p \in Procs |-> None]
  /\ sem = [p \in Procs |-> None]
  /\ unlinked = {}

At(p, label) == pc[p] = label
Goto(p, label) == pc' = [pc EXCEPT ![p] = label]

\* cs644_bail: a message and exit(1), nothing is undone
Bail(p) == Goto(p, "bailed")

-----------------------------------------------------------------------------
(* ring_buffer_create.                                                     *)

\* mutant: without O_EXCL the name is taken over
CreateMemShared(p) ==
  /\ At(p, "start") /\ p \in Producers
  /\ memName' = p
  /\ mem' = [mem EXCEPT ![p] = p]
  /\ Goto(p, "ftruncate")
  /\ UNCHANGED <<semName, sized, semval, sem, unlinked>>

CreateMem(p) ==
  /\ At(p, "start") /\ p \in Producers
  /\ \/ /\ memName # None                    \* O_EXCL
        /\ Bail(p)
        /\ UNCHANGED <<memName, mem>>
     \/ /\ memName = None
        /\ memName' = p
        /\ mem' = [mem EXCEPT ![p] = p]
        /\ Goto(p, "ftruncate")
  /\ UNCHANGED <<semName, sized, semval, sem, unlinked>>

Truncate(p) ==
  /\ At(p, "ftruncate")
  /\ sized' = sized \cup {p}
  /\ Goto(p, "create_sem")
  /\ UNCHANGED <<names, semval, handles, unlinked>>

CreateSem(p) ==
  /\ At(p, "create_sem")
  /\ \/ /\ semName # None                    \* O_EXCL
        /\ Bail(p)
        /\ UNCHANGED <<semName, semval, sem>>
     \/ /\ semName = None
        /\ semName' = p
        /\ semval' = [semval EXCEPT ![p] = 1]
        /\ sem' = [sem EXCEPT ![p] = p]
        /\ Goto(p, "idle")
  /\ UNCHANGED <<memName, sized, mem, unlinked>>

-----------------------------------------------------------------------------
(* ring_buffer_open.                                                       *)

OpenMem(c) ==
  /\ At(c, "start") /\ c \in Consumers
  /\ \/ memName = None /\ Bail(c) /\ UNCHANGED mem
     \/ /\ memName # None
        /\ mem' = [mem EXCEPT ![c] = memName]
        /\ Goto(c, "open_sem")
  /\ UNCHANGED <<names, sized, semval, sem, unlinked>>

OpenSem(c) ==
  /\ At(c, "open_sem")
  /\ \/ semName = None /\ Bail(c) /\ UNCHANGED sem
     \/ /\ semName # None
        /\ sem' = [sem EXCEPT ![c] = semName]
        /\ Goto(c, "idle")
  /\ UNCHANGED <<names, sized, semval, mem, unlinked>>

-----------------------------------------------------------------------------
(* ring_buffer_read and ring_buffer_write.                                 *)

\* mutants: a lock that does not wait, an unlock that posts twice
LockNoWait(p) ==
  /\ At(p, "idle")
  /\ semval' = [semval EXCEPT ![sem[p]] = 0]
  /\ Goto(p, "access")
  /\ UNCHANGED <<names, sized, handles, unlinked>>

Lock(p) ==
  /\ At(p, "idle")
  /\ semval[sem[p]] > 0
  /\ semval' = [semval EXCEPT ![sem[p]] = @ - 1]
  /\ Goto(p, "access")
  /\ UNCHANGED <<names, sized, handles, unlinked>>

\* touching a mapped page past the end of the object is a SIGBUS
Access(p) ==
  /\ At(p, "access")
  /\ Goto(p, IF mem[p] \in sized THEN "unlock" ELSE "killed")
  /\ UNCHANGED <<names, sized, semval, handles, unlinked>>

Unlock(p) ==
  /\ At(p, "unlock")
  /\ semval' = [semval EXCEPT ![sem[p]] = @ + 1]
  /\ Goto(p, "idle")
  /\ UNCHANGED <<names, sized, handles, unlinked>>

-----------------------------------------------------------------------------
(* ring_buffer_destroy.                                                    *)

DestroyMem(p) ==
  /\ At(p, "idle") /\ p \in Producers
  /\ \/ memName = None /\ Bail(p) /\ UNCHANGED <<memName, unlinked>>
     \/ /\ memName # None
        /\ memName' = None
        /\ unlinked' = unlinked \cup {p}
        /\ Goto(p, "unlink_sem")
  /\ UNCHANGED <<semName, sized, semval, handles>>

DestroySem(p) ==
  /\ At(p, "unlink_sem")
  /\ \/ semName = None /\ Bail(p) /\ UNCHANGED semName
     \/ semName # None /\ semName' = None /\ Goto(p, "done")
  /\ UNCHANGED <<memName, sized, semval, handles, unlinked>>

Running(p) == pc[p] \notin {"done", "bailed", "killed"}

Kill(p) ==
  /\ Running(p)
  /\ Goto(p, "killed")
  /\ UNCHANGED <<names, sized, semval, handles, unlinked>>

-----------------------------------------------------------------------------
Create(p) == CreateMem(p) \/ Truncate(p) \/ CreateSem(p)
Open(c) == OpenMem(c) \/ OpenSem(c)
Use(p) == Lock(p) \/ Access(p) \/ Unlock(p)
Destroy(p) == DestroyMem(p) \/ DestroySem(p)

Next == \E p \in Procs : Create(p) \/ Open(p) \/ Use(p) \/ Destroy(p) \/ Kill(p)

Spec == Init /\ [][Next]_vars

-----------------------------------------------------------------------------
(* Properties.                                                             *)

\* A producer that has finished ring_buffer_create owns both names until its own
\* shm_unlink and sem_unlink: it never unlinks the objects of another producer, and its
\* destroy never fails.  ring_buffer_open pairs a memory with the semaphore of another
\* producer only if one of the two has already begun to destroy its buffer.
OwnsNames ==
  /\ \A p \in Producers :
       /\ pc[p] \in {"ftruncate", "create_sem", "idle", "access", "unlock"} => memName = p
       /\ pc[p] \in {"idle", "access", "unlock", "unlink_sem"} => semName = p
  /\ \A c \in Consumers :
       mem[c] # None /\ sem[c] # None /\ mem[c] # sem[c]
         => mem[c] \in unlinked \/ sem[c] \in unlinked

Inside(p) == pc[p] \in {"access", "unlock"}

\* Whoever holds the memory and the semaphore of the same producer never touches a page
\* that is not there, as SEM is created after ftruncate; and two processes are inside the
\* same memory at once only if one of them holds the semaphore of another memory.
ExclusionOfMatched ==
  /\ \A p \in Procs : sem[p] # None /\ mem[p] = sem[p] => mem[p] \in sized
  /\ \A p, q \in Procs :
       p # q /\ mem[p] = mem[q] /\ Inside(p) /\ Inside(q) => mem[p] # sem[p] \/ mem[q] # sem[q]
=============================================================================
