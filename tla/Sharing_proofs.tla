--------------------------- MODULE Sharing_proofs ---------------------------
(***************************************************************************)
(* Proofs about the programs whose processes share memory or a file: the   *)
(* two invariants of RingBufferLifecycle for any number of producers and   *)
(* consumers, ReaderSeesWhole of ShmExample for any writers and readers,   *)
(* any length of the array and any width of its cells, and BlocksReadWhole *)
(* of SharedBlock for any writers, readers, block sizes and rounds.        *)
(***************************************************************************)
EXTENDS MCSharing, Sequences, SequenceTheorems, TLAPS

-----------------------------------------------------------------------------
(* Creation and destruction of the ring buffer.                            *)

Labels == {"start", "ftruncate", "create_sem", "open_sem", "idle", "access", "unlock",
           "unlink_sem", "done", "bailed", "killed"}

Types ==
  /\ memName \in Objects /\ semName \in Objects
  /\ sized \subseteq Producers /\ unlinked \subseteq Producers
  /\ semval \in [Producers -> {0, 1}]
  /\ pc \in [Procs -> Labels]
  /\ mem \in [Procs -> Objects] /\ sem \in [Procs -> Objects]
  /\ \A p \in Procs : pc[p] \in {"ftruncate", "create_sem", "unlink_sem"} => p \in Producers
  /\ \A p \in Procs : pc[p] \in {"idle", "access", "unlock"} => sem[p] \in Producers
  /\ \A p \in Procs : pc[p] = "open_sem" => p \in Consumers
  /\ \A c \in Consumers : pc[c] \in {"start", "open_sem"} => sem[c] = None

\* what a name refers to now, or a consumer found under it, is not forgotten before
\* its producer has unlinked the memory
Remembered ==
  /\ semName # None => memName = semName \/ semName \in unlinked
  /\ \A c \in Consumers : mem[c] # None => memName = mem[c] \/ mem[c] \in unlinked

\* a semaphore that was created belongs to a memory with a size
AfterSize ==
  /\ \A p \in Producers : pc[p] = "create_sem" => p \in sized
  /\ semName # None => semName \in sized
  /\ \A p \in Procs : sem[p] # None => sem[p] \in sized

\* nobody knows the semaphore of a producer that has not created it
Unknown ==
  \A p \in Producers : pc[p] \in {"start", "ftruncate", "create_sem"} =>
    semName # p /\ \A q \in Procs : sem[q] # p

OneHolder ==
  \A p \in Procs : Inside(p) =>
    /\ semval[sem[p]] = 0
    /\ \A q \in Procs \ {p} : Inside(q) => sem[q] # sem[p]

IInv == Types /\ OwnsNames /\ Remembered /\ AfterSize /\ Unknown /\ OneHolder

-----------------------------------------------------------------------------
(* The facts hold at first, and each action keeps them.                    *)

\* The invariant of the ring buffer's names holds at first.
LEMMA InitIInv == Init => IInv
<1> SUFFICES ASSUME Init PROVE IInv
  OBVIOUS
<1> USE ProcAssumption DEF Init, Procs, Objects
<1>1. Types
  BY DEF Types, Labels
<1>2. OwnsNames
  BY DEF OwnsNames
<1>3. Remembered /\ AfterSize
  BY DEF Remembered, AfterSize
<1>4. Unknown
  BY DEF Unknown
<1>5. OneHolder
  BY DEF OneHolder, Inside
<1> QED
  BY <1>1, <1>2, <1>3, <1>4, <1>5 DEF IInv

\* Each action keeps the types.
LEMMA NextTypes == IInv /\ [Next]_vars => Types'
<1> SUFFICES ASSUME IInv, [Next]_vars PROVE Types'
  OBVIOUS
<1> USE ProcAssumption DEF IInv, Types, Labels, Procs, Objects, At, Goto, Bail, names, handles
<1>1. CASE UNCHANGED vars
  BY <1>1 DEF vars
<1>2. ASSUME NEW p \in Procs, CreateMem(p) PROVE Types'
  BY <1>2 DEF CreateMem
<1>3. ASSUME NEW p \in Procs, Truncate(p) PROVE Types'
  BY <1>3 DEF Truncate
<1>4. ASSUME NEW p \in Procs, CreateSem(p) PROVE Types'
  BY <1>4 DEF CreateSem
<1>5. ASSUME NEW p \in Procs, OpenMem(p) PROVE Types'
  BY <1>5 DEF OpenMem
<1>6. ASSUME NEW p \in Procs, OpenSem(p) PROVE Types'
  BY <1>6 DEF OpenSem
<1>7. ASSUME NEW p \in Procs, Lock(p) PROVE Types'
  BY <1>7 DEF Lock
<1>8. ASSUME NEW p \in Procs, Access(p) PROVE Types'
  BY <1>8 DEF Access
<1>9. ASSUME NEW p \in Procs, Unlock(p) PROVE Types'
  BY <1>9 DEF Unlock, OneHolder, Inside
<1>10. ASSUME NEW p \in Procs, DestroyMem(p) PROVE Types'
  BY <1>10 DEF DestroyMem
<1>11. ASSUME NEW p \in Procs, DestroySem(p) PROVE Types'
  BY <1>11 DEF DestroySem
<1>12. ASSUME NEW p \in Procs, Kill(p) PROVE Types'
  BY <1>12 DEF Kill
<1> QED
  BY <1>1, <1>2, <1>3, <1>4, <1>5, <1>6, <1>7, <1>8, <1>9, <1>10, <1>11, <1>12
  DEF Next, Create, Open, Use, Destroy

\* Each action keeps the names of a producer that it has created.
LEMMA NextOwnsNames == IInv /\ [Next]_vars => OwnsNames'
<1> SUFFICES ASSUME IInv, [Next]_vars PROVE OwnsNames'
  OBVIOUS
<1> USE ProcAssumption DEF IInv, Types, Labels, Procs, Objects, At, Goto, Bail, names, handles,
             OwnsNames, Remembered
<1>1. CASE UNCHANGED vars
  BY <1>1 DEF vars
<1>2. ASSUME NEW p \in Procs, CreateMem(p) PROVE OwnsNames'
  BY <1>2 DEF CreateMem
<1>3. ASSUME NEW p \in Procs, Truncate(p) PROVE OwnsNames'
  BY <1>3 DEF Truncate
<1>4. ASSUME NEW p \in Procs, CreateSem(p) PROVE OwnsNames'
  BY <1>4 DEF CreateSem
<1>5. ASSUME NEW p \in Procs, OpenMem(p) PROVE OwnsNames'
  BY <1>5 DEF OpenMem
<1>6. ASSUME NEW p \in Procs, OpenSem(p) PROVE OwnsNames'
  <2>1. ASSUME NEW q \in Producers
        PROVE /\ pc'[q] \in {"ftruncate", "create_sem", "idle", "access", "unlock"} => memName' = q
              /\ pc'[q] \in {"idle", "access", "unlock", "unlink_sem"} => semName' = q
    BY <1>6, <2>1 DEF OpenSem
  <2>2. ASSUME NEW c \in Consumers, mem'[c] # None, sem'[c] # None, mem'[c] # sem'[c]
        PROVE mem'[c] \in unlinked' \/ sem'[c] \in unlinked'
    <3>1. CASE c = p
      BY <1>6, <2>2, <3>1 DEF OpenSem
    <3>2. CASE c # p
      BY <1>6, <2>2, <3>2 DEF OpenSem
    <3> QED
      BY <3>1, <3>2
  <2> QED
    BY <2>1, <2>2
<1>7. ASSUME NEW p \in Procs, Lock(p) PROVE OwnsNames'
  BY <1>7 DEF Lock
<1>8. ASSUME NEW p \in Procs, Access(p) PROVE OwnsNames'
  BY <1>8 DEF Access
<1>9. ASSUME NEW p \in Procs, Unlock(p) PROVE OwnsNames'
  BY <1>9 DEF Unlock
<1>10. ASSUME NEW p \in Procs, DestroyMem(p) PROVE OwnsNames'
  BY <1>10 DEF DestroyMem
<1>11. ASSUME NEW p \in Procs, DestroySem(p) PROVE OwnsNames'
  BY <1>11 DEF DestroySem
<1>12. ASSUME NEW p \in Procs, Kill(p) PROVE OwnsNames'
  BY <1>12 DEF Kill
<1> QED
  BY <1>1, <1>2, <1>3, <1>4, <1>5, <1>6, <1>7, <1>8, <1>9, <1>10, <1>11, <1>12
  DEF Next, Create, Open, Use, Destroy

\* Each action keeps what a name or a consumer's handle refers to.
LEMMA NextRemembered == IInv /\ [Next]_vars => Remembered'
<1> SUFFICES ASSUME IInv, [Next]_vars PROVE Remembered'
  OBVIOUS
<1> USE ProcAssumption DEF IInv, Types, Labels, Procs, Objects, At, Goto, Bail, names, handles,
             OwnsNames, Remembered
<1>1. CASE UNCHANGED vars
  BY <1>1 DEF vars
<1>2. ASSUME NEW p \in Procs, CreateMem(p) PROVE Remembered'
  BY <1>2 DEF CreateMem
<1>3. ASSUME NEW p \in Procs, Truncate(p) PROVE Remembered'
  BY <1>3 DEF Truncate
<1>4. ASSUME NEW p \in Procs, CreateSem(p) PROVE Remembered'
  BY <1>4 DEF CreateSem
<1>5. ASSUME NEW p \in Procs, OpenMem(p) PROVE Remembered'
  BY <1>5 DEF OpenMem
<1>6. ASSUME NEW p \in Procs, OpenSem(p) PROVE Remembered'
  BY <1>6 DEF OpenSem
<1>7. ASSUME NEW p \in Procs, Lock(p) PROVE Remembered'
  BY <1>7 DEF Lock
<1>8. ASSUME NEW p \in Procs, Access(p) PROVE Remembered'
  BY <1>8 DEF Access
<1>9. ASSUME NEW p \in Procs, Unlock(p) PROVE Remembered'
  BY <1>9 DEF Unlock
<1>10. ASSUME NEW p \in Procs, DestroyMem(p) PROVE Remembered'
  BY <1>10 DEF DestroyMem
<1>11. ASSUME NEW p \in Procs, DestroySem(p) PROVE Remembered'
  BY <1>11 DEF DestroySem
<1>12. ASSUME NEW p \in Procs, Kill(p) PROVE Remembered'
  BY <1>12 DEF Kill
<1> QED
  BY <1>1, <1>2, <1>3, <1>4, <1>5, <1>6, <1>7, <1>8, <1>9, <1>10, <1>11, <1>12
  DEF Next, Create, Open, Use, Destroy

\* Each action keeps that a semaphore is created after the memory has a size.
LEMMA NextAfterSize == IInv /\ [Next]_vars => AfterSize'
<1> SUFFICES ASSUME IInv, [Next]_vars PROVE AfterSize'
  OBVIOUS
<1> USE ProcAssumption DEF IInv, Types, Labels, Procs, Objects, At, Goto, Bail, names, handles,
             AfterSize
<1>1. CASE UNCHANGED vars
  BY <1>1 DEF vars
<1>2. ASSUME NEW p \in Procs, CreateMem(p) PROVE AfterSize'
  BY <1>2 DEF CreateMem
<1>3. ASSUME NEW p \in Procs, Truncate(p) PROVE AfterSize'
  BY <1>3 DEF Truncate
<1>4. ASSUME NEW p \in Procs, CreateSem(p) PROVE AfterSize'
  BY <1>4 DEF CreateSem
<1>5. ASSUME NEW p \in Procs, OpenMem(p) PROVE AfterSize'
  BY <1>5 DEF OpenMem
<1>6. ASSUME NEW p \in Procs, OpenSem(p) PROVE AfterSize'
  BY <1>6 DEF OpenSem
<1>7. ASSUME NEW p \in Procs, Lock(p) PROVE AfterSize'
  BY <1>7 DEF Lock
<1>8. ASSUME NEW p \in Procs, Access(p) PROVE AfterSize'
  BY <1>8 DEF Access
<1>9. ASSUME NEW p \in Procs, Unlock(p) PROVE AfterSize'
  BY <1>9 DEF Unlock
<1>10. ASSUME NEW p \in Procs, DestroyMem(p) PROVE AfterSize'
  BY <1>10 DEF DestroyMem
<1>11. ASSUME NEW p \in Procs, DestroySem(p) PROVE AfterSize'
  BY <1>11 DEF DestroySem
<1>12. ASSUME NEW p \in Procs, Kill(p) PROVE AfterSize'
  BY <1>12 DEF Kill
<1> QED
  BY <1>1, <1>2, <1>3, <1>4, <1>5, <1>6, <1>7, <1>8, <1>9, <1>10, <1>11, <1>12
  DEF Next, Create, Open, Use, Destroy

\* Each action keeps that nobody knows a semaphore before it is created.
LEMMA NextUnknown == IInv /\ [Next]_vars => Unknown'
<1> SUFFICES ASSUME IInv, [Next]_vars PROVE Unknown'
  OBVIOUS
<1> USE ProcAssumption DEF IInv, Types, Labels, Procs, Objects, At, Goto, Bail, names, handles,
             Unknown, OwnsNames
<1>1. CASE UNCHANGED vars
  BY <1>1 DEF vars
<1>2. ASSUME NEW p \in Procs, CreateMem(p) PROVE Unknown'
  BY <1>2 DEF CreateMem
<1>3. ASSUME NEW p \in Procs, Truncate(p) PROVE Unknown'
  BY <1>3 DEF Truncate
<1>4. ASSUME NEW p \in Procs, CreateSem(p) PROVE Unknown'
  BY <1>4 DEF CreateSem
<1>5. ASSUME NEW p \in Procs, OpenMem(p) PROVE Unknown'
  BY <1>5 DEF OpenMem
<1>6. ASSUME NEW p \in Procs, OpenSem(p) PROVE Unknown'
  BY <1>6 DEF OpenSem
<1>7. ASSUME NEW p \in Procs, Lock(p) PROVE Unknown'
  BY <1>7 DEF Lock
<1>8. ASSUME NEW p \in Procs, Access(p) PROVE Unknown'
  BY <1>8 DEF Access
<1>9. ASSUME NEW p \in Procs, Unlock(p) PROVE Unknown'
  BY <1>9 DEF Unlock
<1>10. ASSUME NEW p \in Procs, DestroyMem(p) PROVE Unknown'
  BY <1>10 DEF DestroyMem
<1>11. ASSUME NEW p \in Procs, DestroySem(p) PROVE Unknown'
  BY <1>11 DEF DestroySem
<1>12. ASSUME NEW p \in Procs, Kill(p) PROVE Unknown'
  BY <1>12 DEF Kill
<1> QED
  BY <1>1, <1>2, <1>3, <1>4, <1>5, <1>6, <1>7, <1>8, <1>9, <1>10, <1>11, <1>12
  DEF Next, Create, Open, Use, Destroy

\* Each action keeps that a semaphore has one holder.
LEMMA NextOneHolder == IInv /\ [Next]_vars => OneHolder'
<1> SUFFICES ASSUME IInv, [Next]_vars PROVE OneHolder'
  OBVIOUS
<1> USE ProcAssumption DEF IInv, Types, Labels, Procs, Objects, At, Goto, Bail, names, handles,
             OneHolder, Inside, Unknown
<1>1. CASE UNCHANGED vars
  BY <1>1 DEF vars
<1>2. ASSUME NEW p \in Procs, CreateMem(p) PROVE OneHolder'
  BY <1>2 DEF CreateMem
<1>3. ASSUME NEW p \in Procs, Truncate(p) PROVE OneHolder'
  BY <1>3 DEF Truncate
<1>4. ASSUME NEW p \in Procs, CreateSem(p) PROVE OneHolder'
  BY <1>4 DEF CreateSem
<1>5. ASSUME NEW p \in Procs, OpenMem(p) PROVE OneHolder'
  BY <1>5 DEF OpenMem
<1>6. ASSUME NEW p \in Procs, OpenSem(p) PROVE OneHolder'
  BY <1>6 DEF OpenSem
<1>7. ASSUME NEW p \in Procs, Lock(p) PROVE OneHolder'
  BY <1>7 DEF Lock
<1>8. ASSUME NEW p \in Procs, Access(p) PROVE OneHolder'
  BY <1>8 DEF Access
<1>9. ASSUME NEW p \in Procs, Unlock(p) PROVE OneHolder'
  BY <1>9 DEF Unlock
<1>10. ASSUME NEW p \in Procs, DestroyMem(p) PROVE OneHolder'
  BY <1>10 DEF DestroyMem
<1>11. ASSUME NEW p \in Procs, DestroySem(p) PROVE OneHolder'
  BY <1>11 DEF DestroySem
<1>12. ASSUME NEW p \in Procs, Kill(p) PROVE OneHolder'
  BY <1>12 DEF Kill
<1> QED
  BY <1>1, <1>2, <1>3, <1>4, <1>5, <1>6, <1>7, <1>8, <1>9, <1>10, <1>11, <1>12
  DEF Next, Create, Open, Use, Destroy

-----------------------------------------------------------------------------
(* The theorems.                                                           *)

\* IInv is an inductive invariant: it holds at first and every step keeps it.
THEOREM Inductive == Spec => []IInv
<1>1. Init => IInv
  BY InitIInv
<1>2. IInv /\ [Next]_vars => IInv'
  BY NextTypes, NextOwnsNames, NextRemembered, NextAfterSize, NextUnknown, NextOneHolder DEF IInv
<1> QED
  BY <1>1, <1>2, PTL DEF Spec

\* A producer owns both names until its own destroy, whatever others create, destroy
\* or open meanwhile and whoever is killed, and a consumer pairs objects of different
\* producers only if one of the two has begun to destroy its buffer.
THEOREM OwnsNamesTheorem == Spec => []OwnsNames
<1>1. IInv => OwnsNames
  BY DEF IInv
<1> QED
  BY <1>1, Inductive, PTL

\* Memory and semaphore of the same producer give exclusion and memory that is there.
THEOREM ExclusionTheorem == Spec => []ExclusionOfMatched
<1>1. IInv => ExclusionOfMatched
  <2> SUFFICES ASSUME IInv PROVE ExclusionOfMatched
    OBVIOUS
  <2>1. \A p \in Procs : sem[p] # None /\ mem[p] = sem[p] => mem[p] \in sized
    BY DEF IInv, AfterSize
  <2>2. ASSUME NEW p \in Procs, NEW q \in Procs, p # q, mem[p] = mem[q], Inside(p), Inside(q)
        PROVE mem[p] # sem[p] \/ mem[q] # sem[q]
    BY <2>2 DEF IInv, OneHolder
  <2> QED
    BY <2>1, <2>2 DEF ExclusionOfMatched
<1> QED
  BY <1>1, Inductive, PTL

-----------------------------------------------------------------------------
(* The counters of shm_example.c.                                          *)

WriterLabels == {"shm_open", "ftruncate", "sem_open", "loop", "body", "unlink_mem",
                 "done", "bailed", "killed"}
ReaderLabels == {"shm_open", "sem_open", "loop", "body", "done", "bailed", "killed",
                 "detected", "faulted"}

ShmTypes ==
  /\ shmMem \in Writers \cup {None} /\ shmSem \in Writers \cup {None}
  /\ mapped \in [Shm!Procs -> Writers \cup {None}] /\ opened \in [Shm!Procs -> Writers \cup {None}]
  /\ value \in [Writers -> {0, 1}]
  /\ i \in [Shm!Procs -> 0 .. SIZE]
  /\ shmPc \in [Shm!Procs -> WriterLabels \cup ReaderLabels]
  /\ \A w \in Writers : shmPc[w] \in WriterLabels
  /\ \A r \in Readers : shmPc[r] \in ReaderLabels
  /\ \A w \in Writers : shmPc[w] \in {"loop", "body"} => opened[w] = w
  /\ \A r \in Readers : /\ shmPc[r] \in {"sem_open", "loop", "body"} => mapped[r] \in Writers
                        /\ shmPc[r] \in {"loop", "body"} => opened[r] \in Writers
  /\ \A w \in Writers : arr[w] = <<>> \/ arr[w] \in [Shm!Cells -> Nat]
  /\ DOMAIN arr = Writers

\* the names are those of a writer between its creation and its end, and a memory
\* that a reader has mapped is the named one or that of a writer that is done
ShmNames ==
  /\ \A w \in Writers :
       /\ shmPc[w] \in {"ftruncate", "sem_open", "loop", "body", "unlink_mem"} => shmMem = w
       /\ shmPc[w] \in {"loop", "body"} => shmSem = w
       /\ shmPc[w] = "unlink_mem" => shmSem = None
  /\ shmSem # None => shmMem = shmSem
  /\ \A r \in Readers : mapped[r] # None => shmMem = mapped[r] \/ shmPc[mapped[r]] = "done"
  /\ \A r \in Readers : shmPc[r] \in {"loop", "body"} => mapped[r] = opened[r] \/ shmPc[mapped[r]] = "done"

\* nobody has the semaphore of a writer that has not created it, and when it has,
\* its memory has a size
ShmCreated ==
  /\ \A w \in Writers : shmPc[w] \in {"shm_open", "ftruncate", "sem_open"} =>
       shmSem # w /\ \A p \in Shm!Procs : opened[p] # w
  /\ \A w \in Writers :
       shmPc[w] \in {"sem_open", "loop", "body", "unlink_mem", "done"} => arr[w] # <<>>
  /\ shmSem # None => arr[shmSem] # <<>>
  /\ \A p \in Shm!Procs : opened[p] # None => arr[opened[p]] # <<>>

Holds(p, w) == shmPc[p] = "body" /\ opened[p] = w

ShmOneHolder ==
  \A w \in Writers, p \in Shm!Procs : Holds(p, w) =>
    value[w] = 0 /\ \A q \in Shm!Procs : Holds(q, w) => q = p

Uniform(w) == \A c \in Shm!Cells : arr[w][c] = arr[w][0]

\* w has incremented the cells before the i[w]-th
Partly(w) ==
  \E a \in Nat : \A c \in Shm!Cells : arr[w][c] = IF c < i[w] THEN (a + 1) % WIDTH ELSE a

\* w was killed in the middle, and its semaphore with it
Stuck(w) == shmPc[w] = "killed" /\ value[w] = 0 /\ \A p \in Shm!Procs : ~ Holds(p, w)

\* the array is uneven only while its writer holds the semaphore, or for ever
WholeAt(w) ==
  arr[w] # <<>> => IF shmPc[w] = "body" THEN Partly(w) ELSE Uniform(w) \/ Stuck(w)

Whole == \A w \in Writers : WholeAt(w)

ShmInv == ShmTypes /\ ShmNames /\ ShmCreated /\ ShmOneHolder /\ Whole /\ Shm!ReaderSeesWhole

-----------------------------------------------------------------------------

\* an array has a first byte
LEMMA NotEmpty ==
  ASSUME NEW f \in [Shm!Cells -> Nat]
  PROVE  f # <<>>
<1>1. 0 \in DOMAIN f
  BY SizesAssumption DEF Shm!Cells
<1>2. DOMAIN <<>> = {}
  OBVIOUS
<1> QED
  BY <1>1, <1>2

\* ftruncate makes an array of zeros
LEMMA Truncated ==
  ASSUME ShmInv, NEW w \in Writers, Shm!Ftruncate(w)
  PROVE  /\ arr'[w] \in [Shm!Cells -> Nat] /\ arr'[w] # <<>>
         /\ \A c \in Shm!Cells : arr'[w][c] = 0
         /\ \A v \in Writers \ {w} : arr'[v] = arr[v]
         /\ DOMAIN arr' = Writers
<1>1. /\ arr'[w] = [c \in Shm!Cells |-> 0] /\ DOMAIN arr' = Writers
      /\ \A v \in Writers \ {w} : arr'[v] = arr[v]
  BY DEF Shm!Ftruncate, ShmInv, ShmTypes
<1>2. arr'[w] \in [Shm!Cells -> Nat]
  BY <1>1
<1> QED
  BY <1>1, <1>2, NotEmpty

\* one byte incremented, the others as they were
LEMMA Incremented ==
  ASSUME ShmInv, NEW w \in Writers, Shm!Increment(w)
  PROVE  /\ i[w] \in Shm!Cells /\ arr[w] \in [Shm!Cells -> Nat]
         /\ arr'[w] \in [Shm!Cells -> Nat] /\ arr'[w] # <<>>
         /\ \A c \in Shm!Cells : arr'[w][c] = IF c = i[w] THEN (arr[w][c] + 1) % WIDTH ELSE arr[w][c]
         /\ \A v \in Writers \ {w} : arr'[v] = arr[v]
         /\ DOMAIN arr' = Writers
<1>1. i[w] \in Shm!Cells
  BY SizesAssumption DEF Shm!Increment, ShmInv, ShmTypes, Shm!Cells, Shm!Procs
<1>2. arr[w] \in [Shm!Cells -> Nat]
  BY DEF Shm!Increment, ShmInv, ShmTypes, ShmCreated, Shm!At
<1>3. /\ arr'[w] = [arr[w] EXCEPT ![i[w]] = (arr[w][i[w]] + 1) % WIDTH]
      /\ \A v \in Writers \ {w} : arr'[v] = arr[v]
      /\ DOMAIN arr' = Writers
  BY DEF Shm!Increment, ShmInv, ShmTypes
<1>4. (arr[w][i[w]] + 1) % WIDTH \in Nat
  <2>1. arr[w][i[w]] \in Nat /\ WIDTH \in Nat \ {0}
    BY <1>1, <1>2, SizesAssumption
  <2> QED
    BY <2>1
<1>5. arr'[w] \in [Shm!Cells -> Nat]
  BY <1>2, <1>3, <1>4
<1> QED
  BY <1>1, <1>2, <1>3, <1>5, NotEmpty

\* no object, no name, nobody started
LEMMA InitShmInv == Shm!Init => ShmInv
<1> SUFFICES ASSUME Shm!Init PROVE ShmInv
  OBVIOUS
<1> USE RolesAssumption, SizesAssumption DEF Shm!Init, Shm!Procs
<1>1. ShmTypes
  BY DEF ShmTypes, WriterLabels, ReaderLabels
<1>2. ShmNames
  BY DEF ShmNames
<1>3. ShmCreated
  BY DEF ShmCreated
<1>4. ShmOneHolder /\ Whole
  BY DEF ShmOneHolder, Holds, Whole, WholeAt
<1>5. Shm!ReaderSeesWhole
  BY DEF Shm!ReaderSeesWhole
<1> QED
  BY <1>1, <1>2, <1>3, <1>4, <1>5 DEF ShmInv

\* types
LEMMA NextShmTypes == ShmInv /\ [Shm!Next]_(Shm!vars) => ShmTypes'
<1> SUFFICES ASSUME ShmInv, [Shm!Next]_(Shm!vars) PROVE ShmTypes'
  OBVIOUS
<1> USE RolesAssumption, SizesAssumption
   DEF ShmInv, ShmTypes, WriterLabels, ReaderLabels, Shm!Procs, Shm!At, Shm!Goto,
       Shm!paths, Shm!handles
<1>1. CASE UNCHANGED Shm!vars
  BY <1>1 DEF Shm!vars
<1>2. ASSUME NEW w \in Writers, Shm!CreateMem(w) PROVE ShmTypes'
  <2>0. \/ shmPc' = [shmPc EXCEPT ![w] = "ftruncate"] \/ shmPc' = [shmPc EXCEPT ![w] = "bailed"]
    BY <1>2 DEF Shm!CreateMem
  <2>a. /\ \A q \in Readers : shmPc'[q] = shmPc[q]
        /\ mapped' = mapped \/ mapped' = [mapped EXCEPT ![w] = w]
        /\ opened' = opened
    BY <2>0, <1>2 DEF Shm!CreateMem
  <2>1. shmMem' \in Writers \cup {None} /\ shmSem' \in Writers \cup {None}
    BY <1>2 DEF Shm!CreateMem
  <2>2. mapped' \in [Shm!Procs -> Writers \cup {None}] /\ opened' \in [Shm!Procs -> Writers \cup {None}]
    <3>1. /\ mapped \in [Shm!Procs -> Writers \cup {None}]
          /\ opened \in [Shm!Procs -> Writers \cup {None}]
      OBVIOUS
    <3>2. /\ mapped' = mapped \/ mapped' = [mapped EXCEPT ![w] = w]
          /\ opened' = opened \/ opened' = [opened EXCEPT ![w] = w]
      BY <1>2 DEF Shm!CreateMem
    <3> HIDE DEF ShmInv, ShmTypes, Shm!Procs
    <3> QED
      BY <3>1, <3>2
  <2>3. value' \in [Writers -> {0, 1}]
    BY <1>2 DEF Shm!CreateMem
  <2>4. i' \in [Shm!Procs -> 0 .. SIZE]
    BY <1>2 DEF Shm!CreateMem
  <2>5. shmPc' \in [Shm!Procs -> WriterLabels \cup ReaderLabels]
    BY <2>0
  <2>6. /\ \A v \in Writers : shmPc'[v] \in WriterLabels
        /\ \A q \in Readers : shmPc'[q] \in ReaderLabels
    <3>1. \A q \in Readers : shmPc'[q] = shmPc[q]
      BY <2>0
    <3>2. \A v \in Writers : shmPc'[v] \in {shmPc[v], "ftruncate", "bailed"}
      BY <2>0
    <3>3. /\ \A v \in Writers : shmPc[v] \in WriterLabels
          /\ \A q \in Readers : shmPc[q] \in ReaderLabels
      OBVIOUS
    <3> HIDE DEF ShmInv, ShmTypes, ReaderLabels
    <3> QED
      BY <3>1, <3>2, <3>3
  <2>7. \A v \in Writers : shmPc'[v] \in {"loop", "body"} => opened'[v] = v
    BY <1>2 DEF Shm!CreateMem
  <2>8. \A q \in Readers : /\ shmPc'[q] \in {"sem_open", "loop", "body"} => mapped'[q] \in Writers
                           /\ shmPc'[q] \in {"loop", "body"} => opened'[q] \in Writers
    <3>1. \A q \in Readers : shmPc'[q] = shmPc[q] /\ mapped'[q] = mapped[q] /\ opened'[q] = opened[q]
      BY <2>a
    <3> QED
      BY <3>1
  <2>9. DOMAIN arr' = Writers /\ \A v \in Writers : arr'[v] = <<>> \/ arr'[v] \in [Shm!Cells -> Nat]
    BY <1>2 DEF Shm!CreateMem
  <2> HIDE DEF ShmInv, WriterLabels, ReaderLabels, Shm!Procs
  <2> QED
    BY <2>1, <2>2, <2>3, <2>4, <2>5, <2>6, <2>7, <2>8, <2>9
<1>3. ASSUME NEW w \in Writers, Shm!Ftruncate(w) PROVE ShmTypes'
  BY <1>3, Truncated DEF Shm!Ftruncate
<1>4. ASSUME NEW w \in Writers, Shm!CreateSem(w) PROVE ShmTypes'
  <2>0. /\ \/ shmPc' = [shmPc EXCEPT ![w] = "loop"] \/ shmPc' = [shmPc EXCEPT ![w] = "bailed"]
        /\ \/ value' = value \/ value' = [value EXCEPT ![w] = 1]
    BY <1>4 DEF Shm!CreateSem
  <2>1. shmMem' \in Writers \cup {None} /\ shmSem' \in Writers \cup {None}
    BY <1>4 DEF Shm!CreateSem
  <2>2. mapped' \in [Shm!Procs -> Writers \cup {None}] /\ opened' \in [Shm!Procs -> Writers \cup {None}]
    <3>1. /\ mapped \in [Shm!Procs -> Writers \cup {None}]
          /\ opened \in [Shm!Procs -> Writers \cup {None}]
      OBVIOUS
    <3>2. /\ mapped' = mapped \/ mapped' = [mapped EXCEPT ![w] = w]
          /\ opened' = opened \/ opened' = [opened EXCEPT ![w] = w]
      BY <1>4 DEF Shm!CreateSem
    <3> HIDE DEF ShmInv, ShmTypes, Shm!Procs
    <3> QED
      BY <3>1, <3>2
  <2>3. value' \in [Writers -> {0, 1}]
    <3>1. value \in [Writers -> {0, 1}] /\ (value' = value \/ value' = [value EXCEPT ![w] = 1])
      BY <2>0
    <3> HIDE DEF ShmInv, ShmTypes
    <3> QED
      BY <3>1
  <2>4. i' \in [Shm!Procs -> 0 .. SIZE]
    BY <1>4 DEF Shm!CreateSem
  <2>5. shmPc' \in [Shm!Procs -> WriterLabels \cup ReaderLabels]
    BY <2>0
  <2>6. /\ \A v \in Writers : shmPc'[v] \in WriterLabels
        /\ \A q \in Readers : shmPc'[q] \in ReaderLabels
    <3>1. \A q \in Readers : shmPc'[q] = shmPc[q]
      BY <2>0
    <3>2. \A v \in Writers : shmPc'[v] \in {shmPc[v], "loop", "bailed"}
      BY <2>0
    <3>3. /\ \A v \in Writers : shmPc[v] \in WriterLabels
          /\ \A q \in Readers : shmPc[q] \in ReaderLabels
      OBVIOUS
    <3> HIDE DEF ShmInv, ShmTypes, ReaderLabels
    <3> QED
      BY <3>1, <3>2, <3>3
  <2>7. \A v \in Writers : shmPc'[v] \in {"loop", "body"} => opened'[v] = v
    BY <1>4 DEF Shm!CreateSem
  <2>8. \A q \in Readers : /\ shmPc'[q] \in {"sem_open", "loop", "body"} => mapped'[q] \in Writers
                           /\ shmPc'[q] \in {"loop", "body"} => opened'[q] \in Writers
    BY <1>4 DEF Shm!CreateSem
  <2>9. DOMAIN arr' = Writers /\ \A v \in Writers : arr'[v] = <<>> \/ arr'[v] \in [Shm!Cells -> Nat]
    BY <1>4 DEF Shm!CreateSem
  <2> HIDE DEF ShmInv, WriterLabels, ReaderLabels, Shm!Procs
  <2> QED
    BY <2>1, <2>2, <2>3, <2>4, <2>5, <2>6, <2>7, <2>8, <2>9
<1>5. ASSUME NEW w \in Writers, Shm!Increment(w) PROVE ShmTypes'
  <2>1. shmMem' \in Writers \cup {None} /\ shmSem' \in Writers \cup {None}
    BY <1>5 DEF Shm!Increment
  <2>2. mapped' \in [Shm!Procs -> Writers \cup {None}] /\ opened' \in [Shm!Procs -> Writers \cup {None}]
    BY <1>5 DEF Shm!Increment
  <2>3. value' \in [Writers -> {0, 1}]
    BY <1>5 DEF Shm!Increment
  <2>4. i' \in [Shm!Procs -> 0 .. SIZE]
    BY <1>5 DEF Shm!Increment
  <2>5. shmPc' \in [Shm!Procs -> WriterLabels \cup ReaderLabels]
    BY <1>5 DEF Shm!Increment
  <2>6. /\ \A v \in Writers : shmPc'[v] \in WriterLabels
        /\ \A q \in Readers : shmPc'[q] \in ReaderLabels
    BY <1>5 DEF Shm!Increment
  <2>7. \A v \in Writers : shmPc'[v] \in {"loop", "body"} => opened'[v] = v
    BY <1>5 DEF Shm!Increment
  <2>8. \A q \in Readers : /\ shmPc'[q] \in {"sem_open", "loop", "body"} => mapped'[q] \in Writers
                           /\ shmPc'[q] \in {"loop", "body"} => opened'[q] \in Writers
    BY <1>5 DEF Shm!Increment
  <2>9. DOMAIN arr' = Writers /\ \A v \in Writers : arr'[v] = <<>> \/ arr'[v] \in [Shm!Cells -> Nat]
    BY <1>5, Incremented DEF Shm!Increment
  <2> HIDE DEF ShmInv, WriterLabels, ReaderLabels, Shm!Procs
  <2> QED
    BY <2>1, <2>2, <2>3, <2>4, <2>5, <2>6, <2>7, <2>8, <2>9
<1>6. ASSUME NEW w \in Writers, Shm!UnlinkSem(w) PROVE ShmTypes'
  BY <1>6 DEF Shm!UnlinkSem
<1>7. ASSUME NEW w \in Writers, Shm!UnlinkMem(w) PROVE ShmTypes'
  BY <1>7 DEF Shm!UnlinkMem
<1>8. ASSUME NEW r \in Readers, Shm!OpenMem(r) PROVE ShmTypes'
  BY <1>8 DEF Shm!OpenMem
<1>9. ASSUME NEW r \in Readers, Shm!OpenSem(r) PROVE ShmTypes'
  BY <1>9 DEF Shm!OpenSem
<1>10. ASSUME NEW r \in Readers, Shm!Compare(r) PROVE ShmTypes'
  <2>0. \/ shmPc' = shmPc
        \/ shmPc' = [shmPc EXCEPT ![r] = "detected"] \/ shmPc' = [shmPc EXCEPT ![r] = "faulted"]
    BY <1>10 DEF Shm!Compare
  <2>1. shmMem' \in Writers \cup {None} /\ shmSem' \in Writers \cup {None}
    BY <1>10 DEF Shm!Compare
  <2>2. mapped' \in [Shm!Procs -> Writers \cup {None}] /\ opened' \in [Shm!Procs -> Writers \cup {None}]
    BY <1>10 DEF Shm!Compare
  <2>3. value' \in [Writers -> {0, 1}]
    BY <1>10 DEF Shm!Compare
  <2>4. i' \in [Shm!Procs -> 0 .. SIZE]
    BY <1>10 DEF Shm!Compare
  <2>5. shmPc' \in [Shm!Procs -> WriterLabels \cup ReaderLabels]
    BY <2>0
  <2>6. /\ \A v \in Writers : shmPc'[v] \in WriterLabels
        /\ \A q \in Readers : shmPc'[q] \in ReaderLabels
    <3>1. \A v \in Writers : shmPc'[v] = shmPc[v]
      BY <2>0
    <3>2. \A q \in Readers : shmPc'[q] \in {shmPc[q], "detected", "faulted"}
      BY <2>0
    <3>3. /\ \A v \in Writers : shmPc[v] \in WriterLabels
          /\ \A q \in Readers : shmPc[q] \in ReaderLabels
      OBVIOUS
    <3> HIDE DEF ShmInv, ShmTypes, WriterLabels
    <3> QED
      BY <3>1, <3>2, <3>3
  <2>7. \A v \in Writers : shmPc'[v] \in {"loop", "body"} => opened'[v] = v
    BY <1>10 DEF Shm!Compare
  <2>8. \A q \in Readers : /\ shmPc'[q] \in {"sem_open", "loop", "body"} => mapped'[q] \in Writers
                           /\ shmPc'[q] \in {"loop", "body"} => opened'[q] \in Writers
    BY <1>10 DEF Shm!Compare
  <2>9. DOMAIN arr' = Writers /\ \A v \in Writers : arr'[v] = <<>> \/ arr'[v] \in [Shm!Cells -> Nat]
    BY <1>10 DEF Shm!Compare
  <2> HIDE DEF ShmInv, WriterLabels, ReaderLabels, Shm!Procs
  <2> QED
    BY <2>1, <2>2, <2>3, <2>4, <2>5, <2>6, <2>7, <2>8, <2>9
<1>11. ASSUME NEW r \in Readers, Shm!ReaderEnds(r) PROVE ShmTypes'
  BY <1>11 DEF Shm!ReaderEnds
<1>12. ASSUME NEW p \in Shm!Procs, Shm!SemWait(p) PROVE ShmTypes'
  BY <1>12 DEF Shm!SemWait
<1>13. ASSUME NEW p \in Shm!Procs, Shm!SemPost(p) PROVE ShmTypes'
  <2>1. shmMem' \in Writers \cup {None} /\ shmSem' \in Writers \cup {None}
    BY <1>13 DEF Shm!SemPost, ShmOneHolder, Holds
  <2>2. mapped' \in [Shm!Procs -> Writers \cup {None}] /\ opened' \in [Shm!Procs -> Writers \cup {None}]
    BY <1>13 DEF Shm!SemPost, ShmOneHolder, Holds
  <2>3. value' \in [Writers -> {0, 1}]
    BY <1>13 DEF Shm!SemPost, ShmOneHolder, Holds
  <2>4. i' \in [Shm!Procs -> 0 .. SIZE]
    BY <1>13 DEF Shm!SemPost, ShmOneHolder, Holds
  <2>5. shmPc' \in [Shm!Procs -> WriterLabels \cup ReaderLabels]
    BY <1>13 DEF Shm!SemPost, ShmOneHolder, Holds
  <2>6. /\ \A v \in Writers : shmPc'[v] \in WriterLabels
        /\ \A q \in Readers : shmPc'[q] \in ReaderLabels
    BY <1>13 DEF Shm!SemPost, ShmOneHolder, Holds
  <2>7. \A v \in Writers : shmPc'[v] \in {"loop", "body"} => opened'[v] = v
    BY <1>13 DEF Shm!SemPost, ShmOneHolder, Holds
  <2>8. \A q \in Readers : /\ shmPc'[q] \in {"sem_open", "loop", "body"} => mapped'[q] \in Writers
                           /\ shmPc'[q] \in {"loop", "body"} => opened'[q] \in Writers
    BY <1>13 DEF Shm!SemPost, ShmOneHolder, Holds
  <2>9. DOMAIN arr' = Writers /\ \A v \in Writers : arr'[v] = <<>> \/ arr'[v] \in [Shm!Cells -> Nat]
    BY <1>13 DEF Shm!SemPost, ShmOneHolder, Holds
  <2> QED
    BY <2>1, <2>2, <2>3, <2>4, <2>5, <2>6, <2>7, <2>8, <2>9
<1>14. ASSUME NEW p \in Shm!Procs, Shm!Kill(p) PROVE ShmTypes'
  BY <1>14 DEF Shm!Kill
<1> QED
  BY <1>1, <1>2, <1>3, <1>4, <1>5, <1>6, <1>7, <1>8,
     <1>9, <1>10, <1>11, <1>12, <1>13, <1>14 DEF Shm!Next, Shm!writer, Shm!reader

\* the names
LEMMA NextShmNames == ShmInv /\ [Shm!Next]_(Shm!vars) => ShmNames'
<1> SUFFICES ASSUME ShmInv, [Shm!Next]_(Shm!vars) PROVE ShmNames'
  OBVIOUS
<1> USE RolesAssumption
   DEF ShmInv, ShmTypes, ShmNames, WriterLabels, ReaderLabels, Shm!Procs, Shm!At, Shm!Goto,
       Shm!paths, Shm!handles
<1>1. CASE UNCHANGED Shm!vars
  BY <1>1 DEF Shm!vars
<1>2. ASSUME NEW w \in Writers, Shm!CreateMem(w) PROVE ShmNames'
  BY <1>2 DEF Shm!CreateMem
<1>3. ASSUME NEW w \in Writers, Shm!Ftruncate(w) PROVE ShmNames'
  BY <1>3, Truncated DEF Shm!Ftruncate
<1>4. ASSUME NEW w \in Writers, Shm!CreateSem(w) PROVE ShmNames'
  BY <1>4 DEF Shm!CreateSem
<1>5. ASSUME NEW w \in Writers, Shm!Increment(w) PROVE ShmNames'
  BY <1>5 DEF Shm!Increment
<1>6. ASSUME NEW w \in Writers, Shm!UnlinkSem(w) PROVE ShmNames'
  BY <1>6 DEF Shm!UnlinkSem
<1>7. ASSUME NEW w \in Writers, Shm!UnlinkMem(w) PROVE ShmNames'
  BY <1>7 DEF Shm!UnlinkMem
<1>8. ASSUME NEW r \in Readers, Shm!OpenMem(r) PROVE ShmNames'
  BY <1>8 DEF Shm!OpenMem
<1>9. ASSUME NEW r \in Readers, Shm!OpenSem(r) PROVE ShmNames'
  BY <1>9 DEF Shm!OpenSem
<1>10. ASSUME NEW r \in Readers, Shm!Compare(r) PROVE ShmNames'
  BY <1>10 DEF Shm!Compare
<1>11. ASSUME NEW r \in Readers, Shm!ReaderEnds(r) PROVE ShmNames'
  BY <1>11 DEF Shm!ReaderEnds
<1>12. ASSUME NEW p \in Shm!Procs, Shm!SemWait(p) PROVE ShmNames'
  BY <1>12 DEF Shm!SemWait
<1>13. ASSUME NEW p \in Shm!Procs, Shm!SemPost(p) PROVE ShmNames'
  BY <1>13 DEF Shm!SemPost
<1>14. ASSUME NEW p \in Shm!Procs, Shm!Kill(p) PROVE ShmNames'
  BY <1>14 DEF Shm!Kill
<1> QED
  BY <1>1, <1>2, <1>3, <1>4, <1>5, <1>6, <1>7, <1>8,
     <1>9, <1>10, <1>11, <1>12, <1>13, <1>14 DEF Shm!Next, Shm!writer, Shm!reader

\* what a writer created
LEMMA NextShmCreated == ShmInv /\ [Shm!Next]_(Shm!vars) => ShmCreated'
<1> SUFFICES ASSUME ShmInv, [Shm!Next]_(Shm!vars) PROVE ShmCreated'
  OBVIOUS
<1> USE RolesAssumption
   DEF ShmInv, ShmTypes, ShmCreated, WriterLabels, ReaderLabels, Shm!Procs, Shm!At, Shm!Goto,
       Shm!paths, Shm!handles
<1>1. CASE UNCHANGED Shm!vars
  BY <1>1 DEF Shm!vars
<1>2. ASSUME NEW w \in Writers, Shm!CreateMem(w) PROVE ShmCreated'
  BY <1>2 DEF Shm!CreateMem
<1>3. ASSUME NEW w \in Writers, Shm!Ftruncate(w) PROVE ShmCreated'
  <2>0. \A v \in Writers : arr'[v] # <<>> \/ arr'[v] = arr[v]
    BY <1>3, Truncated
  <2>1. \A v \in Writers : shmPc'[v] \in {"shm_open", "ftruncate", "sem_open"} =>
          shmSem' # v /\ \A p \in Shm!Procs : opened'[p] # v
    BY <1>3, <2>0 DEF Shm!Ftruncate
  <2>2. \A v \in Writers :
          shmPc'[v] \in {"sem_open", "loop", "body", "unlink_mem", "done"} => arr'[v] # <<>>
    BY <1>3, <2>0, Truncated DEF Shm!Ftruncate
  <2>3. shmSem' # None => arr'[shmSem'] # <<>>
    BY <1>3, <2>0 DEF Shm!Ftruncate
  <2>4. \A p \in Shm!Procs : opened'[p] # None => arr'[opened'[p]] # <<>>
    BY <1>3, <2>0 DEF Shm!Ftruncate
  <2> HIDE DEF ShmInv, Shm!Procs
  <2> QED
    BY <2>1, <2>2, <2>3, <2>4
<1>4. ASSUME NEW w \in Writers, Shm!CreateSem(w) PROVE ShmCreated'
  <2>0. arr' = arr /\ (shmSem' = shmSem \/ shmSem' = w) /\ arr[w] # <<>>
    BY <1>4 DEF Shm!CreateSem
  <2>1. \A v \in Writers : shmPc'[v] \in {"shm_open", "ftruncate", "sem_open"} =>
          shmSem' # v /\ \A p \in Shm!Procs : opened'[p] # v
    BY <1>4, <2>0 DEF Shm!CreateSem
  <2>2. \A v \in Writers :
          shmPc'[v] \in {"sem_open", "loop", "body", "unlink_mem", "done"} => arr'[v] # <<>>
    BY <1>4, <2>0 DEF Shm!CreateSem
  <2>3. shmSem' # None => arr'[shmSem'] # <<>>
    BY <1>4, <2>0 DEF Shm!CreateSem
  <2>4. \A p \in Shm!Procs : opened'[p] # None => arr'[opened'[p]] # <<>>
    <3>1. \A p \in Shm!Procs : opened'[p] = opened[p] \/ opened'[p] = w
      BY <1>4 DEF Shm!CreateSem
    <3>2. \A p \in Shm!Procs : opened[p] # None => arr[opened[p]] # <<>>
      OBVIOUS
    <3> HIDE DEF ShmInv, ShmTypes, ShmCreated
    <3> QED
      BY <2>0, <3>1, <3>2
  <2> HIDE DEF ShmInv, Shm!Procs
  <2> QED
    BY <2>1, <2>2, <2>3, <2>4
<1>5. ASSUME NEW w \in Writers, Shm!Increment(w) PROVE ShmCreated'
  <2>0. \A v \in Writers : arr'[v] # <<>> \/ arr'[v] = arr[v]
    BY <1>5, Incremented
  <2>1. \A v \in Writers : shmPc'[v] \in {"shm_open", "ftruncate", "sem_open"} =>
          shmSem' # v /\ \A p \in Shm!Procs : opened'[p] # v
    BY <1>5, <2>0 DEF Shm!Increment
  <2>2. \A v \in Writers :
          shmPc'[v] \in {"sem_open", "loop", "body", "unlink_mem", "done"} => arr'[v] # <<>>
    BY <1>5, <2>0, Incremented DEF Shm!Increment
  <2>3. shmSem' # None => arr'[shmSem'] # <<>>
    BY <1>5, <2>0 DEF Shm!Increment
  <2>4. \A p \in Shm!Procs : opened'[p] # None => arr'[opened'[p]] # <<>>
    <3>1. opened' = opened
      BY <1>5 DEF Shm!Increment
    <3>2. \A p \in Shm!Procs : opened[p] # None => opened[p] \in Writers /\ arr[opened[p]] # <<>>
      OBVIOUS
    <3> HIDE DEF ShmInv, ShmTypes, ShmCreated
    <3> QED
      BY <2>0, <3>1, <3>2
  <2> HIDE DEF ShmInv, Shm!Procs
  <2> QED
    BY <2>1, <2>2, <2>3, <2>4
<1>6. ASSUME NEW w \in Writers, Shm!UnlinkSem(w) PROVE ShmCreated'
  BY <1>6 DEF Shm!UnlinkSem
<1>7. ASSUME NEW w \in Writers, Shm!UnlinkMem(w) PROVE ShmCreated'
  BY <1>7 DEF Shm!UnlinkMem
<1>8. ASSUME NEW r \in Readers, Shm!OpenMem(r) PROVE ShmCreated'
  BY <1>8 DEF Shm!OpenMem
<1>9. ASSUME NEW r \in Readers, Shm!OpenSem(r) PROVE ShmCreated'
  BY <1>9 DEF Shm!OpenSem
<1>10. ASSUME NEW r \in Readers, Shm!Compare(r) PROVE ShmCreated'
  <2>1. UNCHANGED <<shmSem, arr, opened>> /\ \A w \in Writers : shmPc'[w] = shmPc[w]
    BY <1>10 DEF Shm!Compare
  <2>2. ShmCreated
    OBVIOUS
  <2> HIDE DEF ShmInv, ShmTypes, WriterLabels, ReaderLabels
  <2> QED
    BY <2>1, <2>2
<1>11. ASSUME NEW r \in Readers, Shm!ReaderEnds(r) PROVE ShmCreated'
  BY <1>11 DEF Shm!ReaderEnds
<1>12. ASSUME NEW p \in Shm!Procs, Shm!SemWait(p) PROVE ShmCreated'
  BY <1>12 DEF Shm!SemWait
<1>13. ASSUME NEW p \in Shm!Procs, Shm!SemPost(p) PROVE ShmCreated'
  BY <1>13 DEF Shm!SemPost
<1>14. ASSUME NEW p \in Shm!Procs, Shm!Kill(p) PROVE ShmCreated'
  BY <1>14 DEF Shm!Kill
<1> QED
  BY <1>1, <1>2, <1>3, <1>4, <1>5, <1>6, <1>7, <1>8,
     <1>9, <1>10, <1>11, <1>12, <1>13, <1>14 DEF Shm!Next, Shm!writer, Shm!reader

\* who holds a semaphore
LEMMA NextShmOneHolder == ShmInv /\ [Shm!Next]_(Shm!vars) => ShmOneHolder'
<1> SUFFICES ASSUME ShmInv, [Shm!Next]_(Shm!vars) PROVE ShmOneHolder'
  OBVIOUS
<1> USE RolesAssumption
   DEF ShmInv, ShmTypes, ShmOneHolder, Holds, ShmCreated, WriterLabels, ReaderLabels, Shm!Procs, Shm!At, Shm!Goto,
       Shm!paths, Shm!handles
<1>1. CASE UNCHANGED Shm!vars
  BY <1>1 DEF Shm!vars
<1>2. ASSUME NEW w \in Writers, Shm!CreateMem(w) PROVE ShmOneHolder'
  BY <1>2 DEF Shm!CreateMem
<1>3. ASSUME NEW w \in Writers, Shm!Ftruncate(w) PROVE ShmOneHolder'
  BY <1>3, Truncated DEF Shm!Ftruncate
<1>4. ASSUME NEW w \in Writers, Shm!CreateSem(w) PROVE ShmOneHolder'
  <2>1. \A p \in Shm!Procs : opened[p] # w
    BY <1>4 DEF Shm!CreateSem
  <2>2. \A p \in Shm!Procs : shmPc'[p] = "body" => shmPc[p] = "body" /\ opened'[p] = opened[p]
    BY <1>4 DEF Shm!CreateSem
  <2>3. \A v \in Writers : v # w => value'[v] = value[v]
    BY <1>4 DEF Shm!CreateSem
  <2> HIDE DEF ShmTypes, ShmCreated
  <2> QED
    BY <2>1, <2>2, <2>3
<1>5. ASSUME NEW w \in Writers, Shm!Increment(w) PROVE ShmOneHolder'
  BY <1>5 DEF Shm!Increment
<1>6. ASSUME NEW w \in Writers, Shm!UnlinkSem(w) PROVE ShmOneHolder'
  BY <1>6 DEF Shm!UnlinkSem
<1>7. ASSUME NEW w \in Writers, Shm!UnlinkMem(w) PROVE ShmOneHolder'
  BY <1>7 DEF Shm!UnlinkMem
<1>8. ASSUME NEW r \in Readers, Shm!OpenMem(r) PROVE ShmOneHolder'
  BY <1>8 DEF Shm!OpenMem
<1>9. ASSUME NEW r \in Readers, Shm!OpenSem(r) PROVE ShmOneHolder'
  BY <1>9 DEF Shm!OpenSem
<1>10. ASSUME NEW r \in Readers, Shm!Compare(r) PROVE ShmOneHolder'
  BY <1>10 DEF Shm!Compare
<1>11. ASSUME NEW r \in Readers, Shm!ReaderEnds(r) PROVE ShmOneHolder'
  BY <1>11 DEF Shm!ReaderEnds
<1>12. ASSUME NEW p \in Shm!Procs, Shm!SemWait(p) PROVE ShmOneHolder'
  BY <1>12 DEF Shm!SemWait
<1>13. ASSUME NEW p \in Shm!Procs, Shm!SemPost(p) PROVE ShmOneHolder'
  BY <1>13 DEF Shm!SemPost
<1>14. ASSUME NEW p \in Shm!Procs, Shm!Kill(p) PROVE ShmOneHolder'
  BY <1>14 DEF Shm!Kill
<1> QED
  BY <1>1, <1>2, <1>3, <1>4, <1>5, <1>6, <1>7, <1>8,
     <1>9, <1>10, <1>11, <1>12, <1>13, <1>14 DEF Shm!Next, Shm!writer, Shm!reader

\* a step that leaves an array and who is inside alone
LEMMA Kept ==
  ASSUME ShmInv, NEW v \in Writers,
         arr'[v] = arr[v], shmPc'[v] = shmPc[v], i'[v] = i[v],
         Stuck(v) => value'[v] = value[v] /\ \A p \in Shm!Procs : Holds(p, v)' => Holds(p, v)
  PROVE  WholeAt(v)'
<1>1. WholeAt(v)
  BY DEF ShmInv, Whole
<1>2. Stuck(v) => Stuck(v)'
  BY DEF Stuck
<1>3. (Partly(v) => Partly(v)') /\ (Uniform(v) => Uniform(v)')
  BY DEF Partly, Uniform
<1> QED
  BY <1>1, <1>2, <1>3 DEF WholeAt

\* a writer outside of its loop body leaves its array even
LEMMA Even ==
  ASSUME ShmInv, NEW w \in Writers, arr' = arr, shmPc[w] \notin {"body", "killed"}, shmPc'[w] # "body"
  PROVE  WholeAt(w)'
<1>1. WholeAt(w)
  BY DEF ShmInv, Whole
<1>2. arr[w] # <<>> => Uniform(w)
  BY <1>1 DEF WholeAt, Stuck
<1> QED
  BY <1>2 DEF WholeAt, Uniform

\* the arrays that nobody is incrementing
LEMMA NextWhole == ShmInv /\ [Shm!Next]_(Shm!vars) => Whole'
<1> SUFFICES ASSUME ShmInv, [Shm!Next]_(Shm!vars), NEW v \in Writers PROVE WholeAt(v)'
  BY DEF Whole
<1>t. /\ shmPc \in [Shm!Procs -> WriterLabels \cup ReaderLabels] /\ i \in [Shm!Procs -> 0 .. SIZE]
      /\ value \in [Writers -> {0, 1}] /\ DOMAIN opened = Shm!Procs
      /\ v \in Shm!Procs /\ v \notin Readers
      /\ arr[v] # <<>> => arr[v] \in [Shm!Cells -> Nat]
      /\ shmPc[v] \in {"loop", "body"} => opened[v] = v
      /\ \A r \in Readers : r \in Shm!Procs /\ (shmPc[r] \in {"loop", "body"} => opened[r] \in Writers)
      /\ \A w \in Writers : w \in Shm!Procs /\ (shmPc[w] \in {"loop", "body"} => opened[w] = w)
  BY RolesAssumption DEF ShmInv, ShmTypes, Shm!Procs
<1>c. Shm!Cells = 0 .. SIZE - 1 /\ 0 \in Shm!Cells /\ SIZE \in Nat \ {0}
  BY SizesAssumption DEF Shm!Cells
<1>h. \A w \in Writers, p \in Shm!Procs : Holds(p, w) =>
        value[w] = 0 /\ \A q \in Shm!Procs : Holds(q, w) => q = p
  BY DEF ShmInv, ShmOneHolder
<1> USE DEF Shm!At, Shm!Goto, Shm!paths, Shm!handles
<1>1. CASE UNCHANGED Shm!vars
  BY <1>1, Kept DEF Shm!vars, Holds
<1>2. ASSUME NEW w \in Writers, Shm!CreateMem(w) PROVE WholeAt(v)'
  <2>1. arr' = arr /\ i' = i /\ value' = value /\ opened' = opened
    BY <1>2 DEF Shm!CreateMem
  <2>2. \A p \in Shm!Procs : shmPc'[p] = shmPc[p] \/ (p = w /\ shmPc[w] = "shm_open" /\ shmPc'[w] # "body")
    BY <1>2, <1>t DEF Shm!CreateMem
  <2>3. \A p \in Shm!Procs : Holds(p, v)' => Holds(p, v)
    BY <2>1, <2>2 DEF Holds
  <2> QED
    BY <1>t, <2>1, <2>2, <2>3, Kept, Even
<1>3. ASSUME NEW w \in Writers, Shm!Ftruncate(w) PROVE WholeAt(v)'
  <2>1. i' = i /\ value' = value /\ opened' = opened /\ shmPc' = [shmPc EXCEPT ![w] = "sem_open"]
    BY <1>3 DEF Shm!Ftruncate
  <2>2. CASE v = w
    <3>1. Uniform(v)' /\ shmPc'[v] # "body"
      BY <1>3, <1>t, <1>c, <2>1, <2>2, Truncated DEF Uniform
    <3> QED
      BY <3>1 DEF WholeAt
  <2>3. CASE v # w
    <3>1. arr'[v] = arr[v] /\ shmPc'[v] = shmPc[v]
      BY <1>3, <1>t, <2>1, <2>3, Truncated
    <3>2. \A p \in Shm!Procs : Holds(p, v)' => Holds(p, v)
      BY <2>1, <1>t DEF Holds
    <3> QED
      BY <2>1, <3>1, <3>2, Kept
  <2> QED
    BY <2>2, <2>3
<1>4. ASSUME NEW w \in Writers, Shm!CreateSem(w) PROVE WholeAt(v)'
  <2>1. arr' = arr /\ i' = i /\ shmPc[w] = "sem_open"
        /\ (shmPc' = [shmPc EXCEPT ![w] = "loop"] \/ shmPc' = [shmPc EXCEPT ![w] = "bailed"])
        /\ (opened' = opened \/ opened' = [opened EXCEPT ![w] = w])
        /\ (value' = value \/ value' = [value EXCEPT ![w] = 1])
    BY <1>4 DEF Shm!CreateSem
  <2>2. CASE v = w
    BY <1>t, <2>1, <2>2, Even
  <2>3. CASE v # w
    <3>1. shmPc'[v] = shmPc[v] /\ value'[v] = value[v]
      BY <1>t, <2>1, <2>3
    <3>2. \A p \in Shm!Procs : Holds(p, v)' => Holds(p, v)
      BY <1>t, <2>1, <2>3 DEF Holds
    <3> QED
      BY <2>1, <3>1, <3>2, Kept
  <2> QED
    BY <2>2, <2>3
<1>5. ASSUME NEW w \in Writers, Shm!Increment(w) PROVE WholeAt(v)'
  <2>1. value' = value /\ opened' = opened /\ shmPc' = shmPc /\ i' = [i EXCEPT ![w] = @ + 1]
        /\ shmPc[w] = "body"
    BY <1>5 DEF Shm!Increment
  <2>2. CASE v = w
    <3>1. arr[v] # <<>> /\ i[v] \in Shm!Cells
      BY <1>5, <2>2, Incremented, NotEmpty
    <3>2. PICK a \in Nat : \A c \in Shm!Cells : arr[v][c] = IF c < i[v] THEN (a + 1) % WIDTH ELSE a
      BY <2>1, <2>2, <3>1 DEF ShmInv, Whole, WholeAt, Partly
    <3>3. \A c \in Shm!Cells : arr'[v][c] = IF c = i[v] THEN (arr[v][c] + 1) % WIDTH ELSE arr[v][c]
      BY <1>5, <2>2, Incremented
    <3>4. i'[v] = i[v] + 1
      BY <1>t, <2>1, <2>2
    <3>5. \A c \in Shm!Cells : arr'[v][c] = IF c < i'[v] THEN (a + 1) % WIDTH ELSE a
      <4>1. ASSUME NEW c \in Shm!Cells, c < i[v] PROVE arr'[v][c] = (a + 1) % WIDTH /\ c < i'[v]
        BY <1>c, <3>1, <3>2, <3>3, <3>4, <4>1
      <4>2. ASSUME NEW c \in Shm!Cells, c = i[v] PROVE arr'[v][c] = (a + 1) % WIDTH /\ c < i'[v]
        BY <1>c, <3>1, <3>2, <3>3, <3>4, <4>2
      <4>3. ASSUME NEW c \in Shm!Cells, c > i[v] PROVE arr'[v][c] = a /\ ~ (c < i'[v])
        BY <1>c, <3>1, <3>2, <3>3, <3>4, <4>3
      <4> QED
        BY <1>c, <3>1, <4>1, <4>2, <4>3
    <3> QED
      BY <2>1, <2>2, <3>5 DEF WholeAt, Partly
  <2>3. CASE v # w
    <3>1. arr'[v] = arr[v] /\ i'[v] = i[v]
      BY <1>5, <1>t, <2>1, <2>3, Incremented
    <3> QED
      BY <2>1, <3>1, Kept DEF Holds
  <2> QED
    BY <2>2, <2>3
<1>6. ASSUME NEW w \in Writers, Shm!UnlinkSem(w) \/ Shm!UnlinkMem(w) PROVE WholeAt(v)'
  <2>1. arr' = arr /\ i' = i /\ value' = value /\ opened' = opened
    BY <1>6 DEF Shm!UnlinkSem, Shm!UnlinkMem
  <2>2. \A p \in Shm!Procs : shmPc'[p] = shmPc[p]
          \/ (p = w /\ shmPc[w] \in {"loop", "unlink_mem"} /\ shmPc'[w] # "body")
    BY <1>6, <1>t DEF Shm!UnlinkSem, Shm!UnlinkMem
  <2>3. \A p \in Shm!Procs : Holds(p, v)' => Holds(p, v)
    BY <2>1, <2>2 DEF Holds
  <2> QED
    BY <1>t, <2>1, <2>2, <2>3, Kept, Even
<1>7. ASSUME NEW r \in Readers, Shm!OpenMem(r) \/ Shm!OpenSem(r) \/ Shm!Compare(r) \/ Shm!ReaderEnds(r)
      PROVE  WholeAt(v)'
  <2>1. arr' = arr /\ value' = value /\ shmPc'[v] = shmPc[v] /\ i'[v] = i[v]
    BY <1>7, <1>t DEF Shm!OpenMem, Shm!OpenSem, Shm!Compare, Shm!ReaderEnds
  <2>2. /\ \A p \in Shm!Procs \ {r} : shmPc'[p] = shmPc[p] /\ opened'[p] = opened[p]
        /\ shmPc'[r] = "body" => shmPc[r] = "body" /\ opened'[r] = opened[r]
    BY <1>7, <1>t DEF Shm!OpenMem, Shm!OpenSem, Shm!Compare, Shm!ReaderEnds
  <2>3. \A p \in Shm!Procs : Holds(p, v)' => Holds(p, v)
    BY <2>2 DEF Holds
  <2> QED
    BY <2>1, <2>3, Kept
<1>8. ASSUME NEW p \in Shm!Procs, Shm!SemWait(p) PROVE WholeAt(v)'
  <2>1. /\ arr' = arr /\ opened' = opened /\ shmPc[p] = "loop" /\ value[opened[p]] > 0
        /\ value' = [value EXCEPT ![opened[p]] = @ - 1]
        /\ i' = [i EXCEPT ![p] = IF p \in Writers THEN 0 ELSE 1]
        /\ shmPc' = [shmPc EXCEPT ![p] = "body"]
    BY <1>8 DEF Shm!SemWait
  <2>2. CASE v = p
    <3>1. arr[v] # <<>> => Uniform(v)
      BY <2>1, <2>2 DEF ShmInv, Whole, WholeAt, Stuck
    <3>2. i'[v] = 0 /\ shmPc'[v] = "body"
      BY <1>t, <2>1, <2>2
    <3>3. ASSUME arr[v] # <<>> PROVE Partly(v)'
      <4>1. arr[v][0] \in Nat /\ \A c \in Shm!Cells : arr[v][c] = arr[v][0]
        BY <1>t, <1>c, <3>1, <3>3 DEF Uniform
      <4>2. \A c \in Shm!Cells : ~ (c < 0)
        BY <1>c
      <4> QED
        BY <2>1, <3>2, <4>1, <4>2 DEF Partly
    <3> QED
      BY <2>1, <3>2, <3>3 DEF WholeAt
  <2>3. CASE v # p
    <3>1. shmPc'[v] = shmPc[v] /\ i'[v] = i[v]
      BY <1>t, <2>1, <2>3
    <3>2. ASSUME Stuck(v)
          PROVE  value'[v] = value[v] /\ \A q \in Shm!Procs : Holds(q, v)' => Holds(q, v)
      <4>1. opened[p] # v
        BY <2>1, <3>2 DEF Stuck
      <4>2. value'[v] = value[v]
        BY <1>t, <2>1, <4>1
      <4> QED
        BY <1>t, <2>1, <4>1, <4>2 DEF Holds
    <3> QED
      BY <2>1, <3>1, <3>2, Kept
  <2> QED
    BY <2>2, <2>3
<1>9. ASSUME NEW p \in Shm!Procs, Shm!SemPost(p) PROVE WholeAt(v)'
  <2>1. /\ arr' = arr /\ opened' = opened /\ i' = i /\ shmPc[p] = "body" /\ i[p] = SIZE
        /\ value' = [value EXCEPT ![opened[p]] = @ + 1]
        /\ shmPc' = [shmPc EXCEPT ![p] = "loop"]
    BY <1>9 DEF Shm!SemPost
  <2>2. CASE v = p
    <3>1. ASSUME arr[v] # <<>> PROVE Uniform(v)'
      <4>1. PICK a \in Nat : \A c \in Shm!Cells : arr[v][c] = IF c < i[v] THEN (a + 1) % WIDTH ELSE a
        BY <2>1, <2>2, <3>1 DEF ShmInv, Whole, WholeAt, Partly
      <4>2. \A c \in Shm!Cells : c < i[v]
        BY <1>c, <2>1, <2>2
      <4> QED
        BY <1>c, <2>1, <4>1, <4>2 DEF Uniform
    <3>2. shmPc'[v] # "body"
      BY <1>t, <2>1, <2>2
    <3> QED
      BY <2>1, <3>1, <3>2 DEF WholeAt
  <2>3. CASE v # p
    <3>1. shmPc'[v] = shmPc[v]
      BY <1>t, <2>1, <2>3
    <3>2. ASSUME Stuck(v)
          PROVE  value'[v] = value[v] /\ \A q \in Shm!Procs : Holds(q, v)' => Holds(q, v)
      <4>1. opened[p] # v
        BY <2>1, <3>2 DEF Stuck, Holds
      <4>2. value'[v] = value[v]
        BY <1>t, <2>1, <4>1
      <4> QED
        BY <1>t, <2>1, <4>1, <4>2 DEF Holds
    <3> QED
      BY <2>1, <3>1, <3>2, Kept
  <2> QED
    BY <2>2, <2>3
<1>10. ASSUME NEW p \in Shm!Procs, Shm!Kill(p) PROVE WholeAt(v)'
  <2>1. /\ arr' = arr /\ opened' = opened /\ i' = i /\ value' = value
        /\ shmPc' = [shmPc EXCEPT ![p] = "killed"] /\ shmPc[p] # "killed"
    BY <1>10 DEF Shm!Kill
  <2>2. \A q \in Shm!Procs : Holds(q, v)' => Holds(q, v) /\ q # p
    BY <1>t, <2>1 DEF Holds
  <2>3. CASE v = p /\ shmPc[v] = "body"
    <3>1. Holds(v, v)
      BY <1>t, <2>3 DEF Holds
    <3>2. value[v] = 0 /\ \A q \in Shm!Procs : Holds(q, v) => q = v
      BY <1>h, <1>t, <3>1
    <3>3. Stuck(v)'
      BY <1>t, <2>1, <2>2, <2>3, <3>2 DEF Stuck
    <3> QED
      BY <3>3 DEF WholeAt, Stuck
  <2>4. CASE v = p /\ shmPc[v] # "body"
    BY <1>t, <2>1, <2>4, Even
  <2>5. CASE v # p
    BY <1>t, <2>1, <2>2, <2>5, Kept
  <2> QED
    BY <2>3, <2>4, <2>5
<1> QED
  BY <1>1, <1>2, <1>3, <1>4, <1>5, <1>6, <1>7, <1>8, <1>9, <1>10
  DEF Shm!Next, Shm!writer, Shm!reader, Shm!Procs

\* what the reader compares
LEMMA NextReaders == ShmInv /\ [Shm!Next]_(Shm!vars) => Shm!ReaderSeesWhole'
<1> SUFFICES ASSUME ShmInv, [Shm!Next]_(Shm!vars) PROVE Shm!ReaderSeesWhole'
  OBVIOUS
<1> USE DEF Shm!At, Shm!Goto, Shm!ReaderSeesWhole
<1>t. shmPc \in [Shm!Procs -> WriterLabels \cup ReaderLabels] /\ Shm!ReaderSeesWhole
  BY DEF ShmInv, ShmTypes
<1>1. CASE UNCHANGED Shm!vars
  BY <1>1, <1>t DEF Shm!vars
<1>2. ASSUME NEW r \in Readers, Shm!Compare(r) PROVE Shm!ReaderSeesWhole'
  <2> DEFINE m == mapped[r]
             o == opened[r]
  <2>1. /\ shmPc[r] = "body" /\ i[r] \in Shm!Cells /\ m \in Writers /\ o \in Writers
        /\ r \in Shm!Procs /\ r \notin Writers /\ Writers \subseteq Shm!Procs
    BY <1>2, RolesAssumption, SizesAssumption
   DEF Shm!Compare, ShmInv, ShmTypes, Shm!Procs, Shm!Cells
  <2>2. m = o \/ shmPc[m] = "done"
    BY <2>1 DEF ShmInv, ShmNames
  <2>3. arr[m] # <<>> /\ (shmPc[m] # "body" => Uniform(m) \/ Stuck(m))
    <3>1. arr[m] # <<>>
      BY <2>1, <2>2, RolesAssumption DEF ShmInv, ShmCreated
    <3> QED
      BY <2>1, <3>1 DEF ShmInv, Whole, WholeAt
  <2>4. Uniform(m)
    <3>1. CASE m = o
      <4>1. Holds(r, m)
        BY <2>1, <3>1 DEF Holds
      <4>2. shmPc[m] = "body" => Holds(m, m)
        BY <2>1 DEF Holds, ShmInv, ShmTypes
      <4>3. shmPc[m] # "body"
        BY <2>1, <4>1, <4>2 DEF ShmInv, ShmOneHolder
      <4>4. ~ Stuck(m)
        BY <2>1, <4>1 DEF Stuck
      <4> QED
        BY <2>3, <4>3, <4>4
    <3>2. CASE shmPc[m] = "done"
      BY <2>3, <3>2 DEF Stuck
    <3> QED
      BY <2>2, <3>1, <3>2
  <2>5. arr[m][0] = arr[m][i[r]]
    BY <2>1, <2>4 DEF Uniform
  <2>6. shmPc' = shmPc
    BY <1>2, <2>3, <2>5 DEF Shm!Compare
  <2> QED
    BY <1>t, <2>6
<1>3. ASSUME NEW w \in Writers,
             \/ Shm!CreateMem(w) \/ Shm!Ftruncate(w) \/ Shm!CreateSem(w) \/ Shm!Increment(w)
             \/ Shm!UnlinkSem(w) \/ Shm!UnlinkMem(w)
      PROVE  Shm!ReaderSeesWhole'
  BY <1>3, <1>t DEF Shm!CreateMem, Shm!Ftruncate, Shm!CreateSem, Shm!Increment,
     Shm!UnlinkSem, Shm!UnlinkMem, Shm!Procs
<1>4. ASSUME NEW r \in Readers, Shm!OpenMem(r) \/ Shm!OpenSem(r) \/ Shm!ReaderEnds(r)
      PROVE  Shm!ReaderSeesWhole'
  BY <1>4, <1>t DEF Shm!OpenMem, Shm!OpenSem, Shm!ReaderEnds, Shm!Procs
<1>5. ASSUME NEW p \in Shm!Procs, Shm!SemWait(p) \/ Shm!SemPost(p) \/ Shm!Kill(p)
      PROVE  Shm!ReaderSeesWhole'
  BY <1>5, <1>t DEF Shm!SemWait, Shm!SemPost, Shm!Kill, Shm!Procs
<1> QED
  BY <1>1, <1>2, <1>3, <1>4, <1>5 DEF Shm!Next, Shm!writer, Shm!reader, Shm!Procs

\* In the composition: no reader finds an array partly incremented or a memory without its
\* size, though writers may start and end while it opens the two names, and any may be
\* killed.
THEOREM ReaderTheorem == MCSpec => []ReaderSeesWhole
<1>1. MCInit => ShmInv
  BY InitShmInv DEF MCInit
<1>2. ShmInv /\ [MCNext]_MCVars => ShmInv'
  <2>1. MCNext => [Shm!Next]_(Shm!vars)
    BY DEF MCNext, Shm!vars, Shm!paths, Shm!handles, shmVars
  <2>2. UNCHANGED MCVars => UNCHANGED Shm!vars
    BY DEF MCVars, Shm!vars, Shm!paths, Shm!handles, shmVars
  <2> QED
    BY <2>1, <2>2, NextShmTypes, NextShmNames, NextShmCreated, NextShmOneHolder, NextWhole,
       NextReaders DEF ShmInv
<1>3. ShmInv => ReaderSeesWhole
  BY DEF ShmInv, ReaderSeesWhole
<1> QED
  BY <1>1, <1>2, <1>3, PTL DEF MCSpec

-----------------------------------------------------------------------------
(* The block of simultaneous.c and its kin.                                *)

BlockProcs == Writers \cup Readers

BlockTypes ==
  /\ program \in {"plain", "locking", "py"}
  /\ file \in Seq(Nat)
  /\ size \in [BlockProcs -> BlockSizes]
  /\ n \in [BlockProcs -> Nat] /\ \A p \in BlockProcs : n[p] <= size[p]
  /\ letter \in [Writers -> Nat]
  /\ buf \in [Readers -> Seq(Nat)] /\ \A r \in Readers : Len(buf[r]) <= size[r]
  /\ marked \in BOOLEAN /\ cut \in BOOLEAN
  /\ flock \in [BlockProcs -> {"no", "sh", "ex"}]
  /\ DOMAIN blockPc = BlockProcs

\* flock(): who writes holds the exclusive lock, who reads a shared one
Flocks ==
  /\ \A w \in Writers : blockPc[w] \in {"write", "unlock"} => flock[w] = "ex"
  /\ \A r \in Readers : flock[r] # "ex" /\ (blockPc[r] = "read" => flock[r] = "sh")
  /\ \A w \in Writers : flock[w] = "ex" => \A p \in BlockProcs \ {w} : flock[p] = "no"

SameSizes == \A v, w \in Writers : size[v] = size[w]

\* the file is as long as a block, but for the time until its first writer has written one
WholeLength ==
  \/ Len(file) = 0
  \/ \A w \in Writers : Len(file) = size[w]
  \/ \A w \in Writers : blockPc[w] \in {"none", "open", "killed"}
  \/ \E w \in Writers : Block!Inside(w) /\ Len(file) = n[w]

\* and is of one letter, but for the rest of it while one writes
OneLetter ==
  /\ \A w \in Writers : ~ Block!Inside(w) => n[w] = 0
  /\ \A w \in Writers : Block!Inside(w) =>
       n[w] <= Len(file) /\ \A j \in 1 .. n[w] : file[j] = letter[w]
  /\ (\A w \in Writers : ~ Block!Inside(w)) => Block!Same(file)

\* and so is what a reader has read of it
ReadSame ==
  \A r \in Readers :
    /\ blockPc[r] \in {"read", "check"} => Block!Same(buf[r])
    /\ blockPc[r] = "read" /\ Len(buf[r]) < Len(file) =>
          \A j \in 1 .. Len(buf[r]) : buf[r][j] = file[j]
    /\ blockPc[r] \in {"open", "lock"} => buf[r] = <<>>
    /\ blockPc[r] # "wait" /\ blockPc[r] # "detected"

OfOneLetter == WholeLength /\ OneLetter /\ ReadSame

LockInv == program = "locking" => Flocks /\ (cut \/ ~ SameSizes \/ OfOneLetter)

\* simultaneous.py: from the wait point on the file has the length of a block, and no reader
\* looks at it before
MarkedWriter(w) ==
  /\ blockPc[w] = "open" => ~ marked /\ n[w] = 0
  /\ blockPc[w] = "mark" => Len(file) = size[w] /\ n[w] = 0
  /\ blockPc[w] = "write" => Len(file) = size[w] \/ (Len(file) = n[w] /\ ~ marked)

MarkedReader(r) ==
  /\ marked => Len(file) = size[r]
  /\ blockPc[r] \in {"open", "read", "check"} => marked
  /\ blockPc[r] = "check" => Len(buf[r]) = size[r]
  /\ blockPc[r] # "assertion"

Marked == (\A w \in Writers : MarkedWriter(w)) /\ (\A r \in Readers : MarkedReader(r))

OneWriter ==
  /\ \A p, q \in BlockProcs : size[p] = size[q]
  /\ \A v, w \in Writers : blockPc[v] # "none" /\ blockPc[w] # "none" => v = w
  /\ \A p \in BlockProcs : blockPc[p] \notin {"lock", "unlock"}

PyInv == program = "py" => OneWriter /\ (cut \/ Marked)

BlockInv == BlockTypes /\ LockInv /\ PyInv

-----------------------------------------------------------------------------
\* The invariant of the block holds at first.
LEMMA InitBlockInv == Block!Init => BlockInv
<1> SUFFICES ASSUME Block!Init PROVE BlockInv
  OBVIOUS
<1> USE RolesAssumption, SizesAssumption DEF BlockProcs, Block!Procs
<1>1. BlockTypes
  <2>1. /\ program \in {"plain", "locking", "py"} /\ (file = <<>> \/ file = <<0, 0>>)
        /\ marked = FALSE /\ cut = FALSE
        /\ n = [p \in BlockProcs |-> 0] /\ flock = [p \in BlockProcs |-> "no"]
        /\ letter = [w \in Writers |-> 0] /\ buf = [r \in Readers |-> <<>>]
        /\ size \in [BlockProcs -> BlockSizes]
    BY DEF Block!Init
  <2>2. DOMAIN blockPc = BlockProcs
    BY DEF Block!Init
  <2>3. file \in Seq(Nat)
    <3>1. CASE file = <<>>
      BY <3>1
    <3>2. CASE file = <<0, 0>>
      BY <3>2
    <3> QED
      BY <2>1, <3>1, <3>2
  <2>4. \A p \in BlockProcs : size[p] \in Nat
    BY <2>1
  <2>6. n \in [BlockProcs -> Nat] /\ \A p \in BlockProcs : n[p] <= size[p]
    BY <2>1, <2>4
  <2>5. buf \in [Readers -> Seq(Nat)] /\ \A r \in Readers : Len(buf[r]) <= size[r]
    <3>1. <<>> \in Seq(Nat) /\ Len(<<>>) = 0
      OBVIOUS
    <3> QED
      BY <2>1, <2>4, <3>1
  <2> QED
    BY <2>1, <2>2, <2>3, <2>5, <2>6 DEF BlockTypes
<1>2. LockInv
  <2> SUFFICES ASSUME program = "locking" PROVE Flocks /\ OfOneLetter
    BY DEF LockInv
  <2>1. /\ \A p \in BlockProcs : flock[p] = "no" /\ blockPc[p] \in {"none", "open"} /\ n[p] = 0
        /\ \A r \in Readers : buf[r] = <<>>
        /\ file = <<>> \/ file = <<0, 0>>
    BY DEF Block!Init
  <2>2. Block!Same(file) /\ Block!Same(<<>>)
    BY <2>1 DEF Block!Same
  <2>3. \A r \in Readers : blockPc[r] = "open" \/ blockPc[r] = "none"
    BY <2>1
  <2>4. Flocks /\ WholeLength
    BY <2>1 DEF Flocks, WholeLength
  <2>5. OneLetter
    BY <2>1, <2>2 DEF OneLetter, Block!Inside, Block!At
  <2>6. ReadSame
    BY <2>1, <2>2, <2>3 DEF ReadSame
  <2> QED
    BY <2>4, <2>5, <2>6 DEF OfOneLetter
<1>3. PyInv
  <2> SUFFICES ASSUME program = "py" PROVE OneWriter /\ Marked
    BY DEF PyInv
  <2>1. PICK v \in Writers :
          blockPc = [p \in BlockProcs |-> IF p \in Writers \ {v} THEN "none"
                                          ELSE IF program = "py" /\ p \in Readers THEN "wait"
                                          ELSE "open"]
    BY DEF Block!Init
  <2>3. OneWriter
    <3>1. \A p, q \in BlockProcs : size[p] = size[q]
      BY DEF Block!Init
    <3>2. \A p \in BlockProcs : blockPc[p] \in {"none", "wait", "open"}
      BY <2>1
    <3>3. \A w \in Writers : blockPc[w] # "none" => w = v
      BY <2>1
    <3> QED
      BY <3>1, <3>2, <3>3 DEF OneWriter
  <2>4. /\ \A w \in Writers : blockPc[w] \in {"none", "open"} /\ n[w] = 0
        /\ \A r \in Readers : blockPc[r] = "wait"
        /\ ~ marked
    BY <2>1 DEF Block!Init
  <2>5. Marked
    BY <2>4 DEF Marked, MarkedWriter, MarkedReader
  <2> QED
    BY <2>3, <2>5
<1> QED
  BY <1>1, <1>2, <1>3 DEF BlockInv

\* The concatenation of two files.
LEMMA Concatenation ==
  ASSUME NEW a \in Seq(Nat), NEW b \in Seq(Nat)
  PROVE  /\ a \o b \in Seq(Nat) /\ Len(a \o b) = Len(a) + Len(b)
         /\ \A j \in 1 .. Len(a) + Len(b) :
              (a \o b)[j] = IF j <= Len(a) THEN a[j] ELSE b[j - Len(a)]
  BY ConcatProperties

\* What a byte of a write() does to the file.
LEMMA ByteWritten ==
  ASSUME BlockTypes, NEW w \in Writers, Block!WriteByte(w)
  PROVE  /\ file' \in Seq(Nat)
         /\ Len(file') = IF n[w] = Len(file) THEN n[w] + 1 ELSE Len(file)
         /\ \A j \in 1 .. Len(file') : file'[j] = IF j = n[w] + 1 THEN letter[w] ELSE file[j]
<1> DEFINE a == [j \in 1 .. Len(file) |-> IF j = n[w] + 1 THEN letter[w] ELSE file[j]]
           b == IF n[w] = Len(file) THEN <<letter[w]>> ELSE <<>>
<1>t. file \in Seq(Nat) /\ Len(file) \in Nat /\ n[w] \in Nat /\ letter[w] \in Nat
  BY DEF BlockTypes, BlockProcs
<1>1. file' = a \o b
  BY DEF Block!WriteByte
<1>2. a \in Seq(Nat) /\ Len(a) = Len(file)
  BY <1>t
<1>3. b \in Seq(Nat) /\ Len(b) = IF n[w] = Len(file) THEN 1 ELSE 0
  BY <1>t
<1>4. \A j \in 1 .. Len(file) : a[j] = IF j = n[w] + 1 THEN letter[w] ELSE file[j]
  OBVIOUS
<1>5. n[w] = Len(file) => b[1] = letter[w]
  OBVIOUS
<1> HIDE DEF a, b
<1>6. /\ a \o b \in Seq(Nat) /\ Len(a \o b) = Len(a) + Len(b)
      /\ \A j \in 1 .. Len(a \o b) : (a \o b)[j] = IF j <= Len(a) THEN a[j] ELSE b[j - Len(a)]
  <2>1. /\ a \o b \in Seq(Nat) /\ Len(a \o b) = Len(a) + Len(b)
        /\ \A j \in 1 .. Len(a) + Len(b) : (a \o b)[j] = IF j <= Len(a) THEN a[j] ELSE b[j - Len(a)]
    BY <1>2, <1>3, Concatenation
  <2> QED
    BY <2>1
<1>7. Len(file') = IF n[w] = Len(file) THEN n[w] + 1 ELSE Len(file)
  BY <1>t, <1>1, <1>2, <1>3, <1>6
<1>8. ASSUME NEW j \in 1 .. Len(file') PROVE file'[j] = IF j = n[w] + 1 THEN letter[w] ELSE file[j]
  <2>1. file'[j] = IF j <= Len(file) THEN a[j] ELSE b[j - Len(file)]
    BY <1>1, <1>2, <1>6
  <2>2. CASE j <= Len(file)
    BY <1>4, <2>1, <2>2
  <2>3. CASE ~ (j <= Len(file))
    <3>1. n[w] = Len(file) /\ j = n[w] + 1 /\ j - Len(file) = 1
      BY <1>t, <1>7, <2>3
    <3> QED
      BY <1>5, <2>1, <2>3, <3>1
  <2> QED
    BY <2>2, <2>3
<1> QED
  BY <1>1, <1>6, <1>7, <1>8

\* The types of the block's variables.
LEMMA NextBlockTypes == BlockInv /\ [Block!Next]_(Block!vars) => BlockTypes'
<1> SUFFICES ASSUME BlockInv, [Block!Next]_(Block!vars) PROVE BlockTypes'
  OBVIOUS
<1> USE RolesAssumption, SizesAssumption
    DEF BlockProcs, Block!Procs, Block!At, Block!Goto, Block!Inside, Block!disk, Block!locals,
        Block!py
<1>t. BlockTypes
  BY DEF BlockInv
<1>s. \A p \in BlockProcs : size[p] \in Nat
  BY <1>t DEF BlockTypes
<1>n. \A p \in BlockProcs : n[p] \in Nat /\ n[p] <= size[p]
  BY <1>t DEF BlockTypes
<1>b. \A r \in Readers : buf[r] \in Seq(Nat) /\ Len(buf[r]) \in Nat /\ Len(buf[r]) <= size[r]
  BY <1>t DEF BlockTypes
<1>1. CASE UNCHANGED Block!vars
  BY <1>t, <1>1 DEF BlockTypes, Block!vars
<1>2. ASSUME NEW w \in Writers, Block!WriteByte(w) PROVE BlockTypes'
  <2>0. n' = [n EXCEPT ![w] = @ + 1] /\ n[w] < size[w] /\ DOMAIN n = BlockProcs
    BY <1>t, <1>2 DEF BlockTypes, Block!WriteByte
  <2>1. n' \in [BlockProcs -> Nat] /\ \A p \in BlockProcs : n'[p] <= size[p]
    <3>1. \A p \in BlockProcs : n'[p] = IF p = w THEN n[w] + 1 ELSE n[p]
      BY <2>0
    <3>2. \A p \in BlockProcs : n'[p] \in Nat /\ n'[p] <= size[p]
      BY <1>s, <1>n, <2>0, <3>1
    <3> QED
      BY <2>0, <3>2
  <2> QED
    BY <1>t, <1>2, <2>1, ByteWritten DEF BlockTypes, Block!WriteByte
<1>3. ASSUME NEW w \in Writers, Block!WriteEnd(w) \/ Block!ShortWrite(w) PROVE BlockTypes'
  <2>1. /\ n' = [n EXCEPT ![w] = 0] /\ letter' = [letter EXCEPT ![w] = (@ + 1) % NLETTERS]
        /\ UNCHANGED <<program, file, flock, size, buf, marked>> /\ cut' \in BOOLEAN
        /\ DOMAIN blockPc' = BlockProcs
    BY <1>t, <1>3 DEF BlockTypes, Block!WriteEnd, Block!ShortWrite, Block!Written
  <2>2. letter[w] \in Nat /\ (letter[w] + 1) % NLETTERS \in Nat
    BY <1>t DEF BlockTypes
  <2>3. letter' \in [Writers -> Nat]
    BY <1>t, <2>1, <2>2 DEF BlockTypes
  <2>4. n' \in [BlockProcs -> Nat] /\ \A p \in BlockProcs : n'[p] <= size[p]
    <3>1. DOMAIN n = BlockProcs
      BY <1>t DEF BlockTypes
    <3>2. \A p \in BlockProcs : n'[p] = IF p = w THEN 0 ELSE n[p]
      BY <2>1, <3>1
    <3>3. \A p \in BlockProcs : n'[p] \in Nat /\ n'[p] <= size[p]
      BY <1>s, <1>n, <3>2
    <3> QED
      BY <2>1, <3>1, <3>3
  <2> QED
    BY <1>t, <2>1, <2>3, <2>4 DEF BlockTypes
<1>4. ASSUME NEW w \in Writers,
             \/ Block!OpenWrite(w) \/ Block!LockEx(w) \/ Block!UnlockWrite(w)
             \/ Block!MarkDone(w) \/ Block!Join(w) \/ Block!WriteError(w)
      PROVE  BlockTypes'
  <2>1. /\ UNCHANGED <<program, size, n, letter, buf, cut>> /\ marked' \in BOOLEAN
        /\ flock' \in [BlockProcs -> {"no", "sh", "ex"}] /\ DOMAIN blockPc' = BlockProcs
    BY <1>t, <1>4 DEF BlockTypes, Block!OpenWrite, Block!LockEx, Block!UnlockWrite,
       Block!MarkDone, Block!Join, Block!WriteError
  <2>2. file' = file \/ file' = <<>>
    BY <1>4 DEF Block!OpenWrite, Block!LockEx, Block!UnlockWrite, Block!MarkDone, Block!Join,
       Block!WriteError
  <2>3. file' \in Seq(Nat)
    <3>1. CASE file' = file
      BY <1>t, <3>1 DEF BlockTypes
    <3>2. CASE file' = <<>>
      BY <3>2
    <3> QED
      BY <2>2, <3>1, <3>2
  <2> QED
    BY <1>t, <2>1, <2>3 DEF BlockTypes
<1>5. ASSUME NEW r \in Readers, Block!ReadByte(r) PROVE BlockTypes'
  <2> DEFINE e == file[Len(buf[r]) + 1]
  <2>1. buf' = [buf EXCEPT ![r] = Append(@, e)] /\ Len(buf[r]) < size[r] /\ Len(buf[r]) < Len(file)
    BY <1>5 DEF Block!ReadByte
  <2>2. e \in Nat /\ buf[r] \in Seq(Nat) /\ Len(buf[r]) \in Nat /\ size[r] \in Nat
    <3>1. file \in Seq(Nat) /\ Len(file) \in Nat
      BY <1>t DEF BlockTypes
    <3>2. Len(buf[r]) + 1 \in 1 .. Len(file)
      BY <1>b, <2>1, <3>1
    <3> QED
      BY <1>b, <1>s, <3>1, <3>2
  <2> HIDE DEF e
  <2>3. Append(buf[r], e) \in Seq(Nat) /\ Len(Append(buf[r], e)) <= size[r]
    BY <2>1, <2>2
  <2>4. buf' \in [Readers -> Seq(Nat)] /\ \A q \in Readers : Len(buf'[q]) <= size[q]
    <3>1. DOMAIN buf = Readers
      BY <1>t DEF BlockTypes
    <3>2. \A q \in Readers : buf'[q] = IF q = r THEN Append(buf[r], e) ELSE buf[q]
      BY <2>1, <3>1
    <3> QED
      BY <1>b, <2>1, <2>3, <3>1, <3>2
  <2> QED
    BY <1>t, <1>5, <2>4 DEF BlockTypes, Block!ReadByte
<1>6. ASSUME NEW r \in Readers, Block!Check(r) \/ Block!Sample(r) PROVE BlockTypes'
  <2>1. buf' = buf \/ buf' = [buf EXCEPT ![r] = <<>>]
    BY <1>6 DEF Block!Check, Block!Sample
  <2>2. buf' \in [Readers -> Seq(Nat)] /\ \A q \in Readers : Len(buf'[q]) <= size[q]
    <3>1. DOMAIN buf = Readers
      BY <1>t DEF BlockTypes
    <3>2. \A q \in Readers : buf'[q] = buf[q] \/ buf'[q] = <<>>
      BY <2>1, <3>1
    <3>3. <<>> \in Seq(Nat) /\ Len(<<>>) = 0
      OBVIOUS
    <3>4. ASSUME NEW q \in Readers PROVE buf'[q] \in Seq(Nat) /\ Len(buf'[q]) <= size[q]
      <4>1. CASE buf'[q] = buf[q]
        BY <1>b, <4>1
      <4>2. CASE buf'[q] = <<>>
        BY <1>s, <3>3, <4>2
      <4> QED
        BY <3>2, <4>1, <4>2
    <3>5. DOMAIN buf' = Readers /\ buf' = [q \in Readers |-> buf'[q]]
      BY <1>t, <2>1, <3>1 DEF BlockTypes
    <3> QED
      BY <3>4, <3>5
  <2> QED
    BY <1>t, <1>6, <2>2 DEF BlockTypes, Block!Check, Block!Sample
<1>7. ASSUME NEW r \in Readers,
             Block!OpenRead(r) \/ Block!LockSh(r) \/ Block!ReadEnd(r) \/ Block!Wait(r)
      PROVE  BlockTypes'
  BY <1>t, <1>7 DEF BlockTypes, Block!OpenRead, Block!LockSh, Block!ReadEnd, Block!Wait
<1>8. ASSUME NEW p \in BlockProcs, Block!Kill(p) PROVE BlockTypes'
  BY <1>t, <1>8 DEF BlockTypes, Block!Kill
<1> QED
  BY <1>1, <1>2, <1>3, <1>4, <1>5, <1>6, <1>7, <1>8
  DEF Block!Next, Block!Step, Block!main_write, Block!main_read, Block!locked_write, Block!writer,
      Block!reader

\* Who holds which lock.
LEMMA NextFlocks ==
  BlockTypes /\ program = "locking" /\ Flocks /\ [Block!Next]_(Block!vars) => Flocks'
<1> SUFFICES ASSUME BlockTypes, program = "locking", Flocks, [Block!Next]_(Block!vars)
             PROVE  Flocks'
  OBVIOUS
<1> USE RolesAssumption DEF BlockProcs, Block!Procs, Block!At, Block!Goto, Block!Top
<1>t. flock \in [BlockProcs -> {"no", "sh", "ex"}] /\ DOMAIN blockPc = BlockProcs
  BY DEF BlockTypes
<1>1. CASE UNCHANGED Block!vars
  BY <1>1 DEF Flocks, Block!vars
<1>2. ASSUME NEW w \in Writers, Block!OpenWrite(w) PROVE Flocks'
  BY <1>t, <1>2 DEF Flocks, Block!OpenWrite
<1>3. ASSUME NEW w \in Writers, Block!LockEx(w) PROVE Flocks'
  BY <1>t, <1>3 DEF Flocks, Block!LockEx
<1>4. ASSUME NEW w \in Writers, Block!UnlockWrite(w) \/ Block!WriteError(w) PROVE Flocks'
  BY <1>t, <1>4 DEF Flocks, Block!UnlockWrite, Block!WriteError
<1>5. ASSUME NEW w \in Writers, Block!WriteByte(w) PROVE Flocks'
  BY <1>t, <1>5 DEF Flocks, Block!WriteByte
<1>6. ASSUME NEW w \in Writers, Block!WriteEnd(w) \/ Block!ShortWrite(w) PROVE Flocks'
  <2>1. blockPc[w] = "write" /\ blockPc' = [blockPc EXCEPT ![w] = "unlock"] /\ flock' = flock
    BY <1>6 DEF Block!WriteEnd, Block!ShortWrite, Block!Written, Block!Inside
  <2> QED
    BY <1>t, <2>1 DEF Flocks
<1>7. ASSUME NEW w \in Writers, Block!MarkDone(w) \/ Block!Join(w) PROVE Flocks'
  BY <1>t, <1>7 DEF Flocks, Block!MarkDone, Block!Join
<1>8. ASSUME NEW r \in Readers, Block!OpenRead(r) \/ Block!Check(r) \/ Block!Wait(r) PROVE Flocks'
  BY <1>t, <1>8 DEF Flocks, Block!OpenRead, Block!Check, Block!Wait
<1>9. ASSUME NEW r \in Readers, Block!LockSh(r) PROVE Flocks'
  BY <1>t, <1>9 DEF Flocks, Block!LockSh
<1>10. ASSUME NEW r \in Readers, Block!ReadByte(r) \/ Block!Sample(r) PROVE Flocks'
  BY <1>t, <1>10 DEF Flocks, Block!ReadByte, Block!Sample
<1>11. ASSUME NEW r \in Readers, Block!ReadEnd(r) PROVE Flocks'
  BY <1>t, <1>11 DEF Flocks, Block!ReadEnd
<1>12. ASSUME NEW p \in BlockProcs, Block!Kill(p) PROVE Flocks'
  BY <1>t, <1>12 DEF Flocks, Block!Kill
<1> QED
  BY <1>1, <1>2, <1>3, <1>4, <1>5, <1>6, <1>7, <1>8, <1>9, <1>10, <1>11, <1>12
  DEF Block!Next, Block!Step, Block!main_write, Block!main_read, Block!locked_write, Block!writer,
      Block!reader

\* A step that writes nothing and reads nothing.
NothingMoved ==
  /\ UNCHANGED <<file, size, n, letter, buf>>
  /\ \A w \in Writers :
       /\ n[w] = 0 \/ (blockPc'[w] = "write" <=> blockPc[w] = "write")
       /\ blockPc[w] \in {"none", "open", "killed"} => blockPc'[w] \in {"none", "open", "killed"}
  /\ \A r \in Readers :
       /\ \/ blockPc'[r] = blockPc[r] \/ blockPc'[r] = "killed" \/ buf[r] = <<>>
          \/ blockPc[r] = "read" /\ blockPc'[r] = "check"
       /\ blockPc'[r] # "wait" /\ blockPc'[r] # "detected"

\* Such a step keeps what the file and the buffers hold.
LEMMA Quiet == BlockTypes /\ OfOneLetter /\ NothingMoved => OfOneLetter'
<1> SUFFICES ASSUME BlockTypes, OfOneLetter, NothingMoved PROVE OfOneLetter'
  OBVIOUS
<1> USE DEF NothingMoved
<1>0. \A w \in Writers : (Block!Inside(w))' <=> Block!Inside(w)
  BY DEF Block!Inside, Block!At, BlockTypes, BlockProcs
<1>1. WholeLength'
  BY <1>0 DEF OfOneLetter, WholeLength
<1>2. OneLetter'
  <2>1. Block!Same(file)' <=> Block!Same(file)
    BY DEF Block!Same
  <2> QED
    BY <1>0, <2>1 DEF OfOneLetter, OneLetter
<1>3. ReadSame'
  <2> SUFFICES ASSUME NEW r \in Readers
               PROVE  /\ blockPc'[r] \in {"read", "check"} => Block!Same(buf[r])
                      /\ blockPc'[r] = "read" /\ Len(buf[r]) < Len(file) =>
                           \A j \in 1 .. Len(buf[r]) : buf[r][j] = file[j]
                      /\ blockPc'[r] \in {"open", "lock"} => buf[r] = <<>>
                      /\ blockPc'[r] # "wait" /\ blockPc'[r] # "detected"
    BY DEF ReadSame, Block!Same
  <2>1. CASE buf[r] = <<>>
    <3>1. Len(buf[r]) = 0
      BY <2>1
    <3> QED
      BY <2>1, <3>1 DEF Block!Same
  <2>2. CASE buf[r] # <<>>
    BY <2>2 DEF OfOneLetter, ReadSame
  <2> QED
    BY <2>1, <2>2
<1> QED
  BY <1>1, <1>2, <1>3 DEF OfOneLetter

\* With the lock, and if no write() is cut short and all blocks have one size.
LEMMA NextOfOneLetter ==
  BlockTypes /\ program = "locking" /\ Flocks /\ SameSizes /\ OfOneLetter /\ ~ cut'
  /\ [Block!Next]_(Block!vars) => OfOneLetter'
<1> SUFFICES ASSUME BlockTypes, program = "locking", Flocks, SameSizes, OfOneLetter, ~ cut',
                    [Block!Next]_(Block!vars)
             PROVE  OfOneLetter'
  OBVIOUS
<1> USE DEF Block!At, Block!Goto
<1>p. Block!Procs = BlockProcs /\ Writers \subseteq BlockProcs /\ Readers \subseteq BlockProcs
      /\ Writers \cap Readers = {}
  BY RolesAssumption DEF Block!Procs, BlockProcs
<1>t. /\ DOMAIN blockPc = BlockProcs /\ DOMAIN n = BlockProcs /\ DOMAIN buf = Readers
      /\ file \in Seq(Nat) /\ Len(file) \in Nat
  BY DEF BlockTypes
<1>n. \A w \in Writers : n[w] \in Nat /\ n[w] <= size[w]
  BY <1>p DEF BlockTypes
<1>z. \A p \in BlockProcs : size[p] \in Nat /\ size[p] > 0
  <2>1. \A p \in BlockProcs : size[p] \in BlockSizes
    BY DEF BlockTypes
  <2>2. \A b \in BlockSizes : b \in Nat \ {0}
    BY SizesAssumption
  <2>3. \A p \in BlockProcs : size[p] \in Nat \ {0}
    BY <2>1, <2>2
  <2> QED
    BY <2>3
<1>0. \A w \in Writers : ~ Block!Inside(w) => n[w] = 0
  BY DEF OfOneLetter, OneLetter
<1>r. \A r \in Readers :
        /\ blockPc[r] # "wait" /\ blockPc[r] # "detected"
        /\ blockPc[r] \in {"open", "lock"} => buf[r] = <<>>
  BY DEF OfOneLetter, ReadSame
<1>1. CASE UNCHANGED Block!vars
  <2>1. UNCHANGED <<file, size, n, letter, buf, blockPc>>
    BY <1>1 DEF Block!vars, Block!disk, Block!locals
  <2>2. NothingMoved
    BY <1>r, <2>1 DEF NothingMoved
  <2> QED
    BY <2>2, Quiet
<1>2. ASSUME NEW w \in Writers, Block!LockEx(w) \/ Block!UnlockWrite(w) \/ Block!WriteError(w)
      PROVE  OfOneLetter'
  <2>1. /\ UNCHANGED <<file, size, n, letter, buf>>
        /\ \/ blockPc[w] = "lock" /\ blockPc' = [blockPc EXCEPT ![w] = "write"]
           \/ blockPc[w] = "unlock" /\ blockPc' = [blockPc EXCEPT ![w] = "lock"]
           \/ blockPc[w] = "write" /\ n[w] = 0 /\ blockPc' = [blockPc EXCEPT ![w] = "failed"]
    BY <1>2 DEF Block!LockEx, Block!UnlockWrite, Block!WriteError, Block!disk, Block!locals
  <2>2. n[w] = 0
    BY <1>0, <2>1 DEF Block!Inside
  <2>3. \A p \in BlockProcs : p # w => blockPc'[p] = blockPc[p]
    BY <1>t, <2>1
  <2>4. blockPc[w] \notin {"none", "open", "killed"}
    BY <2>1
  <2>5. NothingMoved
    BY <1>p, <1>r, <2>1, <2>2, <2>3, <2>4 DEF NothingMoved
  <2> QED
    BY <2>5, Quiet
<1>3. ASSUME NEW w \in Writers, Block!MarkDone(w) \/ Block!Join(w) PROVE OfOneLetter'
  <2>1. /\ UNCHANGED <<file, size, n, letter, buf>>
        /\ blockPc[w] = "mark" /\ blockPc' = [blockPc EXCEPT ![w] = "lock"]
    BY <1>3 DEF Block!MarkDone, Block!Join, Block!disk, Block!locals, Block!Top
  <2>2. \A p \in BlockProcs : p # w => blockPc'[p] = blockPc[p]
    BY <1>t, <2>1
  <2>3. blockPc'[w] = "lock"
    BY <1>p, <1>t, <2>1
  <2>4. NothingMoved
    BY <1>p, <1>r, <2>1, <2>2, <2>3 DEF NothingMoved
  <2> QED
    BY <2>4, Quiet
<1>4. ASSUME NEW r \in Readers,
             Block!OpenRead(r) \/ Block!LockSh(r) \/ Block!ReadEnd(r) \/ Block!Wait(r)
      PROVE  OfOneLetter'
  <2>1. /\ UNCHANGED <<file, size, n, letter, buf>>
        /\ \/ blockPc[r] = "open" /\ blockPc' = [blockPc EXCEPT ![r] = "lock"]
           \/ blockPc[r] = "open" /\ blockPc' = [blockPc EXCEPT ![r] = "failed"]
           \/ blockPc[r] = "lock" /\ blockPc' = [blockPc EXCEPT ![r] = "read"]
           \/ blockPc[r] = "read" /\ blockPc' = [blockPc EXCEPT ![r] = "check"]
    <3>1. CASE Block!OpenRead(r)
      BY <3>1, <1>p DEF Block!OpenRead, Block!disk, Block!locals, Block!Top
    <3>2. CASE Block!LockSh(r)
      BY <3>2 DEF Block!LockSh, Block!disk, Block!locals
    <3>3. CASE Block!ReadEnd(r)
      BY <3>3 DEF Block!ReadEnd, Block!disk, Block!locals
    <3>4. ~ Block!Wait(r)
      <4>1. Block!Wait(r) => blockPc[r] = "wait"
        BY DEF Block!Wait
      <4> QED
        BY <1>r, <4>1
    <3> QED
      BY <1>4, <3>1, <3>2, <3>3, <3>4
  <2>2. \A v \in Writers : blockPc'[v] = blockPc[v]
    BY <1>p, <1>t, <2>1
  <2>3. \A q \in Readers : q # r => blockPc'[q] = blockPc[q]
    BY <1>p, <1>t, <2>1
  <2>4. \/ buf[r] = <<>> /\ blockPc'[r] \notin {"wait", "detected"}
        \/ blockPc[r] = "read" /\ blockPc'[r] = "check"
    BY <1>p, <1>r, <1>t, <2>1
  <2>5. NothingMoved
    BY <1>r, <2>1, <2>2, <2>3, <2>4 DEF NothingMoved
  <2> QED
    BY <2>5, Quiet
<1>5. ASSUME NEW p \in BlockProcs, Block!Kill(p) PROVE OfOneLetter'
  <2>1. /\ UNCHANGED <<file, size, n, letter, buf>> /\ ~ Block!Inside(p)
        /\ blockPc' = [blockPc EXCEPT ![p] = "killed"]
    BY <1>5 DEF Block!Kill, Block!disk, Block!locals
  <2>2. \A q \in BlockProcs : q # p => blockPc'[q] = blockPc[q]
    BY <1>t, <2>1
  <2>3. blockPc'[p] = "killed"
    BY <1>t, <2>1
  <2>4. p \in Writers => n[p] = 0
    BY <1>0, <2>1
  <2>5. NothingMoved
    BY <1>p, <1>r, <2>1, <2>2, <2>3, <2>4 DEF NothingMoved
  <2> QED
    BY <2>5, Quiet
<1>6. ASSUME NEW w \in Writers, Block!OpenWrite(w) PROVE OfOneLetter'
  <2>1. /\ file' = <<>> /\ UNCHANGED <<size, n, letter, buf>>
        /\ blockPc[w] = "open" /\ blockPc' = [blockPc EXCEPT ![w] = "lock"] /\ Block!Alone(w)
    BY <1>6 DEF Block!OpenWrite, Block!locals, Block!Top
  <2>2. \A v \in Writers : ~ Block!Inside(v) /\ ~ Block!Inside(v)'
    BY <1>p, <1>t, <2>1 DEF Block!Inside, Block!Alone
  <2>3. Len(file') = 0
    BY <2>1
  <2>4. WholeLength'
    BY <2>3 DEF WholeLength
  <2>5. Block!Same(file)'
    BY <2>3 DEF Block!Same
  <2>6. OneLetter'
    BY <1>0, <2>1, <2>2, <2>5 DEF OneLetter
  <2>7. ASSUME NEW r \in Readers
        PROVE  blockPc'[r] = blockPc[r] /\ buf'[r] = buf[r] /\ ~ (Len(buf'[r]) < Len(file'))
    <3>1. Len(buf[r]) \in Nat
      BY DEF BlockTypes
    <3> QED
      BY <1>p, <1>t, <2>1, <2>3, <3>1
  <2>8. \A r \in Readers : Block!Same(buf[r])' <=> Block!Same(buf[r])
    BY <2>1 DEF Block!Same
  <2>9. ReadSame'
    BY <2>7, <2>8 DEF ReadSame, OfOneLetter
  <2> QED
    BY <2>4, <2>6, <2>9 DEF OfOneLetter
<1>7. ASSUME NEW w \in Writers, Block!WriteByte(w) PROVE OfOneLetter'
  <2>1. /\ blockPc[w] = "write" /\ n[w] < size[w] /\ Block!Alone(w)
        /\ n' = [n EXCEPT ![w] = @ + 1] /\ UNCHANGED <<blockPc, size, letter, buf>>
    BY <1>7 DEF Block!WriteByte
  <2>2. /\ Len(file') = IF n[w] = Len(file) THEN n[w] + 1 ELSE Len(file)
        /\ \A j \in 1 .. Len(file') : file'[j] = IF j = n[w] + 1 THEN letter[w] ELSE file[j]
    BY <1>7, ByteWritten
  <2>3. n'[w] = n[w] + 1 /\ \A v \in Writers : v # w => n'[v] = n[v]
    BY <1>p, <1>t, <2>1
  <2>4. Block!Inside(w)' /\ \A v \in Writers : v # w => ~ Block!Inside(v) /\ ~ Block!Inside(v)'
    BY <1>n, <2>1, <2>3 DEF Block!Inside, Block!Alone
  <2>5. n[w] <= Len(file) /\ \A j \in 1 .. n[w] : file[j] = letter[w]
    <3>1. CASE Block!Inside(w)
      BY <3>1 DEF OfOneLetter, OneLetter
    <3>2. CASE ~ Block!Inside(w)
      BY <1>0, <1>t, <3>2
    <3> QED
      BY <3>1, <3>2
  <2>6. n'[w] <= Len(file') /\ \A j \in 1 .. n'[w] : file'[j] = letter[w]
    BY <1>n, <1>t, <2>2, <2>3, <2>5
  <2>7. OneLetter'
    BY <1>0, <2>1, <2>3, <2>4, <2>6 DEF OneLetter
  <2>8. WholeLength'
    <3>1. CASE n[w] = Len(file)
      <4>1. Len(file') = n'[w]
        BY <2>2, <2>3, <3>1
      <4> QED
        BY <2>4, <4>1 DEF WholeLength
    <3>2. CASE n[w] # Len(file)
      <4>1. Len(file') = Len(file) /\ Len(file) # 0
        BY <1>n, <1>t, <2>2, <2>5, <3>2
      <4>2. \A v \in Writers : Block!Inside(v) => v = w
        BY <2>4
      <4>3. \A v \in Writers : Len(file) = size[v]
        BY <2>1, <3>2, <4>1, <4>2 DEF OfOneLetter, WholeLength
      <4> QED
        BY <2>1, <4>1, <4>3 DEF WholeLength
    <3> QED
      BY <3>1, <3>2
  <2>9. \A r \in Readers : blockPc[r] # "read"
    BY <1>p, <2>1 DEF Flocks
  <2>10. \A r \in Readers : Block!Same(buf[r])' <=> Block!Same(buf[r])
    BY <2>1 DEF Block!Same
  <2>11. ReadSame'
    BY <2>1, <2>9, <2>10 DEF ReadSame, OfOneLetter
  <2> QED
    BY <2>7, <2>8, <2>11 DEF OfOneLetter
<1>8. ASSUME NEW w \in Writers, Block!WriteEnd(w) PROVE OfOneLetter'
  <2>1. /\ blockPc[w] = "write" /\ n[w] = size[w]
        /\ n' = [n EXCEPT ![w] = 0] /\ UNCHANGED <<file, size, buf>>
        /\ blockPc' = [blockPc EXCEPT ![w] = "unlock"]
    BY <1>8 DEF Block!WriteEnd, Block!Written, Block!disk
  <2>2. Block!Inside(w)
    BY <1>p, <1>z, <2>1 DEF Block!Inside
  <2>3. n[w] <= Len(file) /\ \A j \in 1 .. n[w] : file[j] = letter[w]
    BY <2>2 DEF OfOneLetter, OneLetter
  <2>4. \A v \in Writers : v # w => blockPc[v] # "write"
    BY <1>p, <2>1 DEF Flocks
  <2>5. /\ n'[w] = 0 /\ blockPc'[w] = "unlock"
        /\ \A v \in Writers : v # w => n'[v] = n[v] /\ blockPc'[v] = blockPc[v]
        /\ \A r \in Readers : blockPc'[r] = blockPc[r]
    BY <1>p, <1>t, <2>1
  <2>6. \A v \in Writers : ~ Block!Inside(v)' /\ n'[v] = 0
    BY <1>0, <2>4, <2>5 DEF Block!Inside
  <2>7. Len(file) = size[w]
    <3>1. Len(file) # 0
      BY <1>p, <1>z, <1>t, <2>1, <2>3
    <3>2. \A v \in Writers : Block!Inside(v) => v = w
      BY <2>4 DEF Block!Inside
    <3> QED
      BY <2>1, <3>1, <3>2 DEF OfOneLetter, WholeLength
  <2>8. WholeLength'
    BY <2>1, <2>7 DEF WholeLength, SameSizes
  <2>9. Block!Same(file)'
    <3>1. \A j \in 1 .. Len(file) : file[j] = letter[w]
      BY <2>1, <2>3, <2>7
    <3> QED
      BY <1>t, <2>1, <3>1 DEF Block!Same
  <2>10. OneLetter'
    BY <2>6, <2>9 DEF OneLetter
  <2>11. \A r \in Readers : Block!Same(buf[r])' <=> Block!Same(buf[r])
    BY <2>1 DEF Block!Same
  <2>12. ReadSame'
    BY <2>1, <2>5, <2>11 DEF ReadSame, OfOneLetter
  <2> QED
    BY <2>8, <2>10, <2>12 DEF OfOneLetter
<1>9. ASSUME NEW r \in Readers, Block!ReadByte(r) PROVE OfOneLetter'
  <2> DEFINE l == Len(buf[r])
             e == file[l + 1]
  <2>1. /\ blockPc[r] = "read" /\ l < Len(file)
        /\ buf' = [buf EXCEPT ![r] = Append(@, e)] /\ UNCHANGED <<file, size, n, letter, blockPc>>
    BY <1>9 DEF Block!ReadByte, Block!disk
  <2>2. buf[r] \in Seq(Nat) /\ l \in Nat /\ e \in Nat
    <3>1. buf[r] \in Seq(Nat) /\ l \in Nat
      BY DEF BlockTypes
    <3>2. l + 1 \in 1 .. Len(file)
      BY <1>t, <2>1, <3>1
    <3> QED
      BY <1>t, <3>1, <3>2
  <2>3. \A w \in Writers : blockPc[w] # "write"
    BY <1>p, <2>1 DEF Flocks
  <2>4. Block!Same(file)
    BY <2>3 DEF OfOneLetter, OneLetter, Block!Inside
  <2>5. \A j \in 1 .. l : buf[r][j] = file[j]
    BY <2>1 DEF OfOneLetter, ReadSame
  <2>6. \A j \in 1 .. Len(file) : file[j] = file[1]
    BY <1>t, <2>4 DEF Block!Same
  <2>7. /\ Len(buf'[r]) = l + 1 /\ \A j \in 1 .. l : buf'[r][j] = buf[r][j]
        /\ buf'[r][l + 1] = file[l + 1]
    <3> HIDE DEF e
    <3>1. buf'[r] = Append(buf[r], e)
      BY <1>t, <2>1
    <3>2. buf'[r][l + 1] = e
      BY <2>2, <3>1
    <3>3. Len(buf'[r]) = l + 1 /\ \A j \in 1 .. l : buf'[r][j] = buf[r][j]
      BY <2>2, <3>1
    <3> QED
      BY <3>2, <3>3 DEF e
  <2> HIDE DEF l, e
  <2>8. \A j \in 1 .. Len(buf'[r]) : buf'[r][j] = file[j]
    BY <2>2, <2>5, <2>7
  <2>9. Block!Same(buf[r])'
    <3>1. ASSUME NEW j \in 2 .. Len(buf'[r]) PROVE buf'[r][j] = buf'[r][1]
      <4>1. j \in 1 .. Len(buf'[r]) /\ 1 \in 1 .. Len(buf'[r]) /\ j \in 1 .. Len(file)
        BY <1>t, <2>1, <2>2, <2>7
      <4> QED
        BY <2>6, <2>8, <4>1
    <3> QED
      BY <3>1 DEF Block!Same
  <2>10. \A q \in Readers : q # r => buf'[q] = buf[q]
    BY <1>t, <2>1
  <2>11. ReadSame'
    <3> SUFFICES ASSUME NEW q \in Readers
                 PROVE  /\ blockPc[q] \in {"read", "check"} => Block!Same(buf[q])'
                        /\ blockPc[q] = "read" /\ Len(buf'[q]) < Len(file) =>
                              \A j \in 1 .. Len(buf'[q]) : buf'[q][j] = file[j]
                        /\ blockPc[q] \in {"open", "lock"} => buf'[q] = <<>>
                        /\ blockPc[q] # "wait" /\ blockPc[q] # "detected"
      BY <2>1 DEF ReadSame
    <3>1. CASE q = r
      BY <2>1, <2>8, <2>9, <3>1
    <3>2. CASE q # r
      BY <2>10, <3>2 DEF ReadSame, OfOneLetter, Block!Same
    <3> QED
      BY <3>1, <3>2
  <2>12. WholeLength' /\ OneLetter'
    BY <2>1 DEF OfOneLetter, WholeLength, OneLetter, Block!Inside, Block!Same
  <2> QED
    BY <2>11, <2>12 DEF OfOneLetter
<1>10. ASSUME NEW r \in Readers, Block!Check(r) PROVE OfOneLetter'
  <2>1. blockPc[r] = "check" /\ Block!Same(buf[r])
    BY <1>10 DEF Block!Check, OfOneLetter, ReadSame
  <2>2. /\ buf' = [buf EXCEPT ![r] = <<>>] /\ UNCHANGED <<file, size, n, letter>>
        /\ blockPc' = [blockPc EXCEPT ![r] = "lock"]
    BY <1>10, <2>1 DEF Block!Check, Block!Top, Block!disk
  <2>3. \A w \in Writers : blockPc'[w] = blockPc[w]
    BY <1>p, <1>t, <2>2
  <2>4. \A q \in Readers : q # r => buf'[q] = buf[q] /\ blockPc'[q] = blockPc[q]
    BY <1>p, <1>t, <2>2
  <2>5. buf'[r] = <<>> /\ blockPc'[r] = "lock"
    BY <1>p, <1>t, <2>2
  <2>6. ReadSame'
    <3> SUFFICES ASSUME NEW q \in Readers
                 PROVE  /\ blockPc'[q] \in {"read", "check"} => Block!Same(buf[q])'
                        /\ blockPc'[q] = "read" /\ Len(buf'[q]) < Len(file) =>
                              \A j \in 1 .. Len(buf'[q]) : buf'[q][j] = file[j]
                        /\ blockPc'[q] \in {"open", "lock"} => buf'[q] = <<>>
                        /\ blockPc'[q] # "wait" /\ blockPc'[q] # "detected"
      BY <2>2 DEF ReadSame
    <3>1. CASE q = r
      BY <2>5, <3>1
    <3>2. CASE q # r
      BY <2>4, <3>2 DEF ReadSame, OfOneLetter, Block!Same
    <3> QED
      BY <3>1, <3>2
  <2>7. WholeLength' /\ OneLetter'
    BY <2>2, <2>3 DEF OfOneLetter, WholeLength, OneLetter, Block!Inside, Block!Same
  <2> QED
    BY <2>6, <2>7 DEF OfOneLetter
<1>11. \A w \in Writers : ~ Block!ShortWrite(w)
  BY DEF Block!ShortWrite
<1>12. \A r \in Readers : ~ Block!Sample(r)
  BY DEF Block!Sample
<1> QED
  BY <1>1, <1>2, <1>3, <1>4, <1>5, <1>6, <1>7, <1>8, <1>9, <1>10, <1>11, <1>12, <1>p
  DEF Block!Next, Block!Step, Block!main_write, Block!main_read, Block!locked_write, Block!writer,
      Block!reader

\* simultaneous.py has one writer and one size, and no locks.
LEMMA NextOneWriter ==
  BlockTypes /\ program = "py" /\ OneWriter /\ [Block!Next]_(Block!vars) => OneWriter'
<1> SUFFICES ASSUME BlockTypes, program = "py", OneWriter, [Block!Next]_(Block!vars)
             PROVE  OneWriter'
  OBVIOUS
<1> USE DEF Block!At, Block!Goto, Block!Top
<1>p. Block!Procs = BlockProcs /\ Writers \subseteq BlockProcs /\ Readers \subseteq BlockProcs
  BY DEF Block!Procs, BlockProcs
<1>t. DOMAIN blockPc = BlockProcs
  BY DEF BlockTypes
<1>1. ASSUME size' = size, NEW p \in BlockProcs, blockPc[p] # "none",
             NEW l, l \notin {"lock", "unlock"}, blockPc' = [blockPc EXCEPT ![p] = l]
      PROVE  OneWriter'
  <2>1. \A q \in BlockProcs : q # p => blockPc'[q] = blockPc[q]
    BY <1>t, <1>1
  <2>2. blockPc'[p] \notin {"lock", "unlock"}
    BY <1>t, <1>1
  <2> QED
    BY <1>p, <1>1, <2>1, <2>2 DEF OneWriter
<1>2. CASE UNCHANGED Block!vars
  BY <1>2 DEF OneWriter, Block!vars, Block!locals
<1>3. ASSUME NEW w \in Writers,
             \/ Block!OpenWrite(w) \/ Block!WriteEnd(w) \/ Block!ShortWrite(w)
             \/ Block!MarkDone(w) \/ Block!Join(w) \/ Block!WriteError(w)
      PROVE  OneWriter'
  <2>1. /\ size' = size /\ blockPc[w] # "none"
        /\ \E l \in {"write", "finished", "mark", "raised", "failed"} :
             blockPc' = [blockPc EXCEPT ![w] = l]
    <3>1. CASE Block!OpenWrite(w)
      BY <3>1 DEF Block!OpenWrite, Block!locals
    <3>2. CASE Block!WriteEnd(w) \/ Block!ShortWrite(w)
      BY <3>2 DEF Block!WriteEnd, Block!ShortWrite, Block!Written, Block!Inside
    <3>3. CASE Block!MarkDone(w)
      BY <3>3 DEF Block!MarkDone, Block!locals
    <3>4. CASE Block!Join(w)
      BY <3>4 DEF Block!Join, Block!locals
    <3>5. CASE Block!WriteError(w)
      BY <3>5 DEF Block!WriteError, Block!locals
    <3> QED
      BY <1>3, <3>1, <3>2, <3>3, <3>4, <3>5
  <2>2. PICK l \in {"write", "finished", "mark", "raised", "failed"} :
          blockPc' = [blockPc EXCEPT ![w] = l]
    BY <2>1
  <2>3. l \notin {"lock", "unlock"}
    BY <2>2
  <2> QED
    BY <1>p, <1>1, <2>1, <2>2, <2>3
<1>4. ASSUME NEW r \in Readers,
             \/ Block!OpenRead(r) \/ Block!ReadEnd(r) \/ Block!Wait(r) \/ Block!Sample(r)
      PROVE  OneWriter'
  <2>1. /\ size' = size /\ blockPc[r] # "none"
        /\ \E l \in {"open", "read", "finished", "failed", "check", "assertion"} :
             blockPc' = [blockPc EXCEPT ![r] = l]
    <3>1. CASE Block!OpenRead(r)
      BY <3>1, <1>p, RolesAssumption DEF Block!OpenRead, Block!locals
    <3>2. CASE Block!ReadEnd(r)
      BY <3>2 DEF Block!ReadEnd, Block!locals
    <3>3. CASE Block!Wait(r)
      BY <3>3 DEF Block!Wait, Block!locals
    <3>4. CASE Block!Sample(r)
      BY <3>4, RolesAssumption DEF Block!Sample
    <3> QED
      BY <1>4, <3>1, <3>2, <3>3, <3>4
  <2>2. PICK l \in {"open", "read", "finished", "failed", "check", "assertion"} :
          blockPc' = [blockPc EXCEPT ![r] = l]
    BY <2>1
  <2>3. l \notin {"lock", "unlock"}
    BY <2>2
  <2> QED
    BY <1>p, <1>1, <2>1, <2>2, <2>3
<1>5. ASSUME NEW p \in BlockProcs, Block!Kill(p) PROVE OneWriter'
  <2>1. /\ size' = size /\ blockPc[p] # "none" /\ blockPc' = [blockPc EXCEPT ![p] = "killed"]
    BY <1>5 DEF Block!Kill, Block!Ended, Block!locals
  <2> QED
    BY <1>1, <2>1
<1>6. ASSUME NEW p \in BlockProcs, Block!WriteByte(p) \/ Block!ReadByte(p) PROVE OneWriter'
  BY <1>6 DEF OneWriter, Block!WriteByte, Block!ReadByte
<1>7. \A p \in BlockProcs : ~ Block!LockEx(p) /\ ~ Block!UnlockWrite(p) /\ ~ Block!LockSh(p)
  BY DEF OneWriter, Block!LockEx, Block!UnlockWrite, Block!LockSh
<1>8. \A r \in Readers : ~ Block!Check(r)
  BY DEF Block!Check
<1> QED
  BY <1>2, <1>3, <1>4, <1>5, <1>6, <1>7, <1>8, <1>p
  DEF Block!Next, Block!Step, Block!main_write, Block!main_read, Block!locked_write, Block!writer,
      Block!reader

\* The wait point of simultaneous.py, if no write is cut short.
LEMMA NextMarked ==
  BlockTypes /\ program = "py" /\ OneWriter /\ Marked /\ ~ cut' /\ [Block!Next]_(Block!vars)
  => Marked'
<1> SUFFICES ASSUME BlockTypes, program = "py", OneWriter, Marked, ~ cut',
                    [Block!Next]_(Block!vars)
             PROVE  Marked'
  OBVIOUS
<1> USE DEF Block!At, Block!Goto, Block!Top
<1>p. Block!Procs = BlockProcs /\ Writers \subseteq BlockProcs /\ Readers \subseteq BlockProcs
      /\ Writers \cap Readers = {}
  BY RolesAssumption DEF Block!Procs, BlockProcs
<1>t. /\ DOMAIN blockPc = BlockProcs /\ DOMAIN n = BlockProcs /\ DOMAIN buf = Readers
      /\ file \in Seq(Nat) /\ Len(file) \in Nat /\ marked \in BOOLEAN
  BY DEF BlockTypes
<1>n. \A w \in Writers : n[w] \in Nat /\ n[w] <= size[w]
  BY <1>p DEF BlockTypes
<1>z. \A p, q \in BlockProcs : size[p] = size[q]
  BY DEF OneWriter
<1>u. \A v, w \in Writers : v # w /\ blockPc[w] # "none" => blockPc[v] = "none"
  BY DEF OneWriter
<1>m. (\A w \in Writers : MarkedWriter(w)) /\ (\A r \in Readers : MarkedReader(r))
  BY DEF Marked
\* a step of the writer
<1>w. ASSUME NEW w \in Writers, blockPc[w] # "none", size' = size, MarkedWriter(w)',
             \A v \in BlockProcs : v # w => blockPc'[v] = blockPc[v],
             \A r \in Readers : MarkedReader(r)'
      PROVE  Marked'
  <2>1. \A v \in Writers : v # w => blockPc'[v] = "none"
    BY <1>p, <1>u, <1>w
  <2>2. \A v \in Writers : v # w => MarkedWriter(v)'
    BY <2>1 DEF MarkedWriter
  <2> QED
    BY <1>w, <2>2 DEF Marked
\* a step of a reader
<1>r. ASSUME NEW r \in Readers, UNCHANGED <<file, size, n, marked>>, MarkedReader(r)',
             \A v \in BlockProcs : v # r => blockPc'[v] = blockPc[v],
             \A q \in Readers : q # r => buf'[q] = buf[q]
      PROVE  Marked'
  <2>1. \A w \in Writers : MarkedWriter(w)'
    BY <1>m, <1>p, <1>r DEF MarkedWriter
  <2>2. \A q \in Readers : q # r => MarkedReader(q)'
    BY <1>m, <1>p, <1>r DEF MarkedReader
  <2> QED
    BY <1>r, <2>1, <2>2 DEF Marked
<1>1. CASE UNCHANGED Block!vars
  BY <1>m, <1>1 DEF Marked, MarkedWriter, MarkedReader, Block!vars, Block!disk, Block!locals, Block!py
<1>2. ASSUME NEW w \in Writers, Block!OpenWrite(w) PROVE Marked'
  <2>1. /\ file' = <<>> /\ UNCHANGED <<size, n, buf, marked>> /\ blockPc[w] = "open"
        /\ \A v \in BlockProcs : v # w => blockPc'[v] = blockPc[v]
        /\ blockPc'[w] \in {"write", "finished"}
    BY <1>2, <1>p, <1>t DEF Block!OpenWrite, Block!locals, Block!py
  <2>2. ~ marked /\ n[w] = 0
    BY <1>m, <2>1 DEF MarkedWriter
  <2>3. Len(file') = 0
    BY <2>1
  <2>4. MarkedWriter(w)'
    BY <2>1, <2>2, <2>3 DEF MarkedWriter
  <2>5. \A r \in Readers : MarkedReader(r)'
    BY <1>m, <1>p, <2>1, <2>2 DEF MarkedReader
  <2> QED
    BY <1>w, <2>1, <2>4, <2>5
<1>3. ASSUME NEW w \in Writers, Block!WriteByte(w) PROVE Marked'
  <2>1. /\ UNCHANGED <<size, buf, marked, blockPc>> /\ blockPc[w] = "write" /\ n[w] < size[w]
        /\ n'[w] = n[w] + 1
        /\ Len(file') = IF n[w] = Len(file) THEN n[w] + 1 ELSE Len(file)
    BY <1>3, <1>p, <1>t, ByteWritten DEF Block!WriteByte, Block!py
  <2>2. Len(file) = size[w] \/ (Len(file) = n[w] /\ ~ marked)
    BY <1>m, <2>1 DEF MarkedWriter
  <2>3. Len(file') = size[w] \/ (Len(file') = n'[w] /\ ~ marked)
    BY <1>n, <1>t, <2>1, <2>2
  <2>4. MarkedWriter(w)'
    BY <2>1, <2>3 DEF MarkedWriter
  <2>5. marked => Len(file') = Len(file)
    BY <1>n, <2>1, <2>2
  <2>6. \A r \in Readers : MarkedReader(r)'
    BY <1>m, <2>1, <2>5 DEF MarkedReader
  <2> QED
    BY <1>w, <2>1, <2>4, <2>6
<1>4. ASSUME NEW w \in Writers, Block!WriteEnd(w) PROVE Marked'
  <2>1. /\ UNCHANGED <<file, size, buf, marked>> /\ blockPc[w] = "write" /\ n[w] = size[w]
        /\ n' = [n EXCEPT ![w] = 0]
        /\ blockPc' = [blockPc EXCEPT ![w] = IF ~ marked THEN "mark"
                                             ELSE IF todo'[w] = 0 THEN "finished" ELSE "write"]
    BY <1>4 DEF Block!WriteEnd, Block!Written, Block!disk
  <2>2. \A v \in BlockProcs : v # w => blockPc'[v] = blockPc[v]
    BY <1>t, <2>1
  <2>3. n'[w] = 0 /\ blockPc'[w] \in {"mark", "finished", "write"}
    BY <1>p, <1>t, <2>1
  <2>4. Len(file) = size[w]
    BY <1>m, <2>1 DEF MarkedWriter
  <2>5. MarkedWriter(w)'
    BY <2>1, <2>3, <2>4 DEF MarkedWriter
  <2>6. \A r \in Readers : MarkedReader(r)'
    BY <1>m, <1>p, <2>1, <2>2 DEF MarkedReader
  <2> QED
    BY <1>w, <2>1, <2>2, <2>5, <2>6
<1>5. ASSUME NEW w \in Writers, Block!MarkDone(w) PROVE Marked'
  <2>1. /\ UNCHANGED <<file, size, n, buf>> /\ marked' = TRUE /\ blockPc[w] = "mark"
        /\ \A v \in BlockProcs : v # w => blockPc'[v] = blockPc[v]
        /\ blockPc'[w] \in {"write", "finished"}
    BY <1>5, <1>p, <1>t DEF Block!MarkDone, Block!disk, Block!locals
  <2>2. Len(file) = size[w]
    BY <1>m, <2>1 DEF MarkedWriter
  <2>3. MarkedWriter(w)'
    BY <2>1, <2>2 DEF MarkedWriter
  <2>4. \A r \in Readers : MarkedReader(r)'
    BY <1>m, <1>p, <1>z, <2>1, <2>2 DEF MarkedReader
  <2> QED
    BY <1>w, <2>1, <2>3, <2>4
<1>6. ASSUME NEW w \in Writers, Block!Join(w) \/ Block!WriteError(w) PROVE Marked'
  <2>1. /\ UNCHANGED <<file, size, n, buf, marked>> /\ blockPc[w] # "none"
        /\ \A v \in BlockProcs : v # w => blockPc'[v] = blockPc[v]
        /\ blockPc'[w] \in {"finished", "raised", "failed"}
    <3>1. CASE Block!Join(w)
      BY <3>1, <1>p, <1>t DEF Block!Join, Block!locals, Block!py
    <3>2. CASE Block!WriteError(w)
      BY <3>2, <1>p, <1>t DEF Block!WriteError, Block!locals, Block!py
    <3> QED
      BY <1>6, <3>1, <3>2
  <2>2. MarkedWriter(w)'
    BY <2>1 DEF MarkedWriter
  <2>3. \A r \in Readers : MarkedReader(r)'
    BY <1>m, <1>p, <2>1 DEF MarkedReader
  <2> QED
    BY <1>w, <2>1, <2>2, <2>3
<1>7. ASSUME NEW r \in Readers, Block!OpenRead(r) \/ Block!Wait(r) PROVE Marked'
  <2>1. /\ UNCHANGED <<file, size, n, buf, marked>> /\ (blockPc[r] = "open" \/ marked)
        /\ \A v \in BlockProcs : v # r => blockPc'[v] = blockPc[v]
        /\ blockPc'[r] \in {"open", "read", "finished", "failed"}
    <3>1. CASE Block!OpenRead(r)
      BY <3>1, <1>p, <1>t DEF Block!OpenRead, Block!disk, Block!locals, Block!py
    <3>2. CASE Block!Wait(r)
      BY <3>2, <1>p, <1>t DEF Block!Wait, Block!disk, Block!locals, Block!py
    <3> QED
      BY <1>7, <3>1, <3>2
  <2>2. MarkedReader(r)'
    BY <1>m, <2>1 DEF MarkedReader
  <2> QED
    BY <1>r, <2>1, <2>2
<1>8. ASSUME NEW r \in Readers, Block!ReadByte(r) PROVE Marked'
  <2>1. /\ UNCHANGED <<file, size, n, marked, blockPc>> /\ blockPc[r] = "read"
        /\ \A q \in Readers : q # r => buf'[q] = buf[q]
    BY <1>8, <1>t DEF Block!ReadByte, Block!disk, Block!py
  <2>2. MarkedReader(r)'
    BY <1>m, <2>1 DEF MarkedReader
  <2> QED
    BY <1>r, <2>1, <2>2
<1>9. ASSUME NEW r \in Readers, Block!ReadEnd(r) PROVE Marked'
  <2>1. /\ UNCHANGED <<file, size, n, marked, buf>> /\ blockPc[r] = "read"
        /\ \A v \in BlockProcs : v # r => blockPc'[v] = blockPc[v]
        /\ blockPc'[r] = "check"
        /\ Len(buf[r]) = size[r] \/ Len(buf[r]) >= Len(file)
    BY <1>9, <1>p, <1>t DEF Block!ReadEnd, Block!disk, Block!locals, Block!py
  <2>2. marked /\ Len(file) = size[r]
    BY <1>m, <2>1 DEF MarkedReader
  <2>3. Len(buf[r]) \in Nat /\ Len(buf[r]) <= size[r] /\ size[r] \in Nat
    <3>1. Len(buf[r]) \in Nat /\ Len(buf[r]) <= size[r]
      BY DEF BlockTypes
    <3> QED
      BY <1>t, <2>2, <3>1
  <2>4. Len(buf[r]) = size[r]
    BY <2>1, <2>2, <2>3
  <2>5. MarkedReader(r)'
    BY <2>1, <2>2, <2>4 DEF MarkedReader
  <2> QED
    BY <1>r, <2>1, <2>5
<1>10. ASSUME NEW r \in Readers, Block!Sample(r) PROVE Marked'
  <2>1. blockPc[r] = "check"
    BY <1>10 DEF Block!Sample
  <2>2. marked /\ Len(buf[r]) = size[r] /\ Len(file) = size[r]
    BY <1>m, <2>1 DEF MarkedReader
  <2>3. /\ UNCHANGED <<file, size, n, marked>>
        /\ \A v \in BlockProcs : v # r => blockPc'[v] = blockPc[v]
        /\ \A q \in Readers : q # r => buf'[q] = buf[q]
        /\ blockPc'[r] \in {"finished", "read"}
    BY <1>10, <1>p, <1>t, <2>2 DEF Block!Sample, Block!disk
  <2>4. MarkedReader(r)'
    BY <2>2, <2>3 DEF MarkedReader
  <2> QED
    BY <1>r, <2>3, <2>4
<1>11. ASSUME NEW p \in BlockProcs, Block!Kill(p) PROVE Marked'
  <2>1. /\ UNCHANGED <<file, size, n, marked, buf>>
        /\ \A v \in BlockProcs : v # p => blockPc'[v] = blockPc[v]
        /\ blockPc'[p] = "killed"
    BY <1>11, <1>t DEF Block!Kill, Block!disk, Block!locals, Block!py
  <2>2. \A w \in Writers : MarkedWriter(w)'
    BY <1>m, <1>p, <2>1 DEF MarkedWriter
  <2>3. \A r \in Readers : MarkedReader(r)'
    BY <1>m, <1>p, <2>1 DEF MarkedReader
  <2> QED
    BY <2>2, <2>3 DEF Marked
<1>12. \A p \in BlockProcs : ~ Block!LockEx(p) /\ ~ Block!UnlockWrite(p) /\ ~ Block!LockSh(p)
  BY DEF OneWriter, Block!LockEx, Block!UnlockWrite, Block!LockSh
<1>13. \A p \in BlockProcs : ~ Block!Check(p) /\ ~ Block!ShortWrite(p)
  BY DEF Block!Check, Block!ShortWrite
<1> QED
  BY <1>1, <1>2, <1>3, <1>4, <1>5, <1>6, <1>7, <1>8, <1>9, <1>10, <1>11, <1>12, <1>13, <1>p
  DEF Block!Next, Block!Step, Block!main_write, Block!main_read, Block!locked_write, Block!writer,
      Block!reader

\* In the composition: no reader finds a part of a block but where a write was cut short or,
\* with the lock, the blocks differ in size, whoever starts, stops or truncates the file.
THEOREM BlockTheorem == MCSpec => []BlocksReadWhole
<1>1. MCInit => BlockInv
  BY InitBlockInv DEF MCInit
<1>2. BlockInv /\ [Block!Next]_(Block!vars) => BlockInv'
  <2> SUFFICES ASSUME BlockInv, [Block!Next]_(Block!vars) PROVE BlockInv'
    OBVIOUS
  <2>1. BlockTypes /\ BlockTypes'
    BY NextBlockTypes DEF BlockInv
  <2>2. program' = program /\ size' = size /\ (cut => cut')
    <3>1. CASE UNCHANGED Block!vars
      BY <3>1 DEF Block!vars, Block!locals
    <3>2. ASSUME NEW w \in Writers, Block!WriteEnd(w) \/ Block!ShortWrite(w)
          PROVE  program' = program /\ size' = size /\ (cut => cut')
      BY <3>2 DEF Block!WriteEnd, Block!ShortWrite, Block!Written
    <3>3. ASSUME NEW w \in Writers,
                 \/ Block!OpenWrite(w) \/ Block!WriteByte(w) \/ Block!LockEx(w)
                 \/ Block!UnlockWrite(w) \/ Block!MarkDone(w) \/ Block!Join(w)
                 \/ Block!WriteError(w)
          PROVE  program' = program /\ size' = size /\ (cut => cut')
      BY <3>3 DEF Block!OpenWrite, Block!WriteByte, Block!LockEx, Block!UnlockWrite,
         Block!MarkDone, Block!Join, Block!WriteError, Block!locals
    <3>4. ASSUME NEW r \in Readers,
                 \/ Block!OpenRead(r) \/ Block!LockSh(r) \/ Block!ReadByte(r)
                 \/ Block!ReadEnd(r) \/ Block!Check(r) \/ Block!Wait(r) \/ Block!Sample(r)
          PROVE  program' = program /\ size' = size /\ (cut => cut')
      BY <3>4 DEF Block!OpenRead, Block!LockSh, Block!ReadByte, Block!ReadEnd, Block!Check,
         Block!Wait, Block!Sample, Block!locals
    <3>5. ASSUME NEW p \in Block!Procs, Block!Kill(p)
          PROVE  program' = program /\ size' = size /\ (cut => cut')
      BY <3>5 DEF Block!Kill, Block!locals
    <3> QED
      BY <3>1, <3>2, <3>3, <3>4, <3>5
      DEF Block!Next, Block!Step, Block!main_write, Block!main_read, Block!locked_write,
          Block!writer, Block!reader, Block!Procs
  <2>3. SameSizes' <=> SameSizes
    BY <2>2 DEF SameSizes
  <2>4. LockInv'
    BY <2>1, <2>2, <2>3, NextFlocks, NextOfOneLetter DEF LockInv, BlockInv
  <2>5. PyInv'
    BY <2>1, <2>2, NextOneWriter, NextMarked DEF PyInv, BlockInv
  <2> QED
    BY <2>1, <2>4, <2>5 DEF BlockInv
<1>3. BlockInv /\ [MCNext]_MCVars => BlockInv'
  <2>1. MCNext => [Block!Next]_(Block!vars)
    BY DEF MCNext, blockVars, Block!vars, Block!disk, Block!locals, Block!py
  <2>2. UNCHANGED MCVars => UNCHANGED Block!vars
    BY DEF MCVars, blockVars, Block!vars, Block!disk, Block!locals, Block!py
  <2> QED
    BY <1>2, <2>1, <2>2
<1>4. BlockInv => BlocksReadWhole
  <2> SUFFICES ASSUME BlockInv PROVE BlocksReadWhole
    OBVIOUS
  <2>1. Block!LockedReadsWhole
    BY DEF BlockInv, LockInv, OfOneLetter, ReadSame, SameSizes, Block!LockedReadsWhole, Block!At
  <2>2. Block!PyReadsFullBlocks
    BY DEF BlockInv, PyInv, Marked, MarkedReader, Block!PyReadsFullBlocks, Block!At
  <2> QED
    BY <2>1, <2>2 DEF BlocksReadWhole
<1> QED
  BY <1>1, <1>3, <1>4, PTL DEF MCSpec
=============================================================================
