------------------------------ MODULE MCSharing ------------------------------
(* Three programs whose processes share memory or a file, one of which runs: *)
(* the ring buffer's creation and destruction by three producers, the shared *)
(* counters of shm_example.c, and the block of simultaneous.c and its kin.   *)
EXTENDS RingBufferLifecycle

CONSTANTS Writers, Readers,
          SIZE, WIDTH,                                 \* of ShmExample
          BlockSizes, NLETTERS, Reps, MaxFaults        \* of SharedBlock

ASSUME RolesAssumption == Writers \cap Readers = {} /\ None \notin Writers
ASSUME SizesAssumption ==
  /\ SIZE \in Nat \ {0} /\ WIDTH \in Nat \ {0}
  /\ BlockSizes \subseteq Nat \ {0} /\ NLETTERS \in Nat \ {0}

VARIABLES running,
          shmMem, shmSem, arr, value, shmPc, i, mapped, opened,       \* shm_example.c
          program, exists, file, flock, blockPc, size, n, letter, buf,
          todo, marked, sampled, cut, faults                          \* simultaneous

shmVars == <<shmMem, shmSem, arr, value, shmPc, i, mapped, opened>>
blockVars == <<program, exists, file, flock, blockPc, size, n, letter, buf,
               todo, marked, sampled, cut, faults>>

Shm == INSTANCE ShmExample WITH
         mem <- shmMem, sem <- shmSem, pc <- shmPc
Block == INSTANCE SharedBlock WITH
           Programs <- {"plain", "locking", "py"}, Sizes <- BlockSizes, pc <- blockPc

BlockIdle ==
  /\ program = "plain" /\ ~ exists
  /\ \A p \in Writers \cup Readers : size[p] = 1 /\ todo[p] = 0 /\ blockPc[p] # "none"

MCInit ==
  /\ running \in {"ring", "shm", "block"}
  /\ Init /\ Shm!Init /\ Block!Init
  /\ running # "block" => BlockIdle

MCNext ==
  /\ UNCHANGED running
  /\ \/ running = "ring" /\ Next /\ UNCHANGED <<shmVars, blockVars>>
     \/ running = "shm" /\ Shm!Next /\ UNCHANGED <<vars, blockVars>>
     \/ running = "block" /\ Block!Next /\ UNCHANGED <<vars, shmVars>>

MCVars == <<running, vars, shmVars, blockVars>>

MCSpec ==
  /\ MCInit /\ [][MCNext]_MCVars
  /\ \A p \in Writers \cup Readers :
       WF_MCVars(running = "block" /\ Block!Step(p) /\ UNCHANGED <<running, vars, shmVars>>)

\* No reader of shm_example.c sees a partial increment or memory that is not there.
ReaderSeesWhole == Shm!ReaderSeesWhole

\* A reader of a block finds a part of one only where a write was cut short or the sizes
\* differ: with the lock of simultaneous-with-locking.c, and behind the wait point of
\* simultaneous.py.
BlocksReadWhole == Block!LockedReadsWhole /\ Block!PyReadsFullBlocks

\* Both processes of simultaneous.py end, if the wait point is marked.
PyEnds == running = "block" => Block!PyEnds
=============================================================================
