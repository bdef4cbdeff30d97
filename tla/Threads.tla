------------------------------- MODULE Threads -------------------------------
(***************************************************************************)
(* The thread examples, week7 of archive/2025-002-fall and 2025-001-       *)
(* spring: the calls of the main thread and of the one that it creates.    *)
(***************************************************************************)
EXTENDS Integers, Sequences, FiniteSets

CONSTANTS Programs,
          Rounds,         \* of the loops of deadlock.c, 100
          None

Threads == {"main", "thrd"}
Mutexes == {"mut1", "mut2"}

VARIABLES program, pc, round,
          holder,         \* of each mutex
          created, outcome

vars == <<program, pc, round, holder, created, outcome>>

Do(op) == <<op, None>>
Lock(mut) == <<"lock", mut>>
Unlock(mut) == <<"unlock", mut>>

deadlock_thread == << Lock("mut2"), Lock("mut1"), Unlock("mut1"), Unlock("mut2"), Do("again") >>

deadlock_main ==
  << Do("create"), Lock("mut1"), Lock("mut2"), Unlock("mut2"), Unlock("mut1"), Do("again"),
     Do("join") >>

\* mutant: the lock is not released
locks_thread_keeps == << Lock("mut1") >>

locks_thread == << Lock("mut1"), Unlock("mut1") >>
locks_main == << Do("create"), Lock("mut1"), Unlock("mut1"), Do("join") >>

\* pthread_exit() releases nothing
exit_thread == << Lock("mut1") >>
exit_main == << Do("create"), Do("join"), <<"trylock", "mut1">> >>

sleeping_thread == << Do("sleep") >>
returns_main == << Do("create"), Do("sleep") >>
example_main == << Do("create"), Do("join") >>

Code ==
  [deadlock |-> [main |-> deadlock_main, thrd |-> deadlock_thread],
   locks |-> [main |-> locks_main, thrd |-> locks_thread],
   lock_n_exit |-> [main |-> exit_main, thrd |-> exit_thread],
   main_returns |-> [main |-> returns_main, thrd |-> sleeping_thread],
   in_class_example |-> [main |-> example_main, thrd |-> sleeping_thread]][program]

Init ==
  /\ program \in Programs
  /\ pc = [t \in Threads |-> 1] /\ round = [t \in Threads |-> 1]
  /\ holder = [m \in Mutexes |-> None]
  /\ created = FALSE /\ outcome = "running"

Finished(t) == pc[t] > Len(Code[t])
Alive(t) == outcome = "running" /\ (t = "main" \/ created) /\ ~ Finished(t)
Op(t) == Code[t][pc[t]][1]
Mutex(t) == Code[t][pc[t]][2]
At(t, op) == Alive(t) /\ Op(t) = op
Step(t) == pc' = [pc EXCEPT ![t] = @ + 1] /\ UNCHANGED program

pthread_mutex_lock(t) ==
  /\ At(t, "lock") /\ holder[Mutex(t)] = None /\ Step(t)
  /\ holder' = [holder EXCEPT ![Mutex(t)] = t]
  /\ UNCHANGED <<round, created, outcome>>

pthread_mutex_unlock(t) ==
  /\ At(t, "unlock") /\ Step(t)
  /\ holder' = [holder EXCEPT ![Mutex(t)] = None]
  /\ UNCHANGED <<round, created, outcome>>

sleep(t) == At(t, "sleep") /\ Step(t) /\ UNCHANGED <<round, holder, created, outcome>>

pthread_create ==
  /\ At("main", "create") /\ Step("main")
  /\ created' = TRUE
  /\ UNCHANGED <<round, holder, outcome>>

pthread_join ==
  /\ At("main", "join") /\ Finished("thrd") /\ Step("main")
  /\ UNCHANGED <<round, holder, created, outcome>>

\* "Lock WAS NOT released by thread after pthread_exit."
pthread_mutex_trylock ==
  /\ At("main", "trylock") /\ Step("main")
  /\ outcome' = IF holder[Mutex("main")] = None THEN "released" ELSE "not released"
  /\ UNCHANGED <<round, holder, created>>

\* the end of the body of a loop
Again(t) ==
  /\ At(t, "again")
  /\ round' = [round EXCEPT ![t] = @ + 1]
  /\ pc' = [pc EXCEPT ![t] = IF round[t] = Rounds THEN @ + 1 ELSE @ - 4]
  /\ UNCHANGED <<program, holder, created, outcome>>

\* the process ends with its main thread
Return ==
  /\ outcome = "running" /\ Finished("main")
  /\ outcome' = "done"
  /\ UNCHANGED <<program, pc, round, holder, created>>

Run(t) == pthread_mutex_lock(t) \/ pthread_mutex_unlock(t) \/ sleep(t) \/ Again(t)
Main == pthread_create \/ pthread_join \/ pthread_mutex_trylock \/ Return

Next == Main \/ \E t \in Threads : Run(t)

\* both threads are scheduled
Spec == Init /\ [][Next]_vars /\ WF_vars(Main) /\ \A t \in Threads : WF_vars(Run(t))

-----------------------------------------------------------------------------
\* Each of the two threads waits for the lock that the other holds.
InCycle ==
  /\ program = "deadlock"
  /\ \A t \in Threads : At(t, "lock") /\ holder[Mutex(t)] \notin {None, t}

\* Every program ends, with its thread finished if it joins it and every lock free but the
\* one that lock_n_exit.c leaves locked; or else, only in deadlock.c, the two threads
\* wait for each other, which may happen in any round.
EndsOrCycle ==
  <>[]( \/ InCycle
        \/ /\ outcome = "done" /\ \A m \in Mutexes : holder[m] = None
           /\ Finished("thrd") \/ program = "main_returns"
        \/ outcome = "not released" /\ program = "lock_n_exit" )
=============================================================================
