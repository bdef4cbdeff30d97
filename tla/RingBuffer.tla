----------------------------- MODULE RingBuffer -----------------------------
(***************************************************************************)
(* The ring buffer of archive/2025-002-fall/week5/solutions/ringbuffer.c   *)
(* in its steady state: the producer's create and the consumers' opens     *)
(* have succeeded, all of them map the same shared memory and hold the     *)
(* same named semaphore.  (Creation, opening and destruction are the       *)
(* subject of RingBufferLifecycle.)                                        *)
(*                                                                         *)
(* A step is one access to the shared memory or one semaphore call.  Any   *)
(* process in Mortal may be killed between two steps: Ctrl-C is the only   *)
(* way a consumer ever ends.  sent, got and printed are histories: the     *)
(* bytes whose write took effect, the bytes taken and by whom, and what    *)
(* each consumer printed.                                                  *)
(***************************************************************************)
EXTENDS Integers, Sequences, FiniteSets

CONSTANTS N,          \* BUFFER_PAYLOAD_SIZE
          BYTE,       \* number of values of an unsigned char
          TOTAL,      \* number of bytes the producer writes
          Input,      \* the arguments of its calls: producer() passes j, so k % N
          Producer,   \* the process that created the buffer
          Consumers,  \* the processes that opened it
          Mortal      \* the processes that may be killed

ASSUME SizeAssumption == N \in Nat \ {0} /\ BYTE \in Nat \ {0} /\ TOTAL \in Nat
ASSUME InputAssumption == \A k \in 0 .. TOTAL - 1 : Input[k] \in Nat
ASSUME ProcAssumption == Producer \notin Consumers

Procs == Consumers \cup {Producer}
Slots == 0 .. N - 1
Bytes == 0 .. BYTE - 1

VARIABLES sem,          \* value of the semaphore
          data,         \* ringbuf_data.data
          read_index, write_index,
          pc,           \* where each process is
          i,            \* the index acquire_read or acquire_write returned
          x,            \* the byte ring_buffer_read is returning
          n,            \* iterations of the producer's loops
          alive,        \* the processes not killed
          sent, got, printed

shared == <<data, read_index, write_index>>
locals == <<i, x, n>>
histories == <<sent, got, printed>>
vars == <<sem, shared, pc, locals, alive, histories>>

Init ==
  /\ sem = 1
  /\ data = [s \in Slots |-> 0]
  /\ read_index = 0 /\ write_index = 0
  /\ pc = [p \in Procs |-> "lock"]
  /\ i = [p \in Procs |-> 0]
  /\ x = [c \in Consumers |-> 0]
  /\ n = 0
  /\ alive = Procs
  /\ sent = <<>> /\ got = <<>>
  /\ printed = [c \in Consumers |-> <<>>]

At(p, label) == p \in alive /\ pc[p] = label
Goto(p, label) == pc' = [pc EXCEPT ![p] = label] /\ UNCHANGED alive

-----------------------------------------------------------------------------
(* ring_buffer_lock and ring_buffer_unlock.                                *)

\* mutant: sem_wait returns although the semaphore is zero
LockNoWait(p) ==
  /\ At(p, "lock")
  /\ p = Producer => n < TOTAL
  /\ sem' = sem - 1
  /\ Goto(p, "check")
  /\ UNCHANGED <<shared, locals, histories>>

Lock(p) ==
  /\ At(p, "lock")
  /\ p = Producer => n < TOTAL
  /\ sem > 0
  /\ sem' = sem - 1
  /\ Goto(p, "check")
  /\ UNCHANGED <<shared, locals, histories>>

\* the unlock before `continue` in the two acquire loops
Retry(p) ==
  /\ At(p, "retry")
  /\ sem' = sem + 1
  /\ Goto(p, "lock")
  /\ UNCHANGED <<shared, locals, histories>>

Unlock(p) ==
  /\ At(p, "unlock")
  /\ sem' = sem + 1
  /\ Goto(p, IF p = Producer THEN "lock" ELSE "print")
  /\ UNCHANGED <<shared, locals, histories>>

-----------------------------------------------------------------------------
\* mutants: a last byte taken for none, a fullness test that forgets to wrap
IsEmptyEarly(ri, wi) == ri = wi \/ (ri + 1) % N = wi
IsFullNoWrap(ri, wi) == wi + 1 = ri

IsEmpty(ri, wi) == ri = wi
IsFull(ri, wi) == (wi + 1) % N = ri
Incr(index) == (index + 1) % N

\* the loop body of ring_buffer_acquire_read, after the lock
AcquireRead(c) ==
  /\ At(c, "check")
  /\ \/ /\ IsEmpty(read_index, write_index)
        /\ Goto(c, "retry")
        /\ UNCHANGED i
     \/ /\ ~ IsEmpty(read_index, write_index)
        /\ Goto(c, "copy")
        /\ i' = [i EXCEPT ![c] = read_index]
  /\ UNCHANGED <<sem, shared, x, n, histories>>

\* the loop body of ring_buffer_acquire_write, after the lock
AcquireWrite ==
  /\ At(Producer, "check")
  /\ \/ /\ IsFull(read_index, write_index)
        /\ Goto(Producer, "retry")
        /\ UNCHANGED i
     \/ /\ ~ IsFull(read_index, write_index)
        /\ Goto(Producer, "store")
        /\ i' = [i EXCEPT ![Producer] = write_index]
  /\ UNCHANGED <<sem, shared, x, n, histories>>

\* mutant: the byte after the next is copied
CopyAhead(c) ==
  /\ At(c, "copy")
  /\ x' = [x EXCEPT ![c] = data[Incr(i[c])]]
  /\ Goto(c, "advance")
  /\ UNCHANGED <<sem, shared, i, n, histories>>

\* ring_buffer_read: x = data[i], then read_index moves on
Copy(c) ==
  /\ At(c, "copy")
  /\ x' = [x EXCEPT ![c] = data[i[c]]]
  /\ Goto(c, "advance")
  /\ UNCHANGED <<sem, shared, i, n, histories>>

AdvanceRead(c) ==
  /\ At(c, "advance")
  /\ read_index' = Incr(read_index)
  /\ got' = Append(got, [by |-> c, byte |-> x[c]])
  /\ Goto(c, "unlock")
  /\ UNCHANGED <<sem, data, write_index, locals, sent, printed>>

\* mutant: the slot is read again after the semaphore was given back
PrintAgain(c) ==
  /\ At(c, "print")
  /\ printed' = [printed EXCEPT ![c] = Append(@, data[i[c]])]
  /\ Goto(c, "lock")
  /\ UNCHANGED <<sem, shared, locals, sent, got>>

\* consumer: printf after ring_buffer_read has returned
PrintByte(c) ==
  /\ At(c, "print")
  /\ printed' = [printed EXCEPT ![c] = Append(@, x[c])]
  /\ Goto(c, "lock")
  /\ UNCHANGED <<sem, shared, locals, sent, got>>

\* the argument of the producer's n-th call, converted to unsigned char
Arg == Input[n] % BYTE

\* ring_buffer_write: data[i] = x, then write_index moves on
Store ==
  /\ At(Producer, "store")
  /\ data' = [data EXCEPT ![i[Producer]] = Arg]
  /\ Goto(Producer, "advance")
  /\ UNCHANGED <<sem, read_index, write_index, locals, histories>>

AdvanceWrite ==
  /\ At(Producer, "advance")
  /\ write_index' = Incr(write_index)
  /\ sent' = Append(sent, Arg)
  /\ n' = n + 1
  /\ Goto(Producer, "unlock")
  /\ UNCHANGED <<sem, data, read_index, i, x, got, printed>>

\* a signal ends p wherever it is; nothing gives back a semaphore it holds
Kill(p) ==
  /\ p \in alive \cap Mortal
  /\ alive' = alive \ {p}
  /\ UNCHANGED <<sem, shared, pc, locals, histories>>

-----------------------------------------------------------------------------
Write == AcquireWrite \/ Store \/ AdvanceWrite
Read(c) == AcquireRead(c) \/ Copy(c) \/ AdvanceRead(c) \/ PrintByte(c)

\* the steps of p other than the one that waits for the semaphore
Proceed(p) ==
  \/ Retry(p) \/ Unlock(p)
  \/ p = Producer /\ Write
  \/ p \in Consumers /\ Read(p)

Next == \E p \in Procs : Lock(p) \/ Proceed(p) \/ Kill(p)

Spec == Init /\ [][Next]_vars

\* The scheduler runs every process; a process that finds the semaphore free
\* again and again is let through some time: the busy-wait loops release it
\* and take it back forever, so weak fairness would let one loop starve all.
Fairness == \A p \in Procs : WF_vars(Proceed(p)) /\ SF_vars(Lock(p))

FairSpec == Spec /\ Fairness

-----------------------------------------------------------------------------
(* Properties.                                                             *)

Labels == {"lock", "check", "retry", "copy", "store", "advance", "unlock", "print"}

\* Every variable of the buffer and of its users has its type: in particular
\* both indices stay inside data, whatever the interleaving.
TypeOK ==
  /\ sem \in 0 .. 1
  /\ data \in [Slots -> Bytes]
  /\ read_index \in Slots /\ write_index \in Slots
  /\ pc \in [Procs -> Labels]
  /\ pc[Producer] \notin {"copy", "print"}
  /\ \A c \in Consumers : pc[c] # "store"
  /\ i \in [Procs -> Slots]
  /\ x \in [Consumers -> Bytes]
  /\ n \in 0 .. TOTAL
  /\ alive \subseteq Procs
  /\ sent \in Seq(Bytes)
  /\ got \in Seq([by : Consumers, byte : Bytes])
  /\ printed \in [Consumers -> Seq(Bytes)]

Holds(p) == pc[p] \in {"check", "retry", "copy", "store", "advance", "unlock"}

\* ring_buffer_lock and ring_buffer_unlock bracket every access: at most one
\* process, dead ones included, is between its sem_wait and its sem_post, and
\* the semaphore is zero exactly while there is one.
LockInv ==
  /\ \A p, q \in Procs : Holds(p) /\ Holds(q) => p = q
  /\ (sem = 0) <=> (\E p \in Procs : Holds(p))

\* bytes written and not yet read, and the slot of the k-th of them
Count == Len(sent) - Len(got)
SlotOf(k) == (read_index + k) % N

\* The slots from read_index up to write_index hold exactly the bytes that were
\* written and not yet taken, oldest first; there are at most N-1 of them, which
\* is what keeps read_index = write_index from meaning both empty and full; and
\* what was taken is what was sent, in order, none lost and none twice.
ContentsInv ==
  /\ Count \in 0 .. N - 1
  /\ write_index = SlotOf(Count)
  /\ \A k \in 0 .. Count - 1 : data[SlotOf(k)] = sent[Len(got) + k + 1]
  /\ \A k \in 1 .. Len(got) : got[k].byte = sent[k]

\* What a process found out under the lock still holds when it acts on it, some
\* steps of others later: the index an acquire returned is still the index of the
\* buffer, there is still a byte to take or room for one, and the byte copied or
\* stored is still in its slot when the index moves past it.
FoundInv ==
  /\ \A c \in Consumers :
       /\ pc[c] = "copy" => i[c] = read_index
       /\ pc[c] = "advance" => x[c] = data[read_index]
       /\ pc[c] \in {"copy", "advance"} => Count > 0
  /\ pc[Producer] = "store" => i[Producer] = write_index
  /\ pc[Producer] = "advance" => data[write_index] = Arg
  /\ pc[Producer] \in {"store", "advance"} => Count < N - 1
  /\ pc[Producer] \in {"check", "retry", "store", "advance"} => n < TOTAL

\* the turns at which consumer c took a byte, and what it has printed or is about to
Turns(c) == { k \in 1 .. Len(got) : got[k].by = c }
Shown(c) == IF pc[c] \in {"unlock", "print"} THEN Append(printed[c], x[c]) ELSE printed[c]

\* A consumer prints each byte it took once, in order and as it took it, though
\* it prints after giving the semaphore back; only the last may be still to come
\* (and is lost if the consumer is killed there).
PrintedOnce ==
  \A c \in Consumers :
    /\ Len(Shown(c)) = Cardinality(Turns(c))
    /\ \A k \in Turns(c) :
         Shown(c)[Cardinality({ j \in Turns(c) : j <= k })] = got[k].byte

\* As long as the producer and one consumer live and nobody was killed with the
\* semaphore in hand, everything the producer has to say is written, taken and
\* printed: neither acquire loop keeps the other side out for good, and those killed
\* elsewhere leave the others undisturbed.
NobodyInTheWay ==
  /\ Producer \in alive /\ alive # {Producer}
  /\ \A p \in Procs \ alive : ~ Holds(p)
AllDelivered ==
  []NobodyInTheWay =>
    <>[](/\ Len(got) = TOTAL
         /\ \A c \in alive \ {Producer} : pc[c] # "print")

\* The ring buffer implements a bounded first-in first-out queue of N-1 bytes.
Queue == [k \in 1 .. ((write_index + N) - read_index) % N |-> data[SlotOf(k - 1)]]
Fifo == INSTANCE BoundedFifo WITH Capacity <- N - 1, queue <- Queue
IsFifo == Fifo!Spec
=============================================================================
