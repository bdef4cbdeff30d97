-------------------------- MODULE RingBuffer_proofs --------------------------
(***************************************************************************)
(* Proofs about RingBuffer, for every buffer size, number of rounds, set   *)
(* of consumers and set of processes that may be killed.                   *)
(***************************************************************************)
EXTENDS RingBuffer, FiniteSetTheorems, SequenceTheorems, TLAPS

-----------------------------------------------------------------------------
(* Arithmetic of the indices.                                              *)

\* A remainder by the buffer size is an index of the buffer.
LEMMA ModRange == ASSUME NEW a \in Nat PROVE a % N \in Slots
  BY SizeAssumption, SMT DEF Slots

\* Adding at most N to an index wraps at most once.
LEMMA ModWrap ==
  ASSUME NEW a \in Slots, NEW k \in 0 .. N
  PROVE  (a + k) % N = IF a + k < N THEN a + k ELSE a + k - N
<1>1. CASE a + k < N
  BY <1>1, SizeAssumption, SMT DEF Slots
<1>2. CASE a + k >= N /\ a + k < N + N
  <2>1. \A m \in N .. N + N - 1 : m % N = m - N
    BY SizeAssumption, SMT
  <2> QED BY <1>2, <2>1, SizeAssumption, SMT DEF Slots
<1> QED BY <1>1, <1>2, SizeAssumption, SMT DEF Slots

\* The index after an index is an index.
LEMMA IncrSlot == ASSUME NEW a \in Slots PROVE Incr(a) \in Slots
<1>1. a + 1 \in Nat
  BY SizeAssumption, SMT DEF Slots
<1> QED BY <1>1, ModRange DEF Incr

\* Slots at different distances below N from an index are different.
LEMMA SlotInjective ==
  ASSUME NEW a \in Slots, NEW j \in 0 .. N - 1, NEW k \in 0 .. N - 1, j # k
  PROVE  (a + j) % N # (a + k) % N
<1>1. j \in 0 .. N /\ k \in 0 .. N
  BY SizeAssumption
<1>2. /\ (a + j) % N = IF a + j < N THEN a + j ELSE a + j - N
      /\ (a + k) % N = IF a + k < N THEN a + k ELSE a + k - N
  BY <1>1, ModWrap
<1> QED BY <1>2, SizeAssumption, SMT DEF Slots

\* Incrementing an index and then adding, or adding and then incrementing,
\* is adding one more.
LEMMA SlotNext ==
  ASSUME NEW a \in Slots, NEW k \in 0 .. N - 1
  PROVE  /\ Incr((a + k) % N) = (a + (k + 1)) % N
         /\ (Incr(a) + k) % N = (a + (k + 1)) % N
<1>1. k \in 0 .. N /\ k + 1 \in 0 .. N /\ 1 \in 0 .. N
  BY SizeAssumption
<1>2. /\ (a + k) % N = IF a + k < N THEN a + k ELSE a + k - N
      /\ (a + (k + 1)) % N = IF a + (k + 1) < N THEN a + (k + 1) ELSE a + (k + 1) - N
      /\ (a + 1) % N = IF a + 1 < N THEN a + 1 ELSE a + 1 - N
  BY <1>1, ModWrap
<1>3. (a + k) % N \in Slots /\ Incr(a) \in Slots
  BY <1>2, IncrSlot, SizeAssumption DEF Slots
<1>4. Incr((a + k) % N) = IF ((a + k) % N) + 1 < N THEN ((a + k) % N) + 1 ELSE ((a + k) % N) + 1 - N
  BY <1>1, <1>3, ModWrap DEF Incr
<1>5. (Incr(a) + k) % N = IF Incr(a) + k < N THEN Incr(a) + k ELSE Incr(a) + k - N
  BY <1>1, <1>3, ModWrap
<1> QED BY <1>2, <1>4, <1>5, SizeAssumption, SMT DEF Slots, Incr

-----------------------------------------------------------------------------
(* Type correctness.                                                       *)

\* Every reachable state of the ring buffer is well typed; both indices stay
\* inside the payload.
LEMMA InitTypeOK == Init => TypeOK
<1> SUFFICES ASSUME Init PROVE TypeOK
  OBVIOUS
<1>1. 0 \in Slots /\ 0 \in Bytes
  BY SizeAssumption, SMT DEF Slots, Bytes
<1>2. 0 \in 0 .. TOTAL
  BY SizeAssumption, SMT
<1>3. sent \in Seq(Bytes) /\ got \in Seq([by : Consumers, byte : Bytes])
      /\ \A c \in Consumers : printed[c] \in Seq(Bytes)
  BY EmptySeq DEF Init
<1> QED
  BY <1>1, <1>2, <1>3, ProcAssumption DEF Init, TypeOK, Labels, Procs

\* What the producer is about to store is a byte, whatever its argument.
LEMMA ArgIsByte ==
  ASSUME TypeOK, FoundInv, pc[Producer] \in {"store", "advance"}
  PROVE  Arg \in Bytes
<1>1. n \in 0 .. TOTAL - 1
  BY SizeAssumption, SMT DEF TypeOK, FoundInv
<1>2. Input[n] \in Nat
  BY <1>1, InputAssumption
<1> QED BY <1>2, SizeAssumption, SMT DEF Arg, Bytes

\* A step of any process, a kill included, keeps the types.
LEMMA NextTypeOK == TypeOK /\ LockInv /\ FoundInv /\ [Next]_vars => TypeOK'
<1> SUFFICES ASSUME TypeOK, LockInv, FoundInv, [Next]_vars PROVE TypeOK'
  OBVIOUS
<1> USE SizeAssumption, ProcAssumption
    DEF TypeOK, Procs, Labels, At, Goto, shared, locals, histories
<1>1. CASE UNCHANGED vars
  BY <1>1 DEF vars
<1>2. ASSUME NEW p \in Procs, Lock(p) PROVE TypeOK'
  BY <1>2 DEF Lock
<1>3. ASSUME NEW p \in Procs, Holds(p) PROVE sem + 1 \in 0 .. 1
  <2>1. sem = 0
    BY <1>3 DEF LockInv
  <2> QED BY <2>1
<1>4. ASSUME NEW p \in Procs, Retry(p) PROVE TypeOK'
  <2>1. sem + 1 \in 0 .. 1
    BY <1>3, <1>4 DEF Retry, Holds
  <2> QED BY <1>4, <2>1 DEF Retry
<1>5. ASSUME NEW p \in Procs, Unlock(p) PROVE TypeOK'
  <2>1. sem + 1 \in 0 .. 1
    BY <1>3, <1>5 DEF Unlock, Holds
  <2> QED BY <1>5, <2>1 DEF Unlock
<1>6. CASE AcquireWrite
  BY <1>6 DEF AcquireWrite
<1>7. ASSUME Store \/ AdvanceWrite PROVE Arg \in Bytes
  <2>1. pc[Producer] \in {"store", "advance"}
    BY <1>7 DEF Store, AdvanceWrite
  <2> QED BY <2>1, ArgIsByte
<1>8. CASE Store
  BY <1>7, <1>8 DEF Store
<1>9. CASE AdvanceWrite
  <2>1. Incr(write_index) \in Slots
    BY IncrSlot
  <2>2. n + 1 \in 0 .. TOTAL
    BY <1>9 DEF AdvanceWrite, FoundInv
  <2>3. Append(sent, Arg) \in Seq(Bytes)
    BY <1>7, <1>9, AppendProperties
  <2> QED BY <1>9, <2>1, <2>2, <2>3 DEF AdvanceWrite
<1>10. ASSUME NEW c \in Consumers, AcquireRead(c) PROVE TypeOK'
  <2>1. c # Producer
    OBVIOUS
  <2>2. PICK l \in {"retry", "copy"} : pc' = [pc EXCEPT ![c] = l]
    BY <1>10 DEF AcquireRead
  <2>3. i' \in [Procs -> Slots]
    BY <1>10 DEF AcquireRead
  <2> QED BY <1>10, <2>1, <2>2, <2>3 DEF AcquireRead
<1>11. ASSUME NEW c \in Consumers, Copy(c) PROVE TypeOK'
  BY <1>11 DEF Copy
<1>12. ASSUME NEW c \in Consumers, AdvanceRead(c) PROVE TypeOK'
  <2>1. Incr(read_index) \in Slots
    BY IncrSlot
  <2>2. Append(got, [by |-> c, byte |-> x[c]]) \in Seq([by : Consumers, byte : Bytes])
    BY AppendProperties
  <2> QED BY <1>12, <2>1, <2>2 DEF AdvanceRead
<1>13. ASSUME NEW c \in Consumers, PrintByte(c) PROVE TypeOK'
  <2>1. Append(printed[c], x[c]) \in Seq(Bytes)
    BY AppendProperties
  <2> QED BY <1>13, <2>1 DEF PrintByte
<1>14. ASSUME NEW p \in Procs, Kill(p) PROVE TypeOK'
  BY <1>14 DEF Kill
<1> QED
  BY <1>1, <1>2, <1>4, <1>5, <1>6, <1>8, <1>9, <1>10, <1>11, <1>12, <1>13, <1>14
  DEF Next, Proceed, Read, Write

-----------------------------------------------------------------------------
(* The semaphore is a lock.                                                *)

\* A step of any process keeps the lock invariant; a killed holder keeps holding.
LEMMA NextLockInv == TypeOK /\ LockInv /\ [Next]_vars => LockInv'
<1> SUFFICES ASSUME TypeOK, LockInv, [Next]_vars PROVE LockInv'
  OBVIOUS
<1> USE DEF TypeOK, LockInv, Holds, At, Goto
<1>1. CASE UNCHANGED vars
  BY <1>1 DEF vars
<1>2. ASSUME NEW p \in Procs, Lock(p) PROVE LockInv'
  BY <1>2 DEF Lock
<1>3. ASSUME NEW p \in Procs, Retry(p) \/ Unlock(p) PROVE LockInv'
  <2>1. Holds(p) /\ (\E l \in {"lock", "print"} : pc' = [pc EXCEPT ![p] = l])
    BY <1>3 DEF Retry, Unlock
  <2>2. sem = 0 /\ sem' = 1
    BY <1>3, <2>1 DEF Retry, Unlock
  <2>3. \A q \in Procs : ~ Holds(q)'
    BY <2>1
  <2> QED BY <2>2, <2>3
<1>4. CASE Write
  BY <1>4 DEF Write, AcquireWrite, Store, AdvanceWrite, Procs
<1>5. ASSUME NEW c \in Consumers, Read(c) PROVE LockInv'
  BY <1>5 DEF Read, AcquireRead, Copy, AdvanceRead, PrintByte, Procs
<1>6. ASSUME NEW p \in Procs, Kill(p) PROVE LockInv'
  BY <1>6 DEF Kill
<1> QED
  BY <1>1, <1>2, <1>3, <1>4, <1>5, <1>6 DEF Next, Proceed

-----------------------------------------------------------------------------
(* The contents.                                                           *)

\* The tests of the two acquire loops tell whether a byte is waiting and whether
\* there is room for another.
LEMMA TestsAreExact ==
  ASSUME TypeOK, ContentsInv
  PROVE  /\ Count \in 0 .. N - 1
         /\ SlotOf(0) = read_index
         /\ Count > 0 <=> ~ IsEmpty(read_index, write_index)
         /\ Count < N - 1 <=> ~ IsFull(read_index, write_index)
<1> USE SizeAssumption
<1>1. Count \in 0 .. N - 1 /\ read_index \in Slots /\ write_index \in Slots
  BY DEF TypeOK, ContentsInv
<1>2. Count \in 0 .. N /\ 1 \in 0 .. N /\ 0 \in 0 .. N
  BY <1>1
<1>3. write_index = IF read_index + Count < N THEN read_index + Count
                                              ELSE read_index + Count - N
  BY <1>1, <1>2, ModWrap DEF ContentsInv, SlotOf
<1>4. SlotOf(0) = read_index
  <2>1. (read_index + 0) % N = IF read_index + 0 < N THEN read_index + 0
                                                     ELSE read_index + 0 - N
    BY <1>1, <1>2, ModWrap
  <2> QED BY <1>1, <2>1, SMT DEF SlotOf, Slots
<1>5. (write_index + 1) % N = IF write_index + 1 < N THEN write_index + 1
                                                     ELSE write_index + 1 - N
  BY <1>1, <1>2, ModWrap
<1> QED
  BY <1>1, <1>3, <1>4, <1>5, SMT DEF Slots, IsEmpty, IsFull

\* The first store into the ring and every later step keep the slots between the
\* indices equal to what was sent and not taken.
LEMMA NextContentsInv ==
  TypeOK /\ LockInv /\ ContentsInv /\ FoundInv /\ [Next]_vars => ContentsInv'
<1> SUFFICES ASSUME TypeOK, LockInv, ContentsInv, FoundInv, [Next]_vars
             PROVE  ContentsInv'
  OBVIOUS
<1>1. CASE UNCHANGED <<data, read_index, write_index, sent, got>>
  BY <1>1 DEF ContentsInv, Count, SlotOf
<1>2. /\ Count \in 0 .. N - 1 /\ Len(sent) \in Nat /\ Len(got) \in Nat
      /\ read_index \in Slots /\ N \in Nat \ {0}
  BY TestsAreExact, LenProperties, SizeAssumption DEF TypeOK
<1>3. CASE Store
  <2>1. data' = [data EXCEPT ![SlotOf(Count)] = Arg]
    BY <1>3 DEF Store, At, FoundInv, ContentsInv
  <2>2. UNCHANGED <<read_index, write_index, sent, got>>
    BY <1>3 DEF Store, histories
  <2>3. \A k \in 0 .. Count - 1 : data'[SlotOf(k)] = data[SlotOf(k)]
    <3> SUFFICES ASSUME NEW k \in 0 .. Count - 1 PROVE data'[SlotOf(k)] = data[SlotOf(k)]
      OBVIOUS
    <3>1. k \in 0 .. N - 1 /\ k # Count
      BY <1>2
    <3>2. SlotOf(k) # SlotOf(Count)
      BY <1>2, <3>1, SlotInjective DEF SlotOf
    <3>3. SlotOf(k) \in Slots
      <4>1. read_index + k \in Nat
        BY <1>2, <3>1, SMT DEF Slots
      <4> QED BY <4>1, ModRange DEF SlotOf
    <3> QED BY <2>1, <3>2, <3>3 DEF TypeOK
  <2> QED BY <2>2, <2>3 DEF ContentsInv, Count, SlotOf
<1>4. CASE AdvanceWrite
  <2>1. /\ UNCHANGED <<data, read_index, got>>
        /\ sent' = Append(sent, Arg)
        /\ write_index' = Incr(write_index)
    BY <1>4 DEF AdvanceWrite
  <2>2. Count + 1 \in 0 .. N - 1
    BY <1>2, <1>4 DEF AdvanceWrite, At, FoundInv
  <2>3. Arg = data[SlotOf(Count)]
    BY <1>4 DEF AdvanceWrite, At, FoundInv, ContentsInv
  <2>4. Len(sent') = Len(sent) + 1 /\ sent'[Len(sent) + 1] = Arg
        /\ \A k \in 1 .. Len(sent) : sent'[k] = sent[k]
    BY <2>1, AppendProperties DEF TypeOK
  <2>5. Count' = Count + 1
    BY <1>2, <2>1, <2>4 DEF Count
  <2>6. write_index' = (read_index' + Count') % N
    BY <1>2, <2>1, <2>5, SlotNext DEF ContentsInv, SlotOf
  <2>7. \A k \in 0 .. Count' - 1 : data[SlotOf(k)] = sent'[Len(got) + k + 1]
    <3> SUFFICES ASSUME NEW k \in 0 .. Count PROVE data[SlotOf(k)] = sent'[Len(got) + k + 1]
      BY <1>2, <2>5
    <3>1. CASE k = Count
      BY <1>2, <2>3, <2>4, <3>1 DEF Count
    <3>2. CASE k \in 0 .. Count - 1
      <4>1. Len(got) + k + 1 \in 1 .. Len(sent)
        BY <1>2, <3>2 DEF Count
      <4> QED BY <2>4, <3>2, <4>1 DEF ContentsInv
    <3> QED BY <1>2, <3>1, <3>2
  <2>8. \A k \in 1 .. Len(got) : got[k].byte = sent'[k]
    <3>1. \A k \in 1 .. Len(got) : k \in 1 .. Len(sent)
      BY <1>2 DEF Count
    <3> QED BY <2>4, <3>1 DEF ContentsInv
  <2> QED BY <2>1, <2>2, <2>5, <2>6, <2>7, <2>8 DEF ContentsInv, SlotOf
<1>5. ASSUME NEW c \in Consumers, AdvanceRead(c) PROVE ContentsInv'
  <2>1. /\ UNCHANGED <<data, write_index, sent>>
        /\ got' = Append(got, [by |-> c, byte |-> x[c]])
        /\ read_index' = Incr(read_index)
    BY <1>5 DEF AdvanceRead
  <2>2. Count > 0 /\ x[c] = data[read_index]
    BY <1>5 DEF AdvanceRead, At, FoundInv
  <2>3. /\ Len(got') = Len(got) + 1
        /\ \A k \in 1 .. Len(got) : got'[k] = got[k]
        /\ got'[Len(got) + 1] = [by |-> c, byte |-> x[c]]
    <3>1. [by |-> c, byte |-> x[c]] \in [by : Consumers, byte : Bytes]
      BY DEF TypeOK
    <3> QED BY <2>1, <3>1, AppendProperties DEF TypeOK
  <2>4. Count' = Count - 1
    BY <1>2, <2>1, <2>3 DEF Count
  <2>5. \A k \in 0 .. N - 1 : (read_index' + k) % N = SlotOf(k + 1)
    BY <1>2, <2>1, SlotNext DEF SlotOf
  <2>6. write_index' = (read_index' + Count') % N
    <3>1. Count - 1 \in 0 .. N - 1 /\ (Count - 1) + 1 = Count
      BY <1>2, <2>2
    <3>2. (read_index' + (Count - 1)) % N = SlotOf(Count)
      BY <2>5, <3>1
    <3> QED BY <2>1, <2>4, <3>2 DEF ContentsInv, SlotOf
  <2>7. \A k \in 0 .. Count' - 1 : data[(read_index' + k) % N] = sent[Len(got') + k + 1]
    <3> SUFFICES ASSUME NEW k \in 0 .. Count - 2
                 PROVE  data[(read_index' + k) % N] = sent[Len(got') + k + 1]
      BY <1>2, <2>4
    <3>1. k \in 0 .. N - 1 /\ k + 1 \in 0 .. Count - 1
          /\ Len(got') + k + 1 = Len(got) + (k + 1) + 1
      BY <1>2, <2>3
    <3> QED BY <2>5, <3>1 DEF ContentsInv
  <2>8. \A k \in 1 .. Len(got') : got'[k].byte = sent[k]
    <3>1. data[SlotOf(0)] = sent[Len(got) + 1]
      BY <1>2, <2>2 DEF ContentsInv
    <3>2. SlotOf(0) = read_index
      BY TestsAreExact
    <3> QED BY <1>2, <2>2, <2>3, <3>1, <3>2 DEF ContentsInv
  <2> QED BY <1>2, <2>1, <2>2, <2>4, <2>6, <2>7, <2>8 DEF ContentsInv, SlotOf
<1> QED
  BY <1>1, <1>3, <1>4, <1>5
  DEF Next, Proceed, Lock, Retry, Unlock, Kill, Read, AcquireRead, Copy, PrintByte,
      Write, AcquireWrite, shared, histories, vars

-----------------------------------------------------------------------------
(* What is found out under the lock stays true until it is used.           *)

\* Only the holder of the semaphore moves an index or stores a byte, so nobody
\* else can invalidate what it found out.
LEMMA NextFoundInv ==
  TypeOK /\ LockInv /\ ContentsInv /\ FoundInv /\ [Next]_vars => FoundInv'
<1> SUFFICES ASSUME TypeOK, LockInv, ContentsInv, FoundInv, [Next]_vars
             PROVE  FoundInv'
  OBVIOUS
<1> USE ProcAssumption DEF At, Goto, FoundInv
<1> DEFINE Mem == <<data, read_index, write_index, sent, got, i, x, n>>
<1>1. CASE UNCHANGED vars
  BY <1>1 DEF vars, shared, locals, histories, Count, Arg
<1>2. /\ \A p, q \in Procs : Holds(p) /\ Holds(q) => p = q
      /\ pc \in [Procs -> Labels]
      /\ Producer \in Procs /\ \A c \in Consumers : c \in Procs /\ c # Producer
  BY DEF LockInv, TypeOK, Procs
<1>3. /\ Count \in 0 .. N - 1
      /\ Count > 0 <=> ~ IsEmpty(read_index, write_index)
      /\ Count < N - 1 <=> ~ IsFull(read_index, write_index)
  BY TestsAreExact
\* Steps that move a process to a place where nothing is claimed.
<1>4. ASSUME NEW p \in Procs, UNCHANGED Mem,
             \E l \in {"lock", "retry", "unlock", "print"} : pc' = [pc EXCEPT ![p] = l],
             p = Producer => n < TOTAL \/ pc'[p] # "retry"
      PROVE  FoundInv'
  BY <1>2, <1>4 DEF Count, Arg
<1>5. ASSUME NEW p \in Procs, Lock(p) PROVE FoundInv'
  BY <1>2, <1>5 DEF Lock, shared, locals, histories, Count, Arg
<1>6. ASSUME NEW p \in Procs, Retry(p) \/ Unlock(p) PROVE FoundInv'
  <2>1. PICK l \in {"lock", "print"} : pc' = [pc EXCEPT ![p] = l]
    BY <1>6 DEF Retry, Unlock
  <2>2. UNCHANGED Mem
    BY <1>6 DEF Retry, Unlock, shared, locals, histories
  <2> QED BY <1>2, <1>4, <2>1, <2>2
<1>7. ASSUME NEW c \in Consumers, AcquireRead(c) PROVE FoundInv'
  <2>1. UNCHANGED <<data, read_index, write_index, sent, got, x, n>>
    BY <1>7 DEF AcquireRead, shared, histories
  <2>2. CASE IsEmpty(read_index, write_index)
    BY <1>2, <1>4, <1>7, <2>1, <2>2 DEF AcquireRead
  <2>3. CASE ~ IsEmpty(read_index, write_index)
    <3>1. pc' = [pc EXCEPT ![c] = "copy"] /\ i' = [i EXCEPT ![c] = read_index]
      BY <1>7, <2>3 DEF AcquireRead
    <3> QED BY <1>2, <1>3, <2>1, <2>3, <3>1 DEF Count, Arg, TypeOK
  <2> QED BY <2>2, <2>3
<1>8. ASSUME NEW c \in Consumers, Copy(c) PROVE FoundInv'
  <2>1. UNCHANGED <<data, read_index, write_index, sent, got, i, n>>
    BY <1>8 DEF Copy, shared, histories
  <2>2. pc' = [pc EXCEPT ![c] = "advance"] /\ x' = [x EXCEPT ![c] = data[read_index]]
        /\ Count > 0
    BY <1>8 DEF Copy
  <2> QED BY <1>2, <2>1, <2>2 DEF Count, Arg, TypeOK
<1>9. ASSUME NEW p \in Procs, Holds(p),
             pc' = [pc EXCEPT ![p] = "unlock"]
      PROVE  \A q \in Procs : pc'[q] \notin {"check", "retry", "copy", "store", "advance"}
  BY <1>2, <1>9 DEF Holds
<1>10. ASSUME NEW c \in Consumers, AdvanceRead(c) PROVE FoundInv'
  <2>1. Holds(c) /\ pc' = [pc EXCEPT ![c] = "unlock"]
    BY <1>10 DEF AdvanceRead, Holds
  <2> QED BY <1>2, <1>9, <2>1
<1>11. ASSUME NEW c \in Consumers, PrintByte(c) PROVE FoundInv'
  <2>1. pc' = [pc EXCEPT ![c] = "lock"] /\ UNCHANGED Mem
    BY <1>11 DEF PrintByte, shared, locals
  <2> QED BY <1>2, <1>4, <2>1
<1>12. CASE AcquireWrite
  <2>1. UNCHANGED <<data, read_index, write_index, sent, got, x, n>> /\ n < TOTAL
    BY <1>12 DEF AcquireWrite, shared, histories
  <2>2. CASE IsFull(read_index, write_index)
    BY <1>2, <1>4, <1>12, <2>1, <2>2 DEF AcquireWrite
  <2>3. CASE ~ IsFull(read_index, write_index)
    <3>1. pc' = [pc EXCEPT ![Producer] = "store"]
          /\ i' = [i EXCEPT ![Producer] = write_index]
      BY <1>12, <2>3 DEF AcquireWrite
    <3> QED BY <1>2, <1>3, <2>1, <2>3, <3>1 DEF Count, Arg, TypeOK
  <2> QED BY <2>2, <2>3
<1>13. CASE Store
  <2>1. UNCHANGED <<read_index, write_index, sent, got, i, x, n>>
    BY <1>13 DEF Store, locals, histories
  <2>2. /\ pc' = [pc EXCEPT ![Producer] = "advance"]
        /\ data' = [data EXCEPT ![write_index] = Arg]
        /\ Count < N - 1 /\ n < TOTAL
    BY <1>13 DEF Store
  <2>3. \A c \in Consumers : pc'[c] \notin {"copy", "advance"}
    BY <1>2, <1>13, <2>2 DEF Store, Holds
  <2> QED BY <1>2, <2>1, <2>2, <2>3 DEF Count, Arg, TypeOK
<1>14. CASE AdvanceWrite
  <2>1. Holds(Producer) /\ pc' = [pc EXCEPT ![Producer] = "unlock"]
    BY <1>14 DEF AdvanceWrite, Holds
  <2> QED BY <1>2, <1>9, <2>1
<1>15. ASSUME NEW p \in Procs, Kill(p) PROVE FoundInv'
  BY <1>15 DEF Kill, shared, locals, histories, Count, Arg
<1> QED
  BY <1>1, <1>5, <1>6, <1>7, <1>8, <1>10, <1>11, <1>12, <1>13, <1>14, <1>15
  DEF Next, Proceed, Read, Write

-----------------------------------------------------------------------------
(* The theorems.                                                           *)

\* The inductive invariant: each of its parts needs the others.
IInv == TypeOK /\ LockInv /\ ContentsInv /\ FoundInv

\* The state after creation satisfies the inductive invariant.
LEMMA InitIInv == Init => IInv
<1> SUFFICES ASSUME Init PROVE IInv
  OBVIOUS
<1>1. TypeOK
  BY InitTypeOK
<1>2. LockInv /\ FoundInv
  BY ProcAssumption DEF Init, LockInv, FoundInv, Holds, Procs
<1>3. Len(sent) = 0 /\ Len(got) = 0 /\ Count = 0
  BY DEF Init, Count
<1>4. ContentsInv
  <2>1. 0 \in Slots /\ 0 \in 0 .. N - 1 /\ 0 \in 0 .. N
    BY SizeAssumption DEF Slots
  <2>2. (0 + 0) % N = 0
    BY <2>1, ModWrap, SizeAssumption
  <2> QED BY <1>3, <2>1, <2>2 DEF Init, ContentsInv, SlotOf
<1> QED BY <1>1, <1>2, <1>4 DEF IInv

\* In every behaviour of the producer and its consumers, kills included, the
\* inductive invariant holds.
THEOREM Inductive == Spec => []IInv
<1>1. IInv /\ [Next]_vars => IInv'
  BY NextTypeOK, NextLockInv, NextContentsInv, NextFoundInv DEF IInv
<1> QED BY InitIInv, <1>1, PTL DEF Spec

\* Every variable keeps its type and both indices stay inside the payload.
THEOREM TypeCorrect == Spec => []TypeOK
<1>1. IInv => TypeOK
  BY DEF IInv
<1> QED BY Inductive, <1>1, PTL

\* ring_buffer_lock gives mutual exclusion, and a killed holder keeps the lock.
THEOREM MutualExclusion == Spec => []LockInv
<1>1. IInv => LockInv
  BY DEF IInv
<1> QED BY Inductive, <1>1, PTL

\* No byte is lost, overwritten, duplicated or reordered, for any buffer size and
\* number of consumers: the slots hold what was sent and not taken, in order.
THEOREM ContentsCorrect == Spec => []ContentsInv
<1>1. IInv => ContentsInv
  BY DEF IInv
<1> QED BY Inductive, <1>1, PTL

\* The index, the emptiness and the fullness found under the lock are still
\* right when the process that found them acts on them.
THEOREM FoundStaysTrue == Spec => []FoundInv
<1>1. IInv => FoundInv
  BY DEF IInv
<1> QED BY Inductive, <1>1, PTL

-----------------------------------------------------------------------------
(* The ring buffer implements the bounded queue.                           *)

\* The abstract queue is the slots from read_index on, Count of them.
LEMMA QueueIs ==
  ASSUME TypeOK, ContentsInv
  PROVE  /\ Queue = [k \in 1 .. Count |-> data[SlotOf(k - 1)]]
         /\ Queue \in Seq(Bytes)
         /\ Len(Queue) = Count
<1>1. /\ Count \in 0 .. N - 1 /\ Count \in 0 .. N
      /\ read_index \in Slots /\ write_index \in Slots /\ N \in Nat \ {0}
  BY SizeAssumption DEF TypeOK, ContentsInv
<1>2. write_index = IF read_index + Count < N THEN read_index + Count
                                              ELSE read_index + Count - N
  BY <1>1, ModWrap DEF ContentsInv, SlotOf
<1>3. Count \in Slots /\ 0 \in 0 .. N /\ N \in 0 .. N
  BY <1>1 DEF Slots
<1>4. ((write_index + N) - read_index) % N = Count
  <2>1. CASE read_index + Count < N
    <3>1. (write_index + N) - read_index = Count + N
      BY <1>1, <1>2, <2>1 DEF Slots
    <3>2. (Count + N) % N = IF Count + N < N THEN Count + N ELSE Count + N - N
      BY <1>3, ModWrap
    <3> QED BY <1>1, <3>1, <3>2
  <2>2. CASE read_index + Count >= N
    <3>1. (write_index + N) - read_index = Count
      BY <1>1, <1>2, <2>2 DEF Slots
    <3>2. (Count + 0) % N = IF Count + 0 < N THEN Count + 0 ELSE Count + 0 - N
      BY <1>3, ModWrap
    <3> QED BY <1>1, <3>1, <3>2
  <2> QED BY <1>1, <2>1, <2>2 DEF Slots
<1>5. Queue = [k \in 1 .. Count |-> data[SlotOf(k - 1)]]
  BY <1>4 DEF Queue
<1>6. \A k \in 1 .. Count : data[SlotOf(k - 1)] \in Bytes
  <2> SUFFICES ASSUME NEW k \in 1 .. Count PROVE data[SlotOf(k - 1)] \in Bytes
    OBVIOUS
  <2>1. read_index + (k - 1) \in Nat
    BY <1>1 DEF Slots
  <2> QED BY <2>1, ModRange DEF SlotOf, TypeOK
<1> QED BY <1>1, <1>5, <1>6, IsASeq

\* A step that leaves data, indices and histories alone is a stutter of the queue.
LEMMA SameQueue ==
  UNCHANGED <<data, read_index, write_index, sent, got>> => UNCHANGED Fifo!vars
  BY DEF Fifo!vars, Queue, SlotOf

\* Moving write_index past a stored byte puts that byte into the queue.
LEMMA AdvanceWritePuts ==
  ASSUME IInv, IInv', AdvanceWrite PROVE Fifo!Put(Arg)
<1>1. /\ UNCHANGED <<data, read_index, got>>
      /\ sent' = Append(sent, Arg)
      /\ Count < N - 1
      /\ Arg = data[SlotOf(Count)]
  BY DEF AdvanceWrite, At, IInv, FoundInv, ContentsInv
<1>2. /\ Queue = [k \in 1 .. Count |-> data[SlotOf(k - 1)]]
      /\ Queue \in Seq(Bytes)
      /\ Len(Queue) = Count
  BY QueueIs DEF IInv
<1>3. Count' = Count + 1 /\ Count \in Nat
  <2>1. Len(sent') = Len(sent) + 1
    BY <1>1, AppendProperties DEF IInv, TypeOK
  <2> QED BY <1>1, <2>1, LenProperties DEF Count, IInv, TypeOK, ContentsInv
<1>4. Queue' = [k \in 1 .. Count' |-> data'[(read_index' + (k - 1)) % N]]
  <2>1. /\ (Queue = [k \in 1 .. Count |-> data[SlotOf(k - 1)]])'
    BY QueueIs, PTL DEF IInv
  <2> QED BY <2>1 DEF SlotOf
<1>5. Queue' = Append(Queue, Arg)
  <2>1. Queue' = [k \in 1 .. Count + 1 |-> data[SlotOf(k - 1)]]
    BY <1>1, <1>3, <1>4 DEF SlotOf
  <2>2. Append(Queue, Arg) = [k \in 1 .. Count + 1 |-> IF k = Count + 1 THEN Arg ELSE Queue[k]]
    BY <1>2, <1>3
  <2> QED BY <1>1, <1>2, <1>3, <2>1, <2>2
<1> QED BY <1>1, <1>2, <1>5 DEF Fifo!Put

\* Moving read_index past a byte takes the oldest byte out of the queue.
LEMMA AdvanceReadTakes ==
  ASSUME IInv, IInv', NEW c \in Consumers, AdvanceRead(c) PROVE Fifo!Take(c)
<1>1. /\ UNCHANGED <<data, write_index, sent>>
      /\ got' = Append(got, [by |-> c, byte |-> x[c]])
      /\ read_index' = Incr(read_index)
      /\ Count > 0
      /\ x[c] = data[read_index]
  BY DEF AdvanceRead, At, IInv, FoundInv
<1>2. /\ Queue = [k \in 1 .. Count |-> data[SlotOf(k - 1)]]
      /\ Queue \in Seq(Bytes)
      /\ Len(Queue) = Count
      /\ Count \in 0 .. N - 1
      /\ SlotOf(0) = read_index
  BY QueueIs, TestsAreExact DEF IInv
<1>3. Count' = Count - 1
  <2>1. [by |-> c, byte |-> x[c]] \in [by : Consumers, byte : Bytes]
    BY DEF IInv, TypeOK
  <2>2. Len(got') = Len(got) + 1
    BY <1>1, <2>1, AppendProperties DEF IInv, TypeOK
  <2> QED BY <1>1, <2>2, LenProperties DEF Count, IInv, TypeOK
<1>4. Queue' = [k \in 1 .. Count' |-> data'[(read_index' + (k - 1)) % N]]
  <2>1. /\ (Queue = [k \in 1 .. Count |-> data[SlotOf(k - 1)]])'
    BY QueueIs, PTL DEF IInv
  <2> QED BY <2>1 DEF SlotOf
<1>5. \A k \in 1 .. Count - 1 : (read_index' + (k - 1)) % N = SlotOf(k)
  <2> SUFFICES ASSUME NEW k \in 1 .. Count - 1
               PROVE  (read_index' + (k - 1)) % N = SlotOf(k)
    OBVIOUS
  <2>1. k - 1 \in 0 .. N - 1 /\ (k - 1) + 1 = k
    BY <1>2, SizeAssumption
  <2>2. (Incr(read_index) + (k - 1)) % N = (read_index + ((k - 1) + 1)) % N
    BY <2>1, SlotNext DEF IInv, TypeOK
  <2> QED BY <1>1, <2>1, <2>2 DEF SlotOf
<1>6. Queue' = Tail(Queue)
  <2>1. Queue' = [k \in 1 .. Count - 1 |-> data[SlotOf(k)]]
    BY <1>1, <1>3, <1>4, <1>5
  <2>2. Tail(Queue) = [k \in 1 .. Count - 1 |-> Queue[k + 1]]
    BY <1>1, <1>2
  <2>3. \A k \in 1 .. Count - 1 : Queue[k + 1] = data[SlotOf(k)]
    <3> SUFFICES ASSUME NEW k \in 1 .. Count - 1 PROVE Queue[k + 1] = data[SlotOf(k)]
      OBVIOUS
    <3>1. k + 1 \in 1 .. Count /\ (k + 1) - 1 = k
      BY <1>2
    <3> QED BY <1>2, <3>1
  <2> QED BY <2>1, <2>2, <2>3
<1>7. Queue # <<>> /\ Head(Queue) = x[c]
  <2>1. 1 \in 1 .. Count /\ 1 - 1 = 0
    BY <1>1, <1>2
  <2>2. Queue[1] = data[SlotOf(0)]
    BY <1>2, <2>1
  <2>3. Queue # <<>>
    <3>1. Len(Queue) # 0
      BY <1>1, <1>2
    <3> QED BY <3>1, EmptySeq
  <2>4. Head(Queue) = Queue[1]
    BY <1>2, <2>3
  <2> QED BY <1>1, <1>2, <2>2, <2>3, <2>4
<1> QED BY <1>1, <1>6, <1>7 DEF Fifo!Take

\* The ring buffer in shared memory, with its producer, any number of consumers
\* and kills anywhere, implements a bounded first-in first-out queue of N-1 bytes.
THEOREM ImplementsFifo == Spec => IsFifo
<1>1. Init => Fifo!Init
  <2> SUFFICES ASSUME Init PROVE Fifo!Init
    OBVIOUS
  <2>1. IInv /\ Count = 0
    BY InitIInv DEF Init, Count
  <2>2. Len(Queue) = 0 /\ Queue \in Seq(Bytes)
    BY <2>1, QueueIs DEF IInv
  <2> QED BY <2>2 DEF Init, Fifo!Init
<1>2. IInv /\ IInv' /\ [Next]_vars => [Fifo!Next]_Fifo!vars
  <2> SUFFICES ASSUME IInv, IInv', [Next]_vars PROVE [Fifo!Next]_Fifo!vars
    OBVIOUS
  <2>1. CASE AdvanceWrite
    <3>1. Arg \in Bytes
      <4>1. pc[Producer] \in {"store", "advance"}
        BY <2>1 DEF AdvanceWrite, At
      <4> QED BY <4>1, ArgIsByte DEF IInv
    <3> QED BY <2>1, <3>1, AdvanceWritePuts DEF Fifo!Next
  <2>2. ASSUME NEW c \in Consumers, AdvanceRead(c) PROVE Fifo!Next
    BY <2>2, AdvanceReadTakes DEF Fifo!Next
  <2>3. CASE UNCHANGED <<data, read_index, write_index, sent, got>>
    BY <2>3, SameQueue
  <2>4. CASE Store
    <3>1. UNCHANGED <<read_index, write_index, sent, got>>
      BY <2>4 DEF Store, histories
    <3>2. UNCHANGED Queue
      <4>1. /\ Queue = [k \in 1 .. Count |-> data[SlotOf(k - 1)]]
            /\ (Queue = [k \in 1 .. Count |-> data[SlotOf(k - 1)]])'
        BY QueueIs, PTL DEF IInv
      <4>2. Count' = Count /\ \A k \in 1 .. Count : (SlotOf(k - 1))' = SlotOf(k - 1)
        BY <3>1 DEF Count, SlotOf
      <4>3. \A k \in 0 .. Count - 1 : data[SlotOf(k)] = data'[SlotOf(k)]
        <5>1. \A k \in 0 .. Count - 1 : data[SlotOf(k)] = sent[Len(got) + k + 1]
          BY DEF IInv, ContentsInv
        <5>2. \A k \in 0 .. Count - 1 : data'[SlotOf(k)] = sent[Len(got) + k + 1]
          BY <3>1 DEF IInv, ContentsInv, Count, SlotOf
        <5> QED BY <5>1, <5>2
      <4>4. Count \in Nat
        BY SizeAssumption DEF IInv, ContentsInv
      <4>5. \A k \in 1 .. Count : data[SlotOf(k - 1)] = data'[SlotOf(k - 1)]
        BY <4>3, <4>4
      <4>6. Queue' = [k \in 1 .. Count |-> data'[SlotOf(k - 1)]]
        BY <3>1, <4>1 DEF Count, SlotOf
      <4> QED BY <4>1, <4>5, <4>6
    <3> QED BY <3>1, <3>2 DEF Fifo!vars
  <2> QED
    BY <2>1, <2>2, <2>3, <2>4
    DEF Next, Proceed, Lock, Retry, Unlock, Kill, Read, AcquireRead, Copy, PrintByte,
        Write, AcquireWrite, shared, histories, vars
<1> QED BY <1>1, <1>2, Inductive, PTL DEF Spec, IsFifo, Fifo!Spec

-----------------------------------------------------------------------------
(* What the consumers print.                                               *)

\* The turns up to a given one can be counted.
LEMMA TurnsFinite ==
  ASSUME TypeOK, NEW c \in Consumers
  PROVE  IsFiniteSet(Turns(c)) /\ Cardinality(Turns(c)) \in Nat
<1>1. Len(got) \in Nat
  BY LenProperties DEF TypeOK
<1>2. IsFiniteSet(1 .. Len(got)) /\ Turns(c) \subseteq 1 .. Len(got)
  BY <1>1, FS_Interval DEF Turns
<1> QED
  BY <1>2, FS_Subset, FS_CardinalityType

\* A step that takes no byte and leaves what each consumer shows keeps PrintedOnce.
LEMMA SameShown ==
  ASSUME PrintedOnce, got' = got, \A c \in Consumers : Shown(c)' = Shown(c)
  PROVE  PrintedOnce'
<1>1. \A c \in Consumers : Turns(c)' = Turns(c)
  BY DEF Turns
<1> QED
  BY <1>1 DEF PrintedOnce

\* Taking a byte is one more turn and one more byte to print.
LEMMA TakenShown ==
  ASSUME TypeOK, PrintedOnce, NEW c \in Consumers, AdvanceRead(c)
  PROVE  PrintedOnce'
<1>1. /\ got' = Append(got, [by |-> c, byte |-> x[c]])
      /\ pc[c] = "advance" /\ pc' = [pc EXCEPT ![c] = "unlock"]
      /\ UNCHANGED <<x, printed>>
  BY ProcAssumption DEF AdvanceRead, At, Goto, locals, Procs
<1> DEFINE last == Len(got) + 1
<1>2. /\ Len(got) \in Nat /\ Len(got') = last
      /\ \A k \in 1 .. Len(got) : got'[k] = got[k]
      /\ got'[last] = [by |-> c, byte |-> x[c]]
  <2>1. [by |-> c, byte |-> x[c]] \in [by : Consumers, byte : Bytes]
    BY DEF TypeOK
  <2> QED
    BY <1>1, <2>1, AppendProperties, LenProperties DEF TypeOK
<1>3. Turns(c)' = Turns(c) \cup {last} /\ last \notin Turns(c)
  BY <1>2 DEF Turns
<1>4. ASSUME NEW d \in Consumers, d # c PROVE Turns(d)' = Turns(d) /\ Shown(d)' = Shown(d)
  <2>1. Turns(d)' = Turns(d)
    BY <1>2, <1>4 DEF Turns
  <2>2. pc'[d] = pc[d]
    BY <1>1, <1>4
  <2> QED
    BY <1>1, <2>1, <2>2 DEF Shown
<1>5. Cardinality(Turns(c)') = Cardinality(Turns(c)) + 1 /\ Cardinality(Turns(c)) \in Nat
  BY <1>3, TurnsFinite, FS_AddElement
<1>6. Shown(c) = printed[c] /\ Shown(c)' = Append(printed[c], x[c])
  BY <1>1, ProcAssumption DEF Shown, TypeOK, Procs
<1>7. /\ printed[c] \in Seq(Bytes) /\ Len(printed[c]) = Cardinality(Turns(c))
      /\ \A k \in Turns(c) :
           printed[c][Cardinality({ j \in Turns(c) : j <= k })] = got[k].byte
  BY <1>6 DEF TypeOK, PrintedOnce
<1>8. /\ Len(Shown(c)') = Cardinality(Turns(c)) + 1
      /\ Shown(c)'[Cardinality(Turns(c)) + 1] = x[c]
      /\ \A m \in 1 .. Cardinality(Turns(c)) : Shown(c)'[m] = printed[c][m]
  BY <1>6, <1>7, AppendProperties DEF TypeOK
<1>9. ASSUME NEW k \in Turns(c)
      PROVE  Shown(c)'[Cardinality({ j \in Turns(c)' : j <= k })] = got'[k].byte
  <2> DEFINE before == { j \in Turns(c) : j <= k }
  <2>1. k \in 1 .. Len(got)
    BY DEF Turns
  <2>2. { j \in Turns(c)' : j <= k } = before
    <3>1. ~ (last <= k)
      BY <1>2, <2>1
    <3> QED
      BY <1>3, <3>1
  <2>3. IsFiniteSet(before) /\ before # {} /\ before \subseteq Turns(c)
    BY <2>1, TurnsFinite, FS_Subset
  <2>4. Cardinality(before) \in 1 .. Cardinality(Turns(c))
    <3> DEFINE all == Turns(c)
    <3>1. IsFiniteSet(all) /\ before \in SUBSET all
      BY <2>3, TurnsFinite
    <3> HIDE DEF before, all
    <3>2. Cardinality(before) <= Cardinality(all)
      BY <3>1, FS_Subset
    <3>3. Cardinality(before) \in Nat
      BY <2>3, FS_CardinalityType
    <3>4. Cardinality(before) # 0
      BY <2>3, FS_EmptySet
    <3>5. Cardinality(all) \in Nat
      BY <1>5 DEF all
    <3>6. Cardinality(before) \in 1 .. Cardinality(all)
      BY <3>2, <3>3, <3>4, <3>5
    <3> QED
      BY <3>6 DEF all
  <2> HIDE DEF before
  <2>5. Shown(c)'[Cardinality(before)] = printed[c][Cardinality(before)]
    BY <1>8, <2>4
  <2>6. printed[c][Cardinality(before)] = got[k].byte
    BY <1>7 DEF before
  <2> QED
    BY <1>2, <2>1, <2>2, <2>5, <2>6
<1>10. Shown(c)'[Cardinality({ j \in Turns(c)' : j <= last })] = got'[last].byte
  <2>1. \A j \in Turns(c)' : j <= last
    BY <1>2, <1>3 DEF Turns
  <2>2. { j \in Turns(c)' : j <= last } = Turns(c)'
    BY <2>1
  <2>3. got'[last].byte = x[c]
    BY <1>2
  <2>4. Shown(c)'[Cardinality(Turns(c)')] = x[c]
    BY <1>5, <1>8
  <2> HIDE DEF last
  <2> QED
    BY <2>2, <2>3, <2>4
<1>11. \A k \in Turns(c)' :
         Shown(c)'[Cardinality({ j \in Turns(c)' : j <= k })] = got'[k].byte
  BY <1>3, <1>9, <1>10
<1>12. ASSUME NEW d \in Consumers, d # c
       PROVE  /\ Len(Shown(d)') = Cardinality(Turns(d)')
              /\ \A k \in Turns(d)' :
                   Shown(d)'[Cardinality({ j \in Turns(d)' : j <= k })] = got'[k].byte
  <2>1. /\ Len(Shown(d)) = Cardinality(Turns(d))
        /\ \A k \in Turns(d) :
             Shown(d)[Cardinality({ j \in Turns(d) : j <= k })] = got[k].byte
    BY DEF PrintedOnce
  <2>2. \A k \in Turns(d) : got'[k] = got[k]
    BY <1>2 DEF Turns
  <2>3. Turns(d)' = Turns(d) /\ Shown(d)' = Shown(d)
    BY <1>4, <1>12
  <2> QED
    BY <2>1, <2>2, <2>3
<1> QED
  BY <1>5, <1>8, <1>11, <1>12 DEF PrintedOnce

\* Every other step takes nothing; a consumer that prints shows the same as before.
LEMMA NextPrinted == TypeOK /\ PrintedOnce /\ [Next]_vars => PrintedOnce'
<1> SUFFICES ASSUME TypeOK, PrintedOnce, [Next]_vars PROVE PrintedOnce'
  OBVIOUS
<1> USE ProcAssumption DEF At, Goto, Procs, locals, histories
<1>1. CASE UNCHANGED vars \/ \E p \in Procs : Kill(p)
  BY <1>1, SameShown DEF vars, Kill, Shown
<1>2. ASSUME NEW p \in Procs, Lock(p) PROVE PrintedOnce'
  BY <1>2, SameShown DEF Lock, Shown, TypeOK
<1>3. ASSUME NEW p \in Procs, Retry(p) \/ Unlock(p) PROVE PrintedOnce'
  BY <1>3, SameShown DEF Retry, Unlock, Shown, TypeOK
<1>4. CASE Write
  BY <1>4, SameShown DEF Write, AcquireWrite, Store, AdvanceWrite, Shown, TypeOK
<1>5. ASSUME NEW c \in Consumers, AcquireRead(c) \/ Copy(c) PROVE PrintedOnce'
  BY <1>5, SameShown DEF AcquireRead, Copy, Shown, TypeOK
<1>6. ASSUME NEW c \in Consumers, PrintByte(c) PROVE PrintedOnce'
  BY <1>6, SameShown DEF PrintByte, Shown, TypeOK
<1> QED
  BY <1>1, <1>2, <1>3, <1>4, <1>5, <1>6, TakenShown DEF Next, Proceed, Read

\* Each consumer prints what it took, once and in order, for any number of consumers
\* and bytes and whoever is killed: printing after the semaphore is given back is safe.
THEOREM PrintedTheorem == Spec => []PrintedOnce
<1>1. Init => PrintedOnce
  <2> SUFFICES ASSUME Init, NEW c \in Consumers
               PROVE  Turns(c) = {} /\ Shown(c) = <<>>
    BY FS_EmptySet, EmptySeq DEF PrintedOnce
  <2> QED
    BY ProcAssumption, EmptySeq DEF Init, Turns, Shown, Procs
<1>2. IInv => TypeOK
  BY DEF IInv
<1> QED
  BY <1>1, <1>2, NextPrinted, Inductive, PTL DEF Spec

=============================================================================
