---------------------------- MODULE Files_proofs ----------------------------
(***************************************************************************)
(* Proofs about the programs that work on files: what cat_io_uring and     *)
(* cat_liburing print comes out in order and from completed reads, however *)
(* long the command line, whatever the sizes of the rings and wherever     *)
(* their indices wrap; the list of the largest files has the largest,      *)
(* whatever its length and the number of files; copies and removals leave  *)
(* alone what is not theirs, whatever the tree; the two line readers       *)
(* return the lines of the file, whatever it contains; and a copy of a     *)
(* tree that ends is complete, whatever the tree and the place for it.     *)
(***************************************************************************)
EXTENDS MCFiles, FiniteSetTheorems, SequenceTheorems, TLAPS

-----------------------------------------------------------------------------
(* Indices modulo.                                                         *)

\* the remainder of a number below twice the modulus
LEMMA ModSmall ==
  ASSUME NEW w \in Nat \ {0}, NEW a \in 0 .. w + w - 1
  PROVE  a % w = IF a < w THEN a ELSE a - w
<1> DEFINE r == a % w
           q == a \div w
<1>1. r \in Int /\ q \in Int /\ a = q * w + r /\ 0 <= r /\ r < w
  BY SMT
<1> HIDE DEF r, q
<1>2. w > 0 /\ a >= 0 /\ a < w + w
  BY SMT
<1>3. q = 0 \/ q = 1
  <2>1. q * w > 0 - w /\ q * w < w + w
    BY <1>1, <1>2, SMT
  <2>2. q > 0 - 1 /\ q < 2
    BY <1>1, <1>2, <2>1, SMT
  <2> QED
    BY <1>1, <2>2, SMT
<1> QED
  BY <1>1, <1>3, SMT DEF r

\* numbers less than c apart have different remainders modulo c
LEMMA ModDiffer ==
  ASSUME NEW c \in Nat \ {0}, NEW a \in Nat, NEW b \in Nat, a < b, b < a + c
  PROVE  a % c # b % c
<1> DEFINE r == a % c
           s2 == b % c
           p == a \div c
           q == b \div c
<1>1. /\ r \in Int /\ p \in Int /\ a = p * c + r
      /\ s2 \in Int /\ q \in Int /\ b = q * c + s2
  BY SMT
<1> HIDE DEF r, s2, p, q
<1>2. ASSUME r = s2 PROVE FALSE
  <2>1. (q - p) * c = b - a
    BY <1>1, <1>2, SMT
  <2>2. (q - p) * c > 0 /\ (q - p) * c < c
    BY <2>1, SMT
  <2>3. q - p > 0 /\ q - p < 1
    BY <1>1, <2>2, SMT
  <2> QED
    BY <1>1, <2>3
<1> QED
  BY <1>2 DEF r, s2

\* adding a multiple of c does not change the remainder modulo c
LEMMA ModWrap ==
  ASSUME NEW c \in Nat \ {0}, NEW a \in Nat, NEW w \in Nat, w % c = 0
  PROVE  (a + w) % c = a % c
<1> DEFINE e == a + w
           r == a % c
           s2 == e % c
           p == a \div c
           q == e \div c
           k == w \div c
<1>1. /\ r \in Int /\ p \in Int /\ a = p * c + r /\ 0 <= r /\ r < c
      /\ s2 \in Int /\ q \in Int /\ e = q * c + s2 /\ 0 <= s2 /\ s2 < c
      /\ k \in Int /\ w = k * c /\ e = a + w
  BY SMT
<1> HIDE DEF e, r, s2, p, q, k
<1>2. (q - p - k) * c = r - s2
  BY <1>1, SMT
<1>3. (q - p - k) * c < c /\ (q - p - k) * c > 0 - c
  BY <1>1, <1>2, SMT
<1>4. q - p - k < 1 /\ q - p - k > 0 - 1
  BY <1>1, <1>3, SMT
<1>5. (q - p - k) * c = 0
  BY <1>1, <1>4, SMT
<1>6. r = s2
  BY <1>1, <1>2, <1>5, SMT
<1> QED
  BY <1>6 DEF r, s2, e

\* entries between the two indices of a ring
Diff(h, t) == (t + WRAP - h) % WRAP

Index == 0 .. WRAP - 1

\* the ring of completions: what one more entry does to the indices
LEMMA DiffOK ==
  ASSUME NEW h \in Index, NEW t \in Index
  PROVE  /\ Diff(h, h) = 0
         /\ Diff(h, t) \in Nat /\ (Diff(h, t) = 0 => t = h)
         /\ (t + 1) % WRAP \in Index
         /\ Diff(h, t) + 1 < WRAP => Diff(h, (t + 1) % WRAP) = Diff(h, t) + 1
         /\ Diff(h, t) \in 1 .. CQ_ENTRIES - 1 => t % CQ_ENTRIES # h % CQ_ENTRIES
<1>w. /\ WRAP \in Nat \ {0} /\ WRAP >= 2 /\ CQ_ENTRIES \in Nat \ {0} /\ CQ_ENTRIES < WRAP
      /\ WRAP % CQ_ENTRIES = 0
  BY RingAssumption
<1>i. h \in Nat /\ t \in Nat /\ h < WRAP /\ t < WRAP
  BY <1>w DEF Index
<1>1. \A u \in 0 .. WRAP - 1 : Diff(h, u) = IF u >= h THEN u - h ELSE u + WRAP - h
  <2> SUFFICES ASSUME NEW u \in 0 .. WRAP - 1
               PROVE  Diff(h, u) = IF u >= h THEN u - h ELSE u + WRAP - h
    OBVIOUS
  <2> DEFINE a == u + WRAP - h
  <2>1. a \in 0 .. WRAP + WRAP - 1 /\ (a < WRAP <=> u < h) /\ a - WRAP = u - h
    BY <1>w, <1>i
  <2> HIDE DEF a
  <2>2. a % WRAP = IF a < WRAP THEN a ELSE a - WRAP
    BY <1>w, <2>1, ModSmall
  <2> QED
    BY <1>w, <1>i, <2>1, <2>2 DEF Diff, a
<1>2. (t + 1) % WRAP = IF t + 1 < WRAP THEN t + 1 ELSE 0
  <2> DEFINE a == t + 1
  <2>1. a \in 0 .. WRAP + WRAP - 1 /\ a <= WRAP
    BY <1>w, <1>i
  <2> HIDE DEF a
  <2>2. a % WRAP = IF a < WRAP THEN a ELSE a - WRAP
    BY <1>w, <2>1, ModSmall
  <2> QED
    BY <1>w, <2>1, <2>2 DEF a
<1> DEFINE v == (t + 1) % WRAP
           d == Diff(h, t)
<1>3. v \in 0 .. WRAP - 1 /\ v = IF t + 1 < WRAP THEN t + 1 ELSE 0
  BY <1>w, <1>i, <1>2
<1>4. /\ Diff(h, h) = 0
      /\ d = IF t >= h THEN t - h ELSE t + WRAP - h
      /\ Diff(h, v) = IF v >= h THEN v - h ELSE v + WRAP - h
  BY <1>1, <1>3, <1>w, <1>i
<1> HIDE DEF v, d
<1>5. d \in Nat /\ (d = 0 => t = h)
  BY <1>4, <1>i, <1>w
<1>6. d + 1 < WRAP => Diff(h, v) = d + 1
  BY <1>3, <1>4, <1>i, <1>w
<1>7. d \in 1 .. CQ_ENTRIES - 1 => t % CQ_ENTRIES # h % CQ_ENTRIES
  <2>1. CASE t >= h
    <3>1. d \in 1 .. CQ_ENTRIES - 1 => h < t /\ t < h + CQ_ENTRIES
      BY <1>4, <1>i, <1>w, <2>1
    <3> QED
      BY <1>i, <1>w, <3>1, ModDiffer
  <2>2. CASE t < h
    <3> DEFINE u == t + WRAP
    <3>1. u \in Nat /\ (d \in 1 .. CQ_ENTRIES - 1 => h < u /\ u < h + CQ_ENTRIES)
      BY <1>4, <1>i, <1>w, <2>2
    <3>2. u % CQ_ENTRIES = t % CQ_ENTRIES
      BY <1>i, <1>w, ModWrap
    <3> HIDE DEF u
    <3> QED
      BY <1>i, <1>w, <3>1, <3>2, ModDiffer
  <2> QED
    BY <2>1, <2>2, <1>i
<1> QED
  BY <1>3, <1>4, <1>5, <1>6, <1>7 DEF v, d, Index

-----------------------------------------------------------------------------
(* Printing files through io_uring.                                        *)

Info == [name : 1 .. Files, blocks : Nat]
Printout == [name : Nat, blocks : Nat, filled : Int]

UTypes ==
  /\ liburing \in BOOLEAN
  /\ sqHead \in Index /\ sqTail \in Index
  /\ cqHead \in Index /\ cqTail \in Index /\ head \in Index
  /\ file \in 1 .. Files + 1
  /\ pc \in {"submit", "enter", "wait", "reap", "done"}
  /\ pc \in {"enter", "wait", "reap"} => file <= Files
  /\ inflight \subseteq Info
  /\ filled \in [1 .. Files -> Int]
  /\ printed \in Seq(Printout)

\* the program has the kernel take each entry before it puts the next
Submission ==
  /\ pc # "enter" => sqTail = sqHead
  /\ pc = "enter" => /\ sqTail = (sqHead + 1) % WRAP
                     /\ \E b \in Sizes : sqes[sqHead % QUEUE_DEPTH] = [name |-> file, blocks |-> b]

Waiting == cqes[cqHead % CQ_ENTRIES]

\* the completion of the file of the turn, the only one in the ring
Completed ==
  /\ cqTail = (cqHead + 1) % WRAP
  /\ cqHead % CQ_ENTRIES \in DOMAIN cqes
  /\ Waiting.fi \in Info /\ Waiting.fi.name = file
  /\ Waiting.res = filled[file] /\ Waiting.res \in {Error} \cup 0 .. Waiting.fi.blocks

\* one request at a time, until a read fails ...
InTurn ==
  /\ overflow = <<>>
  /\ pc \in {"submit", "enter", "done"} => inflight = {} /\ cqTail = cqHead
  /\ pc = "wait" => \/ cqTail = cqHead /\ \E b \in Sizes : inflight = {[name |-> file, blocks |-> b]}
                    \/ inflight = {} /\ Completed
  /\ pc = "reap" => /\ inflight = {} /\ Completed
                    /\ head = cqHead \/ (head = cqTail /\ ~ liburing)

\* ... after which cat_liburing finds that same completion in every turn
Stuck ==
  /\ liburing
  /\ Diff(cqHead, cqTail) \in 1 .. CQ_ENTRIES
  /\ cqHead % CQ_ENTRIES \in DOMAIN cqes /\ Waiting.res = Error
  /\ pc = "reap" => head = cqHead

Prints ==
  /\ \A k \in DOMAIN printed :
       /\ printed[k].name <= file
       /\ printed[k].name = file => pc = "reap" /\ head # cqHead
       /\ printed[k].filled \in 0 .. printed[k].blocks
  /\ \A j, k \in DOMAIN printed : j < k => printed[j].name < printed[k].name

UInv == UTypes /\ Submission /\ (InTurn \/ Stuck) /\ Prints

\* io_uring cat starts with empty rings, nothing read and nothing printed.
LEMMA InitUInv == Init => UInv
<1> SUFFICES ASSUME Init PROVE UInv
  OBVIOUS
<1>1. 0 \in Index /\ WRAP \in Nat \ {0}
  BY RingAssumption DEF Index
<1>2. UTypes
  BY <1>1, RingAssumption DEF Init, UTypes, Unread
<1>3. Submission /\ InTurn /\ Prints
  BY DEF Init, Submission, InTurn, Prints
<1> QED
  BY <1>2, <1>3 DEF UInv

\* The invariant implies what is printed is right and that the rings suffice.
LEMMA UInvFaithful == UInv => Faithful
<1> SUFFICES ASSUME UInv PROVE Faithful
  OBVIOUS
<1>0. sqHead \in Index /\ sqTail \in Index /\ cqHead \in Index /\ cqTail \in Index
  BY DEF UInv, UTypes
<1>1. Diff(sqHead, sqTail) <= QUEUE_DEPTH
  <2>1. Diff(sqHead, sqTail) \in {0, 1}
    <3>1. /\ Diff(sqHead, sqHead) = 0
          /\ Diff(sqHead, sqHead) + 1 < WRAP =>
               Diff(sqHead, (sqHead + 1) % WRAP) = Diff(sqHead, sqHead) + 1
      BY <1>0, DiffOK
    <3>2. WRAP > 1
      BY RingAssumption
    <3> QED
      BY <3>1, <3>2, RingAssumption DEF UInv, UTypes, Submission
  <2> QED
    BY <2>1, RingAssumption
<1>2. ~ liburing => overflow = <<>> /\ Diff(cqHead, cqTail) <= 1
  <2>1. /\ Diff(cqHead, cqHead) = 0
        /\ Diff(cqHead, cqHead) + 1 < WRAP =>
             Diff(cqHead, (cqHead + 1) % WRAP) = Diff(cqHead, cqHead) + 1
    BY <1>0, DiffOK
  <2>2. WRAP > 1
    BY RingAssumption
  <2> QED
    BY <2>1, <2>2, RingAssumption DEF UInv, UTypes, InTurn, Stuck, Completed
<1>3. RingsSuffice
  BY <1>1, <1>2 DEF RingsSuffice, Diff
<1> QED
  BY <1>3 DEF Faithful, UInv, Prints

\* what is printed stays in order
LEMMA OutputOK ==
  ASSUME UInv, pc = "reap", head = cqHead, Completed, Cqe.res # Error, Output(Cqe.fi)
  PROVE  /\ printed' \in Seq(Printout)
         /\ \A k \in DOMAIN printed' : /\ printed'[k].name <= file
                                       /\ printed'[k].filled \in 0 .. printed'[k].blocks
         /\ \A j, k \in DOMAIN printed' : j < k => printed'[j].name < printed'[k].name
<1> DEFINE p == [name |-> file, blocks |-> Cqe.fi.blocks, filled |-> filled[file]]
           n == Len(printed)
<1>1. Cqe = Waiting
  BY DEF Cqe, Waiting
<1>2. p \in Printout /\ p.name = file /\ p.filled \in 0 .. p.blocks /\ file \in Nat
  BY <1>1 DEF Completed, Info, Printout, UInv, UTypes
<1>3. printed' = Append(printed, p)
  BY <1>1 DEF Output, Completed
<1> HIDE DEF p
<1>4. printed \in Seq(Printout) /\ n \in Nat /\ DOMAIN printed = 1 .. n
  BY DEF UInv, UTypes
<1>5. /\ printed' \in Seq(Printout) /\ DOMAIN printed' = 1 .. n + 1
      /\ \A k \in 1 .. n : printed'[k] = printed[k]
      /\ printed'[n + 1] = p
  BY <1>2, <1>3, <1>4
<1>6. \A k \in 1 .. n : /\ printed[k].name < file /\ printed[k].name \in Nat
                        /\ printed[k].filled \in 0 .. printed[k].blocks
  <2> SUFFICES ASSUME NEW k \in 1 .. n
               PROVE  /\ printed[k].name < file /\ printed[k].name \in Nat
                      /\ printed[k].filled \in 0 .. printed[k].blocks
    OBVIOUS
  <2>1. printed[k] \in Printout
    BY <1>4
  <2>2. /\ printed[k].name <= file /\ printed[k].name # file
        /\ printed[k].filled \in 0 .. printed[k].blocks
    BY <1>4 DEF UInv, Prints
  <2> QED
    BY <1>2, <2>1, <2>2 DEF Printout
<1> HIDE DEF n
<1>7. \A k \in 1 .. n + 1 : k \in 1 .. n \/ k = n + 1
  BY <1>4
<1>8. \A j, k \in 1 .. n : j < k => printed[j].name < printed[k].name
  BY <1>4 DEF UInv, Prints
<1>9. \A j, k \in 1 .. n + 1 : j < k => j \in 1 .. n
  BY <1>4
<1> QED
  BY <1>2, <1>4, <1>5, <1>6, <1>7, <1>8, <1>9

\* Every step of the program and of the kernel keeps the invariant of the rings.
LEMMA NextUInv == UInv /\ [Next]_vars => UInv'
<1> SUFFICES ASSUME UInv, [Next]_vars PROVE UInv'
  OBVIOUS
<1>a. /\ Files \in Nat /\ Sizes \subseteq Nat /\ WRAP \in Nat /\ WRAP > 1
      /\ QUEUE_DEPTH \in Nat \ {0} /\ CQ_ENTRIES \in Nat \ {0} /\ CQ_ENTRIES < WRAP
  BY RingAssumption
<1>t. UTypes /\ Submission /\ (InTurn \/ Stuck) /\ Prints
  BY DEF UInv
<1>f. file \in Nat /\ (pc \in {"enter", "wait", "reap"} => file \in 1 .. Files)
  BY <1>a, <1>t DEF UTypes
<1>n. \A k \in DOMAIN printed : printed[k] \in Printout
  BY <1>t DEF UTypes
<1>d. /\ (sqTail + 1) % WRAP \in Index /\ (cqTail + 1) % WRAP \in Index
      /\ (cqHead + 1) % WRAP \in Index /\ (head + 1) % WRAP \in Index /\ (sqHead + 1) % WRAP \in Index
  BY <1>t, DiffOK DEF UTypes
<1>c. Diff(cqHead, cqHead) = 0 /\ Diff(cqHead, (cqHead + 1) % WRAP) = 1
  <2>1. /\ Diff(cqHead, cqHead) = 0
        /\ Diff(cqHead, cqHead) + 1 < WRAP =>
             Diff(cqHead, (cqHead + 1) % WRAP) = Diff(cqHead, cqHead) + 1
    BY <1>t, DiffOK DEF UTypes
  <2> QED
    BY <1>a, <2>1
<1>e. (cqHead + 1) % WRAP # cqHead
  BY <1>c
\* a step that prints nothing and stays in its turn
<1>p. ASSUME UNCHANGED <<printed, file>>, pc = "reap" => pc' = "reap" /\ UNCHANGED <<head, cqHead>>
      PROVE  Prints'
  BY <1>t, <1>p DEF Prints
\* the turn ends with nothing printed of the next file
<1>q. ASSUME file' = file + 1, \A k \in DOMAIN printed' : printed'[k] \in Printout,
             \A k \in DOMAIN printed' : /\ printed'[k].name <= file
                                        /\ printed'[k].filled \in 0 .. printed'[k].blocks,
             \A j, k \in DOMAIN printed' : j < k => printed'[j].name < printed'[k].name
      PROVE  Prints'
  BY <1>f, <1>q DEF Prints, Printout
<1>1. CASE UNCHANGED vars
  BY <1>t, <1>1 DEF vars, sq, cq, UInv, UTypes, Submission, InTurn, Stuck, Completed, Waiting, Prints
<1>2. CASE Submit
  <2>1. UTypes'
    BY <1>a, <1>t, <1>d, <1>2 DEF Submit, UTypes, cq
  <2>2. Submission'
    <3>1. PICK b \in Sizes : sqes' = Put(sqes, sqTail % QUEUE_DEPTH, [name |-> file, blocks |-> b])
      BY <1>2 DEF Submit
    <3>2. sqTail = sqHead
      BY <1>t, <1>2 DEF Submit, Submission
    <3>3. sqes'[sqHead % QUEUE_DEPTH] = [name |-> file, blocks |-> b]
      <4> DEFINE k == sqHead % QUEUE_DEPTH
                 entry == [name |-> file, blocks |-> b]
      <4>1. sqes' = Put(sqes, k, entry)
        BY <3>1, <3>2
      <4> HIDE DEF k, entry
      <4>2. sqes'[k] = entry
        BY <4>1 DEF Put
      <4> QED
        BY <4>2 DEF k, entry
    <3> QED
      BY <1>2, <3>2, <3>3 DEF Submit, Submission
  <2>3. (InTurn \/ Stuck)'
    BY <1>t, <1>2 DEF Submit, cq, InTurn, Stuck, Waiting
  <2>4. Prints'
    BY <1>p, <1>2 DEF Submit
  <2> QED
    BY <2>1, <2>2, <2>3, <2>4 DEF UInv
<1>3. CASE Enter
  <2>1. PICK b \in Sizes : sqes[sqHead % QUEUE_DEPTH] = [name |-> file, blocks |-> b]
    BY <1>t, <1>3 DEF Enter, Submission
  <2>2. /\ inflight' = inflight \cup {[name |-> file, blocks |-> b]}
        /\ [name |-> file, blocks |-> b] \in Info
    BY <1>a, <1>f, <1>3, <2>1 DEF Enter, Info
  <2>3. UTypes'
    BY <1>t, <1>d, <1>3, <2>2 DEF Enter, UTypes, cq
  <2>4. Submission'
    BY <1>t, <1>3 DEF Enter, Submission
  <2>5. (InTurn \/ Stuck)'
    BY <1>t, <1>3, <2>2 DEF Enter, cq, InTurn, Stuck, Waiting
  <2>6. Prints'
    BY <1>p, <1>3 DEF Enter, cq
  <2> QED
    BY <2>3, <2>4, <2>5, <2>6 DEF UInv
<1>4. CASE Complete
  <2>1. PICK fi \in inflight : \E res \in {Error} \cup 0 .. fi.blocks :
            /\ inflight' = inflight \ {fi}
            /\ filled' = [filled EXCEPT ![fi.name] = res]
            /\ LET cqe == [fi |-> fi, res |-> res]
               IN  IF CqRoom
                   THEN /\ cqes' = Put(cqes, cqTail % CQ_ENTRIES, cqe)
                        /\ cqTail' = (cqTail + 1) % WRAP
                        /\ UNCHANGED overflow
                   ELSE overflow' = Append(overflow, cqe) /\ UNCHANGED <<cqes, cqTail>>
            /\ UNCHANGED <<liburing, sq, cqHead, file, head, pc, printed>>
    BY <1>4 DEF Complete
  <2>2. PICK res \in {Error} \cup 0 .. fi.blocks :
            /\ inflight' = inflight \ {fi}
            /\ filled' = [filled EXCEPT ![fi.name] = res]
            /\ LET cqe == [fi |-> fi, res |-> res]
               IN  IF CqRoom
                   THEN /\ cqes' = Put(cqes, cqTail % CQ_ENTRIES, cqe)
                        /\ cqTail' = (cqTail + 1) % WRAP
                        /\ UNCHANGED overflow
                   ELSE overflow' = Append(overflow, cqe) /\ UNCHANGED <<cqes, cqTail>>
            /\ UNCHANGED <<liburing, sq, cqHead, file, head, pc, printed>>
    BY <2>1
  <2>3. fi \in Info /\ res \in Int /\ (CqRoom <=> Diff(cqHead, cqTail) < CQ_ENTRIES)
    BY <1>t, <2>1, <2>2 DEF UTypes, Info, Error, CqRoom, Diff
  <2>4. UTypes'
    BY <1>t, <1>d, <2>2, <2>3 DEF UTypes, sq, Info
  <2>5. Submission'
    BY <1>t, <2>2 DEF Submission, sq
  <2>6. Prints'
    BY <1>p, <2>2
  <2>7. CASE InTurn
    <3>1. pc = "wait" /\ cqTail = cqHead /\ inflight = {fi} /\ fi.name = file
      <4>1. pc = "wait" /\ inflight # {}
        BY <1>t, <2>1, <2>7 DEF InTurn, UTypes
      <4>2. PICK b \in Sizes : cqTail = cqHead /\ inflight = {[name |-> file, blocks |-> b]}
        BY <2>7, <4>1 DEF InTurn
      <4>3. fi = [name |-> file, blocks |-> b]
        BY <2>1, <4>2
      <4> QED
        BY <4>1, <4>2, <4>3
    <3>2. CqRoom
      BY <1>a, <1>c, <2>3, <3>1
    <3>3. /\ cqes' = Put(cqes, cqHead % CQ_ENTRIES, [fi |-> fi, res |-> res])
          /\ cqTail' = (cqHead + 1) % WRAP /\ UNCHANGED <<overflow, cqHead, pc, file>>
          /\ inflight' = {}
      BY <2>2, <3>1, <3>2
    <3>4. /\ cqHead % CQ_ENTRIES \in DOMAIN cqes'
          /\ cqes'[cqHead % CQ_ENTRIES] = [fi |-> fi, res |-> res]
      <4> DEFINE k == cqHead % CQ_ENTRIES
                 entry == [fi |-> fi, res |-> res]
      <4>1. cqes' = Put(cqes, k, entry)
        BY <3>3
      <4> HIDE DEF k, entry
      <4>2. k \in DOMAIN cqes' /\ cqes'[k] = entry
        BY <4>1 DEF Put
      <4> QED
        BY <4>2 DEF k, entry
    <3>5. filled'[file] = res
      BY <1>t, <1>f, <2>2, <3>1 DEF UTypes
    <3>6. Completed'
      BY <2>2, <2>3, <3>1, <3>3, <3>4, <3>5 DEF Completed, Waiting, Error
    <3>7. InTurn'
      BY <2>7, <3>1, <3>3, <3>6 DEF InTurn
    <3> QED
      BY <2>4, <2>5, <2>6, <3>7 DEF UInv
  <2>8. CASE Stuck
    <3>1. CASE CqRoom
      <4> DEFINE d == Diff(cqHead, cqTail)
      <4>1. d \in 1 .. CQ_ENTRIES - 1 /\ d + 1 < WRAP /\ d + 1 \in 1 .. CQ_ENTRIES
        BY <1>a, <2>3, <2>8, <3>1 DEF Stuck
      <4>2. /\ Diff(cqHead, (cqTail + 1) % WRAP) = d + 1
            /\ cqTail % CQ_ENTRIES # cqHead % CQ_ENTRIES
        BY <1>t, <4>1, DiffOK DEF UTypes
      <4>3. cqes' = Put(cqes, cqTail % CQ_ENTRIES, [fi |-> fi, res |-> res])
            /\ cqTail' = (cqTail + 1) % WRAP /\ UNCHANGED <<cqHead, liburing, pc, head>>
        BY <2>2, <3>1
      <4>4. cqHead % CQ_ENTRIES \in DOMAIN cqes' /\ Waiting' = Waiting
        <5> DEFINE k == cqHead % CQ_ENTRIES
                   m == cqTail % CQ_ENTRIES
                   entry == [fi |-> fi, res |-> res]
        <5>1. cqes' = Put(cqes, m, entry) /\ k # m /\ k \in DOMAIN cqes /\ k' = k
          BY <2>8, <4>2, <4>3 DEF Stuck
        <5>2. Waiting = cqes[k] /\ Waiting' = cqes'[k']
          BY DEF Waiting
        <5> HIDE DEF k, m, entry
        <5>3. k \in DOMAIN cqes' /\ cqes'[k] = cqes[k]
          BY <5>1 DEF Put
        <5> QED
          BY <5>1, <5>2, <5>3 DEF k
      <4>5. Stuck'
        BY <2>8, <4>1, <4>2, <4>3, <4>4 DEF Stuck
      <4> QED
        BY <2>4, <2>5, <2>6, <4>5 DEF UInv
    <3>2. CASE ~ CqRoom
      <4>1. Stuck'
        BY <2>2, <2>8, <3>2 DEF Stuck, Waiting
      <4> QED
        BY <2>4, <2>5, <2>6, <4>1 DEF UInv
    <3> QED
      BY <3>1, <3>2
  <2> QED
    BY <1>t, <2>7, <2>8
<1>5. CASE Wait
  <2>1. UTypes' /\ Submission'
    BY <1>t, <1>5 DEF Wait, UTypes, Submission, sq, cq
  <2>2. (InTurn \/ Stuck)'
    BY <1>t, <1>5 DEF Wait, cq, InTurn, Stuck, Waiting, Completed
  <2>3. Prints'
    BY <1>p, <1>5 DEF Wait, cq
  <2> QED
    BY <2>1, <2>2, <2>3 DEF UInv
<1>6. CASE Done
  <2>1. UTypes' /\ Submission'
    BY <1>t, <1>6 DEF Done, UTypes, Submission, sq, cq
  <2>2. (InTurn \/ Stuck)'
    BY <1>t, <1>6 DEF Done, cq, InTurn, Stuck, Waiting
  <2>3. Prints'
    BY <1>p, <1>6 DEF Done, cq
  <2> QED
    BY <2>1, <2>2, <2>3 DEF UInv
<1>7. CASE Reap
  <2>1. InTurn /\ Completed /\ head = cqHead /\ Cqe.res # Error /\ pc = "reap" /\ Output(Cqe.fi)
        /\ inflight = {}
    BY <1>t, <1>7 DEF Reap, InTurn, Stuck
  <2>2. /\ printed' \in Seq(Printout)
        /\ \A k \in DOMAIN printed' : /\ printed'[k].name <= file
                                      /\ printed'[k].filled \in 0 .. printed'[k].blocks
        /\ \A j, k \in DOMAIN printed' : j < k => printed'[j].name < printed'[k].name
    BY <2>1, OutputOK
  <2>3. UTypes' /\ Submission'
    BY <1>t, <1>d, <1>7, <2>2 DEF Reap, UTypes, Submission, sq, cq
  <2>4. head' = cqTail /\ cqTail # cqHead
    BY <1>e, <1>7, <2>1 DEF Reap, Completed
  <2>5. InTurn'
    BY <1>7, <2>1, <2>4 DEF Reap, cq, InTurn, Completed, Waiting
  <2>6. Prints'
    BY <1>7, <2>2, <2>4 DEF Reap, cq, Prints
  <2> QED
    BY <2>3, <2>5, <2>6 DEF UInv
<1>8. CASE ReapError
  BY <1>1, <1>8 DEF ReapError
<1>9. CASE ReapEnd
  <2>1. /\ InTurn /\ cqHead' = cqTail /\ pc' = "submit" /\ file' = file + 1 /\ pc = "reap"
        /\ UNCHANGED <<liburing, sq, cqTail, cqes, inflight, overflow, filled, head, printed>>
    BY <1>t, <1>9 DEF ReapEnd, NextFile, Stuck
  <2>2. UTypes' /\ Submission'
    BY <1>a, <1>t, <1>f, <2>1 DEF UTypes, Submission, sq
  <2>3. InTurn'
    BY <2>1 DEF InTurn
  <2>4. Prints'
    BY <1>t, <1>q, <1>n, <2>1 DEF Prints
  <2> QED
    BY <2>2, <2>3, <2>4 DEF UInv
<1>10. CASE PrintFile
  <2>1. pc = "reap" /\ liburing /\ Cqe.res # Error /\ Output(Cqe.fi)
        /\ cqHead' = (cqHead + 1) % WRAP /\ pc' = "submit" /\ file' = file + 1
        /\ UNCHANGED <<liburing, sq, cqTail, cqes, inflight, overflow, filled, head>>
    BY <1>10 DEF PrintFile, NextFile
  <2>2. InTurn /\ Completed /\ head = cqHead /\ inflight = {}
    BY <1>t, <2>1 DEF InTurn, Stuck, Waiting, Cqe
  <2>3. /\ printed' \in Seq(Printout)
        /\ \A k \in DOMAIN printed' : /\ printed'[k].name <= file
                                      /\ printed'[k].filled \in 0 .. printed'[k].blocks
        /\ \A j, k \in DOMAIN printed' : j < k => printed'[j].name < printed'[k].name
    BY <2>1, <2>2, OutputOK
  <2>4. UTypes' /\ Submission'
    BY <1>a, <1>t, <1>d, <1>f, <2>1, <2>3 DEF UTypes, Submission, sq
  <2>5. InTurn'
    BY <2>1, <2>2 DEF InTurn, Completed
  <2>6. Prints'
    BY <1>q, <2>1, <2>3
  <2> QED
    BY <2>4, <2>5, <2>6 DEF UInv
<1>11. CASE PrintFailed
  <2>1. pc = "reap" /\ liburing /\ Cqe.res = Error /\ pc' = "submit" /\ file' = file + 1
        /\ UNCHANGED <<liburing, sq, cq, inflight, overflow, filled, head, printed>>
    BY <1>11 DEF PrintFailed, NextFile
  <2>2. UTypes' /\ Submission'
    BY <1>a, <1>t, <1>f, <2>1 DEF UTypes, Submission, sq, cq
  <2>3. Stuck
    BY <1>a, <1>c, <1>t, <2>1 DEF InTurn, Stuck, Completed, Waiting, Cqe
  <2>4. Stuck'
    BY <2>1, <2>3 DEF Stuck, Waiting, cq
  <2>5. Prints'
    BY <1>t, <1>q, <1>n, <2>1 DEF Prints
  <2> QED
    BY <2>2, <2>4, <2>5 DEF UInv
<1> QED
  BY <1>1, <1>2, <1>3, <1>4, <1>5, <1>6, <1>7, <1>8, <1>9, <1>10, <1>11 DEF Next

\* The rings never run over; files are printed in order, none twice, and only what a read
\* that ended without an error has filled in, for any number of files and any rings.
THEOREM FaithfulTheorem == Spec => []Faithful
BY InitUInv, NextUInv, UInvFaithful, PTL DEF Spec

-----------------------------------------------------------------------------
(* The list of the largest files.                                          *)

Entry == [name : Nat, size : Nat]

TopTypes ==
  /\ len \in 0 .. capacity
  /\ entries \in [Top!Slots -> Entry]
  /\ met \in Nat
  /\ inserted \subseteq Entry
  /\ \A e \in inserted : e.name <= met

TopInv == TopTypes /\ Top!KeepsLargest

-----------------------------------------------------------------------------
(* Where an entry is placed.                                               *)

\* a set of numbers has a least one
LEMMA Least ==
  ASSUME NEW S, S \subseteq Nat, S # {}
  PROVE  \E x \in S : \A y \in S : x <= y
<1> DEFINE T == { 0 .. x : x \in S }
           R == StrictSubsetOrdering(Nat)
           F == FiniteSubsetsOf(Nat)
<1>1. T \subseteq F
  <2>1. ASSUME NEW x \in S PROVE 0 .. x \in F
    <3>1. 0 \in Int /\ x \in Int /\ 0 .. x \subseteq Nat
      OBVIOUS
    <3>2. IsFiniteSet(0 .. x)
      BY <3>1, FS_Interval
    <3> QED
      BY <3>1, <3>2 DEF FiniteSubsetsOf
  <2> QED
    BY <2>1
<1>2. IsWellFoundedOn(R, F) /\ T # {}
  BY FS_StrictSubsetOrderingWellFounded
<1>3. PICK t \in T : \A u \in T : ~ (<<u, t>> \in R)
  <2> HIDE DEF T, R, F
  <2> QED
    BY <1>1, <1>2, WFMin
<1>4. PICK x \in S : t = 0 .. x
  BY <1>3
<1>5. ASSUME NEW y \in S, y < x PROVE FALSE
  <2>1. x \in Nat /\ y \in Nat
    BY <1>4, <1>5
  <2>2. 0 .. y \subseteq 0 .. x /\ x \in 0 .. x /\ x \notin 0 .. y
    BY <1>5, <2>1
  <2>3. 0 .. x \subseteq Nat /\ 0 .. y \subseteq Nat
    BY <2>1
  <2>4. <<0 .. y, 0 .. x>> \in R
    BY <2>2, <2>3 DEF StrictSubsetOrdering
  <2> QED
    BY <1>3, <1>4, <2>4
<1>6. \A y \in S : x <= y
  BY <1>4, <1>5
<1> QED
  BY <1>4, <1>6

\* Top!Place puts a file behind those at least as large and before the smaller ones
LEMMA Placed ==
  ASSUME TopInv, NEW size \in Nat
  PROVE  /\ Top!Place(size) \in 0 .. len
         /\ Top!Place(size) < len => entries[Top!Place(size)].size < size
         /\ \A k \in 0 .. Top!Place(size) - 1 : entries[k].size >= size
<1> DEFINE T == { j \in 0 .. len : j < len => entries[j].size < size }
<1>t. /\ len \in Nat /\ len <= capacity
      /\ \A k \in 0 .. len - 1 : k \in Top!Slots /\ entries[k] \in Entry
  BY ListAssumption DEF TopInv, TopTypes, Top!Slots
<1>1. len \in T
  BY <1>t
<1>2. PICK x \in T : \A y \in T : x <= y
  <2>1. T \subseteq Nat /\ T # {}
    <3>1. 0 .. len \subseteq Nat /\ T \subseteq 0 .. len
      BY <1>t
    <3> QED
      BY <1>1, <3>1
  <2> HIDE DEF T
  <2> QED
    BY <2>1, Least
<1>3. ASSUME NEW k \in 0 .. x - 1 PROVE entries[k].size >= size
  <2>1. k \in 0 .. len - 1 /\ k \notin T
    BY <1>t, <1>2
  <2> QED
    BY <1>t, <2>1 DEF Entry
<1> QED
  BY <1>2, <1>3 DEF Top!Place

-----------------------------------------------------------------------------

\* the list starts empty
LEMMA InitTopInv == Top!Init => TopInv
<1> SUFFICES ASSUME Top!Init PROVE TopInv
  OBVIOUS
<1>1. TopTypes
  BY ListAssumption DEF Top!Init, TopTypes, Entry, Top!Slots
<1>2. len = 0 /\ inserted = {} /\ len <= capacity
  BY ListAssumption DEF Top!Init
<1>3. Top!Sorted /\ Top!Listed = {}
  BY <1>2 DEF Top!Sorted, Top!Listed
<1> QED
  BY <1>1, <1>2, <1>3 DEF TopInv, Top!KeepsLargest

\* topfiles_list_insert_sorted: room left, a full list it enters, a full list it does not
LEMMA InsertTopInv ==
  ASSUME TopInv, NEW size \in Nat,
         met' = met + 1, Top!InsertSorted([name |-> met', size |-> size])
  PROVE  TopInv'
<1> DEFINE e == [name |-> met + 1, size |-> size]
           p == Top!Place(size)
<1>t. /\ len \in Nat /\ len <= capacity /\ capacity \in Nat \ {0} /\ met \in Nat
      /\ entries \in [Top!Slots -> Entry] /\ Top!Slots = 0 .. capacity - 1
      /\ \A k \in 0 .. len - 1 : /\ entries[k].size \in Nat /\ entries[k].name \in Nat
                                 /\ entries[k].name <= met /\ entries[k] \in inserted
  <2>1. /\ len \in Nat /\ len <= capacity /\ capacity \in Nat \ {0} /\ met \in Nat
        /\ entries \in [Top!Slots -> Entry] /\ Top!Slots = 0 .. capacity - 1
    BY ListAssumption DEF TopInv, TopTypes, Top!Slots
  <2>2. \A d \in inserted : d \in Entry /\ d.name <= met
    BY DEF TopInv, TopTypes
  <2>3. \A k \in 0 .. len - 1 : entries[k] \in inserted
    BY DEF TopInv, Top!KeepsLargest, Top!Listed
  <2>4. \A d \in Entry : d.size \in Nat /\ d.name \in Nat
    BY DEF Entry
  <2> QED
    BY <2>1, <2>2, <2>3, <2>4
<1>e. e \in Entry /\ e.size = size /\ e.name = met + 1
  BY <1>t DEF Entry
<1>s. \A j, k \in 0 .. len - 1 : j < k =>
        \/ entries[j].size > entries[k].size
        \/ entries[j].size = entries[k].size /\ entries[j].name < entries[k].name
  BY DEF TopInv, Top!KeepsLargest, Top!Sorted
<1>p. /\ p \in 0 .. len
      /\ p < len => entries[p].size < size
      /\ \A k \in 0 .. p - 1 : entries[k].size >= size
  BY Placed
<1>i. inserted' = inserted \cup {e} /\ inserted' \subseteq Entry /\ \A d \in inserted' : d.name <= met'
  <2>1. inserted' = inserted \cup {e}
    BY DEF Top!InsertSorted
  <2>2. inserted \subseteq Entry /\ \A d \in inserted : d.name <= met /\ d.name \in Nat
    BY DEF TopInv, TopTypes, Entry
  <2> QED
    BY <1>t, <1>e, <2>1, <2>2
<1> HIDE DEF e, p
<1>r. \A j, k \in 0 .. len - 1 : j <= k => entries[j].size >= entries[k].size
  BY <1>t, <1>s
<1>1. ASSUME entries' = Top!Shifted(p, e), len' \in 1 .. capacity, p < len',
             len' = len \/ len' = len + 1
      PROVE  /\ Top!Sorted' /\ entries' \in [Top!Slots -> Entry]
             /\ Top!Listed' \subseteq Top!Listed \cup {e} /\ e \in Top!Listed'
             /\ \A k \in 0 .. len' - 2 : entries[k] \in Top!Listed'
  <2>l. /\ len' \in Nat /\ len' <= len + 1 /\ len' <= capacity
        /\ \A k \in 0 .. len' - 1 : k \in Nat /\ k < len'
        /\ \A k \in 0 .. len' - 2 :
             k \in Nat /\ k <= len' - 2 /\ k \in 0 .. len' - 1 /\ k + 1 \in 0 .. len' - 1
    <3>1. len' \in Nat /\ len' <= len + 1 /\ len' <= capacity
      BY <1>t, <1>1
    <3> DEFINE l == len'
    <3> HIDE DEF l
    <3>2. l \in Nat
      BY <3>1 DEF l
    <3>3. /\ \A k \in 0 .. l - 1 : k \in Nat /\ k < l
          /\ \A k \in 0 .. l - 2 :
               k \in Nat /\ k <= l - 2 /\ k \in 0 .. l - 1 /\ k + 1 \in 0 .. l - 1
      BY <3>2
    <3> QED
      BY <3>1, <3>3 DEF l
  <2>1. \A k \in 0 .. len' - 1 :
          /\ k \in Top!Slots
          /\ k < p => k \in 0 .. len - 1 /\ entries'[k] = entries[k]
          /\ k = p => entries'[k] = e
          /\ k > p => k - 1 \in 0 .. len - 1 /\ entries'[k] = entries[k - 1]
    <3> SUFFICES ASSUME NEW k \in 0 .. len' - 1
                 PROVE  /\ k \in Top!Slots
                        /\ k < p => k \in 0 .. len - 1 /\ entries'[k] = entries[k]
                        /\ k = p => entries'[k] = e
                        /\ k > p => k - 1 \in 0 .. len - 1 /\ entries'[k] = entries[k - 1]
      OBVIOUS
    <3>1. k \in Nat /\ k < len'
      BY <2>l
    <3>2. k \in Top!Slots /\ p \in Nat /\ p <= len
      BY <1>t, <1>p, <2>l, <3>1
    <3>3. entries'[k] = IF k < p \/ k > len THEN entries[k]
                        ELSE IF k = p THEN e ELSE entries[k - 1]
      BY <1>1, <3>2 DEF Top!Shifted
    <3>4. k <= len
      BY <1>t, <2>l, <3>1
    <3>5. k < p => k \in 0 .. len - 1
      BY <1>t, <3>1, <3>2
    <3>6. k > p => k - 1 \in 0 .. len - 1
      BY <1>t, <3>1, <3>2, <3>4
    <3>7. k < p => entries'[k] = entries[k]
      BY <3>3
    <3>8. k = p => entries'[k] = e
      BY <1>t, <3>1, <3>2, <3>3, <3>4
    <3>9. k > p => entries'[k] = entries[k - 1]
      BY <1>t, <3>1, <3>2, <3>3, <3>4
    <3> QED
      BY <3>2, <3>5, <3>6, <3>7, <3>8, <3>9
  <2>2. ASSUME NEW j \in 0 .. len' - 1, NEW k \in 0 .. len' - 1, j < k
        PROVE  \/ entries'[j].size > entries'[k].size
               \/ entries'[j].size = entries'[k].size /\ entries'[j].name < entries'[k].name
    <3>1. CASE k < p
      BY <1>s, <1>p, <2>1, <2>2, <3>1
    <3>2. CASE k = p
      BY <1>t, <1>e, <1>p, <2>1, <2>2, <3>2
    <3>3. CASE j < p /\ k > p
      <4>1. /\ j \in 0 .. len - 1 /\ entries'[j] = entries[j]
            /\ k - 1 \in 0 .. len - 1 /\ entries'[k] = entries[k - 1]
        BY <2>1, <3>3
      <4>2. j \in Int /\ k \in Int /\ p \in Int /\ j < k - 1
        BY <1>p, <3>3
      <4> DEFINE b == k - 1
      <4>3. b \in 0 .. len - 1 /\ j < b /\ entries'[k] = entries[b]
        BY <4>1, <4>2
      <4> HIDE DEF b
      <4> QED
        BY <1>s, <4>1, <4>3
    <3>4. CASE j = p /\ k > p
      <4>1. p \in 0 .. len - 1 /\ k - 1 \in 0 .. len - 1 /\ p <= k - 1
        BY <1>t, <1>p, <2>1, <3>4
      <4>2. entries[p].size >= entries[k - 1].size /\ entries[p].size < size
        BY <1>t, <1>p, <1>r, <4>1
      <4> QED
        BY <1>t, <1>e, <2>1, <3>4, <4>1, <4>2
    <3>5. CASE j > p
      <4>1. p \in Nat /\ j \in Int /\ k \in Int /\ k > p
        BY <1>t, <1>p, <1>1, <2>2, <3>5
      <4>2. /\ j - 1 \in 0 .. len - 1 /\ entries'[j] = entries[j - 1]
            /\ k - 1 \in 0 .. len - 1 /\ entries'[k] = entries[k - 1]
        BY <2>1, <3>5, <4>1
      <4>3. j - 1 < k - 1
        BY <2>2, <4>1
      <4> DEFINE a == j - 1
                 b == k - 1
      <4>4. a \in 0 .. len - 1 /\ b \in 0 .. len - 1 /\ a < b
            /\ entries'[j] = entries[a] /\ entries'[k] = entries[b]
        BY <4>2, <4>3
      <4> HIDE DEF a, b
      <4> QED
        BY <1>s, <4>4
    <3> QED
      BY <1>p, <2>2, <3>1, <3>2, <3>3, <3>4, <3>5
  <2>3. Top!Sorted'
    BY <2>2 DEF Top!Sorted
  <2>4. entries' \in [Top!Slots -> Entry]
    <3>1. \A k \in Top!Slots : k > 0 => k - 1 \in Top!Slots
      BY <1>t
    <3> QED
      BY <1>t, <1>e, <1>p, <1>1, <3>1 DEF Top!Shifted
  <2>5. Top!Listed' = { entries'[k] : k \in 0 .. len' - 1 } /\ Top!Listed = { entries[k] : k \in 0 .. len - 1 }
    BY DEF Top!Listed
  <2>6. Top!Listed' \subseteq Top!Listed \cup {e}
    <3> SUFFICES ASSUME NEW k \in 0 .. len' - 1 PROVE entries'[k] \in Top!Listed \cup {e}
      BY <2>5
    <3> QED
      BY <1>p, <2>1, <2>5
  <2>7. e \in Top!Listed'
    <3>1. p \in 0 .. len' - 1
      BY <1>p, <1>1
    <3> QED
      BY <2>1, <2>5, <3>1
  <2>8. ASSUME NEW k \in 0 .. len' - 2 PROVE entries[k] \in Top!Listed'
    <3>0. p \in Nat /\ k \in Nat /\ k \in 0 .. len' - 1 /\ k + 1 \in 0 .. len' - 1
      <4>1. p \in Nat
        BY <1>t, <1>p
      <4>2. k \in Nat /\ k \in 0 .. len' - 1 /\ k + 1 \in 0 .. len' - 1
        BY <2>l
      <4> QED
        BY <4>1, <4>2
    <3>1. CASE k < p
      <4>1. k \in 0 .. len' - 1
        BY <2>l
      <4> QED
        BY <2>1, <2>5, <3>1, <4>1
    <3>2. CASE k >= p
      <4>1. k + 1 \in 0 .. len' - 1 /\ k + 1 > p /\ (k + 1) - 1 = k
        BY <3>0, <3>2
      <4>2. entries'[k + 1] = entries[(k + 1) - 1]
        BY <2>1, <4>1
      <4> QED
        BY <2>5, <4>1, <4>2
    <3> QED
      BY <3>0, <3>1, <3>2
  <2> QED
    BY <2>3, <2>4, <2>6, <2>7, <2>8
<1>q. Top!InsertSorted(e)
  BY DEF e
<1>k. /\ Top!Listed \subseteq inserted
      /\ \A d \in inserted \ Top!Listed : len = capacity /\ \A k \in 0 .. len - 1 : entries[k].size >= d.size
      /\ Top!Listed = { entries[k] : k \in 0 .. len - 1 }
  BY DEF TopInv, Top!KeepsLargest, Top!Listed
<1>2. CASE len < capacity
  <2>1. entries' = Top!Shifted(p, e) /\ len' = len + 1
    BY <1>2, <1>q, <1>e DEF Top!InsertSorted, p
  <2>2. /\ Top!Sorted' /\ entries' \in [Top!Slots -> Entry]
        /\ Top!Listed' \subseteq Top!Listed \cup {e} /\ e \in Top!Listed'
        /\ \A k \in 0 .. len' - 2 : entries[k] \in Top!Listed'
    BY <1>1, <1>2, <1>t, <1>p, <2>1
  <2>3. Top!Listed \subseteq Top!Listed'
    BY <1>t, <1>k, <2>1, <2>2
  <2>4. inserted' \ Top!Listed' = {}
    BY <1>i, <1>k, <1>2, <1>t, <2>2, <2>3
  <2>5. Top!Listed' \subseteq inserted'
    BY <1>i, <1>k, <2>2
  <2>6. len' \in 0 .. capacity /\ met' \in Nat /\ len' <= capacity
    BY <1>t, <1>2, <2>1
  <2>7. Top!Slots' = Top!Slots
    BY DEF Top!Slots
  <2>8. TopTypes'
    BY <1>i, <2>2, <2>6, <2>7 DEF TopTypes
  <2>9. Top!KeepsLargest'
    BY <2>2, <2>4, <2>5, <2>6 DEF Top!KeepsLargest
  <2> QED
    BY <2>8, <2>9 DEF TopInv
<1>3. CASE len = capacity /\ size > entries[len - 1].size
  <2>1. entries' = Top!Shifted(p, e) /\ len' = len
    BY <1>3, <1>q, <1>e, <1>t DEF Top!InsertSorted, p
  <2>2. p < len
    BY <1>3, <1>p, <1>t
  <2>3. /\ Top!Sorted' /\ entries' \in [Top!Slots -> Entry]
        /\ Top!Listed' \subseteq Top!Listed \cup {e} /\ e \in Top!Listed'
        /\ \A k \in 0 .. len' - 2 : entries[k] \in Top!Listed'
    BY <1>1, <1>3, <1>t, <2>1, <2>2
  <2>4. ASSUME NEW d \in inserted' \ Top!Listed' PROVE d.size \in Nat /\ d.size <= entries[len - 1].size
    <3>1. d \in inserted /\ d \in Entry
      BY <1>i, <2>3
    <3>2. CASE d \notin Top!Listed
      BY <1>k, <1>t, <1>3, <3>1, <3>2 DEF Entry
    <3>3. CASE d \in Top!Listed
      <4>1. PICK k \in 0 .. len - 1 : d = entries[k]
        BY <1>k, <3>3
      <4>2. k = len - 1
        BY <1>t, <2>1, <2>3, <4>1
      <4> QED
        BY <1>t, <4>1, <4>2
    <3> QED
      BY <3>2, <3>3
  <2>5. ASSUME NEW k \in 0 .. len' - 1 PROVE entries'[k].size \in Nat /\ entries'[k].size >= entries[len - 1].size
    <3>1. entries'[k] \in Top!Listed'
      BY DEF Top!Listed
    <3>2. CASE entries'[k] = e
      BY <1>e, <1>t, <1>3, <3>2
    <3>3. CASE entries'[k] \in Top!Listed
      <4>1. PICK j \in 0 .. len - 1 : entries'[k] = entries[j]
        BY <1>k, <3>3
      <4> QED
        BY <1>t, <1>r, <4>1
    <3> QED
      BY <2>3, <3>1, <3>2, <3>3
  <2>6. \A d \in inserted' \ Top!Listed' : \A k \in 0 .. len' - 1 : entries'[k].size >= d.size
    <3> SUFFICES ASSUME NEW d \in inserted' \ Top!Listed', NEW k \in 0 .. len' - 1
                 PROVE  entries'[k].size >= d.size
      OBVIOUS
    <3>1. entries[len - 1].size \in Nat
      BY <1>3, <1>t
    <3> QED
      BY <2>4, <2>5, <3>1
  <2>7. Top!Listed' \subseteq inserted'
    BY <1>i, <1>k, <2>3
  <2>8. len' \in 0 .. capacity /\ met' \in Nat /\ len' = capacity
    BY <1>t, <1>3, <2>1
  <2> QED
    BY <1>i, <2>3, <2>6, <2>7, <2>8 DEF TopInv, TopTypes, Top!KeepsLargest
<1>4. CASE len = capacity /\ ~ (size > entries[len - 1].size)
  <2>1. entries' = entries /\ len' = len
    BY <1>4, <1>q, <1>e, <1>t DEF Top!InsertSorted
  <2>2. Top!Sorted' /\ Top!Listed' = Top!Listed
    BY <2>1 DEF TopInv, Top!KeepsLargest, Top!Sorted, Top!Listed
  <2>3. \A k \in 0 .. len - 1 : entries[k].size >= size
    <3> SUFFICES ASSUME NEW k \in 0 .. len - 1 PROVE entries[k].size >= size
      OBVIOUS
    <3>1. len - 1 \in 0 .. len - 1 /\ k <= len - 1
      BY <1>t, <1>4
    <3> QED
      BY <1>t, <1>r, <1>4, <3>1
  <2>4. \A d \in inserted' \ Top!Listed' : len' = capacity /\ \A k \in 0 .. len' - 1 : entries'[k].size >= d.size
    BY <1>i, <1>k, <1>e, <1>4, <2>1, <2>2, <2>3
  <2>5. Top!Listed' \subseteq inserted'
    BY <1>i, <1>k, <2>2
  <2> QED
    BY <1>i, <1>t, <2>1, <2>2, <2>4, <2>5 DEF TopInv, TopTypes, Top!KeepsLargest
<1> QED
  BY <1>t, <1>2, <1>3, <1>4

\* meeting a file inserts it or leaves the list alone
LEMMA NextTopInv == TopInv /\ [Top!Next]_(Top!vars) => TopInv'
<1> SUFFICES ASSUME TopInv, [Top!Next]_(Top!vars) PROVE TopInv'
  OBVIOUS
<1>1. CASE UNCHANGED Top!vars
  BY <1>1 DEF Top!vars, TopInv, TopTypes, Top!KeepsLargest, Top!Sorted, Top!Listed
<1>2. CASE Top!MeetFile
  <2>1. met' = met + 1 /\ met \in Nat
    BY <1>2 DEF Top!MeetFile, TopInv, TopTypes
  <2>2. PICK size \in TopSizes : \/ Top!InsertSorted([name |-> met', size |-> size])
                              \/ UNCHANGED <<entries, len, inserted>>
    BY <1>2 DEF Top!MeetFile
  <2>3. CASE Top!InsertSorted([name |-> met', size |-> size])
    BY <2>1, <2>2, <2>3, InsertTopInv, ListAssumption
  <2>4. CASE UNCHANGED <<entries, len, inserted>>
    <3>1. Top!KeepsLargest'
      BY <2>4 DEF TopInv, Top!KeepsLargest, Top!Sorted, Top!Listed
    <3>2. \A d \in inserted : d.name \in Nat /\ d.name <= met
      BY DEF TopInv, TopTypes, Entry
    <3>3. TopTypes'
      BY <2>1, <2>4, <3>2 DEF TopInv, TopTypes
    <3> QED
      BY <3>1, <3>3 DEF TopInv
  <2> QED
    BY <2>2, <2>3, <2>4
<1> QED
  BY <1>1, <1>2 DEF Top!Next


\* In the composition: the list has the largest of the files it was given, in order, and a
\* file is left out only of a full list of files at least as large.
THEOREM LargestTheorem == MCSpec => []KeepsLargest
<1>1. MCInit => TopInv
  BY InitTopInv DEF MCInit
<1>2. TopInv /\ [MCNext]_MCVars => TopInv'
  <2>1. MCNext => [Top!Next]_(Top!vars)
    BY DEF MCNext, Top!vars, topVars
  <2>2. UNCHANGED MCVars => UNCHANGED Top!vars
    BY DEF MCVars, Top!vars, topVars
  <2> QED
    BY <2>1, <2>2, NextTopInv
<1>3. TopInv => KeepsLargest
  BY DEF TopInv, KeepsLargest
<1> QED
  BY <1>1, <1>2, <1>3, PTL DEF MCSpec

-----------------------------------------------------------------------------
(* Copying a tree.                                                         *)

\* the file being copied is one that was not there
IsNew ==
  copied # <<>> => \E ip, op, pos : /\ copied = <<[ip |-> ip, op |-> op, pos |-> pos]>>
                                    /\ op \notin DOMAIN before

CpInv == Cp!KeepsExisting /\ IsNew

\* What is put at a new path leaves the others.
LEMMA Created ==
  ASSUME CpInv, NEW path, path \notin DOMAIN fs, NEW node,
         fs' = Cp!With(path, node), UNCHANGED before
  PROVE  Cp!KeepsExisting' /\ path \notin DOMAIN before
<1>1. path \notin DOMAIN before
  BY DEF CpInv, Cp!KeepsExisting
<1>2. \A p \in DOMAIN fs : p \in DOMAIN fs' /\ fs'[p] = fs[p]
  BY DEF Cp!With
<1> QED
  BY <1>1, <1>2 DEF CpInv, Cp!KeepsExisting

\* The file being copied is written, or closed.
LEMMA Written ==
  ASSUME CpInv, NEW op, op \notin DOMAIN before, NEW node, fs' = [fs EXCEPT ![op] = node],
         UNCHANGED before
  PROVE  Cp!KeepsExisting'
BY DEF CpInv, Cp!KeepsExisting

\* Every step keeps the invariant.
LEMMA NextCpInv == CpInv /\ [Cp!Next]_(Cp!vars) => CpInv'
<1> SUFFICES ASSUME CpInv, [Cp!Next]_(Cp!vars) PROVE CpInv'
  OBVIOUS
<1> USE DEF Cp!options
<1>1. CASE UNCHANGED <<before, fs, copied>>
  BY <1>1 DEF CpInv, Cp!KeepsExisting, IsNew
<1>2. CASE Cp!EnterMkdir
  <2>1. /\ Cp!Top.op \notin DOMAIN fs /\ UNCHANGED <<before, copied>>
        /\ fs' = Cp!With(Cp!Top.op, Cp!Dir(copy_permissions /\ fs[Cp!Top.ip].ro))
    BY <1>2 DEF Cp!EnterMkdir, Cp!MayCreate
  <2>2. Cp!KeepsExisting'
    BY <2>1, Created
  <2> QED
    BY <2>1, <2>2 DEF CpInv, IsNew
<1>3. ASSUME NEW name, Cp!SubDir(name) PROVE CpInv'
  <2>1. \/ UNCHANGED <<before, fs, copied>>
        \/ /\ Cp!Out(name) \notin DOMAIN fs /\ UNCHANGED <<before, copied>>
           /\ fs' = Cp!With(Cp!Out(name), Cp!Dir(FALSE))
    BY <1>3 DEF Cp!SubDir, Cp!Fail, Cp!MayCreate
  <2>2. CASE ~ UNCHANGED <<before, fs, copied>>
    <3>1. Cp!KeepsExisting'
      BY <2>1, <2>2, Created
    <3> QED
      BY <2>1, <2>2, <3>1 DEF CpInv, IsNew
  <2> QED
    BY <1>1, <2>2
<1>4. ASSUME NEW name, Cp!Link(name) PROVE CpInv'
  <2>1. \/ UNCHANGED <<before, fs, copied>>
        \/ /\ Cp!Out(name) \notin DOMAIN fs /\ UNCHANGED <<before, copied>>
           /\ fs' = Cp!With(Cp!Out(name), fs[Cp!In(name)])
    BY <1>4 DEF Cp!Link, Cp!Fail, Cp!MayCreate
  <2>2. CASE ~ UNCHANGED <<before, fs, copied>>
    <3>1. Cp!KeepsExisting'
      BY <2>1, <2>2, Created
    <3> QED
      BY <2>1, <2>2, <3>1 DEF CpInv, IsNew
  <2> QED
    BY <1>1, <2>2
<1>5. ASSUME NEW name, Cp!Regular(name) PROVE CpInv'
  <2> DEFINE node == [kind |-> "reg", ro |-> FALSE, data |-> <<>>]
  <2>1. \/ UNCHANGED <<before, fs, copied>>
        \/ /\ Cp!Out(name) \notin DOMAIN fs /\ UNCHANGED before
           /\ fs' = Cp!With(Cp!Out(name), node)
           /\ copied' = <<[ip |-> Cp!In(name), op |-> Cp!Out(name), pos |-> 0]>>
    BY <1>5 DEF Cp!Regular, Cp!Fail, Cp!MayCreate
  <2>2. CASE ~ UNCHANGED <<before, fs, copied>>
    <3> HIDE DEF node
    <3>1. Cp!KeepsExisting' /\ Cp!Out(name) \notin DOMAIN before
      BY <2>1, <2>2, Created
    <3>2. IsNew'
      BY <2>1, <2>2, <3>1 DEF IsNew
    <3> QED
      BY <3>1, <3>2 DEF CpInv
  <2> QED
    BY <1>1, <2>2
<1>6. ASSUME NEW read, NEW written, Cp!Transfer(read, written), copied # <<>> PROVE CpInv'
  <2>1. PICK ip, op, pos : /\ copied = <<[ip |-> ip, op |-> op, pos |-> pos]>>
                           /\ op \notin DOMAIN before
    BY <1>6 DEF CpInv, IsNew
  <2>2. copied[1] = [ip |-> ip, op |-> op, pos |-> pos] /\ copied[1].op = op
    BY <2>1
  <2>3. \E node : fs' = [fs EXCEPT ![op] = node]
    BY <1>6, <2>2 DEF Cp!Transfer
  <2>4. UNCHANGED before /\ copied' = <<[copied[1] EXCEPT !.pos = @ + read]>>
    BY <1>6 DEF Cp!Transfer
  <2>5. Cp!KeepsExisting'
    BY <2>1, <2>3, <2>4, Written
  <2>6. copied' = <<[ip |-> ip, op |-> op, pos |-> pos + read]>>
    BY <2>2, <2>4
  <2>7. IsNew'
    BY <2>1, <2>4, <2>6 DEF IsNew
  <2> QED
    BY <2>5, <2>7 DEF CpInv
<1>7. CASE Cp!FileEnd
  <2>1. PICK ip, op, pos : /\ copied = <<[ip |-> ip, op |-> op, pos |-> pos]>>
                           /\ op \notin DOMAIN before
    BY <1>7 DEF Cp!FileEnd, CpInv, IsNew
  <2>2. copied[1].op = op
    BY <2>1
  <2>3. \E node : fs' = [fs EXCEPT ![op] = node]
    BY <1>7, <2>2 DEF Cp!FileEnd
  <2>4. UNCHANGED before /\ copied' = <<>>
    BY <1>7 DEF Cp!FileEnd
  <2> QED
    BY <2>1, <2>3, <2>4, Written DEF CpInv, IsNew
<1>8. CASE Cp!duplicate \/ Cp!cp_file
  BY <1>6, <1>8 DEF Cp!duplicate, Cp!cp_file
<1>9. CASE Cp!EnterFails \/ Cp!EnterScan \/ Cp!Return
  BY <1>1, <1>9 DEF Cp!EnterFails, Cp!EnterScan, Cp!Return, Cp!Fail
<1>10. ASSUME NEW name, Cp!SubTree(name) \/ Cp!Special(name) \/ Cp!SubDirFails(name) PROVE CpInv'
  BY <1>1, <1>10 DEF Cp!SubTree, Cp!Special, Cp!SubDirFails, Cp!Fail
<1> QED
  BY <1>1, <1>2, <1>3, <1>4, <1>5, <1>7, <1>8, <1>9, <1>10
  DEF Cp!Next, Cp!copytree, Cp!cp_dir, Cp!vars

-----------------------------------------------------------------------------
\* induction on natural numbers, of a set of them
LEMMA Induct ==
  ASSUME NEW S, 0 \in S, \A n \in Nat : n \in S => n + 1 \in S
  PROVE  Nat \subseteq S
<1> DEFINE Bad == Nat \ S
<1> DEFINE T == { 0 .. x : x \in Bad }
<1> DEFINE R == StrictSubsetOrdering(Nat)
<1> DEFINE F == FiniteSubsetsOf(Nat)
<1> SUFFICES ASSUME Bad # {} PROVE FALSE
  OBVIOUS
<1>1. T \subseteq F
  <2>1. ASSUME NEW x \in Bad PROVE 0 .. x \in F
    <3>1. 0 \in Int /\ x \in Int /\ 0 .. x \subseteq Nat
      OBVIOUS
    <3>2. IsFiniteSet(0 .. x)
      BY <3>1, FS_Interval
    <3> QED
      BY <3>1, <3>2 DEF FiniteSubsetsOf
  <2> QED
    BY <2>1
<1>2. PICK t \in T : \A u \in T : ~ (<<u, t>> \in R)
  <2>1. IsWellFoundedOn(R, F)
    BY FS_StrictSubsetOrderingWellFounded
  <2>2. T # {}
    OBVIOUS
  <2> HIDE DEF T, R, F
  <2> QED
    BY <1>1, <2>1, <2>2, WFMin
<1>3. PICK x \in Bad : t = 0 .. x
  OBVIOUS
<1>4. x # 0 /\ x - 1 \in Nat
  OBVIOUS
<1>5. x - 1 \in Bad
  BY <1>4
<1>6. <<0 .. x - 1, 0 .. x>> \in R
  <2>1. 0 .. x - 1 \subseteq 0 .. x /\ x \in 0 .. x /\ x \notin 0 .. x - 1
    BY <1>4
  <2>2. 0 .. x \subseteq Nat /\ 0 .. x - 1 \subseteq Nat
    BY <1>4
  <2> QED
    BY <2>1, <2>2 DEF StrictSubsetOrdering
<1> QED
  BY <1>2, <1>3, <1>5, <1>6

-----------------------------------------------------------------------------
(* Removing a tree.                                                        *)

\* the beginning of a sequence
LEMMA Beginning ==
  ASSUME NEW S, NEW t \in Seq(S), NEW n \in Nat, n <= Len(t)
  PROVE  Len(SubSeq(t, 1, n)) = n /\ \A k \in 1 .. n : SubSeq(t, 1, n)[k] = t[k]
BY SMT

\* the directories on a path, from the root
Passes(T, walk, path) ==
  /\ walk[0] = "root"
  /\ \A k \in 1 .. Len(path) : walk[k] = Rm!EntryOf(T, walk[k - 1], path[k]).id

\* What a path resolves to is where the walk over its names ends.
LEMMA Resolved ==
  ASSUME NEW T, NEW path, Len(path) \in Nat
  PROVE  \E walk : Passes(T, walk, path) /\ Rm!ResolveIn(T, path) = walk[Len(path)]
<1> DEFINE Is(w, n) == w = [k \in 0 .. n |-> IF k = 0 THEN "root" ELSE Rm!EntryOf(T, w[k - 1], path[k]).id]
           S == { n \in Nat : \E w : Is(w, n) }
<1>1. 0 \in S
  <2> DEFINE w == [k \in 0 .. 0 |-> "root"]
  <2>1. Is(w, 0)
    OBVIOUS
  <2> QED
    BY <2>1
<1>2. ASSUME NEW n \in Nat, n \in S PROVE n + 1 \in S
  <2>1. PICK w : Is(w, n)
    BY <1>2
  <2> DEFINE v == [k \in 0 .. n + 1 |-> IF k = n + 1 THEN Rm!EntryOf(T, w[n], path[n + 1]).id ELSE w[k]]
  <2>2. \A k \in 0 .. n : v[k] = w[k] /\ w[k] = IF k = 0 THEN "root" ELSE Rm!EntryOf(T, w[k - 1], path[k]).id
    BY <2>1
  <2>3. v[n + 1] = Rm!EntryOf(T, w[n], path[n + 1]).id /\ v[n] = w[n] /\ (n + 1) - 1 = n /\ n + 1 # 0
    OBVIOUS
  <2>4. \A k \in 0 .. n + 1 : v[k] = IF k = 0 THEN "root" ELSE Rm!EntryOf(T, v[k - 1], path[k]).id
    <3> SUFFICES ASSUME NEW k \in 0 .. n + 1
                 PROVE  v[k] = IF k = 0 THEN "root" ELSE Rm!EntryOf(T, v[k - 1], path[k]).id
      OBVIOUS
    <3> HIDE DEF v
    <3>1. CASE k = n + 1
      BY <2>3, <3>1
    <3>2. CASE k \in 0 .. n
      <4>1. k # 0 => k - 1 \in 0 .. n
        BY <3>2
      <4> QED
        BY <2>2, <3>2, <4>1
    <3> QED
      BY <3>1, <3>2
  <2>5. Is(v, n + 1)
    BY <2>4
  <2> HIDE DEF v
  <2>6. \E u : Is(u, n + 1)
    BY <2>5
  <2> QED
    BY <2>6
<1>3. Len(path) \in S
  <2> HIDE DEF S
  <2> QED
    BY <1>1, <1>2, Induct
<1> DEFINE w == CHOOSE w : Is(w, Len(path))
<1>4. Is(w, Len(path))
  BY <1>3
<1>5. Rm!ResolveIn(T, path) = w[Len(path)]
  BY DEF Rm!ResolveIn
<1>6. Passes(T, w, path)
  <2> HIDE DEF w
  <2>1. \A k \in 0 .. Len(path) : w[k] = IF k = 0 THEN "root" ELSE Rm!EntryOf(T, w[k - 1], path[k]).id
    BY <1>4
  <2>2. w[0] = "root"
    BY <2>1
  <2>3. ASSUME NEW k \in 1 .. Len(path) PROVE w[k] = Rm!EntryOf(T, w[k - 1], path[k]).id
    BY <2>1
  <2> QED
    BY <2>2, <2>3 DEF Passes
<1> QED
  BY <1>5, <1>6

\* The argument is a path with a last name.
LEMMA PathLength ==
  /\ Path \in Seq(STRING) /\ Len(Path) \in Nat /\ Len(Path) > 0 /\ Path # <<>>
  /\ Len(Rm!Dirname(Path)) = Len(Path) - 1
<1>1. Path \in Seq(STRING) /\ Path # <<>>
  BY TreesAssumption
<1>2. Len(Path) \in Nat /\ Len(Path) > 0
  BY <1>1, LenProperties, EmptySeq
<1>3. Len(Path) - 1 \in Nat /\ Len(Path) - 1 <= Len(Path)
  BY <1>2
<1>4. Len(SubSeq(Path, 1, Len(Path) - 1)) = Len(Path) - 1
  BY <1>1, <1>3, Beginning
<1> QED
  BY <1>1, <1>2, <1>4 DEF Rm!Dirname

\* A walk leads to what the paths that begin the path resolve to.
LEMMA OnTheWay ==
  ASSUME NEW T, NEW walk, Passes(T, walk, Path), NEW n \in 0 .. Len(Path)
  PROVE  Rm!ResolveIn(T, SubSeq(Path, 1, n)) = walk[n]
<1> DEFINE path == SubSeq(Path, 1, n)
<1>1. Len(path) = n /\ n \in Nat /\ \A k \in 1 .. n : path[k] = Path[k]
  <2>1. n \in Nat /\ n <= Len(Path)
    BY PathLength
  <2> QED
    BY <2>1, PathLength, Beginning
<1> HIDE DEF path
<1>2. PICK w : Passes(T, w, path) /\ Rm!ResolveIn(T, path) = w[n]
  BY <1>1, Resolved
<1> DEFINE S == { k \in Nat : k <= n => w[k] = walk[k] }
<1>3. 0 \in S
  BY <1>2 DEF Passes
<1>4. ASSUME NEW k \in Nat, k \in S PROVE k + 1 \in S
  <2> SUFFICES ASSUME k + 1 <= n PROVE w[k + 1] = walk[k + 1]
    OBVIOUS
  <2>1. k + 1 \in 1 .. n /\ k + 1 \in 1 .. Len(Path) /\ (k + 1) - 1 = k /\ w[k] = walk[k]
    BY <1>1, <1>4, PathLength
  <2>2. w[k + 1] = Rm!EntryOf(T, w[k], path[k + 1]).id
    BY <1>1, <1>2, <2>1 DEF Passes
  <2>3. walk[k + 1] = Rm!EntryOf(T, walk[k], Path[k + 1]).id
    BY <2>1 DEF Passes
  <2> QED
    BY <1>1, <2>1, <2>2, <2>3
<1>5. n \in S
  <2> HIDE DEF S
  <2> QED
    BY <1>1, <1>3, <1>4, Induct
<1> QED
  BY <1>1, <1>2, <1>5 DEF path

-----------------------------------------------------------------------------
(* Removing a tree: the invariant.                                         *)

\* nobody interferes, and there is no link that the program follows
Quiet == changes = 0 /\ ~ Rm!ByLink /\ (remover = "v1" => ~ Rm!Holds("lnk"))

\* what is left of some entries
Within(a, b) == DOMAIN a \subseteq DOMAIN b /\ \A name \in DOMAIN a : a[name] = b[name]

\* the directories that are not set apart as outside
Here == DOMAIN existed \ Outside

\* The tree only loses entries as long as nobody interferes; whatever is put into it, an entry
\* leads somewhere if anywhere, and if it is a directory to one that is not outside.
Left ==
  /\ existed \in Trees /\ DOMAIN tree = DOMAIN existed /\ changes \in Nat
  /\ \A dir \in DOMAIN tree : \A name \in DOMAIN tree[dir] :
       /\ tree[dir][name].id \in {"None"} \cup DOMAIN tree
       /\ dir \notin Outside /\ tree[dir][name].kind = "dir" => tree[dir][name].id \in Here \ {"root"}
  /\ Quiet => \A dir \in DOMAIN tree : Within(tree[dir], existed[dir])
  /\ Rm!KeepsOutside
  /\ remover = "v3" /\ Quiet => opened \notin Outside

\* the directories that a path enters, one from the other, through entries that are no links
Descends(walk, path) ==
  /\ walk[0] = "root" /\ \A k \in 0 .. Len(path) : walk[k] \in Here
  /\ \A k \in 1 .. Len(path) :
       /\ path[k] \in DOMAIN existed[walk[k - 1]]
       /\ existed[walk[k - 1]][path[k]].kind = "dir"
       /\ existed[walk[k - 1]][path[k]].id = walk[k]

\* v3 holds a directory that is not outside, once it has opened its argument
Held(f) ==
  /\ f.fd \in IF opened = "None" THEN {"None"} ELSE Here
  /\ f.scanned => f.fd # "None"

Names == { Path[k] : k \in 1 .. Len(Path) } \cup UNION { DOMAIN existed[dir] : dir \in DOMAIN existed }

\* the others name one by a path that enters it, and go by what they have seen there
Named(f) ==
  /\ f.path \in Seq(Names) /\ f.path # <<>>
  /\ f.path = Path \/ \E walk : Descends(walk, f.path)
  /\ f.scanned => \E walk : /\ Descends(walk, f.path)
                            /\ Within(f.listed, existed[walk[Len(f.path)]])

Sound(f) ==
  /\ f = [path |-> f.path, fd |-> f.fd, listed |-> f.listed, scanned |-> f.scanned]
  /\ IF remover = "v3" THEN opened \notin Outside => Held(f) ELSE Quiet => Named(f)

\* the calls, of which the first is for the argument, and opens it before there are others
Called ==
  /\ \E S : calls \in Seq(S) /\ \A f \in S : Sound(f)
  /\ result = "running" => calls # <<>>
  /\ calls # <<>> => calls[Len(calls)].path = Path
  /\ remover = "v3" /\ opened = "None" => Len(calls) = 1

RInv == Left /\ Called

\* What is known of the trees.
LEMMA TreeShape ==
  ASSUME existed \in Trees
  PROVE  /\ Outside \subseteq DOMAIN existed /\ "None" \notin DOMAIN existed
         /\ "None" \notin Outside /\ "root" \in Here /\ "root" \notin Outside
         /\ \A dir \in DOMAIN existed : \A name \in DOMAIN existed[dir] :
              /\ existed[dir][name].id \in {"None"} \cup DOMAIN existed
              /\ existed[dir][name].kind = "dir" =>
                   existed[dir][name].id \in IF dir \in Outside THEN Outside ELSE Here \ {"root"}
              /\ existed[dir][name].kind \notin {"dir", "lnk"} => existed[dir][name].id = "None"
BY TreesAssumption DEF Here

\* At the start the tree is as it was, and the first call has seen nothing.
LEMMA InitRInv == Rm!Init => RInv
<1> SUFFICES ASSUME Rm!Init PROVE RInv
  OBVIOUS
<1> DEFINE f == [path |-> Path, fd |-> "None", listed |-> <<>>, scanned |-> FALSE]
<1>1. calls = <<f>> /\ result = "running" /\ opened = "None"
  BY DEF Rm!Init, Rm!Frame
<1>2. calls \in Seq({f}) /\ Len(calls) = 1 /\ calls[1] = f /\ calls # <<>>
  BY <1>1
<1>3. Sound(f)
  <2>1. Path \in Seq(Names) /\ Path # <<>>
    <3> DEFINE N == Names
    <3>1. \A k \in 1 .. Len(Path) : Path[k] \in N
      BY DEF Names
    <3> HIDE DEF N
    <3>2. Path \in Seq(N)
      BY <3>1, PathLength
    <3> QED
      BY <3>2, PathLength DEF N
  <2> QED
    BY <1>1, <2>1 DEF Sound, Held, Named
<1>4. Called
  <2>1. f.path = Path /\ \A x \in {f} : Sound(x)
    BY <1>3
  <2> HIDE DEF f
  <2>2. calls[Len(calls)] = f
    BY <1>2
  <2>3. \E S : calls \in Seq(S) /\ \A x \in S : Sound(x)
    BY <1>2, <2>1
  <2> QED
    BY <1>2, <2>1, <2>2, <2>3 DEF Called
<1>5. Left
  <2>1. existed \in Trees /\ tree = existed /\ changes = 0
    BY DEF Rm!Init
  <2>2. \A dir \in DOMAIN tree : \A name \in DOMAIN tree[dir] :
          /\ tree[dir][name].id \in {"None"} \cup DOMAIN tree
          /\ dir \notin Outside /\ tree[dir][name].kind = "dir" => tree[dir][name].id \in Here \ {"root"}
    BY <2>1, TreeShape
  <2>3. Rm!KeepsOutside /\ opened \notin Outside
    BY <1>1, <2>1, TreeShape DEF Rm!KeepsOutside, Rm!Intact
  <2> QED
    BY <2>1, <2>2, <2>3 DEF Left, Within
<1> QED
  BY <1>4, <1>5 DEF RInv

\* A path that enters directories leads to the last of them, or nowhere any more.
LEMMA Leads ==
  ASSUME Left, Quiet, NEW walk, NEW path, Len(path) \in Nat, Descends(walk, path)
  PROVE  /\ Rm!Resolve(path) \in {"None", walk[Len(path)]}
         /\ walk[Len(path)] \in Here
         /\ Len(path) > 0 => walk[Len(path)] # "root"
<1>1. PICK w : Passes(tree, w, path) /\ Rm!Resolve(path) = w[Len(path)]
  BY Resolved DEF Rm!Resolve
<1> DEFINE S == { n \in Nat : n <= Len(path) => w[n] \in {"None", walk[n]} }
<1>3. 0 \in S
  BY <1>1 DEF Passes, Descends
<1>4. ASSUME NEW n \in Nat, n \in S PROVE n + 1 \in S
  <2> SUFFICES ASSUME n + 1 <= Len(path) PROVE w[n + 1] \in {"None", walk[n + 1]}
    OBVIOUS
  <2>1. /\ n + 1 \in 1 .. Len(path) /\ n \in 0 .. Len(path) /\ (n + 1) - 1 = n
        /\ w[n] \in {"None", walk[n]}
    BY <1>4
  <2>2. w[n + 1] = Rm!EntryOf(tree, w[n], path[n + 1]).id
    BY <1>1, <2>1 DEF Passes
  <2>3. /\ walk[n] \in DOMAIN existed /\ existed[walk[n]][path[n + 1]].id = walk[n + 1]
    BY <2>1 DEF Descends, Here
  <2>4. DOMAIN tree = DOMAIN existed /\ Within(tree[walk[n]], existed[walk[n]])
    BY <2>3 DEF Left
  <2>5. CASE w[n] = "None" \/ path[n + 1] \notin DOMAIN tree[w[n]]
    BY <2>2, <2>5 DEF Rm!EntryOf
  <2>6. CASE w[n] = walk[n] /\ w[n] # "None" /\ path[n + 1] \in DOMAIN tree[walk[n]]
    BY <2>2, <2>3, <2>4, <2>6 DEF Rm!EntryOf, Within
  <2> QED
    BY <2>1, <2>5, <2>6
<1>5. Len(path) \in S
  <2> HIDE DEF S
  <2> QED
    BY <1>3, <1>4, Induct
<1>6. walk[Len(path)] \in Here /\ (Len(path) > 0 => walk[Len(path)] # "root")
  <2>1. walk[Len(path)] \in Here
    BY DEF Descends
  <2>2. ASSUME Len(path) > 0 PROVE walk[Len(path)] # "root"
    <3>1. Len(path) \in 1 .. Len(path) /\ Len(path) - 1 \in 0 .. Len(path)
      BY <2>2
    <3> DEFINE d == walk[Len(path) - 1]
               name == path[Len(path)]
    <3>2. /\ d \in Here /\ name \in DOMAIN existed[d]
          /\ existed[d][name].kind = "dir" /\ existed[d][name].id = walk[Len(path)]
      BY <3>1 DEF Descends
    <3> HIDE DEF d, name
    <3>3. existed[d][name].id \in Here \ {"root"}
      BY <3>2, TreeShape DEF Left, Here
    <3> QED
      BY <3>2, <3>3
  <2> QED
    BY <2>1, <2>2
<1> QED
  BY <1>1, <1>5, <1>6

\* While nobody interferes, the argument's own path enters directories as far as it leads.
LEMMA PathDescends ==
  ASSUME Left, Quiet, NEW n \in 0 .. Len(Path)
  PROVE  \/ Rm!Resolve(SubSeq(Path, 1, n)) = "None"
         \/ \E walk : /\ Descends(walk, SubSeq(Path, 1, n))
                      /\ Rm!Resolve(SubSeq(Path, 1, n)) = walk[n]
<1>1. PICK v : Passes(existed, v, Path)
  BY PathLength, Resolved
<1>2. PICK w : Passes(tree, w, Path)
  BY PathLength, Resolved
<1> DEFINE Enters(k) == /\ Path[k] \in DOMAIN existed[v[k - 1]]
                        /\ existed[v[k - 1]][Path[k]].kind = "dir"
                        /\ existed[v[k - 1]][Path[k]].id = v[k]
           Down(m) == (\A k \in 0 .. m : v[k] \in Here) /\ (\A k \in 1 .. m : Enters(k))
           S == { m \in Nat : m <= Len(Path) => w[m] = "None" \/ (w[m] = v[m] /\ Down(m)) }
<1>3. 0 \in S
  <2>1. w[0] = "root" /\ v[0] = "root" /\ "root" \in Here
    BY <1>1, <1>2, TreeShape DEF Passes, Left
  <2> QED
    BY <2>1
<1>4. ASSUME NEW m \in Nat, m \in S PROVE m + 1 \in S
  <2> SUFFICES ASSUME m + 1 <= Len(Path), w[m + 1] # "None"
               PROVE  w[m + 1] = v[m + 1] /\ Down(m + 1)
    OBVIOUS
  <2>1. m + 1 \in 1 .. Len(Path) /\ (m + 1) - 1 = m /\ m \in 0 .. Len(Path)
    BY PathLength
  <2>2. w[m + 1] = Rm!EntryOf(tree, w[m], Path[m + 1]).id
    BY <1>2, <2>1 DEF Passes
  <2>3. v[m + 1] = Rm!EntryOf(existed, v[m], Path[m + 1]).id
    BY <1>1, <2>1 DEF Passes
  <2>4. w[m] # "None" /\ Path[m + 1] \in DOMAIN tree[w[m]]
    BY <2>2 DEF Rm!EntryOf
  <2>5. w[m] = v[m] /\ Down(m)
    BY <1>4, <2>1, <2>4
  <2> DEFINE d == v[m]
             name == Path[m + 1]
  <2>6. d \in Here
    BY <2>1, <2>5
  <2> HIDE DEF S, Down, d, name
  <2>7. /\ name \in DOMAIN existed[d] /\ tree[d][name] = existed[d][name] /\ d \in DOMAIN existed
        /\ w[m + 1] = tree[d][name].id
    <3>1. Within(tree[d], existed[d]) /\ d \in DOMAIN existed
      BY <2>6 DEF Left, Here
    <3> QED
      BY <2>2, <2>4, <2>5, <3>1 DEF Within, Rm!EntryOf, d, name
  <2>8. d # "None"
    BY <2>4, <2>5 DEF d
  <2>9. v[m + 1] = existed[d][name].id
    BY <2>3, <2>7, <2>8 DEF Rm!EntryOf, d, name
  <2>10. existed[d][name].kind # "lnk"
    <3>1. Rm!ResolveIn(existed, SubSeq(Path, 1, (m + 1) - 1)) = d
      BY <1>1, <2>1, OnTheWay DEF d
    <3>2. Rm!EntryOf(existed, d, name).kind # "lnk"
      BY <2>1, <3>1 DEF Quiet, Rm!ByLink, name
    <3> QED
      BY <2>7, <2>8, <3>2 DEF Rm!EntryOf
  <2>11. existed[d][name].kind = "dir" /\ v[m + 1] \in Here
    BY <2>6, <2>7, <2>9, <2>10, TreeShape DEF Left, Here
  <2>12. Enters(m + 1)
    BY <2>1, <2>7, <2>9, <2>11 DEF d, name
  <2>13. \A k \in 0 .. m + 1 : k \in 0 .. m \/ k = m + 1
    OBVIOUS
  <2>14. \A k \in 1 .. m + 1 : k \in 1 .. m \/ k = m + 1
    OBVIOUS
  <2>15. Down(m + 1)
    <3> HIDE DEF Enters
    <3> QED
      BY <2>5, <2>11, <2>12, <2>13, <2>14 DEF Down
  <2> QED
    BY <2>7, <2>9, <2>15
<1>5. n \in Nat /\ n <= Len(Path)
  BY PathLength
<1>6. n \in S
  <2> HIDE DEF S
  <2> QED
    BY <1>3, <1>4, <1>5, Induct
<1> DEFINE path == SubSeq(Path, 1, n)
<1>7. Rm!Resolve(path) = w[n]
  BY <1>2, OnTheWay DEF Rm!Resolve
<1>8. Len(path) = n /\ \A k \in 1 .. n : path[k] = Path[k]
  BY <1>5, PathLength, Beginning
<1>9. v[0] = "root"
  BY <1>1 DEF Passes
<1>10. w[n] = "None" \/ (w[n] = v[n] /\ Down(n))
  BY <1>5, <1>6
<1> HIDE DEF path
<1>11. Down(n) => Descends(v, path)
  BY <1>8, <1>9 DEF Descends
<1> HIDE DEF Down
<1> QED
  BY <1>7, <1>10, <1>11 DEF path

\* The directory that has the argument's entry is not outside, then.
LEMMA PathInside ==
  ASSUME Left, Quiet
  PROVE  Rm!Resolve(Rm!Dirname(Path)) \in {"None"} \cup Here
<1> DEFINE n == Len(Path) - 1
           path == SubSeq(Path, 1, n)
<1>1. n \in 0 .. Len(Path) /\ n \in Nat
  BY PathLength
<1>2. Rm!Dirname(Path) = path /\ Len(path) = n
  BY PathLength DEF Rm!Dirname
<1> HIDE DEF n
<1>3. \/ Rm!Resolve(path) = "None"
      \/ \E walk : Descends(walk, path) /\ Rm!Resolve(path) = walk[n]
  BY <1>1, PathDescends
<1> HIDE DEF path
<1>4. ASSUME NEW walk, Descends(walk, path), Rm!Resolve(path) = walk[n] PROVE walk[n] \in Here
  BY <1>1, <1>2, <1>4, Leads
<1> QED
  BY <1>2, <1>3, <1>4

\* An entry is taken out of a directory that is not outside, or it is the last that v3 takes out.
LEMMA Shrinks ==
  ASSUME Left, NEW dir, NEW name, Rm!Without(dir, name),
         Quiet => dir \notin Outside,
         remover = "v3" /\ opened \notin Outside => dir \notin Outside \/ (result' = "done" /\ Rm!EmptyLost'),
         result = "running", UNCHANGED <<remover, existed, changes, opened>>
  PROVE  Left' /\ (Quiet' <=> Quiet)
<1>1. tree' = [tree EXCEPT ![dir] = [x \in DOMAIN tree[dir] \ {name} |-> tree[dir][x]]]
  BY DEF Rm!Without
<1>2. DOMAIN tree' = DOMAIN tree
  BY <1>1
<1>3. \A d \in DOMAIN tree : DOMAIN tree'[d] \subseteq DOMAIN tree[d] /\ \A x \in DOMAIN tree'[d] : tree'[d][x] = tree[d][x]
  BY <1>1
<1>4. Rm!Intact /\ dir \notin Outside => Rm!Intact'
  <2> SUFFICES ASSUME Rm!Intact, dir \notin Outside, NEW d \in Outside PROVE tree'[d] = existed[d]
    BY DEF Rm!Intact
  <2>1. d \in DOMAIN tree /\ d # dir
    BY TreeShape DEF Left
  <2> QED
    BY <1>1, <2>1 DEF Rm!Intact
<1>5. Quiet' <=> Quiet
  BY DEF Quiet, Rm!ByLink, Rm!Holds
<1>6. \A d \in DOMAIN tree' : \A x \in DOMAIN tree'[d] :
        /\ tree'[d][x].id \in {"None"} \cup DOMAIN tree'
        /\ d \notin Outside /\ tree'[d][x].kind = "dir" => tree'[d][x].id \in Here' \ {"root"}
  <2>1. Here' = Here
    BY DEF Here
  <2> QED
    BY <1>2, <1>3, <2>1 DEF Left
<1>7. Quiet' => \A d \in DOMAIN tree' : Within(tree'[d], existed'[d])
  <2> SUFFICES ASSUME Quiet, NEW d \in DOMAIN tree PROVE Within(tree'[d], existed[d])
    BY <1>2, <1>5
  <2>1. Within(tree[d], existed[d])
    BY DEF Left
  <2> QED
    BY <1>3, <2>1 DEF Within
<1>8. Rm!KeepsOutside'
  <2>1. /\ Quiet => Rm!Intact
        /\ remover = "v3" /\ opened \notin Outside => Rm!Intact
    BY DEF Left, Rm!KeepsOutside, Quiet
  <2>2. /\ Quiet' => Rm!Intact'
        /\ remover' = "v3" /\ opened' \notin Outside =>
             Rm!Intact' \/ (result' = "done" /\ Rm!EmptyLost')
    BY <1>4, <1>5, <2>1
  <2> QED
    BY <2>2 DEF Rm!KeepsOutside, Quiet
<1>9. remover' = "v3" /\ Quiet' => opened' \notin Outside
  BY <1>5 DEF Left
<1>10. existed' \in Trees /\ DOMAIN tree' = DOMAIN existed' /\ changes' \in Nat
  BY <1>2 DEF Left
<1> QED
  BY <1>5, <1>6, <1>7, <1>8, <1>9, <1>10 DEF Left

\* What comes before a stack, or what is left of it.
LEMMA Prepended ==
  ASSUME NEW S, NEW h \in Seq(S), h # <<>>, NEW t \in Seq(S)
  PROVE  /\ h \o t \in Seq(S) /\ h \o t # <<>>
         /\ (h \o t)[Len(h \o t)] = IF t = <<>> THEN h[Len(h)] ELSE t[Len(t)]
<1>1. /\ h \o t \in Seq(S) /\ Len(h \o t) = Len(h) + Len(t)
      /\ \A i \in 1 .. Len(h) + Len(t) : (h \o t)[i] = IF i <= Len(h) THEN h[i] ELSE t[i - Len(h)]
  BY ConcatProperties
<1>2. Len(h) \in Nat /\ Len(h) > 0 /\ Len(t) \in Nat /\ (t = <<>> <=> Len(t) = 0)
  BY LenProperties, EmptySeq
<1>3. h \o t # <<>>
  BY <1>1, <1>2
<1>4. Len(h) + Len(t) \in 1 .. Len(h) + Len(t)
  BY <1>2
<1>5. CASE Len(t) = 0
  BY <1>1, <1>2, <1>4, <1>5
<1>6. CASE Len(t) > 0
  <2>1. ~ (Len(h) + Len(t) <= Len(h)) /\ (Len(h) + Len(t)) - Len(h) = Len(t)
    BY <1>2, <1>6
  <2> QED
    BY <1>1, <1>2, <1>3, <1>4, <1>6, <2>1
<1> QED
  BY <1>2, <1>5, <1>6

\* A sound call, or two, in the place of the innermost.
LEMMA Calls ==
  ASSUME Called, calls # <<>>, NEW f, NEW g, Sound(f), Sound(g), f.path = Head(calls).path,
         \A x : Sound(x) => Sound(x)', remover' = "v3" => opened' # "None",
         calls' \in {<<f>> \o Tail(calls), <<g, f>> \o Tail(calls)}
  PROVE  Called'
<1>1. PICK S : calls \in Seq(S) /\ \A x \in S : Sound(x)
  BY DEF Called
<1> DEFINE T == S \cup {f, g}
<1>2. calls \in Seq(T) /\ <<f>> \in Seq(T) /\ <<g, f>> \in Seq(T)
  BY <1>1, SeqMonotonic
<1>3. \A x \in T : Sound(x)'
  BY <1>1
<1>4. /\ Tail(calls) \in Seq(T) /\ Len(calls) \in Nat /\ Len(Tail(calls)) = Len(calls) - 1
      /\ \A j \in 1 .. Len(Tail(calls)) : Tail(calls)[j] = calls[j + 1]
      /\ Head(calls) = calls[1]
  BY <1>2, HeadTailProperties, LenProperties
<1>5. (IF Tail(calls) = <<>> THEN f ELSE Tail(calls)[Len(Tail(calls))]).path = Path
  <2>1. calls[Len(calls)].path = Path
    BY DEF Called
  <2>2. CASE Tail(calls) = <<>>
    <3>0. Len(<<>>) = 0
      OBVIOUS
    <3>1. Len(Tail(calls)) = 0
      BY <2>2, <3>0
    <3> DEFINE a == Len(calls)
               b == Len(Tail(calls))
    <3>2. a \in Nat /\ b = a - 1 /\ b = 0
      BY <1>4, <3>1
    <3> HIDE DEF a, b
    <3>3. a = 1
      BY <3>2
    <3> QED
      BY <1>4, <2>1, <2>2, <3>3 DEF a
  <2>3. CASE Tail(calls) # <<>>
    <3>1. Len(Tail(calls)) \in 1 .. Len(Tail(calls))
      BY <1>4, <2>3, EmptySeq, LenProperties
    <3>2. Tail(calls)[Len(Tail(calls))] = calls[Len(calls)]
      BY <1>4, <3>1
    <3> QED
      BY <2>1, <2>3, <3>2
  <2> QED
    BY <2>2, <2>3
<1>6. PICK h \in {<<f>>, <<g, f>>} : calls' = h \o Tail(calls)
  OBVIOUS
<1>7. h \in Seq(T) /\ h # <<>> /\ h[Len(h)] = f
  BY <1>2, <1>6
<1> HIDE DEF T
<1>8. calls' \in Seq(T) /\ calls' # <<>> /\ calls'[Len(calls')].path = Path
  <2> DEFINE t == Tail(calls)
  <2>1. t \in Seq(T) /\ (IF t = <<>> THEN f ELSE t[Len(t)]).path = Path /\ calls' = h \o t
    BY <1>4, <1>5, <1>6
  <2> HIDE DEF t
  <2>2. /\ h \o t \in Seq(T) /\ h \o t # <<>>
        /\ (h \o t)[Len(h \o t)] = IF t = <<>> THEN h[Len(h)] ELSE t[Len(t)]
    BY <1>7, <2>1, Prepended
  <2> QED
    BY <1>7, <2>1, <2>2
<1> QED
  BY <1>3, <1>8 DEF Called

\* The call that runs is sound.
LEMMA TopSound ==
  ASSUME RInv, result = "running"
  PROVE  calls # <<>> /\ Sound(Rm!Top) /\ Rm!Top = Head(calls)
<1>1. PICK S : calls \in Seq(S) /\ \A x \in S : Sound(x)
  BY DEF RInv, Called
<1>2. calls # <<>>
  BY DEF RInv, Called
<1>3. Head(calls) \in S
  BY <1>1, <1>2, HeadTailProperties
<1> QED
  BY <1>1, <1>2, <1>3 DEF Rm!Top

\* A call stays sound while nobody but the program changes the tree, or once anybody did.
LEMMA SoundStays ==
  ASSUME UNCHANGED <<remover, existed>>, remover = "v3" => UNCHANGED opened, Quiet' => Quiet
  PROVE  \A x : Sound(x) => Sound(x)'
<1>1. remover = "v3" => \A x : Held(x) => Held(x)'
  BY DEF Held, Here
<1>2. \A walk, path : Descends(walk, path) => Descends(walk, path)'
  BY DEF Descends, Here
<1>3. \A x : Named(x) => Named(x)'
  BY <1>2 DEF Named, Names, Within
<1> QED
  BY <1>1, <1>3 DEF Sound

\* Where the program finds what it has seen is not outside.
LEMMA Inside ==
  ASSUME RInv, result = "running", Rm!Top.scanned, (remover = "v3" /\ opened \notin Outside) \/ Quiet
  PROVE  Rm!Base \in {"None"} \cup Here /\ (remover = "v3" => Rm!Base # "None")
<1>1. Sound(Rm!Top) /\ "None" \notin DOMAIN existed
  BY TopSound, TreeShape DEF RInv, Left
<1>2. CASE remover = "v3"
  <2>1. opened \notin Outside
    BY <1>2 DEF RInv, Left
  <2> QED
    BY <1>1, <1>2, <2>1 DEF Sound, Held, Rm!Base
<1>3. CASE remover # "v3"
  <2>1. PICK walk : Descends(walk, Rm!Top.path) /\ Rm!Top.path \in Seq(Names)
    BY <1>1, <1>3 DEF Sound, Named
  <2>2. Len(Rm!Top.path) \in Nat
    BY <2>1, LenProperties
  <2> QED
    BY <1>3, <2>1, <2>2, Leads DEF Rm!Base, RInv
<1> QED
  BY <1>2, <1>3

\* What was seen and is done is crossed off.
LEMMA TookSound ==
  ASSUME RInv, result = "running", Rm!Top.scanned, NEW name
  PROVE  Sound(Rm!Took(name)) /\ Rm!Took(name).path = Head(calls).path
<1>1. Sound(Rm!Top) /\ Rm!Top = Head(calls)
  BY TopSound
<1> DEFINE rest == [x \in DOMAIN Rm!Top.listed \ {name} |-> Rm!Top.listed[x]]
<1>2. Rm!Took(name) = [path |-> Rm!Top.path, fd |-> Rm!Top.fd, listed |-> rest, scanned |-> Rm!Top.scanned]
  <2>1. PICK path, fd0, listed, scanned : Rm!Top = [path |-> path, fd |-> fd0, listed |-> listed, scanned |-> scanned]
    BY <1>1 DEF Sound
  <2>2. Rm!Took(name) = [Rm!Top EXCEPT !.listed = rest]
    BY DEF Rm!Took
  <2> HIDE DEF rest
  <2> QED
    BY <2>1, <2>2
<1>3. \A b : Within(Rm!Top.listed, b) => Within(rest, b)
  BY DEF Within
<1>4. Held(Rm!Top) => Held(Rm!Took(name))
  BY <1>2 DEF Held
<1>5. Named(Rm!Top) => Named(Rm!Took(name))
  <2> HIDE DEF rest
  <2> QED
    BY <1>2, <1>3 DEF Named
<1> QED
  BY <1>1, <1>2, <1>4, <1>5 DEF Sound

\* The tree stays as it is.
LEMMA LeftStays ==
  ASSUME Left, UNCHANGED <<remover, existed, tree, changes>>, remover = "v3" => UNCHANGED opened,
         result = "running" \/ UNCHANGED result
  PROVE  Left' /\ (Quiet' <=> Quiet)
<1>1. Quiet' <=> Quiet
  BY DEF Quiet, Rm!ByLink, Rm!Holds
<1>2. Rm!KeepsOutside'
  <2>1. (Rm!Intact' <=> Rm!Intact) /\ (Rm!EmptyLost' <=> Rm!EmptyLost)
    BY DEF Rm!Intact, Rm!EmptyLost
  <2>2. (Quiet => Rm!Intact)
        /\ (remover = "v3" /\ opened \notin Outside => Rm!Intact \/ (result = "done" /\ Rm!EmptyLost))
    BY DEF Left, Rm!KeepsOutside, Quiet
  <2>3. (Quiet' => Rm!Intact')
        /\ (remover' = "v3" /\ opened' \notin Outside => Rm!Intact' \/ (result' = "done" /\ Rm!EmptyLost'))
    BY <1>1, <2>1, <2>2
  <2> QED
    BY <2>3 DEF Rm!KeepsOutside, Quiet
<1> QED
  BY <1>1, <1>2 DEF Left, Within, Here

\* A program that fails leaves all as it is.
LEMMA FailRInv == RInv /\ result = "running" /\ Rm!Fail => RInv'
<1> SUFFICES ASSUME RInv, result = "running", Rm!Fail PROVE RInv'
  OBVIOUS
<1>1. UNCHANGED <<remover, existed, tree, calls, changes, opened>> /\ result' = "failed"
  BY DEF Rm!Fail
<1>2. Left' /\ (Quiet' <=> Quiet)
  BY <1>1, LeftStays DEF RInv
<1>3. Called'
  BY <1>1, <1>2, SoundStays DEF RInv, Called
<1> QED
  BY <1>2, <1>3 DEF RInv

\* When the call has scanned its directory, v3 has opened its argument.
LEMMA Opened ==
  ASSUME RInv, result = "running", Rm!Top.scanned, remover = "v3"
  PROVE  opened # "None"
<1>1. Sound(Rm!Top)
  BY TopSound
<1> QED
  BY <1>1, TreeShape DEF Sound, Held, RInv, Left

\* Unlink takes an entry out of a directory that is not outside.
LEMMA UnlinkRInv ==
  ASSUME RInv, result = "running", Rm!Top.scanned, NEW name, Rm!Unlink(name)
  PROVE  RInv'
<1>1. CASE Rm!Fail
  BY <1>1, FailRInv
<1>2. CASE ~ Rm!Fail
  <2>1. /\ Rm!Entry(Rm!Base, name).kind \notin {"none", "dir"}
        /\ Rm!Without(Rm!Base, name) /\ Rm!Become(Rm!Took(name)) /\ UNCHANGED opened
    BY <1>2 DEF Rm!Unlink
  <2>2. /\ UNCHANGED <<remover, existed, changes, opened, result>>
        /\ calls' = <<Rm!Took(name)>> \o Tail(calls)
    BY <2>1 DEF Rm!Become
  <2>3. (remover = "v3" /\ opened \notin Outside) \/ Quiet => Rm!Base \notin Outside
    BY Inside, TreeShape DEF RInv, Left, Here
  <2>4. Left' /\ (Quiet' <=> Quiet)
    BY <2>1, <2>2, <2>3, Shrinks DEF RInv
  <2>5. \A x : Sound(x) => Sound(x)'
    BY <2>2, <2>4, SoundStays
  <2>6. remover' = "v3" => opened' # "None"
    BY <2>2, Opened
  <2>7. Called'
    BY <2>2, <2>5, <2>6, TopSound, TookSound, Calls DEF RInv
  <2> QED
    BY <2>4, <2>7 DEF RInv
<1> QED
  BY <1>1, <1>2

\* A path leads to a directory or nowhere.
LEMMA ResolveRange ==
  ASSUME Left, NEW path, Len(path) \in Nat
  PROVE  Rm!Resolve(path) \in {"None"} \cup DOMAIN existed
<1>1. PICK w : Passes(tree, w, path) /\ Rm!Resolve(path) = w[Len(path)]
  BY Resolved DEF Rm!Resolve
<1> DEFINE S == { n \in Nat : n <= Len(path) => w[n] \in {"None"} \cup DOMAIN existed }
<1>2. 0 \in S
  BY <1>1, TreeShape DEF Passes, Left, Here
<1>3. ASSUME NEW n \in Nat, n \in S PROVE n + 1 \in S
  <2> SUFFICES ASSUME n + 1 <= Len(path) PROVE w[n + 1] \in {"None"} \cup DOMAIN existed
    OBVIOUS
  <2>1. n + 1 \in 1 .. Len(path) /\ (n + 1) - 1 = n /\ w[n] \in {"None"} \cup DOMAIN existed
    BY <1>3
  <2>2. w[n + 1] = Rm!EntryOf(tree, w[n], path[n + 1]).id
    BY <1>1, <2>1 DEF Passes
  <2>3. CASE w[n] = "None" \/ path[n + 1] \notin DOMAIN tree[w[n]]
    BY <2>2, <2>3 DEF Rm!EntryOf
  <2>4. CASE w[n] # "None" /\ path[n + 1] \in DOMAIN tree[w[n]]
    <3>1. w[n] \in DOMAIN tree /\ DOMAIN tree = DOMAIN existed
      BY <2>1, <2>4 DEF Left
    <3> QED
      BY <2>2, <2>4, <3>1 DEF Rm!EntryOf, Left
  <2> QED
    BY <2>3, <2>4
<1>4. Len(path) \in S
  <2> HIDE DEF S
  <2> QED
    BY <1>2, <1>3, Induct
<1> QED
  BY <1>1, <1>4

\* What v3 opens first is a directory, and not outside while nobody interferes.
LEMMA ArgumentOpened ==
  ASSUME Left, Rm!Argument.kind = "dir", Rm!Argument.id # "None"
  PROVE  Rm!Argument.id \in DOMAIN existed /\ (Quiet => Rm!Argument.id \in Here)
<1> DEFINE base == Rm!Resolve(Rm!Dirname(Path))
           name == Rm!Basename(Path)
<1>1. Rm!Argument = Rm!EntryOf(tree, base, name)
  BY DEF Rm!Argument, Rm!ArgumentIn, Rm!Resolve
<1>2. base \in {"None"} \cup DOMAIN existed /\ (Quiet => base \in {"None"} \cup Here)
  <2>1. Len(Rm!Dirname(Path)) \in Nat
    BY PathLength
  <2> QED
    BY <2>1, ResolveRange, PathInside
<1> HIDE DEF base, name
<1>3. base # "None" /\ name \in DOMAIN tree[base] /\ Rm!Argument = tree[base][name]
  BY <1>1 DEF Rm!EntryOf
<1>4. base \in DOMAIN tree /\ DOMAIN tree = DOMAIN existed /\ (Quiet => base \notin Outside)
  BY <1>2, <1>3 DEF Left, Here
<1>5. Rm!Argument.id \in {"None"} \cup DOMAIN tree
  BY <1>3, <1>4 DEF Left
<1>6. Quiet => Rm!Argument.id \in Here
  BY <1>3, <1>4 DEF Left
<1> QED
  BY <1>4, <1>5, <1>6

\* scandir: the call holds and sees a directory, and v3 opens its argument.
LEMMA ScanRInv == RInv /\ Rm!Scan => RInv'
<1> SUFFICES ASSUME RInv, Rm!Scan PROVE RInv'
  OBVIOUS
<1> DEFINE top == Rm!Top
           dir == IF remover # "v3" THEN Rm!Base
                  ELSE IF top.fd # "None" THEN top.fd
                  ELSE IF Rm!Argument.kind = "dir" THEN Rm!Argument.id ELSE "None"
           f == [top EXCEPT !.fd = dir, !.listed = tree[dir], !.scanned = TRUE]
<1>1. result = "running" /\ calls # <<>> /\ Sound(top) /\ top = Head(calls)
  BY TopSound DEF Rm!Scan, Rm!Scanning
<1>2. \/ Rm!Fail
      \/ /\ dir # "None" /\ Rm!Become(f) /\ UNCHANGED tree
         /\ opened' = IF opened = "None" THEN dir ELSE opened
  BY DEF Rm!Scan
<1>3. CASE Rm!Fail
  BY <1>1, <1>3, FailRInv
<1>4. ASSUME dir # "None", Rm!Become(f), UNCHANGED tree,
             opened' = IF opened = "None" THEN dir ELSE opened
      PROVE  RInv'
  <2>1. UNCHANGED <<remover, existed, tree, changes, result>> /\ calls' = <<f>> \o Tail(calls)
    BY <1>4 DEF Rm!Become
  <2>2. f = [path |-> top.path, fd |-> dir, listed |-> tree[dir], scanned |-> TRUE]
    <3>1. PICK path, fd0, listed, scanned : top = [path |-> path, fd |-> fd0, listed |-> listed, scanned |-> scanned]
      BY <1>1 DEF Sound
    <3>2. top.path = path
      BY <3>1
    <3> HIDE DEF top, dir
    <3>3. f = [[path |-> path, fd |-> fd0, listed |-> listed, scanned |-> scanned]
                 EXCEPT !.fd = dir, !.listed = tree[dir], !.scanned = TRUE]
      BY <3>1
    <3> HIDE DEF f
    <3>4. f = [path |-> path, fd |-> dir, listed |-> tree[dir], scanned |-> TRUE]
      BY <3>3
    <3> QED
      BY <3>2, <3>4
  <2>3. /\ DOMAIN tree = DOMAIN existed /\ "root" \in Here /\ "None" \notin DOMAIN existed
        /\ "None" \notin Outside /\ Here \subseteq DOMAIN existed
    BY TreeShape DEF RInv, Left, Here
  <2>4. CASE remover = "v3" /\ opened = "None"
    <3>1. top.fd = "None" /\ Len(calls) = 1
      BY <1>1, <2>3, <2>4 DEF Sound, Held, RInv, Called
    <3>2. dir = Rm!Argument.id /\ Rm!Argument.kind = "dir" /\ opened' = dir
      BY <1>4, <2>4, <3>1
    <3>3. dir \in DOMAIN existed /\ (Quiet => dir \in Here)
      BY <1>4, <3>2, ArgumentOpened DEF RInv
    <3>4. PICK c : c = f
      OBVIOUS
    <3> HIDE DEF f
    <3>5. calls' = <<c>>
      <4>1. PICK S : calls \in Seq(S)
        BY DEF RInv, Called
      <4>2. Tail(calls) \in Seq(S) /\ Len(Tail(calls)) = 0
        BY <1>1, <3>1, <4>1, HeadTailProperties
      <4>3. Tail(calls) = <<>>
        BY <4>2, EmptySeq
      <4>4. <<c>> \o <<>> = <<c>>
        OBVIOUS
      <4> QED
        BY <2>1, <3>4, <4>3, <4>4
    <3> HIDE DEF dir
    <3>6. Quiet' <=> Quiet
      BY <2>1 DEF Quiet, Rm!ByLink, Rm!Holds
    <3>7. Left'
      <4>1. Rm!Intact
        BY <1>1, <2>3, <2>4 DEF RInv, Left, Rm!KeepsOutside
      <4>2. Rm!Intact'
        BY <2>1, <4>1 DEF Rm!Intact
      <4>3. Rm!KeepsOutside'
        BY <4>2 DEF Rm!KeepsOutside
      <4>4. remover' = "v3" /\ Quiet' => opened' \notin Outside
        BY <3>2, <3>3, <3>6 DEF Here
      <4> QED
        BY <2>1, <3>6, <4>3, <4>4 DEF RInv, Left, Within, Here
    <3>8. c.path = Path /\ Sound(c)'
      <4>1. c = [path |-> top.path, fd |-> dir, listed |-> tree[dir], scanned |-> TRUE]
        BY <2>2, <3>4
      <4>2. top.path = Path
        <5>1. calls[1].path = Path
          BY <1>1, <3>1 DEF RInv, Called
        <5>2. Head(calls) = calls[1]
          OBVIOUS
        <5> QED
          BY <1>1, <5>1, <5>2
      <4> HIDE DEF top
      <4>3. c.path = Path /\ c.fd = dir
            /\ c = [path |-> c.path, fd |-> c.fd, listed |-> c.listed, scanned |-> c.scanned]
        BY <4>1, <4>2
      <4>4. opened' \notin Outside => c.fd \in Here' /\ c.fd # "None" /\ opened' # "None"
        BY <1>4, <2>1, <3>2, <3>3, <4>3 DEF Here
      <4>5. opened' \notin Outside => Held(c)'
        BY <4>4 DEF Held
      <4> QED
        BY <2>1, <2>4, <4>3, <4>5 DEF Sound
    <3>9. Called'
      <4>1. calls' \in Seq({c}) /\ Len(calls') = 1 /\ calls'[1] = c /\ calls' # <<>>
        BY <3>5
      <4>2. \E S : calls' \in Seq(S) /\ \A x \in S : Sound(x)'
        BY <3>8, <4>1
      <4> QED
        BY <3>8, <4>1, <4>2 DEF Called
    <3> QED
      BY <3>7, <3>9 DEF RInv
  <2>5. CASE ~ (remover = "v3" /\ opened = "None")
    <3>1. remover = "v3" => UNCHANGED opened
      BY <1>4, <2>5
    <3>2. Left' /\ (Quiet' <=> Quiet)
      BY <1>1, <2>1, <3>1, LeftStays DEF RInv
    <3>3. ASSUME remover = "v3", opened \notin Outside PROVE Held(f)
      <4>1. top.fd \in Here
        BY <1>1, <2>5, <3>3 DEF Sound, Held
      <4>2. dir = top.fd
        BY <2>3, <3>3, <4>1
      <4> HIDE DEF dir, f
      <4> QED
        BY <1>4, <2>2, <2>5, <3>3, <4>1, <4>2 DEF Held
    <3>4. ASSUME remover # "v3", Quiet PROVE Named(f)
      <4>0. dir = Rm!Resolve(top.path)
        BY <3>4 DEF Rm!Base
      <4> HIDE DEF dir, f
      <4>1. Named(top) /\ Len(top.path) \in Nat
        BY <1>1, <3>4, LenProperties DEF Sound, Named
      <4>2. PICK walk : Descends(walk, top.path)
        <5>1. CASE top.path = Path
          <6> DEFINE n == Len(Path)
          <6>1. n \in 0 .. Len(Path) /\ SubSeq(Path, 1, n) = Path
            <7>1. n \in Nat /\ n <= Len(Path)
              BY PathLength
            <7>2. Len(SubSeq(Path, 1, n)) = n /\ \A k \in 1 .. n : SubSeq(Path, 1, n)[k] = Path[k]
              BY <7>1, PathLength, Beginning
            <7> QED
              BY <7>1, PathLength
          <6> HIDE DEF n
          <6>2. \/ Rm!Resolve(Path) = "None"
                \/ \E walk : Descends(walk, Path) /\ Rm!Resolve(Path) = walk[n]
            BY <3>4, <6>1, PathDescends DEF RInv
          <6> QED
            BY <1>4, <4>0, <5>1, <6>2
        <5>2. CASE top.path # Path
          BY <4>1, <5>2 DEF Named
        <5> QED
          BY <5>1, <5>2
      <4>3. dir = walk[Len(top.path)] /\ dir \in Here
        BY <1>4, <3>4, <4>0, <4>1, <4>2, Leads DEF RInv
      <4>4. Within(tree[dir], existed[dir])
        BY <2>3, <3>4, <4>3 DEF RInv, Left
      <4> QED
        BY <2>2, <4>1, <4>2, <4>3, <4>4 DEF Named
    <3>5. Sound(f)
      <4> HIDE DEF f, dir
      <4> QED
        BY <2>2, <3>3, <3>4 DEF Sound
    <3>6. \A x : Sound(x) => Sound(x)'
      BY <2>1, <3>1, <3>2, SoundStays
    <3>7. f.path = Head(calls).path
      BY <1>1, <2>2
    <3> HIDE DEF f, dir
    <3>8. Called'
      BY <1>1, <1>4, <2>1, <2>5, <3>5, <3>6, <3>7, Calls DEF RInv
    <3> QED
      BY <3>2, <3>8 DEF RInv
  <2> QED
    BY <2>4, <2>5
<1> QED
  BY <1>2, <1>3, <1>4

\* A directory is entered: v3 opens it and follows no link, the others add its name to the path.
LEMMA RemoveDirRInv ==
  ASSUME RInv, result = "running", NEW name, Rm!RemoveDir(name) PROVE RInv'
<1> DEFINE top == Rm!Top
           g == [path |-> Append(top.path, name),
                 fd |-> IF remover = "v3" THEN Rm!Entry(Rm!Base, name).id ELSE "None",
                 listed |-> <<>>, scanned |-> FALSE]
<1>1. /\ top.scanned /\ name \in DOMAIN top.listed /\ Rm!IsDir(name)
      /\ calls # <<>> /\ Sound(top) /\ top = Head(calls)
  BY TopSound DEF Rm!RemoveDir, Rm!Pick
<1>2. \/ Rm!Unlink(name)
      \/ /\ remover = "v3" => Rm!Entry(Rm!Base, name).kind = "dir"
         /\ calls' = <<g, Rm!Took(name)>> \o Tail(calls)
         /\ UNCHANGED <<remover, existed, tree, changes, opened, result>>
  BY DEF Rm!RemoveDir, Rm!Frame
<1>3. CASE Rm!Unlink(name)
  BY <1>1, <1>3, UnlinkRInv
<1>4. ASSUME remover = "v3" => Rm!Entry(Rm!Base, name).kind = "dir",
             calls' = <<g, Rm!Took(name)>> \o Tail(calls),
             UNCHANGED <<remover, existed, tree, changes, opened, result>>
      PROVE  RInv'
  <2>1. Left' /\ (Quiet' <=> Quiet)
    BY <1>4, LeftStays DEF RInv
  <2>2. g = [path |-> g.path, fd |-> g.fd, listed |-> g.listed, scanned |-> g.scanned] /\ ~ g.scanned
    OBVIOUS
  <2>3. DOMAIN tree = DOMAIN existed /\ existed \in Trees
    BY DEF RInv, Left
  <2>4. ASSUME remover = "v3", opened \notin Outside PROVE Held(g)
    <3>1. Rm!Base \in Here /\ Rm!Base # "None" /\ opened # "None"
      BY <1>1, <2>4, Inside, Opened
    <3>2. name \in DOMAIN tree[Rm!Base] /\ Rm!Entry(Rm!Base, name) = tree[Rm!Base][name]
      BY <1>4, <2>4 DEF Rm!Entry, Rm!EntryOf
    <3>3. g.fd \in Here
      <4>1. tree[Rm!Base][name].kind = "dir"
        BY <1>4, <2>4, <3>2
      <4>2. tree[Rm!Base][name].id \in Here
        BY <2>3, <3>1, <3>2, <4>1 DEF RInv, Left, Here
      <4> QED
        BY <2>4, <3>2, <4>2
    <3> HIDE DEF g
    <3> QED
      BY <2>2, <3>1, <3>3 DEF Held
  <2>5. ASSUME remover # "v3", Quiet PROVE Named(g)
    <3>1. PICK walk : Descends(walk, top.path) /\ Within(top.listed, existed[walk[Len(top.path)]])
      BY <1>1, <2>5 DEF Sound, Named
    <3>2. top.path \in Seq(Names) /\ top.path # <<>> /\ Len(top.path) \in Nat /\ Len(top.path) > 0
      BY <1>1, <2>5, LenProperties, EmptySeq DEF Sound, Named
    <3> DEFINE here == walk[Len(top.path)]
               there == existed[here][name]
    <3>3. here \in Here /\ here \in DOMAIN existed /\ here # "root"
      BY <2>5, <3>1, <3>2, Leads DEF RInv, Here
    <3>4. name \in DOMAIN existed[here] /\ top.listed[name] = there
      BY <1>1, <3>1 DEF Within
    <3>5. name \in Names
      BY <3>3, <3>4 DEF Names
    <3>6. there.kind = "dir"
      <4>1. there.kind # "dir" => remover = "v1" /\ there.kind = "lnk"
        BY <1>1, <3>4 DEF Rm!IsDir
      <4>2. remover = "v1" => there.kind # "lnk"
        BY <2>5, <3>3, <3>4 DEF Quiet, Rm!Holds
      <4> QED
        BY <4>1, <4>2
    <3>7. there.id \in Here
      BY <2>3, <3>3, <3>4, <3>6, TreeShape DEF Here
    <3> DEFINE path == Append(top.path, name)
               n == Len(top.path)
               further == [k \in 0 .. n + 1 |-> IF k = n + 1 THEN there.id ELSE walk[k]]
    <3>8. /\ path \in Seq(Names) /\ path # <<>> /\ Len(path) = n + 1
          /\ \A k \in 1 .. n : path[k] = top.path[k]
          /\ path[n + 1] = name
      BY <3>2, <3>5, AppendProperties, EmptySeq
    <3>9. /\ further[n + 1] = there.id /\ \A k \in 0 .. n : further[k] = walk[k]
          /\ 0 \in 0 .. n /\ n \in 0 .. n /\ (n + 1) - 1 = n
      BY <3>2
    <3>10. /\ \A k \in 0 .. n + 1 : k \in 0 .. n \/ k = n + 1
           /\ \A k \in 1 .. n + 1 : (k \in 1 .. n /\ k \in 0 .. n /\ k - 1 \in 0 .. n) \/ k = n + 1
      BY <3>2
    <3>11. Descends(further, path)
      <4> HIDE DEF further, path, n
      <4>1. /\ walk[0] = "root" /\ \A k \in 0 .. n : walk[k] \in Here
            /\ \A k \in 1 .. n : /\ top.path[k] \in DOMAIN existed[walk[k - 1]]
                                 /\ existed[walk[k - 1]][top.path[k]].kind = "dir"
                                 /\ existed[walk[k - 1]][top.path[k]].id = walk[k]
        BY <3>1 DEF Descends, n
      <4>2. /\ further[0] = "root" /\ \A k \in 0 .. n + 1 : further[k] \in Here
        BY <3>7, <3>9, <3>10, <4>1
      <4>3. ASSUME NEW k \in 1 .. n + 1
            PROVE  /\ path[k] \in DOMAIN existed[further[k - 1]]
                   /\ existed[further[k - 1]][path[k]].kind = "dir"
                   /\ existed[further[k - 1]][path[k]].id = further[k]
        <5>1. CASE k = n + 1
          <6>1. further[k - 1] = here /\ path[k] = name /\ further[k] = there.id
            BY <3>8, <3>9, <5>1 DEF n
          <6> QED
            BY <3>4, <3>6, <6>1
        <5>2. CASE k # n + 1
          <6>1. k \in 1 .. n /\ further[k - 1] = walk[k - 1] /\ path[k] = top.path[k] /\ further[k] = walk[k]
            BY <3>8, <3>9, <3>10, <5>2
          <6> QED
            BY <4>1, <6>1
        <5> QED
          BY <5>1, <5>2
      <4> QED
        BY <3>8, <4>2, <4>3 DEF Descends
    <3>12. g.path = path
      OBVIOUS
    <3> HIDE DEF g, path, further
    <3> QED
      BY <2>2, <3>8, <3>11, <3>12 DEF Named
  <2> HIDE DEF g
  <2>6. Sound(g)
    BY <2>2, <2>4, <2>5 DEF Sound
  <2>7. Called'
    <3>1. \A x : Sound(x) => Sound(x)'
      BY <1>4, <2>1, SoundStays
    <3>2. remover' = "v3" => opened' # "None"
      BY <1>1, <1>4, Opened
    <3> QED
      BY <1>1, <1>4, <2>6, <3>1, <3>2, TookSound, Calls DEF RInv
  <2> QED
    BY <2>1, <2>7 DEF RInv
<1> QED
  BY <1>2, <1>3, <1>4

\* An empty directory is taken out of the one that holds it, and the call returns.
LEMMA RmdirRInv == RInv /\ Rm!Rmdir => RInv'
<1> SUFFICES ASSUME RInv, Rm!Rmdir PROVE RInv'
  OBVIOUS
<1> DEFINE top == Rm!Top
           dir == IF remover = "v3" /\ Len(calls) > 1 THEN calls[2].fd ELSE Rm!Resolve(Rm!Dirname(top.path))
           name == Rm!Basename(top.path)
<1>1. /\ result = "running" /\ top.scanned
      /\ calls # <<>> /\ Sound(top) /\ top = Head(calls)
  BY TopSound DEF Rm!Rmdir
<1>2. \/ Rm!Fail
      \/ /\ Rm!Entry(dir, name).kind = "dir" /\ Rm!Without(dir, name)
         /\ calls' = Tail(calls)
         /\ result' = IF Len(calls) = 1 THEN "done" ELSE result
         /\ UNCHANGED <<remover, existed, changes, opened>>
         /\ DOMAIN tree[Rm!Entry(dir, name).id] = {}
  BY DEF Rm!Rmdir
<1>3. CASE Rm!Fail
  BY <1>1, <1>3, FailRInv
<1>4. ASSUME Rm!Entry(dir, name).kind = "dir", Rm!Without(dir, name), calls' = Tail(calls),
             result' = IF Len(calls) = 1 THEN "done" ELSE result,
             UNCHANGED <<remover, existed, changes, opened>>,
             DOMAIN tree[Rm!Entry(dir, name).id] = {}
      PROVE  RInv'
  <2>1. PICK S : calls \in Seq(S) /\ \A x \in S : Sound(x)
    BY DEF RInv, Called
  <2>2. /\ Tail(calls) \in Seq(S) /\ Len(calls) \in Nat /\ Len(calls) > 0
        /\ Len(Tail(calls)) = Len(calls) - 1
        /\ \A j \in 1 .. Len(Tail(calls)) : Tail(calls)[j] = calls[j + 1]
        /\ Head(calls) = calls[1]
    BY <1>1, <2>1, HeadTailProperties, LenProperties, EmptySeq
  <2>3. /\ dir # "None" /\ name \in DOMAIN tree[dir] /\ Rm!Entry(dir, name) = tree[dir][name]
        /\ Outside \subseteq DOMAIN existed /\ DOMAIN tree = DOMAIN existed
    BY <1>4, TreeShape DEF Rm!Entry, Rm!EntryOf, RInv, Left
  <2>4. remover = "v3" /\ opened \notin Outside =>
          dir \notin Outside \/ (result' = "done" /\ Rm!EmptyLost')
    <3> SUFFICES ASSUME remover = "v3", opened \notin Outside, dir \in Outside
                 PROVE  result' = "done" /\ Rm!EmptyLost'
      OBVIOUS
    <3>1. ASSUME Len(calls) > 1 PROVE FALSE
      <4>1. calls[2] \in S
        BY <2>1, <2>2, <3>1, ElementOfSeq
      <4>2. Sound(calls[2])
        BY <2>1, <4>1
      <4>3. dir = calls[2].fd
        BY <3>1
      <4> HIDE DEF dir
      <4> QED
        BY <1>1, <4>2, <4>3, Opened DEF Sound, Held, Here
    <3>2. Len(calls) = 1 /\ result' = "done"
      <4> DEFINE n == Len(calls)
      <4>1. n \in Nat /\ n > 0 /\ ~ (n > 1)
        BY <2>2, <3>1
      <4> HIDE DEF n
      <4>2. n = 1
        BY <4>1
      <4> QED
        BY <1>4, <4>2 DEF n
    <3>3. name = Rm!Basename(Path)
      BY <1>1, <2>2, <3>2 DEF RInv, Called
    <3> HIDE DEF dir, name
    <3>4. \A other \in Outside : tree[other] = existed[other]
      BY <1>1 DEF RInv, Left, Rm!KeepsOutside, Rm!Intact
    <3>5. /\ tree' = [tree EXCEPT ![dir] = [x \in DOMAIN tree[dir] \ {name} |-> tree[dir][x]]]
          /\ name \in DOMAIN existed[dir] /\ tree[dir] = existed[dir]
      BY <1>4, <2>3, <3>4 DEF Rm!Without
    <3> DEFINE entry == existed[dir][name]
    <3>6. entry.kind = "dir" /\ DOMAIN tree[entry.id] = {}
      BY <1>4, <2>3, <3>5
    <3>7. entry.id \in Outside
      BY <2>3, <3>5, <3>6, TreeShape DEF RInv, Left
    <3>8. DOMAIN existed[entry.id] = {}
      BY <3>4, <3>6, <3>7
    <3>9. dir # "None"
      BY <2>3
    <3>10. Rm!EntryOf(existed, dir, name) = entry
      BY <3>5, <3>9 DEF Rm!EntryOf
    <3>11. tree'[dir] = [x \in DOMAIN existed[dir] \ {name} |-> existed[dir][x]]
      BY <2>3, <3>5
    <3>12. \A other \in Outside \ {dir} : tree'[other] = existed[other]
      BY <2>3, <3>4, <3>5
    <3> HIDE DEF entry
    <3>13. Rm!EmptyLost'
      BY <1>4, <3>3, <3>6, <3>8, <3>10, <3>11, <3>12 DEF Rm!EmptyLost
    <3> QED
      BY <3>2, <3>13
  <2>5. ASSUME Quiet, remover # "v3" PROVE dir \notin Outside
    <3>1. PICK walk : Descends(walk, top.path)
      BY <1>1, <2>5 DEF Sound, Named
    <3>2. top.path \in Seq(Names) /\ top.path # <<>>
      BY <1>1, <2>5 DEF Sound, Named
    <3> DEFINE n == Len(top.path) - 1
               front == Rm!Dirname(top.path)
    <3>3. n \in Nat /\ n + 1 = Len(top.path)
      BY <3>2, LenProperties, EmptySeq
    <3>4. Len(front) = n /\ \A k \in 1 .. n : front[k] = top.path[k]
      BY <3>2, <3>3 DEF Rm!Dirname
    <3>5. \A k \in 0 .. n : k \in 0 .. Len(top.path)
      BY <3>3
    <3>6. \A k \in 1 .. n : k \in 1 .. Len(top.path)
      BY <3>3
    <3>7. Descends(walk, front)
      <4> HIDE DEF front, n
      <4> QED
        BY <3>1, <3>4, <3>5, <3>6 DEF Descends
    <3>8. dir = Rm!Resolve(front)
      BY <2>5
    <3> HIDE DEF front, n, dir
    <3> QED
      BY <2>3, <2>5, <3>3, <3>4, <3>7, <3>8, Leads DEF RInv, Here
  <2>6. ASSUME Quiet, remover = "v3" PROVE dir \notin Outside
    <3>1. opened \notin Outside
      BY <2>6 DEF RInv, Left
    <3>2. CASE Len(calls) > 1
      <4>1. calls[2] \in S
        BY <2>1, <2>2, <3>2, ElementOfSeq
      <4>2. Sound(calls[2])
        BY <2>1, <4>1
      <4>3. dir = calls[2].fd
        BY <2>6, <3>2
      <4> HIDE DEF dir
      <4> QED
        BY <1>1, <2>6, <3>1, <4>2, <4>3, Opened DEF Sound, Held, Here
    <3>3. CASE ~ (Len(calls) > 1)
      <4> DEFINE n == Len(calls)
      <4>1. n \in Nat /\ n > 0 /\ ~ (n > 1)
        BY <2>2, <3>3
      <4> HIDE DEF n
      <4>2. n = 1
        BY <4>1
      <4>3. top.path = Path
        BY <1>1, <2>2, <4>2 DEF RInv, Called, n
      <4>4. dir = Rm!Resolve(Rm!Dirname(Path))
        BY <3>3, <4>3
      <4> HIDE DEF dir
      <4> QED
        BY <2>3, <2>6, <4>4, PathInside DEF RInv, Here
    <3> QED
      BY <3>2, <3>3
  <2> HIDE DEF dir, name
  <2>7. Left' /\ (Quiet' <=> Quiet)
    BY <1>1, <1>4, <2>4, <2>5, <2>6, Shrinks DEF RInv
  <2>8. \A x \in S : Sound(x)'
    BY <1>4, <2>1, <2>7, SoundStays
  <2>9. calls' # <<>> => calls'[Len(calls')].path = Path
    <3> SUFFICES ASSUME Tail(calls) # <<>> PROVE Tail(calls)[Len(Tail(calls))].path = Path
      BY <1>4
    <3>1. Len(Tail(calls)) \in 1 .. Len(Tail(calls))
      BY <2>2, EmptySeq, LenProperties
    <3>2. Tail(calls)[Len(Tail(calls))] = calls[Len(calls)]
      BY <2>2, <3>1
    <3> QED
      BY <1>1, <3>2 DEF RInv, Called
  <2>10. result' = "running" => calls' # <<>>
    <3>1. Len(calls) # 1 => Len(Tail(calls)) # 0
      BY <2>2
    <3>2. Len(<<>>) = 0
      OBVIOUS
    <3> QED
      BY <1>4, <3>1, <3>2
  <2>11. ~ (remover' = "v3" /\ opened' = "None")
    BY <1>1, <1>4, Opened
  <2>12. Called'
    BY <1>4, <2>2, <2>8, <2>9, <2>10, <2>11 DEF Called
  <2> QED
    BY <2>7, <2>12 DEF RInv
<1> QED
  BY <1>2, <1>3, <1>4

\* A single file is taken out of the directory that has the argument.
LEMMA StatRInv == RInv /\ Rm!Stat => RInv'
<1> SUFFICES ASSUME RInv, Rm!Stat PROVE RInv'
  OBVIOUS
<1> DEFINE dir == Rm!Resolve(Rm!Dirname(Path))
           name == Rm!Basename(Path)
<1>1. result = "running" /\ remover = "rmrf"
  BY DEF Rm!Stat, Rm!Scanning, Rm!Plain
<1>2. \/ Rm!Fail
      \/ Rm!Without(dir, name) /\ result' = "done" /\ UNCHANGED <<remover, existed, calls, changes, opened>>
  BY DEF Rm!Stat
<1>3. Quiet => dir \notin Outside
  BY PathInside, TreeShape DEF RInv, Left, Here
<1> HIDE DEF dir, name
<1>4. CASE Rm!Fail
  BY <1>1, <1>4, FailRInv
<1>5. CASE ~ Rm!Fail
  <2>1. Left' /\ (Quiet' <=> Quiet)
    BY <1>1, <1>2, <1>3, <1>5, Shrinks DEF RInv
  <2>2. \A x : Sound(x) => Sound(x)'
    BY <1>2, <1>5, <2>1, SoundStays
  <2>3. Called'
    BY <1>2, <1>5, <2>2 DEF RInv, Called
  <2> QED
    BY <2>1, <2>3 DEF RInv
<1> QED
  BY <1>4, <1>5

\* Another process puts a file or a link into a directory that is not outside.
LEMMA ChangeRInv ==
  ASSUME RInv, NEW dir \in DOMAIN tree \ Outside, NEW name, NEW entry \in Rm!Planted,
         Rm!Change(dir, name, entry)
  PROVE  RInv'
<1>1. /\ changes \in Nat /\ changes' = changes + 1 /\ result = "running"
      /\ UNCHANGED <<remover, existed, calls, opened, result>>
      /\ tree' = [tree EXCEPT ![dir] =
                    [x \in {name} \cup DOMAIN tree[dir] |-> IF x = name THEN entry ELSE tree[dir][x]]]
  BY DEF RInv, Left, Rm!Change
<1>2. changes' \in Nat /\ ~ Quiet'
  <2>1. changes + 1 \in Nat /\ changes + 1 # 0
    BY <1>1
  <2> QED
    BY <1>1, <2>1 DEF Quiet
<1>3. /\ DOMAIN tree = DOMAIN existed /\ Outside \subseteq DOMAIN tree
      /\ entry.id \in {"None"} \cup DOMAIN tree /\ entry.kind # "dir"
  <2>1. DOMAIN tree = DOMAIN existed /\ Outside \subseteq DOMAIN tree
    BY TreeShape DEF RInv, Left
  <2>2. entry = [kind |-> "reg", id |-> "None"] \/ entry \in [kind : {"lnk"}, id : Outside]
    BY DEF Rm!Planted
  <2> QED
    BY <2>1, <2>2
<1>4. DOMAIN tree' = DOMAIN tree /\ \A d \in Outside : tree'[d] = tree[d]
  BY <1>1, <1>3
<1>5. \A d \in DOMAIN tree : \A x \in DOMAIN tree'[d] :
        tree'[d][x] = entry \/ (x \in DOMAIN tree[d] /\ tree'[d][x] = tree[d][x])
  <2> SUFFICES ASSUME NEW d \in DOMAIN tree, NEW x \in DOMAIN tree'[d]
               PROVE  tree'[d][x] = entry \/ (x \in DOMAIN tree[d] /\ tree'[d][x] = tree[d][x])
    OBVIOUS
  <2>1. CASE d # dir
    BY <1>1, <2>1
  <2>2. CASE d = dir
    <3>1. tree'[d] = [y \in {name} \cup DOMAIN tree[d] |-> IF y = name THEN entry ELSE tree[d][y]]
      BY <1>1, <2>2
    <3> QED
      BY <3>1
  <2> QED
    BY <2>1, <2>2
<1>6. Left'
  <2>1. \A d \in DOMAIN tree' : \A x \in DOMAIN tree'[d] :
          /\ tree'[d][x].id \in {"None"} \cup DOMAIN tree'
          /\ d \notin Outside /\ tree'[d][x].kind = "dir" => tree'[d][x].id \in Here' \ {"root"}
    <3>1. Here' = Here
      BY <1>1 DEF Here
    <3> QED
      BY <1>3, <1>4, <1>5, <3>1 DEF RInv, Left
  <2>2. Rm!KeepsOutside'
    <3>1. changes' # 0
      BY <1>1
    <3>2. remover = "v3" /\ opened \notin Outside => Rm!Intact
      BY <1>1 DEF RInv, Left, Rm!KeepsOutside
    <3>3. Rm!Intact => Rm!Intact'
      BY <1>1, <1>4 DEF Rm!Intact
    <3> QED
      BY <1>1, <3>1, <3>2, <3>3 DEF Rm!KeepsOutside
  <2>3. existed' \in Trees /\ DOMAIN tree' = DOMAIN existed'
    BY <1>1, <1>3, <1>4 DEF RInv, Left
  <2> QED
    BY <1>2, <2>1, <2>2, <2>3 DEF Left
<1>7. Called'
  BY <1>1, <1>2, SoundStays DEF RInv, Called
<1> QED
  BY <1>6, <1>7 DEF RInv

\* Every step of the removal and of the other process keeps the invariant.
LEMMA NextRInv == RInv /\ [Rm!Next]_(Rm!vars) => RInv'
<1> SUFFICES ASSUME RInv, [Rm!Next]_(Rm!vars) PROVE RInv'
  OBVIOUS
<1>1. CASE UNCHANGED Rm!vars
  <2>1. UNCHANGED <<remover, existed, tree, calls, result, changes, opened>>
    BY <1>1 DEF Rm!vars
  <2>2. Left' /\ (Quiet' <=> Quiet)
    BY <2>1, LeftStays DEF RInv
  <2>3. Called'
    BY <2>1, <2>2, SoundStays DEF RInv, Called
  <2> QED
    BY <2>2, <2>3 DEF RInv
<1>2. CASE Rm!remove_file_or_dir
  BY <1>2, StatRInv, ScanRInv DEF Rm!remove_file_or_dir
<1>3. CASE result = "running" /\ Rm!remove_dir
  <2>1. ASSUME NEW name, Rm!RemoveFile(name) PROVE RInv'
    BY <1>3, <2>1, FailRInv, UnlinkRInv DEF Rm!RemoveFile, Rm!Pick
  <2> QED
    BY <1>3, <2>1, RmdirRInv, RemoveDirRInv DEF Rm!remove_dir
<1>4. ASSUME NEW dir \in DOMAIN tree \ Outside, NEW name \in Rm!AllNames, NEW entry \in Rm!Planted,
             Rm!Change(dir, name, entry)
      PROVE  RInv'
  BY <1>4, ChangeRInv
<1> QED
  BY <1>1, <1>2, <1>3, <1>4 DEF Rm!Next, Rm!Step

-----------------------------------------------------------------------------
\* In the composition: a copy changes nothing that was there before; a removal changes nothing
\* outside its argument when no other process does anything and no link is followed, and v3,
\* whatever is put into the tree or above it meanwhile, at most takes out one empty directory by
\* its last rmdir, unless a link above the argument led it outside when it opened that.
THEOREM KeepsOthersTheorem == MCSpec => []KeepsOthers
<1> DEFINE Both == CpInv /\ RInv
<1>1. MCInit => Both
  <2>1. Cp!Init => CpInv
    BY DEF Cp!Init, CpInv, Cp!KeepsExisting, IsNew
  <2> QED
    BY <2>1, InitRInv DEF MCInit
<1>2. Both /\ [MCNext]_MCVars => Both'
  <2>1. MCNext => [Cp!Next]_(Cp!vars) /\ [Rm!Next]_(Rm!vars)
    BY DEF MCNext, copyVars, removeVars, Cp!vars, Cp!options, Rm!vars
  <2>2. UNCHANGED MCVars => UNCHANGED Cp!vars /\ UNCHANGED Rm!vars
    BY DEF MCVars, copyVars, removeVars, Cp!vars, Cp!options, Rm!vars
  <2> QED
    BY <2>1, <2>2, NextCpInv, NextRInv
<1>3. Both => KeepsOthers
  BY DEF CpInv, RInv, Left, KeepsOthers
<1> HIDE DEF Both
<1> QED
  BY <1>1, <1>2, <1>3, PTL DEF MCSpec

-----------------------------------------------------------------------------
(* Reading by lines.                                                       *)

\* the bytes of the files
Text == UNION { Range(f) : f \in Contents }

\* What is read is a sequence of bytes.
LEMMA ContentsText == Contents \subseteq Seq(Text)
<1> SUFFICES ASSUME NEW f \in Contents PROVE f \in Seq(Text)
  OBVIOUS
<1>1. f \in Seq(Range(f))
  BY ReadersAssumption
<1>2. \A k \in 1 .. Len(f) : f[k] \in Text
  BY <1>1 DEF Text, Range
<1> QED
  BY <1>1, <1>2

\* Equal sequences have the same length and elements.
LEMMA SameSeq ==
  ASSUME NEW S, NEW t \in Seq(S), NEW u \in Seq(S), Len(t) = Len(u),
         \A k \in 1 .. Len(t) : t[k] = u[k]
  PROVE  t = u
BY SMT

\* the parts of a sequence
LEMMA Part ==
  ASSUME NEW S, NEW t \in Seq(S), NEW m \in Nat \ {0}, NEW n \in Nat, n <= Len(t)
  PROVE  /\ SubSeq(t, m, n) \in Seq(S)
         /\ Len(SubSeq(t, m, n)) = IF m <= n THEN n - m + 1 ELSE 0
         /\ \A k \in 1 .. Len(SubSeq(t, m, n)) : SubSeq(t, m, n)[k] = t[m + k - 1]
<1>1. \A k \in m .. n : t[k] \in S
  OBVIOUS
<1> QED
  BY <1>1, SubSeqProperties, SMT

\* joining two sequences
LEMMA Joined ==
  ASSUME NEW S, NEW t \in Seq(S), NEW u \in Seq(S)
  PROVE  /\ t \o u \in Seq(S) /\ Len(t \o u) = Len(t) + Len(u)
         /\ \A i \in 1 .. Len(t) : (t \o u)[i] = t[i]
         /\ \A i \in Len(t) + 1 .. Len(t) + Len(u) : (t \o u)[i] = u[i - Len(t)]
<1>1. /\ t \o u \in Seq(S) /\ Len(t \o u) = Len(t) + Len(u) /\ Len(t) \in Nat /\ Len(u) \in Nat
      /\ \A i \in 1 .. Len(t) + Len(u) : (t \o u)[i] = IF i <= Len(t) THEN t[i] ELSE u[i - Len(t)]
  BY ConcatProperties
<1> QED
  BY <1>1

\* a read moves bytes from the file to the end of the buffer
LEMMA Moved ==
  ASSUME NEW S, NEW t \in Seq(S), NEW u \in Seq(S), NEW k \in 1 .. Len(u)
  PROVE  /\ t \o SubSeq(u, 1, k) \in Seq(S) /\ SubSeq(u, k + 1, Len(u)) \in Seq(S)
         /\ (t \o SubSeq(u, 1, k)) \o SubSeq(u, k + 1, Len(u)) = t \o u
<1> DEFINE a == SubSeq(u, 1, k)
           b == SubSeq(u, k + 1, Len(u))
           c == t \o a
           d == c \o b
           e == t \o u
<1>1. a \in Seq(S) /\ Len(a) = k /\ \A i \in 1 .. k : a[i] = u[i]
  BY Part
<1>2. b \in Seq(S) /\ Len(b) = Len(u) - k /\ \A i \in 1 .. Len(u) - k : b[i] = u[k + i]
  BY Part
<1> HIDE DEF a, b
<1>3. /\ c \in Seq(S) /\ Len(c) = Len(t) + Len(a)
      /\ \A i \in 1 .. Len(t) : c[i] = t[i]
      /\ \A i \in Len(t) + 1 .. Len(t) + Len(a) : c[i] = a[i - Len(t)]
  <2>1. a \in Seq(S) /\ t \in Seq(S) /\ c = t \o a
    BY <1>1
  <2> HIDE DEF c
  <2> QED
    BY <2>1, Joined
<1>4. /\ d \in Seq(S) /\ Len(d) = Len(c) + Len(b)
      /\ \A i \in 1 .. Len(c) : d[i] = c[i]
      /\ \A i \in Len(c) + 1 .. Len(c) + Len(b) : d[i] = b[i - Len(c)]
  <2>1. c \in Seq(S) /\ b \in Seq(S) /\ d = c \o b
    BY <1>2, <1>3
  <2> HIDE DEF c, d
  <2> QED
    BY <2>1, Joined
<1>5. /\ e \in Seq(S) /\ Len(e) = Len(t) + Len(u)
      /\ \A i \in 1 .. Len(t) : e[i] = t[i]
      /\ \A i \in Len(t) + 1 .. Len(t) + Len(u) : e[i] = u[i - Len(t)]
  <2>1. e = t \o u
    OBVIOUS
  <2> HIDE DEF e
  <2> QED
    BY <2>1, Joined
<1> HIDE DEF c, d, e
<1>6. Len(t) \in Nat /\ Len(u) \in Nat /\ k \in Nat /\ k <= Len(u)
  OBVIOUS
<1>7. Len(d) = Len(e)
  BY <1>1, <1>2, <1>3, <1>4, <1>5, <1>6
<1>8. ASSUME NEW i \in 1 .. Len(e) PROVE d[i] = e[i]
  <2>1. CASE i <= Len(t)
    BY <1>1, <1>2, <1>3, <1>4, <1>5, <1>6, <2>1
  <2>2. CASE Len(t) < i /\ i <= Len(t) + k
    <3>1. d[i] = c[i] /\ c[i] = a[i - Len(t)] /\ e[i] = u[i - Len(t)]
      BY <1>1, <1>2, <1>3, <1>4, <1>5, <1>6, <2>2
    <3>2. i - Len(t) \in 1 .. k
      BY <1>5, <1>6, <2>2
    <3> QED
      BY <1>1, <3>1, <3>2
  <2>3. CASE Len(t) + k < i
    <3>1. d[i] = b[i - Len(c)] /\ e[i] = u[i - Len(t)]
      <4>1. i \in Len(c) + 1 .. Len(c) + Len(b) /\ i \in Len(t) + 1 .. Len(t) + Len(u)
        BY <1>1, <1>2, <1>3, <1>5, <1>6, <2>3
      <4> QED
        BY <1>4, <1>5, <4>1
    <3>2. i - Len(c) \in 1 .. Len(u) - k /\ k + (i - Len(c)) = i - Len(t)
      BY <1>1, <1>3, <1>5, <1>6, <2>3
    <3> QED
      BY <1>2, <3>1, <3>2
  <2> QED
    BY <1>5, <1>6, <2>1, <2>2, <2>3
<1>9. d = e
  BY <1>4, <1>5, <1>7, <1>8, SameSeq
<1> QED
  BY <1>2, <1>3, <1>9 DEF a, b, c, d, e

\* a line is taken from the buffer, the rest of which stays before the unread bytes
LEMMA Cut ==
  ASSUME NEW S, NEW t \in Seq(S), NEW u \in Seq(S), NEW n \in 1 .. Len(t)
  PROVE  /\ t \o u \in Seq(S) /\ Len(t \o u) = Len(t) + Len(u)
         /\ \A k \in 1 .. Len(t) : (t \o u)[k] = t[k]
         /\ SubSeq(t \o u, 1, n) = SubSeq(t, 1, n)
         /\ SubSeq(t \o u, n + 1, Len(t \o u)) = SubSeq(t, n + 1, Len(t)) \o u
<1> SUFFICES ASSUME NEW r, r = t \o u
             PROVE  /\ r \in Seq(S) /\ Len(r) = Len(t) + Len(u)
                    /\ \A k \in 1 .. Len(t) : r[k] = t[k]
                    /\ SubSeq(r, 1, n) = SubSeq(t, 1, n)
                    /\ SubSeq(r, n + 1, Len(r)) = SubSeq(t, n + 1, Len(t)) \o u
  OBVIOUS
<1> DEFINE a == SubSeq(t, n + 1, Len(t))
           b == SubSeq(r, n + 1, Len(r))
           c == a \o u
           d == SubSeq(r, 1, n)
           e == SubSeq(t, 1, n)
<1>1. /\ r \in Seq(S) /\ Len(r) = Len(t) + Len(u)
      /\ \A i \in 1 .. Len(t) : r[i] = t[i]
      /\ \A i \in Len(t) + 1 .. Len(t) + Len(u) : r[i] = u[i - Len(t)]
  BY Joined
<1>2. /\ Len(t) \in Nat /\ Len(u) \in Nat /\ Len(r) \in Nat /\ n \in Nat /\ n + 1 \in Nat \ {0}
      /\ 1 <= n /\ n <= Len(t) /\ n <= Len(r) /\ 1 \in Nat \ {0} /\ Len(r) <= Len(r)
  BY <1>1
<1>3. a \in Seq(S) /\ Len(a) = Len(t) - n /\ \A i \in 1 .. Len(t) - n : a[i] = t[n + i]
  BY Part
<1>4. /\ b \in Seq(S) /\ Len(b) = IF n + 1 <= Len(r) THEN Len(r) - (n + 1) + 1 ELSE 0
      /\ \A i \in 1 .. Len(b) : b[i] = r[n + 1 + i - 1]
  BY <1>1, <1>2, Part
<1>5. d \in Seq(S) /\ Len(d) = n /\ \A i \in 1 .. Len(d) : d[i] = r[1 + i - 1]
  <2>1. /\ d \in Seq(S) /\ Len(d) = IF 1 <= n THEN n - 1 + 1 ELSE 0
        /\ \A i \in 1 .. Len(d) : d[i] = r[1 + i - 1]
    BY <1>1, <1>2, Part
  <2> QED
    BY <1>2, <2>1
<1>6. e \in Seq(S) /\ Len(e) = n /\ \A i \in 1 .. n : e[i] = t[i]
  BY Part
<1> HIDE DEF a
<1>7. /\ c \in Seq(S) /\ Len(c) = Len(a) + Len(u)
      /\ \A i \in 1 .. Len(a) : c[i] = a[i]
      /\ \A i \in Len(a) + 1 .. Len(a) + Len(u) : c[i] = u[i - Len(a)]
  <2>1. c = a \o u
    OBVIOUS
  <2>2. a \in Seq(S) /\ u \in Seq(S)
    BY <1>3
  <2> HIDE DEF c
  <2> QED
    BY <2>1, <2>2, Joined
<1> HIDE DEF b, c, d, e
<1>8. b = c
  <2>1. Len(b) = Len(c) /\ Len(c) = Len(t) - n + Len(u)
    BY <1>1, <1>2, <1>3, <1>4, <1>7
  <2>2. ASSUME NEW i \in 1 .. Len(b) PROVE b[i] = c[i]
    <3>1. b[i] = r[n + i] /\ i \in Nat /\ 1 <= i /\ i <= Len(t) - n + Len(u)
      <4>1. i \in Nat /\ 1 <= i /\ i <= Len(t) - n + Len(u) /\ n + 1 + i - 1 = n + i
        BY <1>2, <2>1
      <4> QED
        BY <1>4, <4>1
    <3>2. CASE n + i <= Len(t)
      BY <1>1, <1>2, <1>3, <1>7, <3>1, <3>2
    <3>3. CASE n + i > Len(t)
      <4>1. b[i] = u[n + i - Len(t)]
        BY <1>1, <1>2, <3>1, <3>3
      <4>2. c[i] = u[i - Len(a)] /\ i - Len(a) = n + i - Len(t)
        BY <1>2, <1>3, <1>7, <3>1, <3>3
      <4> QED
        BY <4>1, <4>2
    <3> QED
      BY <1>2, <3>1, <3>2, <3>3
  <2> QED
    BY <1>4, <1>7, <2>1, <2>2, SameSeq
<1>9. d = e
  <2>1. \A i \in 1 .. Len(d) : d[i] = e[i]
    BY <1>1, <1>2, <1>5, <1>6
  <2> QED
    BY <1>5, <1>6, <2>1, SameSeq
<1> QED
  BY <1>1, <1>8, <1>9 DEF a, b, c, d, e

\* n is the place of the first newline of t, or zero
FirstIn(t, n) ==
  /\ n \in 0 .. Len(t)
  /\ n > 0 => t[n] = "nl"
  /\ \A k \in 1 .. Len(t) : (n = 0 \/ k < n) => t[k] # "nl"

\* the places of newlines, and the least of them or zero
Newlines(t) == { k \in 1 .. Len(t) : t[k] = "nl" }
LeastOf(I) == IF I # {} THEN CHOOSE x \in I : \A y \in I : x =< y ELSE 0

\* The least of the places of newlines is the first one.
LEMMA FirstNewline == ASSUME NEW t \in Seq(Text) PROVE FirstIn(t, LeastOf(Newlines(t)))
<1> DEFINE I == Newlines(t)
           n == LeastOf(I)
<1> SUFFICES FirstIn(t, n)
  OBVIOUS
<1>1. Len(t) \in Nat /\ I \subseteq Nat /\ I = { k \in 1 .. Len(t) : t[k] = "nl" }
  BY DEF Newlines
<1>2. CASE I = {}
  <2>1. n = 0
    BY <1>2 DEF LeastOf
  <2>2. \A k \in 1 .. Len(t) : t[k] # "nl"
    BY <1>1, <1>2
  <2> HIDE DEF n
  <2> QED
    BY <1>1, <2>1, <2>2 DEF FirstIn
<1>3. CASE I # {}
  <2>1. PICK m \in I : \A k \in I : m <= k
    BY <1>1, <1>3, Least
  <2>2. n \in I /\ \A k \in I : n <= k
    BY <2>1, <1>3 DEF LeastOf
  <2> HIDE DEF n
  <2>3. n \in 1 .. Len(t) /\ n \in Nat /\ n > 0 /\ t[n] = "nl"
    BY <1>1, <2>2
  <2>4. ASSUME NEW k \in 1 .. Len(t), k < n, t[k] = "nl" PROVE FALSE
    <3>1. k \in I /\ k \in Nat
      BY <1>1, <2>4
    <3> QED
      BY <2>2, <2>3, <2>4, <3>1
  <2>5. n \in 0 .. Len(t) /\ n # 0
    BY <1>1, <2>3
  <2> QED
    BY <2>3, <2>4, <2>5 DEF FirstIn
<1> QED
  BY <1>2, <1>3

\* where the Python class finds the newline
LEMMA PyFinds == ASSUME buffer \in Seq(Text) PROVE FirstIn(buffer, Py!NewlineEnd)
<1>1. Py!NewlineEnd = LeastOf(Newlines(buffer))
  BY DEF Py!NewlineEnd, LeastOf, Newlines
<1> QED
  BY <1>1, FirstNewline

\* where the C function finds the newline
LEMMA CFinds == ASSUME NEW t \in Seq(Text) PROVE FirstIn(t, C!Find(t))
<1>1. C!Find(t) = LeastOf(Newlines(t))
  BY DEF C!Find, LeastOf, Newlines
<1> QED
  BY <1>1, FirstNewline

-----------------------------------------------------------------------------
(* The Python class.                                                       *)

\* what was read and not returned yet; nothing is read after the end of the file
PyInv ==
  /\ unread \in Seq(Text) /\ buffer \in Seq(Text)
  /\ eof \in BOOLEAN /\ (eof => unread = <<>>)

\* At first the buffer is empty.
LEMMA InitPyInv == Py!Init => PyInv
<1> SUFFICES ASSUME Py!Init PROVE PyInv
  OBVIOUS
<1>1. unread \in Seq(Text)
  BY ContentsText DEF Py!Init
<1>2. buffer = <<>> /\ eof = FALSE /\ <<>> \in Seq(Text)
  BY DEF Py!Init
<1> QED
  BY <1>1, <1>2 DEF PyInv

\* The line returned is the next one of those of the file, or nothing is returned.
LEMMA PyStep ==
  PyInv /\ [Py!Next]_pyVars => PyInv' /\ [Py!Reference!NextLine]_(Py!Reference!vars)
<1> SUFFICES ASSUME PyInv, [Py!Next]_pyVars
             PROVE  PyInv' /\ [Py!Reference!NextLine]_(Py!Reference!vars)
  OBVIOUS
<1> DEFINE rest == buffer \o unread
<1>1. CASE UNCHANGED pyVars
  BY <1>1 DEF pyVars, PyInv, Py!Reference!vars
<1>2. CASE Py!CallReadLine
  BY <1>2 DEF Py!CallReadLine, PyInv, Py!Reference!vars
<1>3. CASE Py!ReadIntoBuffer
  <2>1. CASE unread = <<>> /\ eof' = TRUE /\ UNCHANGED <<unread, buffer>>
    BY <1>3, <2>1 DEF Py!ReadIntoBuffer, PyInv, Py!Reference!vars
  <2>2. CASE /\ \E k \in 1 .. chunk_size :
                  /\ k <= Len(unread)
                  /\ buffer' = buffer \o SubSeq(unread, 1, k)
                  /\ unread' = SubSeq(unread, k + 1, Len(unread))
             /\ UNCHANGED eof
    <3>1. PICK k \in 1 .. Len(unread) : /\ buffer' = buffer \o SubSeq(unread, 1, k)
                                        /\ unread' = SubSeq(unread, k + 1, Len(unread))
      <4>1. PICK k \in 1 .. chunk_size : /\ k <= Len(unread)
                                         /\ buffer' = buffer \o SubSeq(unread, 1, k)
                                         /\ unread' = SubSeq(unread, k + 1, Len(unread))
        BY <2>2
      <4>2. k \in 1 .. Len(unread)
        BY <4>1, ReadersAssumption DEF PyInv
      <4> QED
        BY <4>1, <4>2
    <3>2. buffer' \in Seq(Text) /\ unread' \in Seq(Text) /\ buffer' \o unread' = buffer \o unread
      <4>1. buffer \in Seq(Text) /\ unread \in Seq(Text)
        BY DEF PyInv
      <4>2. /\ buffer \o SubSeq(unread, 1, k) \in Seq(Text)
            /\ SubSeq(unread, k + 1, Len(unread)) \in Seq(Text)
            /\ (buffer \o SubSeq(unread, 1, k)) \o SubSeq(unread, k + 1, Len(unread))
                 = buffer \o unread
        <5>1. \A t, u \in Seq(Text) : \A i \in 1 .. Len(u) :
                /\ t \o SubSeq(u, 1, i) \in Seq(Text) /\ SubSeq(u, i + 1, Len(u)) \in Seq(Text)
                /\ (t \o SubSeq(u, 1, i)) \o SubSeq(u, i + 1, Len(u)) = t \o u
          BY Moved
        <5> QED
          BY <4>1, <5>1
      <4> QED
        BY <3>1, <4>2
    <3>3. UNCHANGED pyLines /\ ~ eof /\ eof' = eof
      BY <1>3, <2>2 DEF Py!ReadIntoBuffer
    <3> QED
      BY <3>2, <3>3 DEF PyInv, Py!Reference!vars
  <2> QED
    BY <1>3, <2>1, <2>2 DEF Py!ReadIntoBuffer
<1>4. ASSUME NEW n \in 1 .. Len(buffer), Py!Consume(n), UNCHANGED <<unread, eof>>,
             \A k \in 1 .. n - 1 : buffer[k] # "nl",
             buffer[n] = "nl" \/ (n = Len(buffer) /\ unread = <<>>)
      PROVE  PyInv' /\ Py!Reference!NextLine
  <2>1. /\ rest \in Seq(Text) /\ Len(rest) = Len(buffer) + Len(unread)
        /\ \A k \in 1 .. Len(buffer) : rest[k] = buffer[k]
        /\ SubSeq(rest, 1, n) = SubSeq(buffer, 1, n)
        /\ SubSeq(rest, n + 1, Len(rest)) = SubSeq(buffer, n + 1, Len(buffer)) \o unread
    BY Cut DEF PyInv
  <2>2. /\ SubSeq(buffer, n + 1, Len(buffer)) \in Seq(Text)
        /\ SubSeq(buffer, 1, n) \in Seq(Text) /\ Len(SubSeq(buffer, 1, n)) = n
    BY <1>4, Part DEF PyInv
  <2>3. buffer' = SubSeq(buffer, n + 1, Len(buffer)) /\ unread' = unread /\ eof' = eof
    BY <1>4 DEF Py!Consume
  <2>4. pyLines' = Append(pyLines, SubSeq(buffer, 1, n))
    <3>1. SubSeq(buffer, 1, n) # <<>>
      BY <1>4, <2>2
    <3> QED
      BY <1>4, <3>1 DEF Py!Consume, Py!Return
  <2>5. n \in 1 .. Len(rest) /\ Len(buffer) \in Nat /\ Len(unread) \in Nat
    BY <1>4, <2>1 DEF PyInv
  <2> HIDE DEF rest
  <2>6. rest[n] = "nl" \/ n = Len(rest)
    BY <1>4, <2>1, <2>5
  <2>7. \A k \in 1 .. n - 1 : rest[k] # "nl"
    BY <1>4, <2>1, <2>5
  <2>8. rest' = SubSeq(rest, n + 1, Len(rest))
    BY <2>1, <2>3 DEF rest
  <2>9. Py!Reference!NextLine
    BY <2>1, <2>4, <2>5, <2>6, <2>7, <2>8
    DEF Py!Reference!NextLine, Py!Reference!IsPrefixLine, Py!Reference!Returned, rest
  <2> QED
    BY <2>2, <2>3, <2>9 DEF PyInv
<1>5. CASE Py!ConsumeLine
  <2> DEFINE n == Py!NewlineEnd
  <2>1. FirstIn(buffer, n) /\ n > 0 /\ Py!Consume(n) /\ UNCHANGED <<unread, eof>>
    BY <1>5, PyFinds DEF PyInv, Py!ConsumeLine
  <2> HIDE DEF n
  <2>2. n \in 1 .. Len(buffer) /\ buffer[n] = "nl" /\ \A k \in 1 .. n - 1 : buffer[k] # "nl"
    BY <2>1 DEF FirstIn, PyInv
  <2> QED
    BY <1>4, <2>1, <2>2
<1>6. CASE Py!ConsumeRest
  <2>1. Py!Consume(Len(buffer)) /\ UNCHANGED <<unread, eof>> /\ eof /\ unread = <<>>
    BY <1>6 DEF Py!ConsumeRest, PyInv
  <2>2. \A k \in 1 .. Len(buffer) : buffer[k] # "nl"
    BY <1>6, PyFinds DEF Py!ConsumeRest, PyInv, FirstIn
  <2>3. CASE buffer = <<>>
    <3>1. SubSeq(buffer, 1, Len(buffer)) = <<>> /\ SubSeq(buffer, Len(buffer) + 1, Len(buffer)) = <<>>
      BY <2>3, SubSeqEmpty
    <3> QED
      BY <2>1, <2>3, <3>1 DEF Py!Consume, Py!Return, PyInv, Py!Reference!vars
  <2>4. CASE buffer # <<>>
    <3>1. Len(buffer) \in 1 .. Len(buffer)
      BY <2>4 DEF PyInv
    <3> QED
      BY <1>4, <2>1, <2>2, <3>1
  <2> QED
    BY <2>3, <2>4
<1> QED
  BY <1>1, <1>2, <1>3, <1>5, <1>6 DEF Py!Next

-----------------------------------------------------------------------------
(* The C function.                                                         *)

\* the string is what stands before the offset, without a newline while it is read
CInv ==
  /\ lineFile \in Seq(Text) /\ s \in Seq(Text)
  /\ offset \in Nat /\ Len(s) <= offset /\ offset <= Len(lineFile)
  /\ \A k \in 1 .. Len(s) : s[k] = lineFile[offset - Len(s) + k]
  /\ cLines \in Seq([text : Seq(Text), ended : BOOLEAN])
  /\ cPc \in {"read", "seek", "done"}
  /\ cPc = "read" => \A k \in 1 .. Len(s) : s[k] # "nl"
  /\ cPc = "seek" => lseek_offset = C!Offset(s) /\ C!Find(s) > 0

\* At first nothing was read.
LEMMA InitCInv == C!Init => CInv
<1> SUFFICES ASSUME C!Init PROVE CInv
  OBVIOUS
<1>1. lineFile \in Seq(Text)
  BY ContentsText DEF C!Init
<1>2. offset = 0 /\ s = <<>> /\ cPc = "read" /\ cLines = <<>>
  BY DEF C!Init
<1>3. s \in Seq(Text) /\ cLines \in Seq([text : Seq(Text), ended : BOOLEAN])
  BY <1>2
<1>4. Len(s) = 0 /\ Len(lineFile) \in Nat
  BY <1>1, <1>2
<1> QED
  BY <1>1, <1>2, <1>3, <1>4 DEF CInv

\* what is left of a file from a place on, and of that from a later place on
LEMMA Onward ==
  ASSUME NEW f \in Seq(Text), NEW m \in 0 .. Len(f)
  PROVE  LET r == SubSeq(f, m + 1, Len(f))
         IN  /\ r \in Seq(Text) /\ Len(r) = Len(f) - m
             /\ \A k \in 1 .. Len(r) : r[k] = f[m + k]
             /\ \A n \in 0 .. Len(r) : SubSeq(f, m + n + 1, Len(f)) = SubSeq(r, n + 1, Len(r))
<1> SUFFICES ASSUME NEW r, r = SubSeq(f, m + 1, Len(f))
             PROVE  /\ r \in Seq(Text) /\ Len(r) = Len(f) - m
                    /\ \A k \in 1 .. Len(r) : r[k] = f[m + k]
                    /\ \A n \in 0 .. Len(r) :
                         SubSeq(f, m + n + 1, Len(f)) = SubSeq(r, n + 1, Len(r))
  OBVIOUS
<1>1. Len(f) \in Nat /\ m + 1 \in Nat \ {0} /\ Len(f) <= Len(f) /\ m <= Len(f) /\ m \in Nat
  OBVIOUS
<1>2. /\ r \in Seq(Text) /\ Len(r) = IF m + 1 <= Len(f) THEN Len(f) - (m + 1) + 1 ELSE 0
      /\ \A k \in 1 .. Len(r) : r[k] = f[m + 1 + k - 1]
  BY <1>1, Part
<1>3. Len(r) = Len(f) - m /\ \A k \in 1 .. Len(r) : r[k] = f[m + k]
  <2>1. Len(r) = Len(f) - m
    BY <1>1, <1>2
  <2>2. \A k \in 1 .. Len(r) : m + 1 + k - 1 = m + k
    BY <1>1
  <2> QED
    BY <1>2, <2>1, <2>2
<1>4. ASSUME NEW n \in 0 .. Len(r)
      PROVE  SubSeq(f, m + n + 1, Len(f)) = SubSeq(r, n + 1, Len(r))
  <2> DEFINE a == SubSeq(f, m + n + 1, Len(f))
             b == SubSeq(r, n + 1, Len(r))
  <2>1. /\ m + n + 1 \in Nat \ {0} /\ n + 1 \in Nat \ {0} /\ n \in Nat
        /\ Len(r) \in Nat /\ Len(r) <= Len(r) /\ m + n <= Len(f)
    BY <1>1, <1>3
  <2>2. /\ a \in Seq(Text) /\ Len(a) = IF m + n + 1 <= Len(f) THEN Len(f) - (m + n + 1) + 1 ELSE 0
        /\ \A k \in 1 .. Len(a) : a[k] = f[m + n + 1 + k - 1]
    BY <1>1, <2>1, Part
  <2>3. /\ b \in Seq(Text) /\ Len(b) = IF n + 1 <= Len(r) THEN Len(r) - (n + 1) + 1 ELSE 0
        /\ \A k \in 1 .. Len(b) : b[k] = r[n + 1 + k - 1]
    BY <1>2, <2>1, Part
  <2> HIDE DEF a, b
  <2>4. Len(a) = Len(f) - (m + n) /\ Len(b) = Len(f) - (m + n)
    BY <1>1, <1>3, <2>1, <2>2, <2>3
  <2>5. ASSUME NEW k \in 1 .. Len(a) PROVE a[k] = b[k]
    <3>1. /\ m + n + 1 + k - 1 = m + (n + k) /\ n + 1 + k - 1 = n + k
          /\ n + k \in 1 .. Len(r) /\ k \in 1 .. Len(b)
      BY <1>1, <1>3, <2>1, <2>4
    <3>2. a[k] = f[m + (n + k)]
      BY <2>2, <3>1
    <3>3. b[k] = r[n + k]
      BY <2>3, <3>1
    <3> QED
      BY <1>3, <3>1, <3>2, <3>3
  <2> QED
    BY <2>2, <2>3, <2>4, <2>5, SameSeq DEF a, b
<1> QED
  BY <1>2, <1>3, <1>4

\* a sequence that is the beginning of another one begins as that does
LEMMA SamePrefix ==
  ASSUME NEW t \in Seq(Text), NEW u \in Seq(Text), Len(t) <= Len(u),
         \A k \in 1 .. Len(t) : t[k] = u[k], NEW n \in 0 .. Len(t)
  PROVE  SubSeq(t, 1, n) = SubSeq(u, 1, n)
<1> DEFINE a == SubSeq(t, 1, n)
           b == SubSeq(u, 1, n)
<1>1. n \in Nat /\ 1 \in Nat \ {0} /\ n <= Len(t) /\ n <= Len(u) /\ Len(t) \in Nat
  OBVIOUS
<1>2. /\ a \in Seq(Text) /\ Len(a) = IF 1 <= n THEN n - 1 + 1 ELSE 0
      /\ \A k \in 1 .. Len(a) : a[k] = t[1 + k - 1]
  BY <1>1, Part
<1>3. /\ b \in Seq(Text) /\ Len(b) = IF 1 <= n THEN n - 1 + 1 ELSE 0
      /\ \A k \in 1 .. Len(b) : b[k] = u[1 + k - 1]
  BY <1>1, Part
<1> HIDE DEF a, b
<1>4. Len(a) = n /\ Len(b) = n
  BY <1>1, <1>2, <1>3
<1>5. ASSUME NEW k \in 1 .. n PROVE a[k] = b[k]
  <2>1. 1 + k - 1 = k /\ k \in 1 .. Len(t)
    BY <1>1
  <2> QED
    BY <1>2, <1>3, <1>4, <2>1
<1> QED
  BY <1>2, <1>3, <1>4, <1>5, SameSeq DEF a, b

\* what the string and the file from there on have in common
LEMMA StringOfRest ==
  ASSUME CInv, NEW rest, rest = SubSeq(lineFile, C!LineStart + 1, Len(lineFile))
  PROVE  /\ C!LineStart \in 0 .. Len(lineFile)
         /\ Len(s) \in Nat /\ Len(rest) \in Nat /\ Len(s) <= Len(rest) /\ rest \in Seq(Text)
         /\ Len(rest) = Len(lineFile) - C!LineStart
         /\ \A k \in 1 .. Len(s) : s[k] = rest[k]
         /\ \A n \in 0 .. Len(s) : SubSeq(s, 1, n) = SubSeq(rest, 1, n)
<1> DEFINE m == C!LineStart
<1>1. /\ lineFile \in Seq(Text) /\ s \in Seq(Text) /\ Len(s) \in Nat /\ Len(lineFile) \in Nat
      /\ offset \in Nat /\ m = offset - Len(s) /\ Len(s) <= offset /\ offset <= Len(lineFile)
  BY DEF CInv, C!LineStart
<1>2. \A k \in 1 .. Len(s) : s[k] = lineFile[m + k]
  BY <1>1 DEF CInv
<1> HIDE DEF m
<1>3. m \in 0 .. Len(lineFile)
  BY <1>1
<1>4. rest = SubSeq(lineFile, m + 1, Len(lineFile))
  BY DEF m
<1>5. /\ rest \in Seq(Text) /\ Len(rest) = Len(lineFile) - m
      /\ \A k \in 1 .. Len(rest) : rest[k] = lineFile[m + k]
  <2> DEFINE r == SubSeq(lineFile, m + 1, Len(lineFile))
  <2>1. /\ r \in Seq(Text) /\ Len(r) = Len(lineFile) - m
        /\ \A k \in 1 .. Len(r) : r[k] = lineFile[m + k]
    BY <1>1, <1>3, Onward
  <2> HIDE DEF r
  <2>2. rest = r
    BY <1>4 DEF r
  <2> QED
    BY <2>1, <2>2
<1>6. Len(rest) \in Nat /\ Len(s) \in Nat /\ Len(s) <= Len(rest) /\ rest \in Seq(Text)
  BY <1>1, <1>3, <1>5
<1>7. ASSUME NEW k \in 1 .. Len(s) PROVE s[k] = rest[k]
  <2>1. k \in 1 .. Len(rest)
    BY <1>6
  <2> QED
    BY <1>2, <1>5, <2>1
<1>8. \A n \in 0 .. Len(s) : SubSeq(s, 1, n) = SubSeq(rest, 1, n)
  BY <1>1, <1>6, <1>7, SamePrefix
<1> QED
  BY <1>1, <1>3, <1>5, <1>6, <1>7, <1>8 DEF m

\* a line more
LEMMA LineAdded ==
  ASSUME CInv, NEW t \in Seq(Text), NEW b \in BOOLEAN,
         cLines' = Append(cLines, [text |-> t, ended |-> b])
  PROVE  /\ cLines' \in Seq([text : Seq(Text), ended : BOOLEAN])
         /\ C!Texts' = Append(C!Texts, t)
<1> DEFINE R == [text : Seq(Text), ended : BOOLEAN]
           l == [text |-> t, ended |-> b]
           n == Len(cLines)
           T == C!Texts
           U == C!Texts'
<1>1. cLines \in Seq(R) /\ l \in R /\ l.text = t /\ n \in Nat
  BY DEF CInv
<1> HIDE DEF R, l
<1>2. /\ cLines' \in Seq(R) /\ Len(cLines') = n + 1
      /\ \A j \in 1 .. n : cLines'[j] = cLines[j]
      /\ cLines'[n + 1] = l
  <2>1. cLines' = Append(cLines, l)
    BY DEF l
  <2> QED
    BY <1>1, <2>1, AppendProperties
<1>3. \A j \in 1 .. n : cLines[j] \in R
  BY <1>1
<1>4. \A j \in 1 .. n + 1 : cLines'[j] \in R
  BY <1>1, <1>2
<1>5. /\ T \in Seq(Seq(Text)) /\ Len(T) = n /\ \A j \in 1 .. n : T[j] = cLines[j].text
  BY <1>1, <1>3 DEF C!Texts, R
<1>6. /\ U \in Seq(Seq(Text)) /\ Len(U) = n + 1 /\ \A j \in 1 .. n + 1 : U[j] = cLines'[j].text
  BY <1>1, <1>2, <1>4 DEF C!Texts, R
<1> HIDE DEF T, U
<1> DEFINE V == Append(T, t)
<1>7. /\ V \in Seq(Seq(Text)) /\ Len(V) = n + 1
      /\ \A j \in 1 .. n : V[j] = T[j]
      /\ V[n + 1] = t
  BY <1>5, AppendProperties
<1> HIDE DEF V
<1>8. ASSUME NEW j \in 1 .. n + 1 PROVE U[j] = V[j]
  <2>1. CASE j = n + 1
    BY <1>1, <1>2, <1>6, <1>7, <2>1
  <2>2. CASE j \in 1 .. n
    BY <1>2, <1>5, <1>6, <1>7, <2>2
  <2> QED
    BY <1>1, <2>1, <2>2
<1>9. U = V
  BY <1>6, <1>7, <1>8, SameSeq
<1> QED
  BY <1>2, <1>9 DEF R, T, U, V

\* A line is returned, and the file goes on behind it.
LEMMA Advance ==
  ASSUME CInv, NEW n \in 1 .. Len(SubSeq(lineFile, C!LineStart + 1, Len(lineFile))), n <= Len(s),
         \A k \in 1 .. n - 1 : s[k] # "nl",
         s[n] = "nl" \/ (n = Len(s) /\ offset = Len(lineFile)),
         C!Texts' = Append(C!Texts, SubSeq(s, 1, IF s[n] # "nl" THEN n ELSE n - 1)),
         lineFile' = lineFile, C!LineStart' = C!LineStart + n
  PROVE  C!Reference!NextLine
<1> DEFINE m == C!LineStart
           rest == SubSeq(lineFile, m + 1, Len(lineFile))
           l == IF s[n] # "nl" THEN n ELSE n - 1
<1>1. /\ m \in 0 .. Len(lineFile)
      /\ Len(s) \in Nat /\ Len(rest) \in Nat /\ Len(s) <= Len(rest) /\ rest \in Seq(Text)
      /\ Len(rest) = Len(lineFile) - m
      /\ \A k \in 1 .. Len(s) : s[k] = rest[k]
      /\ \A k \in 0 .. Len(s) : SubSeq(s, 1, k) = SubSeq(rest, 1, k)
  BY StringOfRest
<1>2. m = offset - Len(s) /\ offset \in Nat /\ Len(lineFile) \in Nat /\ lineFile \in Seq(Text)
  BY DEF CInv, C!LineStart
<1>3. SubSeq(lineFile, m + n + 1, Len(lineFile)) = SubSeq(rest, n + 1, Len(rest))
  <2>1. n \in 0 .. Len(rest)
    BY <1>1
  <2> HIDE DEF m
  <2> QED
    BY <1>1, <1>2, <2>1, Onward
<1>4. rest' = SubSeq(lineFile, m + n + 1, Len(lineFile))
  OBVIOUS
<1> HIDE DEF rest
<1>5. n \in 1 .. Len(rest) /\ n \in 1 .. Len(s)
  BY <1>1 DEF rest
<1>6. (rest[n] # "nl") <=> (s[n] # "nl")
  BY <1>1, <1>5
<1>7. rest[n] = "nl" \/ n = Len(rest)
  <2>1. CASE s[n] = "nl"
    BY <1>6, <2>1
  <2>2. CASE n = Len(s) /\ offset = Len(lineFile)
    BY <1>1, <1>2, <2>2
  <2> QED
    BY <2>1, <2>2
<1>8. \A k \in 1 .. n - 1 : rest[k] # "nl"
  <2>1. \A k \in 1 .. n - 1 : k \in 1 .. Len(s)
    BY <1>1, <1>5
  <2> QED
    BY <1>1, <2>1
<1>9. C!Texts' = Append(C!Texts, SubSeq(rest, 1, IF rest[n] # "nl" THEN n ELSE n - 1))
  <2>1. l \in 0 .. Len(s)
    BY <1>1, <1>5
  <2>2. SubSeq(s, 1, l) = SubSeq(rest, 1, l)
    BY <1>1, <2>1
  <2>3. l = IF rest[n] # "nl" THEN n ELSE n - 1
    BY <1>6
  <2> QED
    BY <2>2, <2>3
<1> QED
  BY <1>3, <1>4, <1>5, <1>7, <1>8, <1>9
  DEF C!Reference!NextLine, C!Reference!IsPrefixLine, C!Reference!Returned, rest

\* A read adds to the string what follows it in the file.
LEMMA CRead ==
  ASSUME CInv, NEW k \in 1 .. READSZ, k <= Len(lineFile) - offset,
         s' = s \o SubSeq(lineFile, offset + 1, offset + k), offset' = offset + k,
         lineFile' = lineFile
  PROVE  /\ s' \in Seq(Text) /\ offset' \in Nat /\ Len(s') <= offset' /\ offset' <= Len(lineFile)
         /\ \A i \in 1 .. Len(s') : s'[i] = lineFile[offset' - Len(s') + i]
         /\ C!LineStart' = C!LineStart
<1> DEFINE f == lineFile
           a == SubSeq(f, offset + 1, offset + k)
           t == s'
<1>1. /\ f \in Seq(Text) /\ s \in Seq(Text) /\ Len(s) \in Nat /\ Len(f) \in Nat
      /\ offset \in Nat /\ Len(s) <= offset /\ k \in Nat /\ k >= 1 /\ offset + k <= Len(f)
      /\ offset + 1 \in Nat \ {0} /\ offset + k \in Nat
  BY ReadersAssumption DEF CInv
<1> HIDE DEF f
<1>2. /\ a \in Seq(Text)
      /\ Len(a) = IF offset + 1 <= offset + k THEN offset + k - (offset + 1) + 1 ELSE 0
      /\ \A i \in 1 .. Len(a) : a[i] = f[offset + 1 + i - 1]
  BY <1>1, Part
<1>3. t = s \o a
  BY DEF f
<1> HIDE DEF a, t, f
<1>4. /\ t \in Seq(Text) /\ Len(t) = Len(s) + Len(a)
      /\ \A i \in 1 .. Len(s) : t[i] = s[i]
      /\ \A i \in Len(s) + 1 .. Len(s) + Len(a) : t[i] = a[i - Len(s)]
  <2>1. s \in Seq(Text) /\ a \in Seq(Text)
    BY <1>1, <1>2
  <2>2. /\ s \o a \in Seq(Text) /\ Len(s \o a) = Len(s) + Len(a)
        /\ \A i \in 1 .. Len(s) : (s \o a)[i] = s[i]
        /\ \A i \in Len(s) + 1 .. Len(s) + Len(a) : (s \o a)[i] = a[i - Len(s)]
    BY <2>1, Joined
  <2> QED
    BY <1>3, <2>2
<1>5. Len(a) = k /\ Len(t) = Len(s) + k
  BY <1>1, <1>2, <1>4
<1>6. ASSUME NEW i \in 1 .. Len(t) PROVE t[i] = f[offset + k - Len(t) + i]
  <2>1. offset + k - Len(t) + i = offset - Len(s) + i /\ i \in Nat /\ 1 <= i /\ i <= Len(s) + k
    BY <1>1, <1>5
  <2>2. CASE i <= Len(s)
    <3>1. i \in 1 .. Len(s)
      BY <1>1, <2>1, <2>2
    <3>2. s[i] = f[offset - Len(s) + i]
      BY <3>1 DEF CInv, f
    <3> QED
      BY <1>4, <2>1, <3>1, <3>2
  <2>3. CASE i > Len(s)
    <3>1. i \in Len(s) + 1 .. Len(s) + Len(a) /\ i - Len(s) \in 1 .. Len(a)
      BY <1>1, <1>5, <2>1, <2>3
    <3>2. offset + 1 + (i - Len(s)) - 1 = offset - Len(s) + i
      BY <1>1, <2>1
    <3>3. a[i - Len(s)] = f[offset - Len(s) + i]
      BY <1>2, <3>1, <3>2
    <3> QED
      BY <1>4, <2>1, <3>1, <3>3
  <2> QED
    BY <1>1, <2>1, <2>2, <2>3
<1>7. Len(t) <= offset + k
  BY <1>1, <1>5
<1>8. offset' - Len(t) = offset - Len(s)
  BY <1>1, <1>5
<1> QED
  BY <1>1, <1>4, <1>6, <1>7, <1>8 DEF t, f, C!LineStart

\* Nothing is returned, and the file goes on where it did.
LEMMA CStutter ==
  ASSUME lineFile' = lineFile, C!LineStart' = C!LineStart, cLines' = cLines
  PROVE  UNCHANGED C!Reference!vars
BY DEF C!Reference!vars, C!Texts

\* A read that finds a newline or not returns no line yet.
LEMMA CReadStep ==
  ASSUME CInv, C!ReadMore \/ C!ReadNewline
  PROVE  CInv' /\ UNCHANGED C!Reference!vars
<1>1. PICK k \in 1 .. READSZ :
        /\ k <= Len(lineFile) - offset
        /\ s' = s \o SubSeq(lineFile, offset + 1, offset + k) /\ offset' = offset + k
  BY DEF C!ReadMore, C!ReadNewline
<1>2. lineFile' = lineFile /\ cLines' = cLines /\ cPc = "read"
  BY DEF C!ReadMore, C!ReadNewline
<1>3. /\ s' \in Seq(Text) /\ offset' \in Nat /\ Len(s') <= offset' /\ offset' <= Len(lineFile)
      /\ \A i \in 1 .. Len(s') : s'[i] = lineFile[offset' - Len(s') + i]
      /\ C!LineStart' = C!LineStart
  BY <1>1, <1>2, CRead
<1>4. UNCHANGED C!Reference!vars
  BY <1>2, <1>3, CStutter
<1>5. FirstIn(s', C!Find(s'))
  BY <1>3, CFinds
<1>6. CASE C!ReadMore
  <2>1. cPc' = "read" /\ C!Find(s') = 0
    BY <1>2, <1>6 DEF C!ReadMore
  <2>2. \A i \in 1 .. Len(s') : s'[i] # "nl"
    BY <1>5, <2>1 DEF FirstIn
  <2> QED
    BY <1>2, <1>3, <1>4, <2>1, <2>2 DEF CInv
<1>7. CASE C!ReadNewline
  <2>1. cPc' = "seek" /\ C!Find(s') > 0 /\ lseek_offset' = C!Offset(s')
    BY <1>7 DEF C!ReadNewline
  <2> QED
    BY <1>2, <1>3, <1>4, <2>1 DEF CInv
<1> QED
  BY <1>6, <1>7

\* The offset is set back to behind the newline, and the line before it is returned.
LEMMA CSeekStep ==
  ASSUME CInv, C!SeekBack
  PROVE  CInv' /\ C!Reference!NextLine
<1> DEFINE n == C!Find(s)
           m == C!LineStart
<1>1. /\ lineFile \in Seq(Text) /\ s \in Seq(Text) /\ Len(s) \in Nat /\ Len(lineFile) \in Nat
      /\ offset \in Nat /\ m = offset - Len(s) /\ Len(s) <= offset /\ offset <= Len(lineFile)
  BY DEF CInv, C!LineStart
<1>2. FirstIn(s, n) /\ n > 0
  BY <1>1, CFinds DEF CInv, C!SeekBack
<1>3. lseek_offset = (n - 1 - Len(s)) + 1
  BY DEF CInv, C!SeekBack, C!Offset
<1>4. /\ lineFile' = lineFile /\ offset' = offset + lseek_offset /\ s' = <<>> /\ cPc' = "read"
      /\ cLines' = Append(cLines, [text |-> SubSeq(s, 1, n - 1), ended |-> TRUE])
  BY DEF C!SeekBack
<1> HIDE DEF n, m
<1>5. n \in 1 .. Len(s) /\ s[n] = "nl" /\ \A k \in 1 .. n - 1 : s[k] # "nl"
  <2>1. n \in 1 .. Len(s)
    BY <1>1, <1>2 DEF FirstIn
  <2>2. \A k \in 1 .. n - 1 : k \in 1 .. Len(s) /\ k < n
    BY <1>1, <2>1
  <2> QED
    BY <1>2, <2>1, <2>2 DEF FirstIn
<1>6. Len(<<>>) = 0 /\ s' \in Seq(Text)
  BY <1>4
<1>7. offset' = m + n /\ m + n \in Nat /\ m + n <= Len(lineFile)
  BY <1>1, <1>3, <1>4, <1>5
<1>8. C!LineStart' = m + n
  BY <1>4, <1>6, <1>7 DEF C!LineStart
<1>9. SubSeq(s, 1, n - 1) \in Seq(Text)
  <2>1. n - 1 \in Nat /\ n - 1 <= Len(s) /\ 1 \in Nat \ {0}
    BY <1>1, <1>5
  <2> QED
    BY <1>1, <2>1, Part
<1>10. /\ cLines' \in Seq([text : Seq(Text), ended : BOOLEAN])
       /\ C!Texts' = Append(C!Texts, SubSeq(s, 1, n - 1))
  BY <1>4, <1>9, LineAdded
<1>11. CInv'
  <2>1. Len(s') = 0 /\ offset' \in Nat /\ Len(s') <= offset' /\ offset' <= Len(lineFile')
    BY <1>4, <1>6, <1>7
  <2>2. \A k \in 1 .. Len(s') : FALSE
    BY <2>1
  <2> QED
    BY <1>1, <1>4, <1>6, <1>10, <2>1, <2>2 DEF CInv
<1>12. C!Reference!NextLine
  <2>1. n \in 1 .. Len(SubSeq(lineFile, m + 1, Len(lineFile)))
    BY <1>1, <1>5, StringOfRest DEF m
  <2>2. SubSeq(s, 1, n - 1) = SubSeq(s, 1, IF s[n] # "nl" THEN n ELSE n - 1)
    BY <1>5
  <2>3. n <= Len(s) /\ (s[n] = "nl" \/ (n = Len(s) /\ offset = Len(lineFile)))
    BY <1>5
  <2>4. C!Texts' = Append(C!Texts, SubSeq(s, 1, IF s[n] # "nl" THEN n ELSE n - 1))
    BY <1>10, <2>2
  <2> QED
    BY <1>4, <1>5, <1>8, <2>1, <2>3, <2>4, Advance DEF m
<1> QED
  BY <1>11, <1>12

\* At the end of the file what is left of it is returned, or nothing is.
LEMMA CEofStep ==
  ASSUME CInv, C!ReadEof
  PROVE  CInv' /\ [C!Reference!NextLine]_(C!Reference!vars)
<1>1. /\ lineFile \in Seq(Text) /\ s \in Seq(Text) /\ Len(s) \in Nat /\ Len(lineFile) \in Nat
      /\ offset \in Nat /\ Len(s) <= offset /\ offset <= Len(lineFile)
  BY DEF CInv
<1>2. /\ lineFile' = lineFile /\ offset' = offset /\ lseek_offset' = lseek_offset
      /\ offset = Len(lineFile) /\ cPc = "read"
  BY DEF C!ReadEof
<1>3. CASE s = <<>>
  <2>1. cPc' = "done" /\ s' = s /\ cLines' = cLines
    BY <1>3 DEF C!ReadEof
  <2>2. C!LineStart' = C!LineStart
    BY <1>2, <2>1 DEF C!LineStart
  <2>3. UNCHANGED C!Reference!vars
    BY <1>2, <2>1, <2>2, CStutter
  <2> QED
    BY <1>2, <2>1, <2>3 DEF CInv
<1>4. CASE s # <<>>
  <2> DEFINE n == Len(s)
             m == C!LineStart
  <2>1. s' = <<>> /\ cPc' = cPc /\ cLines' = Append(cLines, [text |-> s, ended |-> FALSE])
    BY <1>4 DEF C!ReadEof
  <2>2. \A k \in 1 .. Len(s) : s[k] # "nl"
    BY <1>2 DEF CInv
  <2>3. n \in 1 .. Len(s) /\ m = offset - n
    BY <1>1, <1>4 DEF C!LineStart
  <2>4. Len(<<>>) = 0 /\ s' \in Seq(Text)
    BY <2>1
  <2>5. C!LineStart' = m + n
    BY <1>1, <1>2, <2>1, <2>3, <2>4 DEF C!LineStart
  <2>6. /\ cLines' \in Seq([text : Seq(Text), ended : BOOLEAN])
        /\ C!Texts' = Append(C!Texts, s)
    BY <1>1, <2>1, LineAdded
  <2>7. CInv'
    <3>1. Len(s') = 0 /\ offset' \in Nat /\ Len(s') <= offset' /\ offset' <= Len(lineFile')
      BY <1>1, <1>2, <2>1, <2>4
    <3>2. \A k \in 1 .. Len(s') : FALSE
      BY <3>1
    <3> QED
      BY <1>1, <1>2, <2>1, <2>4, <2>6, <3>1, <3>2 DEF CInv
  <2> HIDE DEF n, m
  <2>8. n \in 1 .. Len(SubSeq(lineFile, m + 1, Len(lineFile)))
    BY <1>1, <2>3, StringOfRest DEF m
  <2>9. s = SubSeq(s, 1, IF s[n] # "nl" THEN n ELSE n - 1)
    <3>1. s = SubSeq(s, 1, n)
      BY <1>1, SubSeqFull DEF n
    <3> QED
      BY <2>2, <2>3, <3>1
  <2>10. /\ n <= Len(s) /\ (s[n] = "nl" \/ (n = Len(s) /\ offset = Len(lineFile)))
         /\ \A k \in 1 .. n - 1 : s[k] # "nl"
    <3>1. n = Len(s) /\ \A k \in 1 .. n - 1 : k \in 1 .. Len(s)
      BY <1>1 DEF n
    <3> QED
      BY <1>1, <1>2, <2>2, <3>1
  <2>11. C!Texts' = Append(C!Texts, SubSeq(s, 1, IF s[n] # "nl" THEN n ELSE n - 1))
    BY <2>6, <2>9
  <2>12. C!Reference!NextLine
    BY <1>2, <2>5, <2>8, <2>10, <2>11, Advance DEF m
  <2> QED
    BY <2>7, <2>12
<1> QED
  BY <1>3, <1>4

\* Each step returns the next line of the file or nothing.
LEMMA CStep ==
  CInv /\ [C!Next]_cVars => CInv' /\ [C!Reference!NextLine]_(C!Reference!vars)
<1> SUFFICES ASSUME CInv, [C!Next]_cVars
             PROVE  CInv' /\ [C!Reference!NextLine]_(C!Reference!vars)
  OBVIOUS
<1>1. CASE UNCHANGED cVars
  BY <1>1 DEF cVars, CInv, C!Reference!vars, C!Texts, C!LineStart
<1>2. CASE C!ReadMore \/ C!ReadNewline
  BY <1>2, CReadStep
<1>3. CASE C!SeekBack
  BY <1>3, CSeekStep
<1>4. CASE C!ReadEof
  BY <1>4, CEofStep
<1> QED
  BY <1>1, <1>2, <1>3, <1>4 DEF C!Next

-----------------------------------------------------------------------------

\* Both line readers implement the reference of reading by lines: what they have returned is
\* at any time the lines of the file in order, whatever the file, the size of a read and
\* how short the reads are.
THEOREM LinesTheorem == MCSpec => LinesOfFile
<1>1. MCInit => PyInv /\ CInv
  BY InitPyInv, InitCInv DEF MCInit
<1>2. MCInit => Py!Reference!Init
  BY DEF MCInit, Py!Init, Py!Reference!Init
<1>3. MCInit => C!Reference!Init
  <2> SUFFICES ASSUME MCInit PROVE C!Texts = <<>>
    BY DEF C!Reference!Init
  <2>1. cLines = <<>> /\ Len(<<>>) = 0
    BY DEF MCInit, C!Init
  <2> QED
    BY <2>1 DEF C!Texts
<1>4. [MCNext]_MCVars => [Py!Next]_pyVars /\ [C!Next]_cVars
  BY DEF MCNext, MCVars, pyVars, cVars
<1>5. PyInv /\ CInv /\ [MCNext]_MCVars => PyInv' /\ CInv'
  BY <1>4, PyStep, CStep
<1>6. PyInv /\ CInv /\ [MCNext]_MCVars => [Py!Reference!NextLine]_(Py!Reference!vars)
  BY <1>4, PyStep
<1>7. PyInv /\ CInv /\ [MCNext]_MCVars => [C!Reference!NextLine]_(C!Reference!vars)
  BY <1>4, CStep
<1>8. MCSpec => Py!Reference!Spec
  BY <1>1, <1>2, <1>5, <1>6, PTL DEF MCSpec, Py!Reference!Spec
<1>9. MCSpec => C!Reference!Spec
  BY <1>1, <1>3, <1>5, <1>7, PTL DEF MCSpec, C!Reference!Spec
<1> QED
  BY <1>8, <1>9 DEF LinesOfFile, Py!IsLines, C!IsLines

-----------------------------------------------------------------------------
(* Copying a tree: the number of bytes of a set of files.                   *)

\* the size of a file, and of the files of a set
Size(p) == Len(before[p].data)
Bytes(R) == Cp!MapThenSumSet(LAMBDA p : Len(before[p].data), R)

\* g is the sum of the sizes on the subsets of R, as the fold defines it
Some(Q) == CHOOSE x \in Q : TRUE
Sum(g, Q) == IF Q = {} THEN 0 ELSE Size(Some(Q)) + g[Q \ {Some(Q)}]
Summed(R, g) == g = [Q \in SUBSET R |-> Sum(g, Q)]

\* the fold is one of these functions
LEMMA BytesFold ==
  ASSUME NEW R
  PROVE  Bytes(R) = (CHOOSE g : Summed(R, g))[R]
BY DEF Bytes, Cp!MapThenSumSet, Cp!MapThenFoldSet, Summed, Sum, Some, Size

\* an element of a set, and the set without it
LEMMA Taken ==
  ASSUME NEW R, IsFiniteSet(R), NEW Q \in SUBSET R, NEW n \in Nat
  PROVE  /\ Cardinality(Q) \in Nat
         /\ Cardinality(Q) =< 0 => Q = {}
         /\ Q # {} => Some(Q) \in Q
         /\ \A x \in Q : Cardinality(Q) =< n + 1 => Cardinality(Q \ {x}) =< n
<1>1. IsFiniteSet(Q)
  BY FS_Subset
<1>2. Cardinality(Q) \in Nat
  BY <1>1, FS_CardinalityType
<1>3. ASSUME NEW x \in Q PROVE Cardinality(Q \ {x}) = Cardinality(Q) - 1
  BY <1>1, FS_RemoveElement
<1>4. Cardinality(Q) = 0 => Q = {}
  BY <1>1, FS_EmptySet
<1> QED
  BY <1>2, <1>3, <1>4 DEF Some

\* there is such a function for every finite set
LEMMA SummedExists ==
  ASSUME NEW R, IsFiniteSet(R)
  PROVE  \E g : Summed(R, g)
<1> DEFINE Small(n) == { Q \in SUBSET R : Cardinality(Q) =< n }
<1> DEFINE N == { n \in Nat : \E g : g = [Q \in Small(n) |-> Sum(g, Q)] }
<1>1. 0 \in N
  <2> DEFINE g == [Q \in Small(0) |-> 0]
  <2>1. \A Q \in Small(0) : Q = {}
    BY Taken
  <2>2. g = [Q \in Small(0) |-> Sum(g, Q)]
    BY <2>1 DEF Sum
  <2> QED
    BY <2>2
<1>2. ASSUME NEW n \in Nat, n \in N PROVE n + 1 \in N
  <2>1. PICK g : g = [Q \in Small(n) |-> Sum(g, Q)]
    BY <1>2
  <2> DEFINE h == [Q \in Small(n + 1) |-> Sum(g, Q)]
  <2>2. ASSUME NEW Q \in Small(n + 1) PROVE Sum(g, Q) = Sum(h, Q)
    <3>1. CASE Q = {}
      BY <3>1 DEF Sum
    <3>2. CASE Q # {}
      <4>1. Some(Q) \in Q /\ Q \ {Some(Q)} \in Small(n)
        BY <3>2, Taken
      <4>2. Q \ {Some(Q)} \in Small(n + 1)
        BY <4>1, Taken
      <4>3. h[Q \ {Some(Q)}] = Sum(g, Q \ {Some(Q)})
        BY <4>2
      <4>4. g[Q \ {Some(Q)}] = Sum(g, Q \ {Some(Q)})
        BY <4>1, <2>1
      <4> HIDE DEF h
      <4> QED
        BY <4>3, <4>4 DEF Sum
    <3> QED
      BY <3>1, <3>2
  <2>3. h = [Q \in Small(n + 1) |-> Sum(h, Q)]
    BY <2>2
  <2> HIDE DEF h, Small
  <2> QED
    BY <2>3
<1>3. Nat \subseteq N
  <2> HIDE DEF N
  <2> QED
    BY <1>1, <1>2, Induct
<1>4. Cardinality(R) \in Nat /\ Small(Cardinality(R)) = SUBSET R
  BY FS_CardinalityType, FS_Subset
<1>5. PICK g : g = [Q \in Small(Cardinality(R)) |-> Sum(g, Q)]
  BY <1>3, <1>4
<1> HIDE DEF Small
<1> QED
  BY <1>4, <1>5 DEF Summed

\* and but one
LEMMA SummedOnce ==
  ASSUME NEW R, IsFiniteSet(R), NEW g, Summed(R, g), NEW S \in SUBSET R, NEW h, Summed(S, h)
  PROVE  \A Q \in SUBSET S : h[Q] = g[Q]
<1> DEFINE N == { n \in Nat : \A Q \in SUBSET S : Cardinality(Q) =< n => h[Q] = g[Q] }
<1>1. ASSUME NEW Q \in SUBSET S PROVE h[Q] = Sum(h, Q) /\ g[Q] = Sum(g, Q) /\ Q \in SUBSET R
  BY DEF Summed
<1>2. 0 \in N
  <2>1. ASSUME NEW Q \in SUBSET S, Cardinality(Q) =< 0 PROVE h[Q] = g[Q]
    <3>1. Q = {}
      BY <1>1, <2>1, Taken
    <3> QED
      BY <1>1, <3>1 DEF Sum
  <2> QED
    BY <2>1
<1>3. ASSUME NEW n \in Nat, n \in N PROVE n + 1 \in N
  <2>1. ASSUME NEW Q \in SUBSET S, Cardinality(Q) =< n + 1 PROVE h[Q] = g[Q]
    <3>1. CASE Q = {}
      BY <1>1, <3>1 DEF Sum
    <3>2. CASE Q # {}
      <4>1. Some(Q) \in Q /\ Cardinality(Q \ {Some(Q)}) =< n
        BY <1>1, <2>1, <3>2, Taken
      <4>2. h[Q \ {Some(Q)}] = g[Q \ {Some(Q)}]
        BY <1>3, <4>1
      <4> QED
        BY <1>1, <3>2, <4>2 DEF Sum
    <3> QED
      BY <3>1, <3>2
  <2> QED
    BY <2>1
<1>4. Nat \subseteq N
  <2> HIDE DEF N
  <2> QED
    BY <1>2, <1>3, Induct
<1>5. ASSUME NEW Q \in SUBSET S PROVE h[Q] = g[Q]
  <2>1. Cardinality(Q) \in Nat
    BY <1>1, Taken
  <2> QED
    BY <1>4, <2>1
<1> QED
  BY <1>5

\* and it does not matter in which order the files are counted
LEMMA AnyOrder ==
  ASSUME NEW R, IsFiniteSet(R), \A p \in R : Size(p) \in Nat, NEW g, Summed(R, g)
  PROVE  \A Q \in SUBSET R : g[Q] \in Nat /\ \A x \in Q : g[Q] = Size(x) + g[Q \ {x}]
<1> DEFINE Holds(Q) == g[Q] \in Nat /\ \A x \in Q : g[Q] = Size(x) + g[Q \ {x}]
<1> DEFINE N == { n \in Nat : \A Q \in SUBSET R : Cardinality(Q) =< n => Holds(Q) }
<1>1. ASSUME NEW Q \in SUBSET R PROVE g[Q] = Sum(g, Q)
  BY DEF Summed
<1>2. g[{}] = 0
  BY <1>1 DEF Sum
<1>3. 0 \in N
  <2>1. ASSUME NEW Q \in SUBSET R, Cardinality(Q) =< 0 PROVE Holds(Q)
    <3>1. Q = {}
      BY <2>1, Taken
    <3> QED
      BY <1>2, <3>1
  <2> QED
    BY <2>1
<1>4. ASSUME NEW n \in Nat, n \in N PROVE n + 1 \in N
  <2>1. ASSUME NEW Q \in SUBSET R, Cardinality(Q) =< n + 1, Q # {} PROVE Holds(Q)
    <3> DEFINE y == Some(Q)
    <3>1. y \in Q /\ Size(y) \in Nat /\ g[Q] = Size(y) + g[Q \ {y}]
      BY <1>1, <2>1, Taken DEF Sum
    <3> HIDE DEF y
    <3>2. ASSUME NEW x \in Q PROVE Holds(Q \ {x})
      BY <1>4, <2>1, Taken
    <3>3. ASSUME NEW x \in Q, x # y PROVE g[Q] = Size(x) + g[Q \ {x}]
      <4>1. x \in Q \ {y} /\ y \in Q \ {x} /\ (Q \ {y}) \ {x} = (Q \ {x}) \ {y}
        BY <3>1, <3>3
      <4> DEFINE rest == g[(Q \ {x}) \ {y}]
      <4>2. g[Q \ {y}] = Size(x) + rest
        BY <3>1, <3>2, <4>1
      <4>3. g[Q \ {x}] = Size(y) + rest
        BY <3>2, <4>1
      <4>4. rest \in Nat
        <5>1. (Q \ {x}) \ {y} \in SUBSET R /\ Cardinality((Q \ {x}) \ {y}) =< n
          <6>1. Cardinality(Q \ {x}) =< n /\ Q \ {x} \in SUBSET R
            BY <2>1, Taken
          <6>2. Cardinality(Q \ {x}) \in Nat /\ Cardinality(Q \ {x}) =< n + 1
            BY <6>1, Taken
          <6> QED
            BY <6>1, <6>2, <4>1, Taken
        <5> QED
          BY <1>4, <5>1
      <4>5. Size(x) \in Nat
        OBVIOUS
      <4> HIDE DEF rest
      <4> QED
        BY <3>1, <4>2, <4>3, <4>4, <4>5
    <3>4. g[Q] \in Nat
      BY <3>1, <3>2
    <3> QED
      BY <3>1, <3>3, <3>4
  <2>2. Holds({})
    BY <1>2
  <2> HIDE DEF Holds
  <2> QED
    BY <2>1, <2>2
<1>5. Nat \subseteq N
  <2> HIDE DEF N
  <2> QED
    BY <1>3, <1>4, Induct
<1>6. ASSUME NEW Q \in SUBSET R PROVE Holds(Q)
  <2>1. Cardinality(Q) \in Nat
    BY Taken
  <2> HIDE DEF Holds
  <2> QED
    BY <1>5, <2>1
<1> QED
  BY <1>6

\* the bytes of a set of files are those of one of them and of the others
LEMMA BytesOf ==
  ASSUME NEW R, IsFiniteSet(R), \A p \in R : Size(p) \in Nat
  PROVE  /\ Bytes({}) = 0 /\ Bytes(R) \in Nat
         /\ \A x \in R : Bytes(R) = Size(x) + Bytes(R \ {x})
<1>1. PICK g : Summed(R, g)
  BY SummedExists
<1>2. ASSUME NEW Q \in SUBSET R PROVE Bytes(Q) = g[Q]
  <2>1. IsFiniteSet(Q)
    BY FS_Subset
  <2> DEFINE h == CHOOSE h : Summed(Q, h)
  <2>2. Summed(Q, h)
    BY <2>1, SummedExists
  <2>3. Bytes(Q) = h[Q]
    BY BytesFold
  <2> HIDE DEF h
  <2> QED
    BY <1>1, <2>2, <2>3, SummedOnce
<1>3. g[{}] = 0
  BY <1>1 DEF Summed, Sum
<1>4. \A Q \in SUBSET R : g[Q] \in Nat /\ \A x \in Q : g[Q] = Size(x) + g[Q \ {x}]
  BY <1>1, AnyOrder
<1> QED
  BY <1>2, <1>3, <1>4

\* a later state counts them alike
LEMMA BytesSame == \A R : before' = before => Bytes(R)' = Bytes(R)
BY DEF Bytes, Cp!MapThenSumSet, Cp!MapThenFoldSet

-----------------------------------------------------------------------------
(* Paths.                                                                  *)

Name == STRING
NodePath == Seq(Name)

\* a path is a prefix of another one name by name
LEMMA PrefixOf ==
  ASSUME NEW a \in NodePath, NEW b \in NodePath
  PROVE  Cp!IsPrefix(a, b) <=> Len(a) =< Len(b) /\ \A i \in 1 .. Len(a) : a[i] = b[i]
<1> HIDE DEF Name
<1> USE DEF NodePath
<1>1. Len(a) \in Nat /\ Len(b) \in Nat
  OBVIOUS
<1>2. CASE Len(a) =< Len(b)
  <2>1. SubSeq(a, 1, Len(a)) \in NodePath /\ Len(SubSeq(a, 1, Len(a))) = Len(a)
        /\ \A i \in 1 .. Len(a) : SubSeq(a, 1, Len(a))[i] = a[i]
    OBVIOUS
  <2>2. SubSeq(b, 1, Len(a)) \in NodePath /\ Len(SubSeq(b, 1, Len(a))) = Len(a)
        /\ \A i \in 1 .. Len(a) : SubSeq(b, 1, Len(a))[i] = b[i]
    BY <1>1, <1>2
  <2>3. SubSeq(a, 1, Len(a)) = SubSeq(b, 1, Len(a)) <=> \A i \in 1 .. Len(a) : a[i] = b[i]
    BY <2>1, <2>2, SeqEqual
  <2> QED
    BY <1>2, <2>3 DEF Cp!IsPrefix
<1> QED
  BY <1>1, <1>2 DEF Cp!IsPrefix

\* the order of the paths
LEMMA PrefixOrder ==
  ASSUME NEW a \in NodePath, NEW b \in NodePath, NEW c \in NodePath
  PROVE  /\ Cp!IsPrefix(a, a) /\ Cp!IsPrefix(<<>>, a)
         /\ Cp!IsPrefix(a, b) /\ Cp!IsPrefix(b, c) => Cp!IsPrefix(a, c)
         /\ Cp!IsPrefix(a, b) /\ Cp!IsPrefix(b, a) => a = b
         /\ Cp!IsPrefix(a, c) /\ Cp!IsPrefix(b, c) /\ Len(a) =< Len(b) => Cp!IsPrefix(a, b)
<1> HIDE DEF Name
<1>0. Len(a) \in Nat /\ Len(b) \in Nat /\ Len(c) \in Nat /\ <<>> \in NodePath
  BY DEF NodePath
<1>1. Cp!IsPrefix(a, a) /\ Cp!IsPrefix(<<>>, a)
  BY <1>0, PrefixOf
<1>2. Cp!IsPrefix(a, b) /\ Cp!IsPrefix(b, c) => Cp!IsPrefix(a, c)
  BY <1>0, PrefixOf
<1>3. Cp!IsPrefix(a, b) /\ Cp!IsPrefix(b, a) => a = b
  BY <1>0, PrefixOf, SeqEqual DEF NodePath
<1>4. Cp!IsPrefix(a, c) /\ Cp!IsPrefix(b, c) /\ Len(a) =< Len(b) => Cp!IsPrefix(a, b)
  BY <1>0, PrefixOf
<1> QED
  BY <1>1, <1>2, <1>3, <1>4

\* an entry of a directory
LEMMA EntryOf ==
  ASSUME NEW p \in NodePath, NEW n \in Name
  PROVE  /\ Append(p, n) \in NodePath /\ Append(p, n) # <<>> /\ Len(Append(p, n)) = Len(p) + 1
         /\ Cp!Front(Append(p, n)) = p /\ Cp!Last(Append(p, n)) = n
         /\ Cp!IsPrefix(p, Append(p, n)) /\ ~ Cp!IsPrefix(Append(p, n), p)
         /\ \A m \in Name : Append(p, n) = Append(p, m) => n = m
<1> HIDE DEF Name
<1>1. /\ Append(p, n) \in NodePath /\ Len(p) \in Nat /\ Len(Append(p, n)) = Len(p) + 1
      /\ \A i \in 1 .. Len(p) : Append(p, n)[i] = p[i]
      /\ Append(p, n)[Len(p) + 1] = n
  BY DEF NodePath
<1>2. Append(p, n) # <<>>
  BY <1>1
<1>3. Cp!Last(Append(p, n)) = n
  BY <1>1 DEF Cp!Last
<1>4. Cp!Front(Append(p, n)) = p
  BY <1>1, SeqEqual DEF Cp!Front, NodePath
<1>5. Cp!IsPrefix(p, Append(p, n)) /\ ~ Cp!IsPrefix(Append(p, n), p)
  <2> DEFINE q == Append(p, n)
  <2>1. q \in NodePath /\ Len(p) \in Nat /\ Len(q) = Len(p) + 1 /\ \A i \in 1 .. Len(p) : q[i] = p[i]
    BY <1>1
  <2> HIDE DEF q
  <2>2. Cp!IsPrefix(p, q) /\ ~ Cp!IsPrefix(q, p)
    BY <2>1, PrefixOf
  <2> QED
    BY <2>2 DEF q
<1>6. ASSUME NEW m \in Name, Append(p, n) = Append(p, m) PROVE n = m
  <2>1. Append(p, m)[Len(p) + 1] = m
    BY DEF NodePath
  <2> QED
    BY <1>1, <1>6, <2>1
<1> QED
  BY <1>1, <1>2, <1>3, <1>4, <1>5, <1>6

\* the names of the directory that a path is in
LEMMA FrontNames ==
  ASSUME NEW p \in NodePath, p # <<>>
  PROVE  /\ Len(p) \in Nat \ {0} /\ Cp!Front(p) \in NodePath /\ Len(Cp!Front(p)) = Len(p) - 1
         /\ \A i \in 1 .. Len(p) - 1 : Cp!Front(p)[i] = p[i]
<1> HIDE DEF Name
<1>1. Len(p) \in Nat \ {0} /\ Len(p) - 1 \in Nat
  BY DEF NodePath
<1>2. \A i \in 1 .. Len(p) - 1 : p[i] \in Name
  BY <1>1 DEF NodePath
<1>3. Cp!Front(p) = [i \in 1 .. Len(p) - 1 |-> p[i]]
  BY <1>1 DEF NodePath, Cp!Front
<1> QED
  BY <1>1, <1>2, <1>3 DEF NodePath

\* the directory that a path is in
LEMMA FrontOf ==
  ASSUME NEW p \in NodePath, p # <<>>
  PROVE  /\ Cp!Front(p) \in NodePath /\ Cp!Last(p) \in Name /\ p = Append(Cp!Front(p), Cp!Last(p))
         /\ Len(Cp!Front(p)) = Len(p) - 1
<1> HIDE DEF Name
<1>1. Len(p) \in Nat /\ Len(p) > 0
  BY DEF NodePath
<1>2. Cp!Front(p) \in NodePath /\ Len(Cp!Front(p)) = Len(p) - 1
      /\ \A i \in 1 .. Len(p) - 1 : Cp!Front(p)[i] = p[i]
  BY FrontNames
<1>3. Cp!Last(p) \in Name
  BY <1>1 DEF NodePath, Cp!Last
<1>4. p = Append(Cp!Front(p), Cp!Last(p))
  <2> DEFINE f == Cp!Front(p)
  <2> DEFINE n == Cp!Last(p)
  <2>1. n = p[Len(p)]
    BY DEF Cp!Last
  <2>2. f \in NodePath /\ Len(f) = Len(p) - 1 /\ \A i \in 1 .. Len(p) - 1 : f[i] = p[i]
    BY <1>2
  <2>3. n \in Name
    BY <1>3
  <2> HIDE DEF f, n
  <2>4. /\ Append(f, n) \in NodePath /\ Len(Append(f, n)) = Len(f) + 1
        /\ \A i \in 1 .. Len(f) : Append(f, n)[i] = f[i]
        /\ Append(f, n)[Len(f) + 1] = n
    BY <2>2, <2>3 DEF NodePath
  <2>5. p = Append(f, n)
    BY <1>1, <2>1, <2>2, <2>4, SeqEqual DEF NodePath
  <2> QED
    BY <2>5 DEF f, n
<1> QED
  BY <1>2, <1>3, <1>4

\* what is below a directory but not the directory is below one of its entries
LEMMA Below1 ==
  ASSUME NEW p \in NodePath, NEW q \in NodePath, Cp!IsPrefix(p, q), p # q
  PROVE  /\ Len(p) < Len(q) /\ q # <<>> /\ Cp!IsPrefix(p, Cp!Front(q))
         /\ q[Len(p) + 1] \in Name /\ Cp!IsPrefix(Append(p, q[Len(p) + 1]), q)
<1> HIDE DEF Name
<1> DEFINE n == q[Len(p) + 1]
<1>1. Len(p) \in Nat /\ Len(q) \in Nat /\ Len(p) =< Len(q) /\ \A i \in 1 .. Len(p) : p[i] = q[i]
  BY PrefixOf DEF NodePath
<1>2. Len(p) # Len(q)
  BY <1>1, SeqEqual DEF NodePath
<1>3. Len(p) + 1 \in 1 .. Len(q) /\ n \in Name
  BY <1>1, <1>2 DEF NodePath
<1>4. q # <<>>
  BY <1>1, <1>2 DEF NodePath
<1>5. Cp!IsPrefix(p, Cp!Front(q))
  <2>1. Cp!Front(q) \in NodePath /\ Len(Cp!Front(q)) = Len(q) - 1
        /\ \A i \in 1 .. Len(q) - 1 : Cp!Front(q)[i] = q[i]
    BY <1>4, FrontNames
  <2> QED
    BY <1>1, <1>2, <2>1, PrefixOf
<1>6. Cp!IsPrefix(Append(p, n), q)
  <2>1. /\ Append(p, n) \in NodePath /\ Len(Append(p, n)) = Len(p) + 1
        /\ \A i \in 1 .. Len(p) : Append(p, n)[i] = p[i]
        /\ Append(p, n)[Len(p) + 1] = n
    BY <1>3 DEF NodePath
  <2> DEFINE a == Append(p, n)
  <2>2. a[Len(p) + 1] = q[Len(p) + 1]
    BY <2>1
  <2> HIDE DEF a, n
  <2>3. \A i \in 1 .. Len(p) + 1 : a[i] = q[i]
    <3>1. \A i \in 1 .. Len(p) : a[i] = q[i]
      BY <1>1, <2>1 DEF a
    <3>2. \A i \in 1 .. Len(p) + 1 : i \in 1 .. Len(p) \/ i = Len(p) + 1
      BY <1>1
    <3> QED
      BY <2>2, <3>1, <3>2
  <2>4. a \in NodePath /\ Len(a) = Len(p) + 1 /\ Len(a) =< Len(q)
    BY <1>1, <1>2, <2>1 DEF a
  <2>5. Cp!IsPrefix(a, q)
    BY <2>3, <2>4, PrefixOf
  <2> QED
    BY <2>5 DEF a
<1> QED
  BY <1>1, <1>2, <1>3, <1>4, <1>5, <1>6

\* what is below two entries of a directory is below one
LEMMA OneEntry ==
  ASSUME NEW p \in NodePath, NEW q \in NodePath, NEW n \in Name, NEW m \in Name,
         Cp!IsPrefix(Append(p, n), q), Cp!IsPrefix(Append(p, m), q)
  PROVE  n = m
<1> HIDE DEF Name
<1>1. Append(p, n) \in NodePath /\ Append(p, m) \in NodePath
      /\ Len(Append(p, n)) = Len(Append(p, m))
  BY EntryOf
<1>2. Len(Append(p, n)) =< Len(Append(p, m)) /\ Len(Append(p, n)) \in Nat
  BY <1>1 DEF NodePath
<1>3. Append(p, n) = Append(p, m)
  BY <1>1, <1>2, PrefixOrder
<1> QED
  BY <1>3, EntryOf

\* the assumption on the paths that are copied
LEMMA Paths == Source \in NodePath /\ Targets \subseteq NodePath
BY SystemsAssumption DEF NodePath, Name

\* where a node of the source is copied to, name by name
LEMMA MovedTo ==
  ASSUME target \in NodePath, NEW p \in NodePath, Cp!IsPrefix(Source, p)
  PROVE  /\ Len(Source) \in Nat /\ Len(target) \in Nat /\ Len(p) \in Nat /\ Len(Source) =< Len(p)
         /\ Cp!Moved(p) \in NodePath /\ Len(Cp!Moved(p)) = Len(target) + (Len(p) - Len(Source))
         /\ \A i \in 1 .. Len(target) : Cp!Moved(p)[i] = target[i]
         /\ \A i \in 1 .. Len(p) - Len(Source) : Cp!Moved(p)[Len(target) + i] = p[Len(Source) + i]
<1> HIDE DEF Name
<1> DEFINE rest == SubSeq(p, Len(Source) + 1, Len(p))
<1>1. /\ Len(Source) \in Nat /\ Len(target) \in Nat /\ Len(p) \in Nat /\ Len(Source) =< Len(p)
  BY Paths, PrefixOf DEF NodePath
<1>2. /\ rest \in NodePath /\ Len(rest) = Len(p) - Len(Source)
      /\ \A i \in 1 .. Len(p) - Len(Source) : rest[i] = p[Len(Source) + i]
  <2>1. /\ rest \in NodePath /\ Len(rest) = IF Len(Source) + 1 <= Len(p) THEN Len(p) - (Len(Source) + 1) + 1 ELSE 0
        /\ \A k \in 1 .. Len(rest) : rest[k] = p[Len(Source) + 1 + k - 1]
    BY <1>1, Part DEF NodePath
  <2>2. Len(rest) = Len(p) - Len(Source)
    BY <1>1, <2>1
  <2>3. ASSUME NEW i \in 1 .. Len(p) - Len(Source) PROVE rest[i] = p[Len(Source) + i]
    <3>1. Len(Source) + 1 + i - 1 = Len(Source) + i
      BY <1>1
    <3> QED
      BY <2>1, <2>2, <3>1
  <2> QED
    BY <2>1, <2>2, <2>3
<1> HIDE DEF rest
<1>3. /\ target \o rest \in NodePath /\ Len(target \o rest) = Len(target) + Len(rest)
      /\ \A i \in 1 .. Len(target) : (target \o rest)[i] = target[i]
      /\ \A i \in Len(target) + 1 .. Len(target) + Len(rest) : (target \o rest)[i] = rest[i - Len(target)]
  BY <1>2, Joined DEF NodePath
<1>4. Cp!Moved(p) = target \o rest
  BY DEF Cp!Moved, rest
<1>5. ASSUME NEW i \in 1 .. Len(p) - Len(Source)
      PROVE  (target \o rest)[Len(target) + i] = p[Len(Source) + i]
  <2>1. Len(target) + i \in Len(target) + 1 .. Len(target) + Len(rest)
        /\ Len(target) + i - Len(target) = i
    BY <1>1, <1>2
  <2> QED
    BY <1>2, <1>3, <2>1
<1> QED
  BY <1>1, <1>2, <1>3, <1>4, <1>5

\* the source is copied to the target, an entry to an entry of the same name
LEMMA MovedEntry ==
  ASSUME target \in NodePath
  PROVE  /\ Cp!Moved(Source) = target
         /\ \A p \in NodePath, n \in Name :
              Cp!IsPrefix(Source, p) => /\ Cp!IsPrefix(Source, Append(p, n))
                                        /\ Cp!Moved(Append(p, n)) = Append(Cp!Moved(p), n)
<1> HIDE DEF Name
<1>1. Cp!Moved(Source) = target
  <2>1. Cp!IsPrefix(Source, Source)
    BY Paths, PrefixOrder
  <2>2. /\ Cp!Moved(Source) \in NodePath /\ Len(Cp!Moved(Source)) = Len(target)
        /\ \A i \in 1 .. Len(target) : Cp!Moved(Source)[i] = target[i]
    BY <2>1, Paths, MovedTo
  <2> QED
    BY <2>2, SeqEqual DEF NodePath
<1>2. ASSUME NEW p \in NodePath, NEW n \in Name, Cp!IsPrefix(Source, p)
      PROVE  /\ Cp!IsPrefix(Source, Append(p, n))
             /\ Cp!Moved(Append(p, n)) = Append(Cp!Moved(p), n)
  <2> DEFINE q == Append(p, n)
  <2> DEFINE m == Cp!Moved(p)
  <2> DEFINE b == Cp!Moved(q)
  <2> DEFINE c == Append(m, n)
  <2>1. q \in NodePath /\ Cp!IsPrefix(p, q) /\ Len(q) = Len(p) + 1
    BY EntryOf
  <2>2. Cp!IsPrefix(Source, q)
    BY <1>2, <2>1, Paths, PrefixOrder
  <2>3. /\ Len(p) \in Nat /\ \A i \in 1 .. Len(p) : q[i] = p[i]
        /\ q[Len(p) + 1] = n
    BY DEF NodePath
  <2> HIDE DEF q
  <2>4. /\ Len(Source) \in Nat /\ Len(target) \in Nat /\ Len(p) \in Nat /\ Len(Source) =< Len(p)
        /\ m \in NodePath /\ Len(m) = Len(target) + (Len(p) - Len(Source))
        /\ \A i \in 1 .. Len(target) : m[i] = target[i]
        /\ \A i \in 1 .. Len(p) - Len(Source) : m[Len(target) + i] = p[Len(Source) + i]
    BY <1>2, MovedTo
  <2>5. /\ b \in NodePath /\ Len(b) = Len(target) + (Len(q) - Len(Source))
        /\ \A i \in 1 .. Len(target) : b[i] = target[i]
        /\ \A i \in 1 .. Len(q) - Len(Source) : b[Len(target) + i] = q[Len(Source) + i]
    BY <2>1, <2>2, MovedTo
  <2> HIDE DEF m, b
  <2>6. /\ c \in NodePath /\ Len(c) = Len(m) + 1 /\ \A i \in 1 .. Len(m) : c[i] = m[i]
        /\ c[Len(m) + 1] = n
    <3>1. m \in NodePath
      BY <2>4
    <3> QED
      BY <3>1 DEF NodePath
  <2> HIDE DEF c
  <2>7. Len(c) = Len(b) /\ Len(b) \in Nat
    BY <2>1, <2>4, <2>5, <2>6
  <2>8. ASSUME NEW i \in 1 .. Len(b) PROVE b[i] = c[i]
    <3>1. CASE i \in 1 .. Len(target)
      BY <2>4, <2>5, <2>6, <3>1
    <3>2. CASE i > Len(target) /\ i =< Len(m)
      <4> DEFINE j == i - Len(target)
      <4>1. j \in 1 .. Len(p) - Len(Source) /\ i = Len(target) + j /\ i \in 1 .. Len(m)
            /\ Len(Source) + j \in 1 .. Len(p) /\ j \in 1 .. Len(q) - Len(Source)
        BY <2>1, <2>4, <2>7, <3>2
      <4> HIDE DEF j
      <4>2. b[i] = q[Len(Source) + j] /\ m[i] = p[Len(Source) + j]
        BY <2>4, <2>5, <4>1
      <4> QED
        BY <2>3, <2>6, <4>1, <4>2
    <3>3. CASE i = Len(m) + 1
      <4> DEFINE j == Len(q) - Len(Source)
      <4>1. j \in 1 .. Len(q) - Len(Source) /\ Len(target) + j = i /\ Len(Source) + j = Len(p) + 1
        BY <2>1, <2>4, <3>3
      <4> HIDE DEF j
      <4>2. b[i] = q[Len(p) + 1]
        BY <2>5, <4>1
      <4> QED
        BY <2>3, <2>6, <3>3, <4>2
    <3> QED
      BY <2>4, <2>6, <2>7, <3>1, <3>2, <3>3
  <2>9. b = c
    BY <2>5, <2>6, <2>7, <2>8, SeqEqual DEF NodePath
  <2> QED
    BY <2>2, <2>9 DEF b, c, m, q
<1> QED
  BY <1>1, <1>2

\* no two nodes are copied to the same place; a copy onto the source stays where it is
LEMMA MovedOnce ==
  ASSUME target \in NodePath, NEW p \in NodePath, Cp!IsPrefix(Source, p)
  PROVE  /\ \A q \in NodePath : Cp!IsPrefix(Source, q) /\ Cp!Moved(p) = Cp!Moved(q) => p = q
         /\ target = Source => Cp!Moved(p) = p
<1> HIDE DEF Name
<1>0. /\ Len(Source) \in Nat /\ Len(target) \in Nat /\ Len(p) \in Nat /\ Len(Source) =< Len(p)
      /\ Cp!Moved(p) \in NodePath /\ Len(Cp!Moved(p)) = Len(target) + (Len(p) - Len(Source))
      /\ \A i \in 1 .. Len(target) : Cp!Moved(p)[i] = target[i]
      /\ \A i \in 1 .. Len(p) - Len(Source) : Cp!Moved(p)[Len(target) + i] = p[Len(Source) + i]
      /\ \A i \in 1 .. Len(Source) : Source[i] = p[i]
  BY MovedTo, PrefixOf, Paths
<1>1. ASSUME NEW q \in NodePath, Cp!IsPrefix(Source, q), Cp!Moved(p) = Cp!Moved(q) PROVE p = q
  <2>1. /\ Len(q) \in Nat /\ Len(Source) =< Len(q)
        /\ Len(Cp!Moved(q)) = Len(target) + (Len(q) - Len(Source))
        /\ \A i \in 1 .. Len(q) - Len(Source) : Cp!Moved(q)[Len(target) + i] = q[Len(Source) + i]
        /\ \A i \in 1 .. Len(Source) : Source[i] = q[i]
    BY <1>1, MovedTo, PrefixOf, Paths
  <2>2. Len(p) = Len(q)
    BY <1>0, <1>1, <2>1
  <2>3. ASSUME NEW i \in 1 .. Len(p) PROVE p[i] = q[i]
    <3>1. CASE i \in 1 .. Len(Source)
      BY <1>0, <2>1, <3>1
    <3>2. CASE i > Len(Source)
      <4> DEFINE j == i - Len(Source)
      <4>1. j \in 1 .. Len(p) - Len(Source) /\ Len(Source) + j = i
        BY <1>0, <3>2
      <4> HIDE DEF j
      <4> QED
        BY <1>0, <1>1, <2>1, <2>2, <4>1
    <3> QED
      BY <1>0, <3>1, <3>2
  <2> QED
    BY <2>2, <2>3, SeqEqual DEF NodePath
<1>2. ASSUME target = Source PROVE Cp!Moved(p) = p
  <2> DEFINE b == Cp!Moved(p)
  <2>1. /\ b \in NodePath /\ Len(b) = Len(p) /\ \A i \in 1 .. Len(Source) : b[i] = p[i]
        /\ \A i \in 1 .. Len(p) - Len(Source) : b[Len(Source) + i] = p[Len(Source) + i]
    BY <1>0, <1>2
  <2> HIDE DEF b
  <2>2. ASSUME NEW i \in 1 .. Len(p) PROVE b[i] = p[i]
    <3>1. CASE i \in 1 .. Len(Source)
      BY <2>1, <3>1
    <3>2. CASE i > Len(Source)
      <4> DEFINE j == i - Len(Source)
      <4>1. j \in 1 .. Len(p) - Len(Source) /\ Len(Source) + j = i
        BY <1>0, <3>2
      <4> HIDE DEF j
      <4> QED
        BY <2>1, <4>1
    <3> QED
      BY <1>0, <3>1, <3>2
  <2>3. b = p
    BY <2>1, <2>2, SeqEqual DEF NodePath
  <2> QED
    BY <2>3 DEF b
<1> QED
  BY <1>1, <1>2

\* p is above the place that it is copied to
Inner(p) == Cp!IsPrefix(p, Cp!Moved(p)) /\ p # Cp!Moved(p)

\* then so is the entry of p on the way to that place
LEMMA InnerOn ==
  ASSUME target \in NodePath, NEW p \in NodePath, Cp!IsPrefix(Source, p), Inner(p)
  PROVE  \E n \in Name : Cp!IsPrefix(Append(p, n), Cp!Moved(p)) /\ Inner(Append(p, n))
<1> HIDE DEF Name
<1> DEFINE m == Cp!Moved(p)
<1> DEFINE n == m[Len(p) + 1]
<1>1. m \in NodePath /\ Cp!IsPrefix(p, m) /\ p # m
  BY MovedTo DEF Inner
<1> HIDE DEF m
<1>2. n \in Name /\ Cp!IsPrefix(Append(p, n), m)
  BY <1>1, Below1
<1> HIDE DEF n
<1>3. Cp!Moved(Append(p, n)) = Append(m, n)
  BY <1>2, MovedEntry DEF m
<1>4. Append(p, n) \in NodePath /\ Append(m, n) \in NodePath /\ Cp!IsPrefix(m, Append(m, n))
  BY <1>1, <1>2, EntryOf
<1>5. Cp!IsPrefix(Append(p, n), Append(m, n))
  BY <1>1, <1>2, <1>4, PrefixOrder
<1>6. Append(p, n) # Append(m, n)
  <2>1. Cp!Front(Append(p, n)) = p /\ Cp!Front(Append(m, n)) = m
    BY <1>1, <1>2, EntryOf
  <2> QED
    BY <1>1, <2>1
<1>7. Inner(Append(p, n))
  BY <1>3, <1>5, <1>6 DEF Inner
<1> QED
  BY <1>2, <1>7 DEF m

-----------------------------------------------------------------------------
(* File systems.                                                           *)

Inode == [kind : {"dir", "reg", "lnk", "fifo"}, ro : BOOLEAN, data : Seq(Nat)]

\* the nodes above a node are directories
IsTree(tr) ==
  \A p \in DOMAIN tr :
    /\ p \in NodePath /\ tr[p] \in Inode
    /\ \A n \in 0 .. Len(p) - 1 : SubSeq(p, 1, n) \in DOMAIN tr /\ tr[SubSeq(p, 1, n)].kind = "dir"

\* the file systems to start from
LEMMA SystemsOK ==
  ASSUME NEW T \in Systems
  PROVE  /\ IsTree(T) /\ IsFiniteSet(DOMAIN T) /\ Source \in DOMAIN T /\ T[Source].kind = "dir"
         /\ \A p \in DOMAIN T : T[p].kind # "reg" => T[p].data = <<>>
BY SystemsAssumption DEF IsTree, NodePath, Name, Inode

\* what is above a node
LEMMA AboveOf ==
  ASSUME NEW tr, IsTree(tr), NEW p \in DOMAIN tr, NEW q \in NodePath, Cp!IsPrefix(q, p), q # p
  PROVE  q \in DOMAIN tr /\ tr[q].kind = "dir"
<1> HIDE DEF Name
<1>1. p \in NodePath
  BY DEF IsTree
<1>2. Len(q) \in 0 .. Len(p) - 1
  <2>1. Len(q) < Len(p) /\ Len(q) \in Nat /\ Len(p) \in Nat
    BY <1>1, Below1 DEF NodePath
  <2> QED
    BY <2>1
<1>3. SubSeq(p, 1, Len(q)) = q
  <2>1. SubSeq(q, 1, Len(q)) = q
    BY DEF NodePath
  <2> QED
    BY <2>1 DEF Cp!IsPrefix
<1> QED
  BY <1>2, <1>3 DEF IsTree

\* a node that is made
LEMMA MadeTree ==
  ASSUME IsTree(fs), NEW path \in NodePath, Cp!MayCreate(path), NEW node \in Inode,
         fs' = Cp!With(path, node)
  PROVE  /\ IsTree(fs)' /\ DOMAIN fs' = DOMAIN fs \cup {path} /\ fs'[path] = node
         /\ \A p \in DOMAIN fs : fs'[p] = fs[p]
         /\ path # <<>>
<1> HIDE DEF Name
<1>1. /\ DOMAIN fs' = DOMAIN fs \cup {path} /\ fs'[path] = node
      /\ \A p \in DOMAIN fs : fs'[p] = fs[p]
  BY DEF Cp!With, Cp!MayCreate
<1>2. /\ path \notin DOMAIN fs /\ Cp!Front(path) \in DOMAIN fs
      /\ fs[Cp!Front(path)].kind = "dir"
  BY DEF Cp!MayCreate
<1>3. path # <<>>
  <2>1. SubSeq(<<>>, 1, -1) = <<>>
    BY SubSeqEmpty
  <2>2. Cp!Front(<<>>) = <<>>
    BY <2>1 DEF Cp!Front
  <2> QED
    BY <1>2, <2>2
<1>4. ASSUME NEW n \in 0 .. Len(path) - 1
      PROVE  SubSeq(path, 1, n) \in DOMAIN fs /\ fs[SubSeq(path, 1, n)].kind = "dir"
  <2> DEFINE f == Cp!Front(path)
  <2> DEFINE u == SubSeq(path, 1, n)
  <2>1. /\ Len(path) \in Nat \ {0} /\ f \in NodePath /\ Len(f) = Len(path) - 1
        /\ \A i \in 1 .. Len(path) - 1 : f[i] = path[i]
    BY <1>3, FrontNames
  <2>2. u \in NodePath /\ Len(u) = n /\ \A i \in 1 .. n : u[i] = path[i]
    BY <2>1, Part DEF NodePath
  <2> HIDE DEF f, u
  <2>3. Cp!IsPrefix(u, f)
    BY <2>1, <2>2, PrefixOf
  <2>4. CASE u = f
    BY <1>2, <2>4 DEF f, u
  <2>5. CASE u # f
    BY <1>2, <2>2, <2>3, <2>5, AboveOf DEF f, u
  <2> QED
    BY <2>4, <2>5
<1>5. IsTree(fs')
  <2>1. ASSUME NEW p \in DOMAIN fs
        PROVE  /\ p \in NodePath /\ fs'[p] \in Inode
               /\ \A n \in 0 .. Len(p) - 1 : SubSeq(p, 1, n) \in DOMAIN fs'
                                             /\ fs'[SubSeq(p, 1, n)].kind = "dir"
    BY <1>1 DEF IsTree
  <2>2. \A n \in 0 .. Len(path) - 1 : SubSeq(path, 1, n) \in DOMAIN fs'
                                      /\ fs'[SubSeq(path, 1, n)].kind = "dir"
    BY <1>1, <1>4
  <2> QED
    BY <1>1, <2>1, <2>2 DEF IsTree
<1> QED
  BY <1>1, <1>3, <1>5

-----------------------------------------------------------------------------
(* The calls of copytree and cp_dir.                                       *)

CopyCall == [ip : NodePath, op : NodePath, entered : BOOLEAN, left : SUBSET Name]

\* A call copies a directory below the source to the place it moves to, and what is left to
\* copy exists.  cp_dir has made the directory before the call, copytree makes it on entry;
\* both find it new, but for the target of cp.c.
CallOK(f) ==
  /\ f.ip \in DOMAIN fs /\ fs[f.ip].kind = "dir" /\ Cp!IsPrefix(Source, f.ip)
  /\ f.op = Cp!Moved(f.ip)
  /\ \A name \in f.left : Append(f.ip, name) \in DOMAIN fs
  /\ program = "cp" => f.op \in DOMAIN fs /\ fs[f.op].kind = "dir"
  /\ ~ dry_run /\ program = "cp" => f.ip = Source \/ f.op \notin DOMAIN before
  /\ ~ dry_run /\ program # "cp" =>
       /\ f.entered => f.op \notin DOMAIN before
       /\ f.ip = Source \/ Cp!Front(f.op) \notin DOMAIN before

CopyOptions ==
  /\ before \in Systems /\ target \in Targets
  /\ program \in {"copytree", "cp"} /\ dry_run \in BOOLEAN /\ copy_permissions \in BOOLEAN
  /\ program = "cp" => ~ dry_run /\ ~ copy_permissions

CopyTypes ==
  /\ CopyOptions /\ IsTree(fs) /\ (dry_run => fs = before)
  /\ stack \in Seq(CopyCall)
  /\ \A f \in Range(stack) : CallOK(f)
  /\ short \in Nat
  /\ copied # <<>> => copied = <<copied[1]>> /\ copied[1] \in [ip : NodePath, op : NodePath, pos : Nat]
                      /\ {copied[1].ip, copied[1].op} \subseteq DOMAIN fs /\ ~ dry_run
  /\ outcome = "done" => stack = <<>> /\ copied = <<>>

\* Nothing goes away and nothing becomes a node of another kind
Grows ==
  /\ UNCHANGED <<before, target, program, dry_run, copy_permissions>>
  /\ DOMAIN fs \subseteq DOMAIN fs' /\ \A p \in DOMAIN fs : fs'[p].kind = fs[p].kind

\* a stack with one more call
LEMMA OneMoreAt ==
  ASSUME NEW S, NEW f \in S, NEW rest \in Seq(S)
  PROVE  /\ <<f>> \o rest \in Seq(S)
         /\ Len(<<f>> \o rest) = Len(rest) + 1 /\ Len(rest) \in Nat
         /\ (<<f>> \o rest)[1] = f
         /\ \A i \in 1 .. Len(rest) : (<<f>> \o rest)[i + 1] = rest[i]
         /\ \A i \in 1 .. Len(<<f>> \o rest) :
              i = 1 \/ (i - 1 \in 1 .. Len(rest) /\ (<<f>> \o rest)[i] = rest[i - 1])
<1> DEFINE st == <<f>> \o rest
<1>1. Len(rest) \in Nat
  OBVIOUS
<1>2. /\ st \in Seq(S) /\ Len(st) = 1 + Len(rest)
      /\ \A i \in 1 .. 1 : st[i] = <<f>>[i]
      /\ \A i \in 1 + 1 .. 1 + Len(rest) : st[i] = rest[i - 1]
  <2>1. <<f>> \in Seq(S) /\ Len(<<f>>) = 1
    OBVIOUS
  <2> QED
    BY <2>1, Joined
<1> HIDE DEF st
<1>3. st[1] = f
  BY <1>2
<1>4. ASSUME NEW i \in 1 .. Len(rest) PROVE i + 1 \in 1 .. Len(st) /\ st[i + 1] = rest[i]
  <2>1. i + 1 \in 1 + 1 .. 1 + Len(rest) /\ (i + 1) - 1 = i
    BY <1>1
  <2> QED
    BY <1>2, <2>1
<1>5. ASSUME NEW i \in 1 .. Len(st), i # 1 PROVE i - 1 \in 1 .. Len(rest) /\ st[i] = rest[i - 1]
  BY <1>1, <1>2, <1>5
<1> QED
  BY <1>1, <1>2, <1>3, <1>4, <1>5 DEF st

\* the calls of a stack with one more call
LEMMA OneMore ==
  ASSUME NEW S, NEW f \in S, NEW rest \in Seq(S)
  PROVE  <<f>> \o rest \in Seq(S) /\ Range(<<f>> \o rest) = {f} \cup Range(rest)
<1> PICK st : st = <<f>> \o rest
  OBVIOUS
<1>1. /\ st \in Seq(S) /\ Len(st) = Len(rest) + 1 /\ Len(rest) \in Nat /\ st[1] = f
      /\ \A i \in 1 .. Len(rest) : st[i + 1] = rest[i]
      /\ \A i \in 1 .. Len(st) : i = 1 \/ (i - 1 \in 1 .. Len(rest) /\ st[i] = rest[i - 1])
  BY OneMoreAt
<1>2. DOMAIN st = 1 .. Len(st) /\ DOMAIN rest = 1 .. Len(rest) /\ 1 \in 1 .. Len(st)
  BY <1>1
<1>3. Range(st) \subseteq {f} \cup Range(rest)
  BY <1>1, <1>2 DEF Range
<1>4. f \in Range(st)
  BY <1>1, <1>2 DEF Range
<1>5. Range(rest) \subseteq Range(st)
  <2> SUFFICES ASSUME NEW i \in 1 .. Len(rest) PROVE rest[i] \in Range(st)
    BY <1>2 DEF Range
  <2>1. i + 1 \in 1 .. Len(st) /\ i + 1 # 1 /\ (i + 1) - 1 = i
    BY <1>1
  <2>2. st[i + 1] = rest[i]
    BY <1>1, <2>1
  <2> QED
    BY <1>2, <2>1, <2>2 DEF Range
<1> QED
  BY <1>1, <1>3, <1>4, <1>5

\* the innermost call and the others
LEMMA TopAndRest ==
  ASSUME NEW S, stack \in Seq(S), stack # <<>>
  PROVE  /\ Cp!Top \in S /\ Tail(stack) \in Seq(S) /\ stack = <<Cp!Top>> \o Tail(stack)
         /\ Range(stack) = {Cp!Top} \cup Range(Tail(stack))
<1>1. Cp!Top \in S /\ Tail(stack) \in Seq(S) /\ stack = <<Head(stack)>> \o Tail(stack)
  BY DEF Cp!Top
<1> QED
  BY <1>1, OneMore DEF Cp!Top

\* A call stays sound when nothing goes away.
LEMMA CallStays ==
  ASSUME Grows
  PROVE  \A f : CallOK(f) => CallOK(f)'
<1>1. ASSUME NEW f PROVE Cp!Moved(f.ip)' = Cp!Moved(f.ip)
  BY DEF Grows, Cp!Moved
<1> QED
  BY <1>1 DEF Grows, CallOK

\* The calls stay sound; what the innermost becomes has to be.
LEMMA OthersStay ==
  ASSUME CopyTypes, Grows, stack # <<>>
  PROVE  /\ Cp!Top \in CopyCall /\ CallOK(Cp!Top) /\ Cp!Top \in Range(stack)
         /\ Tail(stack) \in Seq(CopyCall) /\ \A f \in Range(stack) : CallOK(f)'
         /\ \A f \in Range(Tail(stack)) : f \in Range(stack)
<1>1. /\ Cp!Top \in CopyCall /\ Tail(stack) \in Seq(CopyCall)
      /\ Range(stack) = {Cp!Top} \cup Range(Tail(stack))
  BY TopAndRest DEF CopyTypes
<1>2. \A f \in Range(stack) : CallOK(f)
  BY DEF CopyTypes
<1>3. \A f \in Range(stack) : CallOK(f)'
  BY <1>2, CallStays
<1> QED
  BY <1>1, <1>2, <1>3

\* two calls in the place of the innermost
LEMMA OneByOne ==
  ASSUME NEW S, NEW f \in S, NEW g \in S, NEW rest \in Seq(S)
  PROVE  <<f, g>> \o rest = <<f>> \o (<<g>> \o rest)
<1>1. /\ <<f>> \in Seq(S) /\ <<g>> \in Seq(S) /\ <<f, g>> \in Seq(S)
      /\ Len(<<f>>) = 1 /\ Len(<<g>>) = 1 /\ Len(<<f, g>>) = 2
      /\ <<f, g>>[1] = f /\ <<f, g>>[2] = g /\ <<f>>[1] = f /\ <<g>>[1] = g
  OBVIOUS
<1> DEFINE u == <<f>> \o <<g>>
<1>2. /\ u \in Seq(S) /\ Len(u) = 2 /\ u[1] = f /\ u[2] = g
  <2>1. /\ u \in Seq(S) /\ Len(u) = 1 + 1
        /\ \A i \in 1 .. 1 : u[i] = <<f>>[i]
        /\ \A i \in 1 + 1 .. 1 + 1 : u[i] = <<g>>[i - 1]
    BY <1>1, Joined
  <2> HIDE DEF u
  <2> QED
    BY <1>1, <2>1
<1> HIDE DEF u
<1>3. u = <<f, g>>
  <2>1. \A i \in 1 .. Len(u) : u[i] = <<f, g>>[i]
    BY <1>1, <1>2
  <2> QED
    BY <1>1, <1>2, <2>1, SeqEqual
<1>4. (<<f>> \o <<g>>) \o rest = <<f>> \o (<<g>> \o rest)
  BY <1>1, ConcatAssociative
<1> QED
  BY <1>3, <1>4 DEF u

\* the calls of a stack with two more calls
LEMMA TwoMore ==
  ASSUME NEW S, NEW f \in S, NEW g \in S, NEW rest \in Seq(S)
  PROVE  <<f, g>> \o rest \in Seq(S) /\ Range(<<f, g>> \o rest) = {f, g} \cup Range(rest)
<1>1. <<f, g>> \o rest = <<f>> \o (<<g>> \o rest)
  BY OneByOne
<1>2. PICK u : u = <<g>> \o rest
  OBVIOUS
<1>3. u \in Seq(S) /\ Range(u) = {g} \cup Range(rest)
  BY <1>2, OneMore
<1>4. <<f>> \o u \in Seq(S) /\ Range(<<f>> \o u) = {f} \cup Range(u)
  BY <1>3, OneMore
<1> QED
  BY <1>1, <1>2, <1>3, <1>4

\* One call, two or none in the place of the innermost.
LEMMA NewCalls ==
  ASSUME CopyTypes, Grows, stack # <<>>, NEW f \in CopyCall, NEW g \in CopyCall,
         CallOK(f)', CallOK(g)',
         stack' \in {<<f>> \o Tail(stack), <<f, g>> \o Tail(stack), Tail(stack)}
  PROVE  stack' \in Seq(CopyCall) /\ \A x \in Range(stack') : CallOK(x)'
<1> HIDE DEF CopyCall
<1> DEFINE rest == Tail(stack)
<1>1. rest \in Seq(CopyCall) /\ \A x \in Range(rest) : CallOK(x)'
  BY OthersStay
<1> HIDE DEF rest
<1>2. CASE stack' = <<f>> \o rest
  BY <1>1, <1>2, OneMore
<1>3. CASE stack' = <<f, g>> \o rest
  <2>1. /\ <<f, g>> \o rest \in Seq(CopyCall)
        /\ Range(<<f, g>> \o rest) = {f, g} \cup Range(rest)
    <3>1. f \in CopyCall /\ g \in CopyCall /\ rest \in Seq(CopyCall)
      BY <1>1
    <3> QED
      BY <3>1, TwoMore
  <2>2. \A x \in {f, g} \cup Range(rest) : CallOK(x)'
    BY <1>1
  <2> QED
    BY <1>3, <2>1, <2>2
<1>4. CASE stack' = rest
  BY <1>1, <1>4
<1> QED
  BY <1>2, <1>3, <1>4 DEF rest

\* the names in a directory
LEMMA NamesIn ==
  ASSUME NEW tr, IsTree(tr), NEW p \in NodePath
  PROVE  /\ Cp!Names(p, tr) \subseteq Name
         /\ \A n \in Name : n \in Cp!Names(p, tr) <=> Append(p, n) \in DOMAIN tr
<1> HIDE DEF Name
<1>1. \A q \in DOMAIN tr : q \in NodePath
  BY DEF IsTree
<1>2. \A q \in DOMAIN tr : q # <<>> =>
        Cp!Last(q) \in Name /\ q = Append(Cp!Front(q), Cp!Last(q))
  BY <1>1, FrontOf
<1>3. \A n \in Name : /\ Append(p, n) # <<>> /\ Cp!Front(Append(p, n)) = p
                      /\ Cp!Last(Append(p, n)) = n
  BY EntryOf
<1> QED
  BY <1>2, <1>3 DEF Cp!Names

\* an entry that is copied, and where it goes
LEMMA EntryOK ==
  ASSUME CopyTypes, NEW name, Cp!Pick(name)
  PROVE  /\ target \in NodePath /\ stack # <<>> /\ Cp!Top \in CopyCall /\ CallOK(Cp!Top) /\ name \in Name
         /\ Cp!In(name) \in NodePath /\ Cp!In(name) \in DOMAIN fs /\ Cp!In(name) # Source
         /\ Cp!IsPrefix(Source, Cp!In(name)) /\ Cp!Front(Cp!In(name)) = Cp!Top.ip
         /\ Cp!Out(name) \in NodePath /\ Cp!Out(name) = Cp!Moved(Cp!In(name))
         /\ Cp!Front(Cp!Out(name)) = Cp!Top.op
<1> HIDE DEF Name
<1> DEFINE t == Cp!Top
<1>1. stack # <<>> /\ t \in CopyCall /\ CallOK(t) /\ t.entered /\ name \in t.left
  BY TopAndRest DEF Cp!Pick, Cp!Busy, CopyTypes
<1>2. target \in NodePath
  BY Paths DEF CopyTypes, CopyOptions
<1> HIDE DEF t
<1>3. t.ip \in NodePath /\ t.op \in NodePath /\ name \in Name
  BY <1>1 DEF CopyCall
<1>4. /\ Cp!IsPrefix(Source, t.ip) /\ t.op = Cp!Moved(t.ip) /\ Append(t.ip, name) \in DOMAIN fs
  BY <1>1 DEF CallOK
<1>5. /\ Append(t.ip, name) \in NodePath /\ Cp!Front(Append(t.ip, name)) = t.ip
      /\ Append(t.op, name) \in NodePath /\ Cp!Front(Append(t.op, name)) = t.op
      /\ ~ Cp!IsPrefix(Append(t.ip, name), t.ip)
  BY <1>3, EntryOf
<1>6. Cp!IsPrefix(Source, Append(t.ip, name)) /\ Cp!Moved(Append(t.ip, name)) = Append(t.op, name)
  BY <1>2, <1>3, <1>4, MovedEntry
<1>7. Append(t.ip, name) # Source
  BY <1>4, <1>5
<1> QED
  BY <1>1, <1>2, <1>3, <1>4, <1>5, <1>6, <1>7 DEF t, Cp!In, Cp!Out

\* the call that has taken an entry
LEMMA TookOK ==
  ASSUME CopyTypes, NEW name, Cp!Pick(name)
  PROVE  /\ Cp!Took(name) \in CopyCall /\ CallOK(Cp!Took(name))
         /\ Cp!Took(name).ip = Cp!Top.ip /\ Cp!Took(name).entered
         /\ Cp!Took(name).left = Cp!Top.left \ {name}
<1> HIDE DEF Name
<1> DEFINE t == Cp!Top
<1> DEFINE f == Cp!Took(name)
<1>1. t \in CopyCall /\ CallOK(t) /\ t.entered
  BY EntryOK DEF Cp!Pick
<1>2. f = [t EXCEPT !.left = @ \ {name}]
  BY DEF Cp!Took
<1> HIDE DEF t, f
<1>3. /\ f \in CopyCall /\ f.ip = t.ip /\ f.op = t.op /\ f.entered = t.entered
      /\ f.left = t.left \ {name}
  BY <1>1, <1>2 DEF CopyCall
<1>4. CallOK(f)
  BY <1>1, <1>3 DEF CallOK
<1> QED
  BY <1>1, <1>3, <1>4 DEF t, f

\* a step that makes one node, or none
LEMMA OneNode ==
  ASSUME CopyTypes, CpInv, UNCHANGED <<before, target, program, dry_run, copy_permissions>>,
         \/ fs' = fs
         \/ ~ dry_run /\ \E path \in NodePath, node \in Inode : /\ Cp!MayCreate(path)
                                                            /\ fs' = Cp!With(path, node)
  PROVE  Grows /\ IsTree(fs') /\ CopyOptions' /\ (dry_run => fs' = before)
<1>1. IsTree(fs) /\ CopyOptions /\ (dry_run => fs = before)
  BY DEF CopyTypes
<1>2. CopyOptions'
  BY <1>1 DEF CopyOptions
<1>3. CASE fs' = fs
  BY <1>1, <1>2, <1>3 DEF Grows
<1>4. ASSUME NEW path \in NodePath, NEW node \in Inode, ~ dry_run, Cp!MayCreate(path),
             fs' = Cp!With(path, node)
      PROVE  Grows /\ IsTree(fs')
  BY <1>1, <1>4, MadeTree DEF Grows
<1> QED
  BY <1>2, <1>3, <1>4

\* the beginning of a call
Entered(g) ==
  /\ stack # <<>> /\ ~ Cp!Top.entered /\ stack' = <<g>> \o Tail(stack)
  /\ g \in CopyCall /\ g.ip = Cp!Top.ip /\ g.entered /\ g.left = Cp!Names(Cp!Top.ip, fs')

\* It makes at most one directory, and its names are what there is to copy.
LEMMA EnterTypes ==
  ASSUME CopyTypes, CpInv, Cp!EnterMkdir \/ Cp!EnterScan
  PROVE  Grows /\ CopyTypes' /\ \E g : Entered(g)
<1> HIDE DEF Name
<1>0. PICK t : t = Cp!Top
  OBVIOUS
<1>1. /\ stack # <<>> /\ t \in CopyCall /\ CallOK(t) /\ ~ t.entered /\ copied = <<>>
      /\ outcome = "running"
  BY <1>0, TopAndRest DEF Cp!EnterMkdir, Cp!EnterScan, Cp!Busy, Cp!Running, CopyTypes
<1>2. /\ UNCHANGED <<before, target, program, dry_run, copy_permissions, copied, outcome, short>>
      /\ stack' = <<[t EXCEPT !.entered = TRUE, !.left = Cp!Names(t.ip, fs')]>> \o Tail(stack)
  BY <1>0 DEF Cp!EnterMkdir, Cp!EnterScan, Cp!options
<1>3. \/ fs' = fs /\ (program = "cp" \/ dry_run)
      \/ /\ ~ dry_run /\ program = "copytree" /\ Cp!MayCreate(t.op)
         /\ fs' = Cp!With(t.op, Cp!Dir(copy_permissions /\ fs[t.ip].ro))
  BY <1>0 DEF Cp!EnterMkdir, Cp!EnterScan
<1>4. t.ip \in NodePath /\ t.op \in NodePath
  BY <1>1 DEF CopyCall
<1>5. Grows /\ IsTree(fs') /\ CopyOptions' /\ (dry_run => fs' = before)
  <2>1. Cp!Dir(copy_permissions /\ fs[t.ip].ro) \in Inode
    BY DEF Cp!Dir, Inode
  <2> QED
    BY <1>2, <1>3, <1>4, <2>1, OneNode
<1>6. PICK g : g = [t EXCEPT !.entered = TRUE, !.left = Cp!Names(t.ip, fs')]
  OBVIOUS
<1>7. /\ g \in CopyCall /\ g.ip = t.ip /\ g.op = t.op /\ g.entered = TRUE
      /\ g.left = Cp!Names(t.ip, fs')
  <2>1. Cp!Names(t.ip, fs') \in SUBSET Name
    BY <1>4, <1>5, NamesIn
  <2> QED
    BY <1>1, <1>6, <2>1 DEF CopyCall
<1>8. CallOK(t)' /\ Grows
  BY <1>0, <1>1, <1>5, OthersStay
<1>9. CallOK(g)'
  <2>1. ASSUME NEW n \in g.left PROVE Append(g.ip, n) \in DOMAIN fs'
    BY <1>4, <1>5, <1>7, <2>1, NamesIn
  <2>2. ~ dry_run /\ program # "cp" => t.op \notin DOMAIN before
    <3>1. DOMAIN before \subseteq DOMAIN fs
      BY DEF CpInv, Cp!KeepsExisting
    <3> QED
      BY <1>3, <3>1 DEF Cp!MayCreate
  <2>3. /\ g.ip \in DOMAIN fs' /\ fs'[g.ip].kind = "dir" /\ Cp!IsPrefix(Source, g.ip)
        /\ g.op = Cp!Moved(g.ip)'
        /\ program' = "cp" => g.op \in DOMAIN fs' /\ fs'[g.op].kind = "dir"
        /\ ~ dry_run' /\ program' = "cp" => g.ip = Source \/ g.op \notin DOMAIN before'
        /\ ~ dry_run' /\ program' # "cp" => g.ip = Source \/ Cp!Front(g.op) \notin DOMAIN before'
    BY <1>7, <1>8 DEF CallOK
  <2> QED
    BY <1>2, <2>1, <2>2, <2>3, <1>7 DEF CallOK
<1>10. stack' \in Seq(CopyCall) /\ \A x \in Range(stack') : CallOK(x)'
  BY <1>1, <1>2, <1>5, <1>6, <1>7, <1>9, NewCalls
<1>11. CopyTypes'
  BY <1>1, <1>2, <1>5, <1>10 DEF CopyTypes
<1>12. Entered(g)
  BY <1>0, <1>1, <1>2, <1>6, <1>7 DEF Entered
<1> QED
  BY <1>5, <1>11, <1>12

\* The descent into a directory.
Descended(name, f) ==
  /\ Cp!Pick(name) /\ fs[Cp!In(name)].kind = "dir"
  /\ stack' = <<f, Cp!Took(name)>> \o Tail(stack)
  /\ f \in CopyCall /\ f = Cp!Frame(Cp!In(name), Cp!Out(name))

\* It begins a call on the directory, of which copytree makes the copy on entry.
LEMMA DescendTypes ==
  ASSUME CopyTypes, CpInv, NEW name, Cp!SubTree(name) \/ Cp!SubDir(name), outcome' # "failed"
  PROVE  Grows /\ CopyTypes' /\ \E f : Descended(name, f)
<1> HIDE DEF Name
<1>0. PICK t, g, p, m : t = Cp!Top /\ g = Cp!Took(name) /\ p = Cp!In(name) /\ m = Cp!Out(name)
  OBVIOUS
<1>1. Cp!Pick(name) /\ stack # <<>> /\ copied = <<>> /\ outcome = "running" /\ fs[p].kind = "dir"
  BY <1>0 DEF Cp!SubTree, Cp!SubDir, Cp!Pick, Cp!Busy, Cp!Running, Cp!Kind
<1>2. /\ target \in NodePath /\ t \in CopyCall /\ CallOK(t) /\ t.entered
      /\ p \in NodePath /\ p \in DOMAIN fs /\ p # Source /\ Cp!IsPrefix(Source, p)
      /\ m \in NodePath /\ m = Cp!Moved(p) /\ Cp!Front(m) = t.op
  BY <1>0, <1>1, EntryOK DEF Cp!Pick
<1>3. g \in CopyCall /\ CallOK(g)
  BY <1>0, <1>1, TookOK
<1>4. /\ UNCHANGED <<before, target, program, dry_run, copy_permissions, copied, outcome, short>>
      /\ stack' = <<Cp!Frame(p, m), g>> \o Tail(stack)
      /\ \/ fs' = fs /\ program = "copytree"
         \/ /\ program = "cp" /\ Cp!MayCreate(m) /\ fs' = Cp!With(m, Cp!Dir(FALSE))
  BY <1>0 DEF Cp!SubTree, Cp!SubDir, Cp!options, Cp!Fail
<1>5. Grows /\ IsTree(fs') /\ CopyOptions' /\ (dry_run => fs' = before)
  <2>1. Cp!Dir(FALSE) \in Inode
    BY DEF Cp!Dir, Inode
  <2>2. program = "cp" => ~ dry_run
    BY DEF CopyTypes, CopyOptions
  <2> QED
    BY <1>2, <1>4, <2>1, <2>2, OneNode
<1>6. CallOK(g)'
  BY <1>3, <1>5, CallStays
<1>7. PICK f : f = Cp!Frame(p, m)
  OBVIOUS
<1>8. f \in CopyCall /\ f.ip = p /\ f.op = m /\ f.entered = FALSE /\ f.left = {}
  BY <1>2, <1>7 DEF CopyCall, Cp!Frame
<1>9. CallOK(f)'
  <2>1. p \in DOMAIN fs' /\ fs'[p].kind = "dir" /\ Cp!Moved(p)' = m
    BY <1>1, <1>2, <1>4, <1>5 DEF Grows, Cp!Moved
  <2>2. program = "cp" => m \in DOMAIN fs' /\ fs'[m].kind = "dir" /\ m \notin DOMAIN before
    <3>1. DOMAIN before \subseteq DOMAIN fs
      BY DEF CpInv, Cp!KeepsExisting
    <3> QED
      BY <1>4, <3>1 DEF Cp!MayCreate, Cp!With, Cp!Dir
  <2>3. ~ dry_run /\ program # "cp" => Cp!Front(m) \notin DOMAIN before
    BY <1>2 DEF CallOK
  <2> QED
    BY <1>2, <1>4, <1>8, <2>1, <2>2, <2>3 DEF CallOK
<1>10. stack' \in Seq(CopyCall) /\ \A x \in Range(stack') : CallOK(x)'
  BY <1>1, <1>3, <1>4, <1>5, <1>6, <1>7, <1>8, <1>9, NewCalls
<1>11. CopyTypes'
  BY <1>1, <1>4, <1>5, <1>10 DEF CopyTypes
<1>12. Descended(name, f)
  BY <1>0, <1>1, <1>4, <1>7, <1>8 DEF Descended
<1> QED
  BY <1>5, <1>11, <1>12

\* An entry that is not a directory.
Passed(name) ==
  /\ Cp!Pick(name) /\ fs[Cp!In(name)].kind # "dir"
  /\ stack' = <<Cp!Took(name)>> \o Tail(stack)

\* It is taken, and at most one node is made for it.
LEMMA PassTypes ==
  ASSUME CopyTypes, CpInv, NEW name, Cp!Link(name) \/ Cp!Special(name) \/ Cp!Regular(name),
         outcome' # "failed"
  PROVE  Grows /\ CopyTypes' /\ Passed(name)
<1> HIDE DEF Name
<1>0. PICK t, g, p, m : t = Cp!Top /\ g = Cp!Took(name) /\ p = Cp!In(name) /\ m = Cp!Out(name)
  OBVIOUS
<1>1. Cp!Pick(name) /\ stack # <<>> /\ copied = <<>> /\ outcome = "running" /\ fs[p].kind # "dir"
  BY <1>0 DEF Cp!Link, Cp!Special, Cp!Regular, Cp!Pick, Cp!Busy, Cp!Running, Cp!Kind
<1>2. p \in NodePath /\ p \in DOMAIN fs /\ m \in NodePath
  BY <1>0, <1>1, EntryOK
<1>3. g \in CopyCall /\ CallOK(g)
  BY <1>0, <1>1, TookOK
<1>4. /\ UNCHANGED <<before, target, program, dry_run, copy_permissions, outcome, short>>
      /\ stack' = <<g>> \o Tail(stack)
  BY <1>0 DEF Cp!Link, Cp!Special, Cp!Regular, Cp!options, Cp!Fail
<1>5. \/ fs' = fs /\ copied' = copied
      \/ ~ dry_run /\ Cp!MayCreate(m) /\ fs' = Cp!With(m, fs[p]) /\ copied' = copied
      \/ /\ ~ dry_run /\ Cp!MayCreate(m)
         /\ fs' = Cp!With(m, [kind |-> "reg", ro |-> FALSE, data |-> <<>>])
         /\ copied' = <<[ip |-> p, op |-> m, pos |-> 0]>>
  BY <1>0 DEF Cp!Link, Cp!Special, Cp!Regular, Cp!Fail
<1>6. Grows /\ IsTree(fs') /\ CopyOptions' /\ (dry_run => fs' = before)
  <2>1. fs[p] \in Inode /\ [kind |-> "reg", ro |-> FALSE, data |-> <<>>] \in Inode
    BY <1>2 DEF CopyTypes, IsTree, Inode
  <2> QED
    BY <1>2, <1>4, <1>5, <2>1, OneNode
<1>7. CallOK(g)'
  BY <1>3, <1>6, CallStays
<1>8. stack' \in Seq(CopyCall) /\ \A x \in Range(stack') : CallOK(x)'
  BY <1>1, <1>3, <1>4, <1>6, <1>7, NewCalls
<1>9. copied' # <<>> => copied' = <<copied'[1]>> /\ copied'[1] \in [ip : NodePath, op : NodePath, pos : Nat]
                        /\ {copied'[1].ip, copied'[1].op} \subseteq DOMAIN fs' /\ ~ dry_run
  <2>1. CASE copied' = copied
    BY <1>1, <2>1
  <2>2. CASE copied' # copied
    <3>1. fs' = Cp!With(m, [kind |-> "reg", ro |-> FALSE, data |-> <<>>])
          /\ copied' = <<[ip |-> p, op |-> m, pos |-> 0]>> /\ ~ dry_run
      BY <1>5, <2>2
    <3>2. p \in DOMAIN fs' /\ m \in DOMAIN fs'
      BY <1>2, <3>1 DEF Cp!With
    <3> QED
      BY <1>2, <3>1, <3>2
  <2> QED
    BY <2>1, <2>2
<1>10. CopyTypes'
  BY <1>1, <1>4, <1>6, <1>8, <1>9 DEF CopyTypes
<1>11. Passed(name)
  BY <1>0, <1>1, <1>4 DEF Passed
<1> QED
  BY <1>6, <1>10, <1>11

\* the lesser of two numbers
LEMMA MinOf ==
  ASSUME NEW a \in Nat, NEW b \in Nat
  PROVE  Cp!Min({a, b}) \in {a, b} /\ Cp!Min({a, b}) =< a /\ Cp!Min({a, b}) =< b
<1>1. \E x \in {a, b} : \A y \in {a, b} : x =< y
  <2>1. CASE a =< b
    BY <2>1
  <2>2. CASE ~ (a =< b)
    <3>1. b =< a /\ b =< b
      BY <2>2
    <3> QED
      BY <3>1
  <2> QED
    BY <2>1, <2>2
<1>2. Cp!Min({a, b}) \in {a, b} /\ \A y \in {a, b} : Cp!Min({a, b}) =< y
  BY <1>1 DEF Cp!Min
<1> QED
  BY <1>2

\* the file that is being copied, and the rest of its bytes
LEMMA FileTypes ==
  ASSUME CopyTypes, copied # <<>>
  PROVE  /\ copied = <<copied[1]>> /\ copied[1] \in [ip : NodePath, op : NodePath, pos : Nat]
         /\ copied[1].ip \in DOMAIN fs /\ copied[1].op \in DOMAIN fs
         /\ Cp!Data = fs[copied[1].ip].data /\ Cp!Data \in Seq(Nat)
         /\ fs[copied[1].ip] \in Inode /\ fs[copied[1].op] \in Inode
         /\ Cp!Block \in Seq(Nat)
         /\ Len(Cp!Block) = IF copied[1].pos + 1 =< Len(Cp!Data) THEN Len(Cp!Data) - copied[1].pos ELSE 0
<1> HIDE DEF Name
<1>1. /\ copied = <<copied[1]>> /\ copied[1] \in [ip : NodePath, op : NodePath, pos : Nat]
      /\ copied[1].ip \in DOMAIN fs /\ copied[1].op \in DOMAIN fs
  BY DEF CopyTypes
<1>2. fs[copied[1].ip] \in Inode /\ fs[copied[1].op] \in Inode
  BY <1>1 DEF CopyTypes, IsTree
<1>3. Cp!Data = fs[copied[1].ip].data /\ Cp!Data \in Seq(Nat)
  BY <1>2 DEF Cp!Data, Inode
<1> DEFINE d == Cp!Data
<1> DEFINE pos == copied[1].pos
<1>4. pos \in Nat /\ pos + 1 \in Nat \ {0} /\ Len(d) \in Nat /\ Cp!Block = SubSeq(d, pos + 1, Len(d))
  BY <1>1, <1>3 DEF Cp!Block
<1> HIDE DEF d, pos
<1>5. /\ Cp!Block \in Seq(Nat)
      /\ Len(Cp!Block) = IF pos + 1 =< Len(d) THEN Len(d) - (pos + 1) + 1 ELSE 0
  BY <1>3, <1>4, Part DEF d
<1>6. Len(Cp!Block) = IF pos + 1 =< Len(d) THEN Len(d) - pos ELSE 0
  BY <1>4, <1>5
<1> QED
  BY <1>1, <1>2, <1>3, <1>5, <1>6 DEF d, pos

\* a block of the file
LEMMA BlockMoved ==
  ASSUME CopyTypes, Cp!duplicate \/ Cp!cp_file
  PROVE  /\ copied # <<>> /\ outcome = "running" /\ short' \in Nat
         /\ \E read \in 1 .. Len(Cp!Block), written \in 0 .. Len(Cp!Block) :
              /\ written =< read /\ Cp!Transfer(read, written)
              /\ short' = 0 => short = 0 /\ written = read
<1>1. copied # <<>> /\ outcome = "running" /\ short \in Nat /\ Cp!Block # <<>>
  BY DEF Cp!duplicate, Cp!cp_file, Cp!Running, CopyTypes
<1>2. Cp!Block \in Seq(Nat) /\ Len(Cp!Block) \in Nat \ {0}
  <2>1. Cp!Block \in Seq(Nat)
    BY <1>1, FileTypes
  <2> QED
    BY <1>1, <2>1, EmptySeq
<1>3. CASE Cp!duplicate
  <2> DEFINE most == Cp!Min({BLOCK, Len(Cp!Block)})
  <2>1. most \in 1 .. Len(Cp!Block)
    <3>1. BLOCK \in Nat \ {0}
      BY SystemsAssumption
    <3>2. most \in {BLOCK, Len(Cp!Block)} /\ most =< Len(Cp!Block)
      BY <1>2, <3>1, MinOf
    <3> HIDE DEF most
    <3> QED
      BY <1>2, <3>1, <3>2
  <2>2. PICK written \in 0 .. most :
          /\ Cp!Transfer(most, written)
          /\ short' = short \/ short' = short + 1
          /\ short' = short => written = most
    <3>1. short # short + 1
      BY <1>1
    <3> QED
      BY <1>3, <3>1 DEF Cp!duplicate
  <2> HIDE DEF most
  <2>3. short' \in Nat /\ (short' = 0 => short = 0 /\ short' = short)
    BY <1>1, <2>2
  <2> QED
    BY <1>1, <2>1, <2>2, <2>3
<1>4. CASE Cp!cp_file
  <2>1. PICK sent \in 1 .. Len(Cp!Block) : Cp!Transfer(sent, sent) /\ short' = short
    BY <1>4 DEF Cp!cp_file
  <2> QED
    BY <1>1, <1>2, <2>1
<1> QED
  BY <1>3, <1>4

\* nothing but the node of the copy changes, and not its kind
LEMMA FileGrows ==
  ASSUME CopyTypes, copied # <<>>, NEW node \in Inode,
         node.kind = fs[copied[1].op].kind, fs' = [fs EXCEPT ![copied[1].op] = node],
         UNCHANGED <<before, target, program, dry_run, copy_permissions>>,
         UNCHANGED stack, outcome' = "running", short' \in Nat,
         copied' = <<>> \/ \E pos \in Nat : copied' = <<[ip |-> copied[1].ip, op |-> copied[1].op, pos |-> pos]>>
  PROVE  Grows /\ CopyTypes'
<1> HIDE DEF Name
<1>1. /\ copied[1] \in [ip : NodePath, op : NodePath, pos : Nat]
      /\ copied[1].ip \in DOMAIN fs /\ copied[1].op \in DOMAIN fs
  BY FileTypes
<1>2. /\ DOMAIN fs' = DOMAIN fs /\ fs'[copied[1].op] = node
      /\ \A p \in DOMAIN fs : p # copied[1].op => fs'[p] = fs[p]
  BY <1>1
<1>3. \A p \in DOMAIN fs : fs'[p].kind = fs[p].kind
  BY <1>2
<1>4. Grows
  BY <1>2, <1>3 DEF Grows
<1>5. IsTree(fs')
  <2>1. \A p \in DOMAIN fs : fs'[p] \in Inode
    BY <1>2 DEF CopyTypes, IsTree
  <2>2. IsTree(fs)
    BY DEF CopyTypes
  <2>3. ASSUME NEW p \in DOMAIN fs, NEW n \in 0 .. Len(p) - 1
        PROVE  SubSeq(p, 1, n) \in DOMAIN fs' /\ fs'[SubSeq(p, 1, n)].kind = "dir"
    <3>1. SubSeq(p, 1, n) \in DOMAIN fs /\ fs[SubSeq(p, 1, n)].kind = "dir"
      BY <2>2 DEF IsTree
    <3> QED
      BY <1>2, <1>3, <3>1
  <2>4. \A p \in DOMAIN fs : p \in NodePath
    BY <2>2 DEF IsTree
  <2> QED
    BY <1>2, <2>1, <2>3, <2>4 DEF IsTree
<1>6. \A f \in Range(stack') : CallOK(f)'
  <2>1. Range(stack') = Range(stack)
    OBVIOUS
  <2>2. \A f \in Range(stack) : CallOK(f)
    BY DEF CopyTypes
  <2> QED
    BY <1>4, <2>1, <2>2, CallStays
<1>7. copied' # <<>> => copied' = <<copied'[1]>> /\ copied'[1] \in [ip : NodePath, op : NodePath, pos : Nat]
                        /\ {copied'[1].ip, copied'[1].op} \subseteq DOMAIN fs' /\ ~ dry_run
  <2>1. ASSUME NEW pos \in Nat,
               copied' = <<[ip |-> copied[1].ip, op |-> copied[1].op, pos |-> pos]>>
        PROVE  copied' = <<copied'[1]>> /\ copied'[1] \in [ip : NodePath, op : NodePath, pos : Nat]
               /\ {copied'[1].ip, copied'[1].op} \subseteq DOMAIN fs'
    BY <1>1, <1>2, <2>1
  <2>2. ~ dry_run
    BY DEF CopyTypes
  <2> QED
    BY <2>1, <2>2
<1>8. CopyOptions' /\ (dry_run' => fs' = before') /\ stack' \in Seq(CopyCall)
  <2>1. ~ dry_run
    BY DEF CopyTypes
  <2> QED
    BY <2>1 DEF CopyTypes, CopyOptions
<1> QED
  BY <1>4, <1>5, <1>6, <1>7, <1>8 DEF CopyTypes

\* what a step on the bytes of a file does to its copy
Rewritten(node) ==
  /\ copied # <<>> /\ node \in Inode /\ node.kind = fs[copied[1].op].kind
  /\ fs' = [fs EXCEPT ![copied[1].op] = node]
  /\ UNCHANGED <<stack, bytes_copied>> /\ outcome' = "running"

\* A block goes to the end of the copy, and the position moves on.
LEMMA TransferTypes ==
  ASSUME CopyTypes, copied # <<>>, outcome = "running", short' \in Nat,
         NEW read \in Nat, NEW written \in 0 .. Len(Cp!Block), Cp!Transfer(read, written)
  PROVE  /\ Grows /\ CopyTypes'
         /\ \E node : /\ Rewritten(node)
                      /\ node.data = fs[copied[1].op].data \o SubSeq(Cp!Block, 1, written)
         /\ copied' = <<[ip |-> copied[1].ip, op |-> copied[1].op, pos |-> copied[1].pos + read]>>
<1> HIDE DEF Name
<1>1. /\ copied[1] \in [ip : NodePath, op : NodePath, pos : Nat]
      /\ fs[copied[1].op] \in Inode /\ copied[1].op \in DOMAIN fs /\ Cp!Block \in Seq(Nat)
  BY FileTypes
<1> DEFINE more == SubSeq(Cp!Block, 1, written)
<1>2. more \in Seq(Nat)
  <2>1. written \in Nat /\ written =< Len(Cp!Block)
    BY <1>1
  <2> QED
    BY <1>1, <2>1, Part
<1> HIDE DEF more
<1>3. PICK data, node : /\ data = fs[copied[1].op].data \o more
                        /\ node = [fs[copied[1].op] EXCEPT !.data = data]
  OBVIOUS
<1>4. data \in Seq(Nat)
  <2>1. fs[copied[1].op].data \in Seq(Nat)
    BY <1>1 DEF Inode
  <2> QED
    BY <1>2, <1>3, <2>1, Joined
<1>5. node \in Inode /\ node.kind = fs[copied[1].op].kind /\ node.data = fs[copied[1].op].data \o more
  BY <1>1, <1>3, <1>4 DEF Inode
<1>6. fs' = [fs EXCEPT ![copied[1].op] = node]
  BY <1>3 DEF Cp!Transfer, more
<1>7. copied' = <<[ip |-> copied[1].ip, op |-> copied[1].op, pos |-> copied[1].pos + read]>>
  <2>1. PICK f : f = copied[1]
    OBVIOUS
  <2>2. [f EXCEPT !.pos = @ + read] = [ip |-> f.ip, op |-> f.op, pos |-> f.pos + read]
    BY <1>1, <2>1
  <2> QED
    BY <2>1, <2>2 DEF Cp!Transfer
<1>8. UNCHANGED <<before, target, program, dry_run, copy_permissions, stack, bytes_copied, outcome>>
  BY DEF Cp!Transfer, Cp!options
<1>9. copied[1].pos + read \in Nat
  BY <1>1
<1>10. Grows /\ CopyTypes'
  BY <1>5, <1>6, <1>7, <1>8, <1>9, FileGrows
<1>11. Rewritten(node)
  BY <1>5, <1>6, <1>8 DEF Rewritten
<1> QED
  BY <1>5, <1>7, <1>10, <1>11 DEF more

\* At the end of the file its copy has the bytes it has, and the mode of the file if that was asked for.
LEMMA FileEndTypes ==
  ASSUME CopyTypes, Cp!FileEnd
  PROVE  /\ Grows /\ CopyTypes' /\ copied' = <<>> /\ short' = short
         /\ \E node : /\ Rewritten(node) /\ node.data = fs[copied[1].op].data
                      /\ copy_permissions => node.ro = fs[copied[1].ip].ro
<1> HIDE DEF Name
<1>0. copied # <<>> /\ short \in Nat
  BY DEF Cp!FileEnd, CopyTypes
<1>1. fs[copied[1].op] \in Inode /\ fs[copied[1].ip] \in Inode
  BY <1>0, FileTypes
<1> DEFINE ro == copy_permissions /\ fs[copied[1].ip].ro
<1>2. PICK node : node = [fs[copied[1].op] EXCEPT !.ro = ro]
  OBVIOUS
<1>3. ro \in BOOLEAN /\ (copy_permissions => ro = fs[copied[1].ip].ro)
  BY <1>1 DEF Inode
<1>4. fs' = [fs EXCEPT ![copied[1].op] = node]
  BY <1>2 DEF Cp!FileEnd
<1> HIDE DEF ro
<1>5. /\ node \in Inode /\ node.kind = fs[copied[1].op].kind /\ node.data = fs[copied[1].op].data
      /\ node.ro = ro
  BY <1>1, <1>2, <1>3 DEF Inode
<1>6. /\ UNCHANGED <<before, target, program, dry_run, copy_permissions, stack, bytes_copied, outcome, short>>
      /\ outcome = "running" /\ copied' = <<>>
  BY DEF Cp!FileEnd, Cp!options, Cp!Running
<1>7. Grows /\ CopyTypes'
  BY <1>0, <1>4, <1>5, <1>6, FileGrows
<1>8. Rewritten(node)
  BY <1>0, <1>4, <1>5, <1>6 DEF Rewritten
<1> QED
  BY <1>3, <1>5, <1>6, <1>7, <1>8

\* A call returns to the one it was made in.
LEMMA ReturnTypes ==
  ASSUME CopyTypes, CpInv, Cp!Return
  PROVE  Grows /\ CopyTypes'
<1> HIDE DEF Name
<1>1. /\ UNCHANGED <<before, target, program, dry_run, copy_permissions, fs, copied, short>>
      /\ stack' = Tail(stack) /\ stack # <<>> /\ copied = <<>> /\ outcome = "running"
      /\ outcome' = IF Len(stack) = 1 THEN "done" ELSE outcome
  BY DEF Cp!Return, Cp!Busy, Cp!Running, Cp!options
<1>2. Grows /\ IsTree(fs') /\ CopyOptions' /\ (dry_run => fs' = before)
  BY <1>1, OneNode
<1>3. PICK t : t = Cp!Top
  OBVIOUS
<1>4. t \in CopyCall /\ CallOK(t)' /\ stack \in Seq(CopyCall)
  BY <1>1, <1>2, <1>3, OthersStay DEF CopyTypes
<1>5. stack' \in Seq(CopyCall) /\ \A x \in Range(stack') : CallOK(x)'
  BY <1>1, <1>2, <1>4, NewCalls
<1>6. Len(stack) = 1 => stack' = <<>>
  BY <1>1, <1>4
<1> QED
  BY <1>1, <1>2, <1>5, <1>6 DEF CopyTypes

\* a failure, or a step of another program
Idle == UNCHANGED <<before, target, program, dry_run, copy_permissions, fs, stack, copied, bytes_copied, short>>
        /\ outcome' \in {"failed", outcome}

\* That changes no call and no file.
LEMMA IdleTypes ==
  ASSUME CopyTypes, CpInv, Idle
  PROVE  Grows /\ CopyTypes'
<1>1. Grows /\ IsTree(fs') /\ CopyOptions' /\ (dry_run => fs' = before)
  BY OneNode DEF Idle
<1>2. stack' \in Seq(CopyCall) /\ \A x \in Range(stack') : CallOK(x)'
  <2>1. \A f \in Range(stack) : CallOK(f)
    BY DEF CopyTypes
  <2>2. Range(stack') = Range(stack) /\ stack' = stack
    BY DEF Idle
  <2> QED
    BY <1>1, <2>1, <2>2, CallStays DEF CopyTypes
<1>3. outcome' = "done" => outcome = "done"
  BY DEF Idle
<1> QED
  BY <1>1, <1>2, <1>3 DEF CopyTypes, Idle

\* cp_dir makes a directory and cannot open it
Stranded(name) ==
  /\ Cp!SubDir(name) /\ outcome' = "failed" /\ UNCHANGED stack

\* It leaves the directory there and stops.
LEMMA StrandedTypes ==
  ASSUME CopyTypes, CpInv, NEW name, Stranded(name)
  PROVE  Grows /\ CopyTypes'
<1> HIDE DEF Name
<1>0. PICK m : m = Cp!Out(name)
  OBVIOUS
<1>1. /\ Cp!Pick(name) /\ program = "cp" /\ Cp!MayCreate(m) /\ fs' = Cp!With(m, Cp!Dir(FALSE))
      /\ UNCHANGED <<before, target, program, dry_run, copy_permissions, stack, copied, short>>
      /\ outcome' = "failed"
  BY <1>0 DEF Stranded, Cp!SubDir, Cp!options
<1>2. m \in NodePath /\ Cp!Dir(FALSE) \in Inode /\ ~ dry_run /\ copied = <<>>
  BY <1>0, <1>1, EntryOK DEF Cp!Dir, Inode, CopyTypes, CopyOptions, Cp!Pick, Cp!Busy
<1>3. Grows /\ IsTree(fs') /\ CopyOptions' /\ (dry_run => fs' = before)
  BY <1>1, <1>2, OneNode
<1>4. stack' \in Seq(CopyCall) /\ \A x \in Range(stack') : CallOK(x)'
  <2>1. \A f \in Range(stack) : CallOK(f)
    BY DEF CopyTypes
  <2>2. Range(stack') = Range(stack) /\ stack' = stack
    BY <1>1
  <2> QED
    BY <1>3, <2>1, <2>2, CallStays DEF CopyTypes
<1> QED
  BY <1>1, <1>2, <1>3, <1>4 DEF CopyTypes

\* the steps of a copy
LEMMA CopySteps ==
  ASSUME [Cp!Next]_(Cp!vars)
  PROVE  \/ Idle \/ (\E name : Stranded(name)) \/ Cp!EnterMkdir \/ Cp!EnterScan \/ Cp!Return \/ Cp!FileEnd
         \/ Cp!duplicate \/ Cp!cp_file
         \/ \E name : /\ outcome' # "failed"
                      /\ \/ Cp!SubTree(name) \/ Cp!SubDir(name)
                         \/ Cp!Link(name) \/ Cp!Special(name) \/ Cp!Regular(name)
<1>1. Cp!Fail \/ UNCHANGED Cp!vars => Idle
  BY DEF Cp!Fail, Cp!vars, Cp!options, Idle
<1>2. Cp!EnterFails \/ (\E name : Cp!SubDirFails(name)) => Idle
  BY <1>1 DEF Cp!EnterFails, Cp!SubDirFails
<1>3. ASSUME NEW name,
             \/ Cp!SubTree(name) \/ Cp!SubDir(name)
             \/ Cp!Link(name) \/ Cp!Special(name) \/ Cp!Regular(name)
      PROVE  Idle \/ Stranded(name) \/ outcome' # "failed"
  <2>1. outcome = "running"
    BY <1>3 DEF Cp!SubTree, Cp!SubDir, Cp!Link, Cp!Special, Cp!Regular, Cp!Pick, Cp!Busy, Cp!Running
  <2>2. CASE Cp!SubDir(name)
    BY <2>1, <2>2 DEF Cp!SubDir, Stranded
  <2>3. CASE ~ Cp!SubDir(name)
    <3>1. Cp!Fail \/ outcome' = outcome
      BY <1>3, <2>3 DEF Cp!SubTree, Cp!Link, Cp!Special, Cp!Regular
    <3> QED
      BY <1>1, <2>1, <3>1
  <2> QED
    BY <2>2, <2>3
<1> QED
  BY <1>1, <1>2, <1>3 DEF Cp!Next, Cp!copytree, Cp!cp_dir

\* Every step keeps the calls sound, and nothing goes away.
LEMMA NextCopyTypes ==
  ASSUME CopyTypes, CpInv, [Cp!Next]_(Cp!vars)
  PROVE  Grows /\ CopyTypes'
<1>1. CASE Cp!duplicate \/ Cp!cp_file
  <2>1. PICK read \in 1 .. Len(Cp!Block), written \in 0 .. Len(Cp!Block) : Cp!Transfer(read, written)
    BY <1>1, BlockMoved
  <2>2. copied # <<>> /\ outcome = "running" /\ short' \in Nat /\ read \in Nat
    BY <1>1, BlockMoved
  <2> QED
    BY <2>1, <2>2, TransferTypes
<1>2. CASE \E name : Stranded(name)
  BY <1>2, StrandedTypes
<1> QED
  BY <1>1, <1>2, CopySteps, IdleTypes, EnterTypes, ReturnTypes, FileEndTypes, DescendTypes, PassTypes

\* The first call is sound.
LEMMA InitCopyTypes == Cp!Init => CopyTypes
<1> SUFFICES ASSUME Cp!Init PROVE CopyTypes
  OBVIOUS
<1> HIDE DEF Name
<1>1. /\ CopyOptions /\ fs = before /\ stack = << Cp!Frame(Source, target) >>
      /\ copied = <<>> /\ short = 0 /\ outcome = "running"
      /\ program = "cp" => target \in DOMAIN fs /\ fs[target].kind = "dir"
  BY DEF Cp!Init, CopyOptions
<1>2. IsTree(fs) /\ Source \in DOMAIN fs /\ fs[Source].kind = "dir"
  BY <1>1, SystemsOK DEF CopyOptions
<1>3. target \in NodePath /\ Source \in NodePath /\ Cp!IsPrefix(Source, Source) /\ Cp!Moved(Source) = target
  BY <1>1, Paths, PrefixOrder, MovedEntry DEF CopyOptions
<1>4. PICK f : f = Cp!Frame(Source, target)
  OBVIOUS
<1>5. f \in CopyCall /\ f.ip = Source /\ f.op = target /\ f.entered = FALSE /\ f.left = {}
  BY <1>3, <1>4 DEF CopyCall, Cp!Frame
<1>6. CallOK(f)
  BY <1>1, <1>2, <1>3, <1>5 DEF CallOK
<1>7. stack \in Seq(CopyCall) /\ Range(stack) = {f}
  <2>1. stack = <<f>>
    BY <1>1, <1>4
  <2> QED
    BY <1>5, <2>1 DEF Range
<1> QED
  BY <1>1, <1>2, <1>6, <1>7 DEF CopyTypes

-----------------------------------------------------------------------------
(* A copy to a new place inside the source does not end.                   *)

\* the directory on the way to its own copy is still to be copied
Doomed(f) ==
  IF f.entered THEN \E name \in f.left : /\ Inner(Append(f.ip, name))
                                         /\ fs[Append(f.ip, name)].kind = "dir"
  ELSE Inner(f.ip)

Endless == outcome # "done" /\ \E f \in Range(stack) : Doomed(f)

\* such a copy
Astray == ~ dry_run /\ Cp!Inside /\ target # Source

\* A directory on the way to its own copy stays on it while nothing goes away.
LEMMA DoomStays ==
  ASSUME Grows
  PROVE  \A f : CallOK(f) /\ Doomed(f) => Doomed(f)'
<1>1. \A p : Inner(p)' <=> Inner(p)
  BY DEF Grows, Inner, Cp!Moved
<1>2. ASSUME NEW f, CallOK(f), Doomed(f), f.entered PROVE Doomed(f)'
  <2>1. PICK name \in f.left : Inner(Append(f.ip, name)) /\ fs[Append(f.ip, name)].kind = "dir"
    BY <1>2 DEF Doomed
  <2>2. fs'[Append(f.ip, name)].kind = "dir" /\ Inner(Append(f.ip, name))'
    BY <1>1, <1>2, <2>1 DEF Grows, CallOK
  <2> QED
    BY <1>2, <2>1, <2>2 DEF Doomed
<1>3. ASSUME NEW f, Doomed(f), ~ f.entered PROVE Doomed(f)'
  BY <1>1, <1>3 DEF Doomed
<1> QED
  BY <1>2, <1>3

\* A call on such a directory finds the way on among its entries.
LEMMA EnterEndless ==
  ASSUME CopyTypes, CpInv, Astray, Endless, Cp!EnterMkdir \/ Cp!EnterScan
  PROVE  Endless'
<1> HIDE DEF Name
<1>0. PICK t : t = Cp!Top
  OBVIOUS
<1>1. Grows /\ CopyTypes' /\ outcome' # "done"
  <2>1. outcome' = outcome
    BY DEF Cp!EnterMkdir, Cp!EnterScan
  <2> QED
    BY <2>1, EnterTypes DEF Endless
<1>2. PICK g : Entered(g)
  BY EnterTypes
<1>3. /\ stack # <<>> /\ ~ t.entered /\ stack' = <<g>> \o Tail(stack)
      /\ g \in CopyCall /\ g.ip = t.ip /\ g.entered /\ g.left = Cp!Names(t.ip, fs')
  BY <1>0, <1>2 DEF Entered
<1>4. /\ t \in CopyCall /\ CallOK(t) /\ Tail(stack) \in Seq(CopyCall)
      /\ Range(stack) = {t} \cup Range(Tail(stack))
  BY <1>0, <1>3, TopAndRest, OthersStay, <1>1 DEF CopyTypes
<1>5. Range(stack') = {g} \cup Range(Tail(stack))
  <2>1. PICK rest : rest = Tail(stack)
    OBVIOUS
  <2>2. g \in CopyCall /\ rest \in Seq(CopyCall) /\ stack' = <<g>> \o rest
    BY <1>3, <1>4, <2>1
  <2>3. Range(<<g>> \o rest) = {g} \cup Range(rest)
    BY <2>2, OneMore
  <2> QED
    BY <2>1, <2>2, <2>3
<1>6. PICK f \in Range(stack) : Doomed(f)
  BY DEF Endless
<1>7. CASE f \in Range(Tail(stack))
  <2>1. CallOK(f)
    BY DEF CopyTypes
  <2> QED
    BY <1>1, <1>5, <1>6, <1>7, <2>1, DoomStays DEF Endless
<1>8. CASE f = t
  <2>1. target \in NodePath /\ t.ip \in NodePath /\ t.op = Cp!Moved(t.ip) /\ Cp!IsPrefix(Source, t.ip)
        /\ t.op \in NodePath
    BY <1>4, Paths DEF CopyTypes, CopyOptions, CallOK, CopyCall
  <2>2. Inner(t.ip)
    BY <1>3, <1>6, <1>8 DEF Doomed
  <2>3. t.op \in DOMAIN fs' /\ fs'[t.op].kind = "dir"
    <3>1. CASE Cp!EnterScan
      <4>1. program = "cp" /\ fs' = fs
        BY <3>1 DEF Cp!EnterScan, Astray
      <4> QED
        BY <1>4, <4>1 DEF CallOK
    <3>2. CASE Cp!EnterMkdir
      BY <1>0, <3>2 DEF Cp!EnterMkdir, Cp!With, Cp!Dir, Cp!MayCreate
    <3> QED
      BY <3>1, <3>2
  <2>4. PICK n \in Name : Cp!IsPrefix(Append(t.ip, n), t.op) /\ Inner(Append(t.ip, n))
    BY <2>1, <2>2, InnerOn
  <2>5. IsTree(fs')
    BY <1>1 DEF CopyTypes
  <2>6. Append(t.ip, n) \in DOMAIN fs' /\ fs'[Append(t.ip, n)].kind = "dir"
    <3>1. Append(t.ip, n) \in NodePath
      BY <2>1, EntryOf
    <3> QED
      BY <2>3, <2>4, <2>5, <3>1, AboveOf
  <2>7. n \in g.left
    BY <1>3, <2>1, <2>5, <2>6, NamesIn
  <2>8. Inner(Append(t.ip, n))'
    BY <1>1, <2>4 DEF Grows, Inner, Cp!Moved
  <2>9. Doomed(g)'
    BY <1>3, <2>6, <2>7, <2>8 DEF Doomed
  <2> QED
    BY <1>1, <1>5, <2>9 DEF Endless
<1> QED
  BY <1>4, <1>6, <1>7, <1>8

\* The entry on the way is not taken, or it is the one of the next call.
LEMMA EntryEndless ==
  ASSUME CopyTypes, Grows, Endless, outcome' # "done", NEW name,
         Passed(name) \/ \E f : Descended(name, f)
  PROVE  Endless'
<1> HIDE DEF Name
<1>0. PICK t, g, p : t = Cp!Top /\ g = Cp!Took(name) /\ p = Cp!In(name)
  OBVIOUS
<1>1. Cp!Pick(name) /\ stack # <<>>
  BY DEF Passed, Descended, Cp!Pick, Cp!Busy
<1>2. /\ t \in CopyCall /\ CallOK(t) /\ t.entered /\ p = Append(t.ip, name)
      /\ g \in CopyCall /\ CallOK(g) /\ g.ip = t.ip /\ g.entered /\ g.left = t.left \ {name}
  BY <1>0, <1>1, EntryOK, TookOK DEF Cp!Pick, Cp!In
<1>3. Tail(stack) \in Seq(CopyCall) /\ Range(stack) = {t} \cup Range(Tail(stack))
  BY <1>0, <1>1, TopAndRest DEF CopyTypes
<1>4. PICK f \in Range(stack) : Doomed(f)
  BY DEF Endless
<1>5. Doomed(f)' /\ CallOK(f)
  BY <1>4, DoomStays DEF CopyTypes
<1>6. PICK rest : rest = Tail(stack)
  OBVIOUS
<1>7. /\ Range(Tail(stack)) \subseteq Range(stack') /\ g \in Range(stack')
      /\ \A h : Descended(name, h) => h \in Range(stack')
  <2>1. ASSUME Passed(name) PROVE Range(stack') = {g} \cup Range(Tail(stack))
    <3>1. g \in CopyCall /\ rest \in Seq(CopyCall) /\ stack' = <<g>> \o rest
      BY <1>0, <1>2, <1>3, <1>6, <2>1 DEF Passed
    <3>2. Range(<<g>> \o rest) = {g} \cup Range(rest)
      BY <3>1, OneMore
    <3> QED
      BY <1>6, <3>1, <3>2
  <2>2. ASSUME NEW h, Descended(name, h) PROVE Range(stack') = {h, g} \cup Range(Tail(stack))
    <3>1. /\ h \in CopyCall /\ g \in CopyCall /\ rest \in Seq(CopyCall)
          /\ stack' = <<h, g>> \o rest
      BY <1>0, <1>2, <1>3, <1>6, <2>2 DEF Descended
    <3>2. Range(<<h, g>> \o rest) = {h, g} \cup Range(rest)
      BY <3>1, TwoMore
    <3> QED
      BY <1>6, <3>1, <3>2
  <2>3. \A h : Descended(name, h) => h \in Range(stack')
    BY <2>2
  <2> QED
    BY <2>1, <2>2, <2>3
<1>8. CASE f \in Range(Tail(stack))
  BY <1>5, <1>7, <1>8 DEF Endless
<1>9. CASE f = t
  <2>1. PICK n \in t.left : Inner(Append(t.ip, n)) /\ fs[Append(t.ip, n)].kind = "dir"
    BY <1>2, <1>4, <1>9 DEF Doomed
  <2>2. Inner(Append(t.ip, n))' /\ fs'[Append(t.ip, n)].kind = "dir"
    BY <1>2, <2>1 DEF Grows, Inner, Cp!Moved, CallOK
  <2>3. CASE n # name
    <3>1. Doomed(g)'
      BY <1>2, <2>2, <2>3 DEF Doomed
    <3> QED
      BY <1>7, <3>1 DEF Endless
  <2>4. CASE n = name
    <3>1. fs[p].kind = "dir"
      BY <1>2, <2>1, <2>4
    <3>2. PICK h : Descended(name, h)
      BY <1>0, <3>1 DEF Passed
    <3>3. h \in Range(stack')
      BY <1>7, <3>2
    <3>4. h.entered = FALSE /\ h.ip = p
      BY <1>0, <3>2 DEF Descended, Cp!Frame
    <3>5. Doomed(h)'
      BY <1>2, <2>2, <2>4, <3>4 DEF Doomed
    <3> QED
      BY <3>3, <3>5 DEF Endless
  <2> QED
    BY <2>3, <2>4
<1> QED
  BY <1>3, <1>4, <1>8, <1>9

\* A call on such a directory does not return, as it has an entry left.
LEMMA ReturnEndless ==
  ASSUME CopyTypes, CpInv, Endless, Cp!Return
  PROVE  Endless'
<1> HIDE DEF Name
<1>0. PICK t : t = Cp!Top
  OBVIOUS
<1>1. /\ stack # <<>> /\ t.entered /\ t.left = {} /\ stack' = Tail(stack)
      /\ outcome' = IF Len(stack) = 1 THEN "done" ELSE outcome
  BY <1>0 DEF Cp!Return, Cp!Busy
<1>2. stack \in Seq(CopyCall) /\ Range(stack) = {t} \cup Range(Tail(stack))
  BY <1>0, <1>1, TopAndRest DEF CopyTypes
<1>3. PICK f \in Range(stack) : Doomed(f)
  BY DEF Endless
<1>4. f # t
  BY <1>1, <1>3 DEF Doomed
<1>5. f \in Range(stack')
  BY <1>1, <1>2, <1>4
<1>6. Len(stack) # 1
  <2>1. Len(stack) = 1 => Tail(stack) = <<>>
    <3>1. stack \in Seq(CopyCall) /\ stack # <<>>
      BY <1>1 DEF CopyTypes
    <3>2. Tail(stack) \in Seq(CopyCall) /\ Len(Tail(stack)) = Len(stack) - 1
      BY <3>1
    <3>3. ASSUME Len(stack) = 1 PROVE Tail(stack) = <<>>
      <4>1. PICK rest : rest = Tail(stack)
        OBVIOUS
      <4>2. rest \in Seq(CopyCall) /\ Len(rest) = 0
        BY <3>2, <3>3, <4>1
      <4>3. rest = <<>>
        BY <4>2, EmptySeq
      <4> QED
        BY <4>1, <4>3
    <3> QED
      BY <3>3
  <2>2. Range(<<>>) = {}
    BY DEF Range
  <2> QED
    BY <1>1, <1>5, <2>1, <2>2
<1>7. Grows /\ CallOK(f)
  BY ReturnTypes DEF CopyTypes
<1>8. Doomed(f)'
  BY <1>3, <1>7, DoomStays
<1> QED
  BY <1>1, <1>5, <1>6, <1>8 DEF Endless

\* So no step ends the copy.
LEMMA NextEndless ==
  ASSUME CopyTypes, CpInv, Astray, Endless, [Cp!Next]_(Cp!vars)
  PROVE  Endless'
<1>1. Grows /\ CopyTypes'
  BY NextCopyTypes
<1>2. ASSUME UNCHANGED stack, outcome' # "done" PROVE Endless'
  <2>1. PICK f \in Range(stack) : Doomed(f)
    BY DEF Endless
  <2>2. CallOK(f) /\ Range(stack') = Range(stack)
    BY <1>2, <2>1 DEF CopyTypes
  <2>3. Doomed(f)'
    BY <1>1, <2>1, <2>2, DoomStays
  <2> QED
    BY <1>2, <2>2, <2>3 DEF Endless
<1>3. CASE Idle \/ Cp!FileEnd \/ \E name : Stranded(name)
  <2>1. UNCHANGED stack /\ outcome' # "done"
    <3>1. CASE Idle
      BY <3>1 DEF Idle, Endless
    <3>2. CASE Cp!FileEnd
      BY <3>2 DEF Cp!FileEnd, Endless
    <3>3. CASE \E name : Stranded(name)
      BY <3>3 DEF Stranded
    <3> QED
      BY <1>3, <3>1, <3>2, <3>3
  <2> QED
    BY <1>2, <2>1
<1>4. CASE Cp!duplicate \/ Cp!cp_file
  <2>1. ASSUME NEW read, NEW written, Cp!Transfer(read, written)
        PROVE  UNCHANGED stack /\ outcome' # "done"
    BY <2>1 DEF Cp!Transfer, Endless
  <2>2. UNCHANGED stack /\ outcome' # "done"
    BY <1>4, <2>1 DEF Cp!duplicate, Cp!cp_file
  <2> QED
    BY <1>2, <2>2
<1>5. ASSUME NEW name, outcome' # "failed",
             \/ Cp!SubTree(name) \/ Cp!SubDir(name)
             \/ Cp!Link(name) \/ Cp!Special(name) \/ Cp!Regular(name)
      PROVE  Endless'
  <2>1. outcome' # "done"
    BY <1>5 DEF Endless, Cp!SubTree, Cp!SubDir, Cp!Link, Cp!Special, Cp!Regular, Cp!Fail
  <2>2. Passed(name) \/ \E f : Descended(name, f)
    BY <1>5, DescendTypes, PassTypes
  <2> QED
    BY <1>1, <2>1, <2>2, EntryEndless
<1> QED
  BY <1>3, <1>4, <1>5, CopySteps, EnterEndless, ReturnEndless

-----------------------------------------------------------------------------
(* What is still to be copied.                                             *)

Whole == Cp!Below(Source, before)
Branch(q) == { p \in Whole : Cp!IsPrefix(q, p) }

\* what a call has yet to copy; the directory of a call of cp_dir is there before the call
Cov(f) ==
  IF f.entered THEN UNION { Branch(Append(f.ip, name)) : name \in f.left }
  ELSE IF program = "cp" THEN Branch(f.ip) \ {f.ip} ELSE Branch(f.ip)

ToDo(st) == UNION { Cov(f) : f \in Range(st) }

\* no two calls have the same to copy
Apart(st) == \A i, j \in 1 .. Len(st) : i # j => Cov(st[i]) \cap Cov(st[j]) = {}

\* what has been dealt with
Behind == Whole \ ToDo(stack)

\* Only the stack changes what is to be copied.
LEMMA CovSame ==
  ASSUME UNCHANGED <<before, program>>
  PROVE  /\ Whole' = Whole /\ \A f : Cov(f)' = Cov(f)
         /\ ToDo(stack)' = ToDo(stack') /\ (Apart(stack)' <=> Apart(stack'))
<1>1. Whole' = Whole
  BY DEF Whole
<1>2. \A f : Cov(f)' = Cov(f)
  BY <1>1 DEF Cov, Branch
<1>3. ToDo(stack)' = ToDo(stack')
  BY <1>2 DEF ToDo
<1>4. Apart(stack)' <=> Apart(stack')
  <2>1. PICK st : st = stack'
    OBVIOUS
  <2>2. \A i : Cov(st[i])' = Cov(st[i])
    BY <1>2
  <2> QED
    BY <2>1, <2>2 DEF Apart
<1> QED
  BY <1>1, <1>2, <1>3, <1>4

\* the system that is copied
LEMMA BeforeOK ==
  ASSUME CopyTypes, CpInv
  PROVE  /\ IsTree(before) /\ IsFiniteSet(DOMAIN before) /\ Source \in DOMAIN before
         /\ before[Source].kind = "dir" /\ DOMAIN before \subseteq DOMAIN fs
         /\ \A p \in DOMAIN before : p \in NodePath /\ fs[p] = before[p] /\ before[p] \in Inode
         /\ \A p \in Whole : p \in DOMAIN before /\ p \in NodePath /\ Cp!IsPrefix(Source, p)
         /\ Source \in Whole /\ target \in NodePath /\ Source \in NodePath
<1>1. before \in Systems /\ target \in Targets
  BY DEF CopyTypes, CopyOptions
<1>2. /\ IsTree(before) /\ IsFiniteSet(DOMAIN before) /\ Source \in DOMAIN before
      /\ before[Source].kind = "dir"
  BY <1>1, SystemsOK
<1>3. DOMAIN before \subseteq DOMAIN fs /\ \A p \in DOMAIN before : fs[p] = before[p]
  BY DEF CpInv, Cp!KeepsExisting
<1>4. \A p \in DOMAIN before : p \in NodePath /\ before[p] \in Inode
  BY <1>2 DEF IsTree
<1>5. \A p \in Whole : p \in DOMAIN before /\ Cp!IsPrefix(Source, p)
  BY DEF Whole, Cp!Below
<1>6. target \in NodePath /\ Source \in NodePath
  BY <1>1, Paths
<1>7. Source \in Whole
  BY <1>2, <1>6, PrefixOrder DEF Whole, Cp!Below
<1> QED
  BY <1>2, <1>3, <1>4, <1>5, <1>6, <1>7

\* A call that begins has the directory itself behind it.
LEMMA CovEntered ==
  ASSUME CopyTypes, CpInv, NEW f \in CopyCall, NEW g \in CopyCall, NEW tr,
         ~ f.entered, g.entered, g.ip = f.ip, g.left = Cp!Names(f.ip, tr),
         IsTree(tr), DOMAIN before \subseteq DOMAIN tr
  PROVE  Cov(g) = Cov(f) \ {f.ip}
<1> HIDE DEF Name
<1>1. f.ip \in NodePath
  BY DEF CopyCall
<1> PICK ip : ip = f.ip
  OBVIOUS
<1>2. /\ Cp!Names(ip, tr) \subseteq Name
      /\ \A n \in Name : n \in Cp!Names(ip, tr) <=> Append(ip, n) \in DOMAIN tr
  BY <1>1, NamesIn
<1>3. ASSUME NEW n \in Cp!Names(ip, tr), NEW p \in Branch(Append(ip, n))
      PROVE  p \in Branch(ip) \ {ip}
  <2>1. n \in Name /\ p \in NodePath /\ p \in Whole /\ Cp!IsPrefix(Append(ip, n), p)
    BY <1>2, BeforeOK DEF Branch
  <2>2. Append(ip, n) \in NodePath /\ Cp!IsPrefix(ip, Append(ip, n)) /\ ~ Cp!IsPrefix(Append(ip, n), ip)
    BY <1>1, <2>1, EntryOf
  <2>3. Cp!IsPrefix(ip, p)
    BY <1>1, <2>1, <2>2, PrefixOrder
  <2> QED
    BY <2>1, <2>2, <2>3 DEF Branch
<1>4. ASSUME NEW p \in Branch(ip) \ {ip}
      PROVE  \E n \in Cp!Names(ip, tr) : p \in Branch(Append(ip, n))
  <2>1. p \in NodePath /\ p \in Whole /\ p \in DOMAIN before /\ Cp!IsPrefix(ip, p) /\ ip # p
    BY BeforeOK DEF Branch
  <2>2. PICK n : n = p[Len(ip) + 1]
    OBVIOUS
  <2>3. n \in Name /\ Cp!IsPrefix(Append(ip, n), p)
    BY <1>1, <2>1, <2>2, Below1
  <2>4. Append(ip, n) \in DOMAIN before
    <3>1. Append(ip, n) \in NodePath
      BY <1>1, <2>3, EntryOf
    <3>2. IsTree(before)
      BY BeforeOK
    <3> QED
      BY <2>1, <2>3, <3>1, <3>2, AboveOf
  <2>5. n \in Cp!Names(ip, tr)
    BY <1>2, <2>3, <2>4
  <2> QED
    BY <2>1, <2>3, <2>5 DEF Branch
<1>5. Cov(g) = UNION { Branch(Append(ip, n)) : n \in Cp!Names(ip, tr) }
  BY DEF Cov
<1>6. Cov(f) \ {ip} = Branch(ip) \ {ip}
  BY DEF Cov
<1>7. Cov(g) = Branch(ip) \ {ip}
  BY <1>3, <1>4, <1>5
<1> QED
  BY <1>6, <1>7

\* A call that takes an entry leaves it to another call.
LEMMA CovTaken ==
  ASSUME CopyTypes, CpInv, NEW f \in CopyCall, NEW g \in CopyCall, NEW name \in f.left,
         f.entered, g.entered, g.ip = f.ip, g.left = f.left \ {name}
  PROVE  Branch(Append(f.ip, name)) \subseteq Cov(f) /\ Cov(g) = Cov(f) \ Branch(Append(f.ip, name))
<1> HIDE DEF Name
<1>1. f.ip \in NodePath /\ f.left \subseteq Name
  BY DEF CopyCall
<1> PICK ip, left : ip = f.ip /\ left = f.left
  OBVIOUS
<1>2. ASSUME NEW n \in left, n # name
      PROVE  Branch(Append(ip, n)) \cap Branch(Append(ip, name)) = {}
  <2>1. ASSUME NEW p \in Branch(Append(ip, n)), p \in Branch(Append(ip, name)) PROVE FALSE
    <3>1. p \in NodePath /\ Cp!IsPrefix(Append(ip, n), p) /\ Cp!IsPrefix(Append(ip, name), p)
      BY <2>1, BeforeOK DEF Branch
    <3> QED
      BY <1>1, <1>2, <3>1, OneEntry
  <2> QED
    BY <2>1
<1>3. Cov(f) = UNION { Branch(Append(ip, n)) : n \in left }
  BY DEF Cov
<1>4. Cov(g) = UNION { Branch(Append(ip, n)) : n \in left \ {name} }
  BY DEF Cov
<1>5. name \in left
  OBVIOUS
<1> QED
  BY <1>2, <1>3, <1>4, <1>5

\* There is nothing below a node that is not a directory.
LEMMA LeafBranch ==
  ASSUME CopyTypes, CpInv, NEW q \in DOMAIN before, before[q].kind # "dir", Cp!IsPrefix(Source, q)
  PROVE  Branch(q) = {q}
<1> HIDE DEF Name
<1>1. q \in NodePath /\ q \in Whole /\ IsTree(before)
  BY BeforeOK DEF Whole, Cp!Below
<1>2. q \in Branch(q)
  BY <1>1, PrefixOrder DEF Branch
<1>3. ASSUME NEW p \in Branch(q), p # q PROVE FALSE
  <2>1. p \in NodePath /\ p \in DOMAIN before /\ Cp!IsPrefix(q, p)
    BY BeforeOK DEF Branch
  <2> QED
    BY <1>1, <1>3, <2>1, AboveOf
<1> QED
  BY <1>2, <1>3

\* what is to be copied by the innermost call and the others
LEMMA ToDoOne ==
  ASSUME NEW S, NEW f \in S, NEW rest \in Seq(S)
  PROVE  ToDo(<<f>> \o rest) = Cov(f) \cup ToDo(rest)
<1>1. Range(<<f>> \o rest) = {f} \cup Range(rest)
  BY OneMore
<1> QED
  BY <1>1 DEF ToDo

\* the innermost call has nothing to copy that others have
LEMMA ApartOne ==
  ASSUME NEW S, NEW f \in S, NEW rest \in Seq(S)
  PROVE  Apart(<<f>> \o rest) <=> Apart(rest) /\ Cov(f) \cap ToDo(rest) = {}
<1> PICK st : st = <<f>> \o rest
  OBVIOUS
<1>1. /\ Len(st) = Len(rest) + 1 /\ Len(rest) \in Nat /\ st[1] = f
      /\ \A i \in 1 .. Len(rest) : st[i + 1] = rest[i]
      /\ \A i \in 1 .. Len(st) : i = 1 \/ (i - 1 \in 1 .. Len(rest) /\ st[i] = rest[i - 1])
  BY OneMoreAt
<1>2. DOMAIN rest = 1 .. Len(rest)
  OBVIOUS
<1>3. ASSUME Apart(st) PROVE Apart(rest) /\ Cov(f) \cap ToDo(rest) = {}
  <2>1. ASSUME NEW i \in 1 .. Len(rest), NEW j \in 1 .. Len(rest), i # j
        PROVE  Cov(rest[i]) \cap Cov(rest[j]) = {}
    <3>1. i + 1 \in 1 .. Len(st) /\ j + 1 \in 1 .. Len(st) /\ i + 1 # j + 1
      BY <1>1, <2>1
    <3> QED
      BY <1>1, <1>3, <3>1 DEF Apart
  <2>2. ASSUME NEW i \in 1 .. Len(rest) PROVE Cov(f) \cap Cov(rest[i]) = {}
    <3>1. 1 \in 1 .. Len(st) /\ i + 1 \in 1 .. Len(st) /\ i + 1 # 1
      BY <1>1
    <3> QED
      BY <1>1, <1>3, <3>1 DEF Apart
  <2>3. Cov(f) \cap ToDo(rest) = {}
    BY <1>2, <2>2 DEF ToDo, Range
  <2> QED
    BY <2>1, <2>3 DEF Apart
<1>4. ASSUME Apart(rest), Cov(f) \cap ToDo(rest) = {} PROVE Apart(st)
  <2>1. ASSUME NEW i \in 1 .. Len(rest) PROVE Cov(f) \cap Cov(rest[i]) = {}
    BY <1>2, <1>4 DEF ToDo, Range
  <2>2. ASSUME NEW i \in 1 .. Len(st), NEW j \in 1 .. Len(st), i # j
        PROVE  Cov(st[i]) \cap Cov(st[j]) = {}
    <3>1. CASE i = 1
      <4>1. j - 1 \in 1 .. Len(rest) /\ st[j] = rest[j - 1] /\ st[i] = f
        BY <1>1, <2>2, <3>1
      <4> QED
        BY <2>1, <4>1
    <3>2. CASE j = 1
      <4>1. i - 1 \in 1 .. Len(rest) /\ st[i] = rest[i - 1] /\ st[j] = f
        BY <1>1, <2>2, <3>2
      <4> QED
        BY <2>1, <4>1
    <3>3. CASE i # 1 /\ j # 1
      <4>1. /\ i - 1 \in 1 .. Len(rest) /\ st[i] = rest[i - 1]
            /\ j - 1 \in 1 .. Len(rest) /\ st[j] = rest[j - 1]
        BY <1>1, <3>3
      <4>2. i - 1 # j - 1
        BY <2>2
      <4> QED
        BY <1>4, <4>1, <4>2 DEF Apart
    <3> QED
      BY <3>1, <3>2, <3>3
  <2> QED
    BY <2>2 DEF Apart
<1> QED
  BY <1>3, <1>4

\* a call in the place of the innermost that has less to copy
LEMMA LessApart ==
  ASSUME NEW S, NEW t \in S, NEW rest \in Seq(S), Apart(<<t>> \o rest),
         NEW g \in S, Cov(g) \subseteq Cov(t)
  PROVE  Apart(<<g>> \o rest)
<1>1. Apart(rest) /\ Cov(t) \cap ToDo(rest) = {}
  BY ApartOne
<1>2. Cov(g) \cap ToDo(rest) = {}
  BY <1>1
<1> QED
  BY <1>1, <1>2, ApartOne

\* two calls that share what the innermost had to copy
LEMMA SharedApart ==
  ASSUME NEW S, NEW t \in S, NEW rest \in Seq(S), Apart(<<t>> \o rest),
         NEW f \in S, NEW g \in S, Cov(f) \cup Cov(g) \subseteq Cov(t), Cov(f) \cap Cov(g) = {}
  PROVE  Apart(<<f, g>> \o rest)
<1>1. Apart(rest) /\ Cov(t) \cap ToDo(rest) = {}
  BY ApartOne
<1>2. PICK u : u = <<g>> \o rest
  OBVIOUS
<1>3. u \in Seq(S)
  BY <1>2, OneMore
<1>4. Apart(u)
  BY <1>2, LessApart
<1>5. ToDo(u) = Cov(g) \cup ToDo(rest)
  BY <1>2, ToDoOne
<1>6. Cov(f) \cap ToDo(u) = {}
  BY <1>1, <1>5
<1>7. Apart(<<f>> \o u)
  BY <1>3, <1>4, <1>6, ApartOne
<1>8. <<f, g>> \o rest = <<f>> \o u
  BY <1>2, OneByOne
<1> QED
  BY <1>7, <1>8, Zenon

\* what two calls have to copy, and the others
LEMMA ToDoTwo ==
  ASSUME NEW S, NEW f \in S, NEW g \in S, NEW rest \in Seq(S)
  PROVE  ToDo(<<f, g>> \o rest) = Cov(f) \cup Cov(g) \cup ToDo(rest)
<1>1. Range(<<f, g>> \o rest) = {f, g} \cup Range(rest)
  BY TwoMore
<1> QED
  BY <1>1 DEF ToDo

-----------------------------------------------------------------------------
(* A copy to a place outside the source, or a dry run, has copied what is   *)
(* behind it.                                                              *)

\* nothing was made below the source
Stable == \A p \in DOMAIN fs : Cp!IsPrefix(Source, p) => p \in DOMAIN before

\* the files behind, whose bytes are counted
RegularOf(R) == { p \in R : before[p].kind = "reg" }
Counted == program = "copytree" => bytes_copied = Bytes(RegularOf(Behind))

\* the nodes behind that have a copy
Wanted == { p \in Behind : Cp!Copied(p) }

\* the copy of a node is like it, as far as it has got and no write was short
Same(p) ==
  /\ fs[Cp!Moved(p)].kind = before[p].kind
  /\ IF copied # <<>> /\ copied[1].ip = p
       THEN short = 0 => fs[Cp!Moved(p)].data = SubSeq(before[p].data, 1, copied[1].pos)
       ELSE /\ short = 0 => fs[Cp!Moved(p)].data = before[p].data
            /\ copy_permissions => fs[Cp!Moved(p)].ro = before[p].ro

Made ==
  ~ dry_run => /\ DOMAIN fs = DOMAIN before \cup { Cp!Moved(p) : p \in Wanted }
               /\ \A p \in Wanted \ {Source} : Same(p)

\* the file that is being copied
FileOK ==
  copied # <<>> =>
    /\ copied[1].op = Cp!Moved(copied[1].ip) /\ copied[1].ip \in Wanted \ {Source}
    /\ before[copied[1].ip].kind = "reg" /\ copied[1].pos =< Len(before[copied[1].ip].data)

Well == Stable /\ Apart(stack) /\ Counted /\ Made /\ FileOK

\* the place for a copy is not below the source
Clear(path) == Cp!Front(path) \notin DOMAIN before \/ ~ Cp!IsPrefix(Source, Cp!Front(path))

\* A node made at a clear place is not below the source.
LEMMA StaysStable ==
  ASSUME CopyTypes, CpInv, Stable, NEW path \in NodePath, Cp!MayCreate(path), Clear(path),
         NEW node, fs' = Cp!With(path, node), before' = before
  PROVE  Stable'
<1>1. ASSUME Cp!IsPrefix(Source, path) PROVE FALSE
  <2>1. path # Source
    BY BeforeOK DEF Cp!MayCreate
  <2>2. Cp!IsPrefix(Source, Cp!Front(path))
    BY <1>1, <2>1, BeforeOK, Below1
  <2>3. Cp!Front(path) \in DOMAIN before
    BY <2>2 DEF Stable, Cp!MayCreate
  <2> QED
    BY <2>2, <2>3 DEF Clear
<1>2. DOMAIN fs' = DOMAIN fs \cup {path}
  BY DEF Cp!With
<1> QED
  BY <1>1, <1>2 DEF Stable

\* what is behind is known, finite and of a size
LEMMA BehindOK ==
  ASSUME CopyTypes, CpInv
  PROVE  /\ IsFiniteSet(DOMAIN before) /\ Behind \subseteq Whole /\ Whole \subseteq DOMAIN before
         /\ \A p \in DOMAIN before : Size(p) \in Nat
<1>1. \A p \in DOMAIN before : Len(before[p].data) \in Nat
  BY BeforeOK DEF Inode
<1> QED
  BY <1>1, BeforeOK DEF Size, Behind

\* copytree counts the bytes of a regular file
CountedOne(x) ==
  program = "copytree" =>
    bytes_copied' = IF before[x].kind = "reg" THEN bytes_copied + Size(x) ELSE bytes_copied

\* one more behind
LEMMA OneCounted ==
  ASSUME CopyTypes, CpInv, Counted, NEW x \in Whole \ Behind, UNCHANGED <<before, program>>,
         Behind' = Behind \cup {x}, CountedOne(x)
  PROVE  Counted'
<1> SUFFICES ASSUME program = "copytree" PROVE Counted'
  BY DEF Counted
<1>0. bytes_copied' = IF before[x].kind = "reg" THEN bytes_copied + Size(x) ELSE bytes_copied
  BY DEF CountedOne
<1> PICK R, S : R = RegularOf(Behind) /\ S = RegularOf(Behind \cup {x})
  OBVIOUS
<1>1. Counted' <=> bytes_copied' = Bytes(S)'
  BY DEF Counted, RegularOf
<1>2. Bytes(S)' = Bytes(S)
  BY BytesSame
<1>3. bytes_copied = Bytes(R)
  BY DEF Counted
<1>4. CASE before[x].kind # "reg"
  <2>1. S = R
    BY <1>4 DEF RegularOf
  <2>2. Bytes(R) \in Nat
    <3>1. IsFiniteSet(R) /\ \A p \in R : Size(p) \in Nat
      <4>1. R \subseteq DOMAIN before
        BY BehindOK DEF RegularOf
      <4> QED
        BY <4>1, BehindOK, FS_Subset
    <3> QED
      BY <3>1, BytesOf
  <2> QED
    BY <1>0, <1>1, <1>2, <1>3, <1>4, <2>1, <2>2
<1>5. CASE before[x].kind = "reg"
  <2>1. S \ {x} = R /\ x \in S
    BY <1>5 DEF RegularOf
  <2>2. IsFiniteSet(S) /\ \A p \in S : Size(p) \in Nat
    <3>1. S \subseteq DOMAIN before
      BY BehindOK DEF RegularOf
    <3> QED
      BY <3>1, BehindOK, FS_Subset
  <2>3. IsFiniteSet(R) /\ \A p \in R : Size(p) \in Nat
    BY <2>1, <2>2, FS_Subset
  <2>4. Bytes(S) = Size(x) + Bytes(R) /\ Bytes(R) \in Nat /\ Size(x) \in Nat
    <3>1. Bytes(S) = Size(x) + Bytes(S \ {x})
      BY <2>1, <2>2, BytesOf
    <3>2. Bytes(R) \in Nat
      BY <2>3, BytesOf
    <3> QED
      BY <2>1, <2>2, <3>1, <3>2
  <2> QED
    BY <1>0, <1>1, <1>2, <1>3, <1>5, <2>4
<1> QED
  BY <1>4, <1>5

\* A step that leaves nothing behind and makes nothing keeps it all.
LEMMA WellSame ==
  ASSUME Well, UNCHANGED <<before, target, program, dry_run, copy_permissions>>,
         UNCHANGED <<fs, copied, bytes_copied, short>>,
         Apart(stack'), ToDo(stack') = ToDo(stack)
  PROVE  Well'
<1>1. Behind' = Behind /\ Apart(stack)'
  BY CovSame DEF Behind
<1>2. \A p : (Cp!Copied(p)' <=> Cp!Copied(p)) /\ Cp!Moved(p)' = Cp!Moved(p)
  BY DEF Cp!Copied, Cp!Moved
<1>3. Wanted' = Wanted
  BY <1>1, <1>2 DEF Wanted
<1>4. Stable' /\ FileOK'
  BY <1>2, <1>3 DEF Well, Stable, FileOK
<1>5. \A p : Same(p) => Same(p)'
  BY <1>2 DEF Same
<1>6. Made'
  BY <1>2, <1>3, <1>5 DEF Well, Made
<1>7. Counted'
  <2> PICK R : R = RegularOf(Behind)
    OBVIOUS
  <2>1. Counted' <=> (program = "copytree" => bytes_copied' = Bytes(R)')
    BY <1>1 DEF Counted, RegularOf
  <2> QED
    BY <2>1, BytesSame DEF Well, Counted
<1> QED
  BY <1>1, <1>4, <1>6, <1>7 DEF Well

\* what is copied, and where to, does not change
LEMMA SameCopied ==
  ASSUME UNCHANGED <<before, target, program>>
  PROVE  \A p : (Cp!Copied(p)' <=> Cp!Copied(p)) /\ Cp!Moved(p)' = Cp!Moved(p)
BY DEF Cp!Copied, Cp!Moved

\* One more is behind that has no copy.
LEMMA NoCopy ==
  ASSUME CopyTypes, CpInv, Well, copied = <<>>, NEW x \in Whole \ Behind,
         UNCHANGED <<before, target, program, dry_run, copy_permissions>>,
         UNCHANGED <<fs, copied, short>>, dry_run \/ ~ Cp!Copied(x),
         Apart(stack'), ToDo(stack') = ToDo(stack) \ {x}, CountedOne(x)
  PROVE  Well'
<1>1. Behind' = Behind \cup {x} /\ Apart(stack)'
  BY CovSame DEF Behind
<1>2. Counted'
  BY <1>1, OneCounted DEF Well
<1>3. Stable' /\ FileOK'
  BY DEF Well, Stable, FileOK
<1>4. Made'
  <2>1. CASE dry_run
    BY <2>1 DEF Made
  <2>2. CASE ~ Cp!Copied(x)
    <3>1. Wanted' = Wanted
      BY <1>1, <2>2, SameCopied DEF Wanted
    <3>2. \A p : Same(p) => Same(p)'
      BY SameCopied DEF Same
    <3> QED
      BY <3>1, <3>2, SameCopied DEF Well, Made
  <2> QED
    BY <2>1, <2>2
<1> QED
  BY <1>1, <1>2, <1>3, <1>4 DEF Well

\* the copy that is made of a node x
CopyOf(x, node) ==
  /\ ~ dry_run /\ Cp!Copied(x) /\ Cp!MayCreate(Cp!Moved(x)) /\ Clear(Cp!Moved(x))
  /\ fs' = Cp!With(Cp!Moved(x), node) /\ node.kind = before[x].kind
  /\ \/ /\ copied' = <<>>
        /\ x # Source => /\ node.data = before[x].data
                         /\ copy_permissions => node.ro = before[x].ro
     \/ /\ x # Source /\ node.kind = "reg" /\ node.data = <<>>
        /\ copied' = <<[ip |-> x, op |-> Cp!Moved(x), pos |-> 0]>>

\* One more is behind that a copy is made of.
LEMMA OneCopied ==
  ASSUME CopyTypes, CpInv, Well, copied = <<>>, NEW x \in Whole \ Behind, NEW node, CopyOf(x, node),
         UNCHANGED <<before, target, program, dry_run, copy_permissions>>, UNCHANGED short,
         Apart(stack'), ToDo(stack') = ToDo(stack) \ {x}, CountedOne(x)
  PROVE  Well'
<1> HIDE DEF Name
<1> PICK path : path = Cp!Moved(x)
  OBVIOUS
<1>1. Behind' = Behind \cup {x} /\ Apart(stack)'
  BY CovSame DEF Behind
<1>2. Counted'
  BY <1>1, OneCounted DEF Well
<1>3. target \in NodePath /\ x \in NodePath /\ Cp!IsPrefix(Source, x) /\ path \in NodePath
  BY BeforeOK, MovedTo
<1>4. Stable'
  BY <1>3, StaysStable DEF CopyOf, Well
<1>5. Wanted' = Wanted \cup {x}
  BY <1>1, SameCopied DEF Wanted, CopyOf
<1>6. /\ DOMAIN fs' = DOMAIN fs \cup {path} /\ fs'[path] = node
      /\ \A p \in DOMAIN fs : fs'[p] = fs[p]
  BY DEF CopyOf, Cp!With, Cp!MayCreate
<1>7. ~ dry_run /\ DOMAIN fs = DOMAIN before \cup { Cp!Moved(p) : p \in Wanted }
      /\ \A p \in Wanted \ {Source} : Same(p)
  BY DEF Well, Made, CopyOf
<1>8. ASSUME NEW p \in Wanted \ {Source} PROVE Same(p)'
  <2>1. Cp!Moved(p) \in DOMAIN fs /\ Cp!Moved(p)' = Cp!Moved(p)
    BY <1>7, SameCopied
  <2>2. fs'[Cp!Moved(p)] = fs[Cp!Moved(p)]
    BY <1>6, <2>1
  <2>3. p # x /\ Same(p)
    BY <1>7 DEF Wanted
  <2>4. ~ (copied' # <<>> /\ copied'[1].ip = p)
    BY <2>3 DEF CopyOf
  <2> QED
    BY <2>1, <2>2, <2>3, <2>4 DEF Same
<1>9. x # Source => Same(x)'
  <2>1. fs'[Cp!Moved(x)'] = node
    BY <1>6, SameCopied
  <2>2. CASE copied' = <<>>
    BY <2>1, <2>2 DEF CopyOf, Same
  <2>3. CASE copied' # <<>>
    <3>1. /\ node.kind = before[x].kind /\ node.data = <<>>
          /\ copied' = <<[ip |-> x, op |-> Cp!Moved(x), pos |-> 0]>>
      BY <2>3 DEF CopyOf
    <3>2. copied'[1].ip = x /\ copied'[1].pos = 0
      BY <3>1
    <3>3. SubSeq(before[x].data, 1, 0) = <<>>
      BY SubSeqEmpty
    <3> QED
      BY <2>1, <2>3, <3>1, <3>2, <3>3 DEF Same
  <2> QED
    BY <2>2, <2>3
<1>10. Made'
  <2>1. DOMAIN fs' = DOMAIN before' \cup { Cp!Moved(p)' : p \in Wanted' }
    BY <1>5, <1>6, <1>7, SameCopied
  <2>2. \A p \in Wanted' \ {Source} : Same(p)'
    BY <1>5, <1>8, <1>9
  <2> QED
    BY <2>1, <2>2 DEF Made
<1>11. FileOK'
  <2>1. CASE copied' = <<>>
    BY <2>1 DEF FileOK
  <2>2. CASE copied' # <<>>
    <3>1. /\ x # Source /\ before[x].kind = "reg"
          /\ copied' = <<[ip |-> x, op |-> Cp!Moved(x), pos |-> 0]>>
      BY <2>2 DEF CopyOf
    <3>2. copied'[1].ip = x /\ copied'[1].op = Cp!Moved(x)' /\ copied'[1].pos = 0
      BY <3>1, SameCopied
    <3>3. Len(before[x].data) \in Nat
      BY BeforeOK DEF Inode
    <3> QED
      BY <1>5, <3>1, <3>2, <3>3 DEF FileOK
  <2> QED
    BY <2>1, <2>2
<1> QED
  BY <1>1, <1>2, <1>4, <1>10, <1>11 DEF Well

\* The copy of a node is made at a clear place, when the copy does not go astray.
LEMMA ClearCopy ==
  ASSUME CopyTypes, CpInv, ~ Astray, ~ dry_run, NEW x \in Whole, Cp!MayCreate(Cp!Moved(x)),
         x = Source \/ Cp!Front(Cp!Moved(x)) \notin DOMAIN before \/ Cp!Front(Cp!Moved(x)) = target
  PROVE  Clear(Cp!Moved(x))
<1> HIDE DEF Name
<1> PICK path : path = Cp!Moved(x)
  OBVIOUS
<1>1. /\ target \in NodePath /\ Source \in NodePath /\ x \in NodePath /\ Cp!IsPrefix(Source, x)
      /\ path \in NodePath /\ x \in DOMAIN fs
  BY BeforeOK, MovedTo
<1>2. target # Source
  BY <1>1, MovedOnce DEF Cp!MayCreate
<1>3. ~ Cp!IsPrefix(Source, target)
  BY <1>2 DEF Astray, Cp!Inside
<1>4. path # <<>>
  <2>1. IsTree(fs)
    BY DEF CopyTypes
  <2>2. Cp!Front(<<>>) = <<>>
    <3>1. SubSeq(<<>>, 1, -1) = <<>>
      BY SubSeqEmpty
    <3> QED
      BY <3>1 DEF Cp!Front
  <2> QED
    BY <2>2 DEF Cp!MayCreate
<1>5. /\ Cp!Front(path) \in NodePath /\ path = Append(Cp!Front(path), Cp!Last(path))
      /\ Cp!Last(path) \in Name
  BY <1>1, <1>4, FrontOf
<1>6. Cp!IsPrefix(Cp!Front(path), path)
  <2> PICK d, n : d = Cp!Front(path) /\ n = Cp!Last(path)
    OBVIOUS
  <2>1. Cp!IsPrefix(d, Append(d, n))
    BY <1>5, EntryOf
  <2> QED
    BY <1>5, <2>1
<1>7. CASE x = Source
  <2>1. path = target
    BY <1>1, <1>7, MovedEntry
  <2> QED
    BY <1>1, <1>3, <1>5, <1>6, <2>1, PrefixOrder DEF Clear
<1>8. CASE Cp!Front(path) \notin DOMAIN before
  BY <1>8 DEF Clear
<1>9. CASE Cp!Front(path) = target
  BY <1>3, <1>9 DEF Clear
<1> QED
  BY <1>7, <1>8, <1>9

\* the innermost call, and what is to be copied
LEMMA TopWell ==
  ASSUME CopyTypes, CpInv, Well, stack # <<>>
  PROVE  /\ Cp!Top \in CopyCall /\ CallOK(Cp!Top) /\ Tail(stack) \in Seq(CopyCall)
         /\ stack = <<Cp!Top>> \o Tail(stack)
         /\ Apart(stack) /\ Cov(Cp!Top) \subseteq ToDo(stack)
         /\ Cp!Top.ip \in Whole /\ Cp!Top.ip \in NodePath /\ before[Cp!Top.ip] = fs[Cp!Top.ip]
         /\ Cp!Top.op = Cp!Moved(Cp!Top.ip)
         /\ ToDo(stack) \cap Behind = {}
<1> PICK t : t = Cp!Top
  OBVIOUS
<1>1. /\ t \in CopyCall /\ Tail(stack) \in Seq(CopyCall) /\ stack = <<t>> \o Tail(stack)
      /\ Range(stack) = {t} \cup Range(Tail(stack))
  BY TopAndRest DEF CopyTypes
<1>2. CallOK(t)
  BY <1>1 DEF CopyTypes
<1>3. t.ip \in DOMAIN before /\ Cp!IsPrefix(Source, t.ip) /\ t.op = Cp!Moved(t.ip)
  BY <1>2 DEF CallOK, Well, Stable
<1>4. t.ip \in Whole /\ t.ip \in NodePath /\ before[t.ip] = fs[t.ip]
  BY <1>3, BeforeOK DEF Whole, Cp!Below
<1>5. Cov(t) \subseteq ToDo(stack)
  BY <1>1 DEF ToDo
<1> QED
  BY <1>1, <1>2, <1>3, <1>4, <1>5 DEF Well, Behind

\* A call that begins has copied its directory, unless cp_dir had before.
LEMMA EnterWell ==
  ASSUME CopyTypes, CpInv, Well, ~ Astray, Cp!EnterMkdir \/ Cp!EnterScan
  PROVE  Well'
<1> HIDE DEF Name, CopyCall
<1>0. PICK t, rest, x : t = Cp!Top /\ rest = Tail(stack) /\ x = t.ip
  OBVIOUS
<1>1. PICK g : Entered(g)
  BY EnterTypes
<1>2. /\ stack # <<>> /\ ~ t.entered /\ stack' = <<g>> \o rest
      /\ g \in CopyCall /\ g.ip = x /\ g.entered /\ g.left = Cp!Names(x, fs')
  BY <1>0, <1>1 DEF Entered
<1>3. /\ t \in CopyCall /\ CallOK(t) /\ rest \in Seq(CopyCall) /\ stack = <<t>> \o rest
      /\ Apart(stack) /\ Cov(t) \subseteq ToDo(stack) /\ ToDo(stack) \cap Behind = {}
      /\ x = t.ip /\ x \in Whole /\ x \in NodePath /\ before[x] = fs[x] /\ t.op = Cp!Moved(x)
  BY <1>0, <1>2, TopWell
<1>4. IsTree(fs') /\ DOMAIN before \subseteq DOMAIN fs'
  <2>1. Grows /\ CopyTypes'
    BY EnterTypes
  <2> QED
    BY <2>1, BeforeOK DEF Grows, CopyTypes
<1>5. Cov(g) = Cov(t) \ {x}
  BY <1>2, <1>3, <1>4, CovEntered
<1>6. Apart(stack') /\ ToDo(stack') = ToDo(stack) \ (Cov(t) \ Cov(g))
  <2>1. Apart(<<t>> \o rest) /\ Cov(g) \subseteq Cov(t)
    BY <1>3, <1>5
  <2>2. t \in CopyCall /\ rest \in Seq(CopyCall) /\ g \in CopyCall
    BY <1>2, <1>3
  <2>3. Apart(<<g>> \o rest)
    BY <2>1, <2>2, LessApart
  <2>4. ToDo(<<g>> \o rest) = Cov(g) \cup ToDo(rest)
    BY <2>2, ToDoOne
  <2>5. ToDo(<<t>> \o rest) = Cov(t) \cup ToDo(rest)
    BY <2>2, ToDoOne
  <2>6. Cov(t) \cap ToDo(rest) = {}
    BY <2>1, <2>2, ApartOne
  <2>7. ToDo(stack') = Cov(g) \cup ToDo(rest) /\ ToDo(stack) = Cov(t) \cup ToDo(rest)
    BY <1>2, <1>3, <2>4, <2>5
  <2> QED
    BY <1>2, <2>1, <2>3, <2>6, <2>7
<1>7. /\ UNCHANGED <<before, target, program, dry_run, copy_permissions, copied, short, bytes_copied>>
      /\ copied = <<>>
  BY DEF Cp!EnterMkdir, Cp!EnterScan, Cp!options, Cp!Busy
<1>8. CASE program = "cp"
  <2>1. x \notin Cov(t)
    BY <1>0, <1>2, <1>8 DEF Cov
  <2>2. ToDo(stack') = ToDo(stack)
    BY <1>5, <1>6, <2>1
  <2>3. fs' = fs
    BY <1>8 DEF Cp!EnterMkdir, Cp!EnterScan
  <2> QED
    BY <1>6, <1>7, <2>2, <2>3, WellSame
<1>9. CASE program # "cp"
  <2>1. x \in Cov(t)
    BY <1>2, <1>3, <1>9, PrefixOrder DEF Cov, Branch
  <2>2. ToDo(stack') = ToDo(stack) \ {x} /\ x \in Whole \ Behind
    BY <1>3, <1>5, <1>6, <2>1
  <2>3. before[x].kind = "dir"
    BY <1>3 DEF CallOK
  <2>4. CASE Cp!EnterScan
    <3>1. dry_run /\ fs' = fs
      BY <1>9, <2>4 DEF Cp!EnterScan
    <3> QED
      BY <1>6, <1>7, <2>2, <2>3, <3>1, NoCopy DEF CountedOne
  <2>5. CASE Cp!EnterMkdir
    <3>1. PICK node : node = Cp!Dir(copy_permissions /\ fs[x].ro)
      OBVIOUS
    <3>2. ~ dry_run /\ Cp!MayCreate(t.op) /\ fs' = Cp!With(t.op, node)
      BY <1>0, <2>5, <3>1 DEF Cp!EnterMkdir
    <3>3. Cp!Copied(x)
      BY <1>9, <2>3 DEF Cp!Copied
    <3>4. Clear(t.op)
      <4>1. x = Source \/ Cp!Front(t.op) \notin DOMAIN before
        BY <1>3, <1>9, <3>2 DEF CallOK
      <4> QED
        BY <1>3, <3>2, <4>1, ClearCopy
    <3>5. node.kind = "dir" /\ node.data = <<>> /\ node.ro = (copy_permissions /\ fs[x].ro)
      BY <3>1 DEF Cp!Dir
    <3>6. before[x].data = <<>>
      <4>1. before \in Systems
        BY DEF CopyTypes, CopyOptions
      <4> QED
        BY <1>3, <2>3, <4>1, SystemsOK, BeforeOK
    <3>7. copy_permissions => node.ro = before[x].ro
      <4>1. fs[x].ro \in BOOLEAN
        BY <1>3, BeforeOK DEF Inode
      <4> QED
        BY <1>3, <3>5, <4>1
    <3>8. CopyOf(x, node)
      BY <1>3, <1>7, <2>3, <3>2, <3>3, <3>4, <3>5, <3>6, <3>7 DEF CopyOf
    <3> QED
      BY <1>6, <1>7, <2>2, <2>3, <3>8, OneCopied DEF CountedOne
  <2> QED
    BY <2>4, <2>5
<1> QED
  BY <1>8, <1>9

\* the entry that is taken, and what is to be copied without it
LEMMA TakenWell ==
  ASSUME CopyTypes, CpInv, Well, NEW name, Cp!Pick(name)
  PROVE  /\ Cp!In(name) \in Whole /\ Cp!In(name) \in DOMAIN before
         /\ before[Cp!In(name)] = fs[Cp!In(name)] /\ before[Cp!In(name)] \in Inode
         /\ Cp!In(name) \in NodePath /\ Cp!In(name) # Source
         /\ Cp!In(name) \in Branch(Cp!In(name))
         /\ Branch(Cp!In(name)) \subseteq Cov(Cp!Top)
         /\ Cov(Cp!Took(name)) = Cov(Cp!Top) \ Branch(Cp!In(name))
         /\ Cp!In(name) \notin Behind
<1> HIDE DEF Name, CopyCall
<1>0. PICK t, g, x : t = Cp!Top /\ g = Cp!Took(name) /\ x = Cp!In(name)
  OBVIOUS
<1>1. /\ t \in CopyCall /\ x \in NodePath /\ x \in DOMAIN fs /\ x # Source /\ Cp!IsPrefix(Source, x)
      /\ x = Append(t.ip, name) /\ t.entered /\ name \in t.left /\ stack # <<>>
  BY <1>0, EntryOK DEF Cp!Pick, Cp!In
<1>2. g \in CopyCall /\ g.ip = t.ip /\ g.entered /\ g.left = t.left \ {name}
  BY <1>0, TookOK
<1>3. x \in DOMAIN before
  BY <1>1 DEF Well, Stable
<1>4. x \in Whole /\ before[x] = fs[x] /\ before[x] \in Inode
  BY <1>1, <1>3, BeforeOK DEF Whole, Cp!Below
<1>5. x \in Branch(x)
  BY <1>1, <1>4, PrefixOrder DEF Branch
<1>6. Branch(x) \subseteq Cov(t) /\ Cov(g) = Cov(t) \ Branch(x)
  BY <1>1, <1>2, CovTaken
<1>7. Cov(t) \subseteq ToDo(stack) /\ ToDo(stack) \cap Behind = {}
  BY <1>0, <1>1, TopWell
<1> QED
  BY <1>0, <1>1, <1>3, <1>4, <1>5, <1>6, <1>7

\* The descent leaves the entries of the directory to be copied, and the directory too if
\* copytree is to make it.
LEMMA DescendWell ==
  ASSUME CopyTypes, CpInv, Well, ~ Astray, NEW name, Cp!SubTree(name) \/ Cp!SubDir(name),
         outcome' # "failed"
  PROVE  Well'
<1> HIDE DEF Name, CopyCall
<1>0. PICK t, g, x, rest : t = Cp!Top /\ g = Cp!Took(name) /\ x = Cp!In(name) /\ rest = Tail(stack)
  OBVIOUS
<1>1. PICK f : Descended(name, f)
  BY DescendTypes
<1>2. /\ Cp!Pick(name) /\ fs[x].kind = "dir" /\ stack' = <<f, g>> \o rest
      /\ f \in CopyCall /\ f.ip = x /\ ~ f.entered /\ stack # <<>> /\ copied = <<>>
  BY <1>0, <1>1 DEF Descended, Cp!Frame, Cp!Pick, Cp!Busy
<1>3. /\ t \in CopyCall /\ CallOK(t) /\ rest \in Seq(CopyCall) /\ stack = <<t>> \o rest
      /\ Apart(stack) /\ t.op = Cp!Moved(t.ip)
  BY <1>0, <1>2, TopWell
<1>4. /\ x \in Whole /\ x \notin Behind /\ before[x] = fs[x] /\ x # Source /\ x \in Branch(x)
      /\ Branch(x) \subseteq Cov(t) /\ Cov(g) = Cov(t) \ Branch(x)
  BY <1>0, <1>2, TakenWell
<1>5. g \in CopyCall
  BY <1>0, <1>2, TookOK
<1>6. Cov(f) = IF program = "cp" THEN Branch(x) \ {x} ELSE Branch(x)
  BY <1>2 DEF Cov
<1>7. /\ Cov(f) \cup Cov(g) \subseteq Cov(t) /\ Cov(f) \cap Cov(g) = {}
      /\ Cov(t) \ (Cov(f) \cup Cov(g)) = IF program = "cp" THEN {x} ELSE {}
  BY <1>4, <1>6
<1>8. Apart(stack') /\ ToDo(stack') = ToDo(stack) \ (IF program = "cp" THEN {x} ELSE {})
  <2>1. Apart(<<t>> \o rest)
    BY <1>3
  <2>2. t \in CopyCall /\ rest \in Seq(CopyCall) /\ g \in CopyCall /\ f \in CopyCall
    BY <1>2, <1>3, <1>5
  <2>3. Apart(<<f, g>> \o rest)
    BY <1>7, <2>1, <2>2, SharedApart
  <2>4. ToDo(<<f, g>> \o rest) = Cov(f) \cup Cov(g) \cup ToDo(rest)
    BY <2>2, ToDoTwo
  <2>5. ToDo(<<t>> \o rest) = Cov(t) \cup ToDo(rest)
    BY <2>2, ToDoOne
  <2>6. Cov(t) \cap ToDo(rest) = {}
    BY <2>1, <2>2, ApartOne
  <2>7. ToDo(stack') = Cov(f) \cup Cov(g) \cup ToDo(rest) /\ ToDo(stack) = Cov(t) \cup ToDo(rest)
    BY <1>2, <1>3, <2>4, <2>5
  <2> QED
    BY <1>2, <1>7, <2>3, <2>6, <2>7
<1>9. UNCHANGED <<before, target, program, dry_run, copy_permissions, copied, short, bytes_copied>>
  BY DEF Cp!SubTree, Cp!SubDir, Cp!options, Cp!Fail
<1>10. CASE Cp!SubTree(name)
  <2>1. program # "cp" /\ fs' = fs
    BY <1>10 DEF Cp!SubTree
  <2>2. ToDo(stack') = ToDo(stack)
    BY <1>8, <2>1
  <2> QED
    BY <1>8, <1>9, <2>1, <2>2, WellSame
<1>11. CASE Cp!SubDir(name)
  <2>1. PICK node : node = Cp!Dir(FALSE)
    OBVIOUS
  <2>2. program = "cp" /\ Cp!MayCreate(Cp!Out(name)) /\ fs' = Cp!With(Cp!Out(name), node)
    BY <1>11, <2>1 DEF Cp!SubDir, Cp!Fail
  <2>3. Cp!Out(name) = Cp!Moved(x) /\ Cp!Front(Cp!Out(name)) = t.op /\ target \in NodePath
    BY <1>0, <1>2, EntryOK
  <2>4. ~ dry_run /\ ~ copy_permissions /\ before \in Systems
    BY <2>2 DEF CopyTypes, CopyOptions
  <2>5. Clear(Cp!Moved(x))
    <3>1. t.ip = Source => t.op = target
      BY <1>3, <2>3, MovedEntry
    <3>2. t.op \notin DOMAIN before \/ t.op = target
      BY <1>3, <2>2, <2>4, <3>1 DEF CallOK
    <3> QED
      BY <1>4, <2>2, <2>3, <2>4, <3>2, ClearCopy
  <2>6. node.kind = "dir" /\ node.data = <<>>
    BY <2>1 DEF Cp!Dir
  <2>7. before[x].kind = "dir" /\ before[x].data = <<>> /\ Cp!Copied(x)
    <3>1. before[x].kind = "dir" /\ x \in DOMAIN before
      BY <1>2, <1>4, BeforeOK
    <3> QED
      BY <2>4, <3>1, SystemsOK DEF Cp!Copied
  <2>8. CopyOf(x, node)
    BY <1>2, <1>9, <2>2, <2>3, <2>4, <2>5, <2>6, <2>7 DEF CopyOf
  <2>9. ToDo(stack') = ToDo(stack) \ {x}
    BY <1>8, <2>2
  <2> QED
    BY <1>2, <1>4, <1>8, <1>9, <2>7, <2>8, <2>9, OneCopied DEF CountedOne
<1> QED
  BY <1>10, <1>11

\* An entry that is not a directory is behind once it is taken.
LEMMA PassWell ==
  ASSUME CopyTypes, CpInv, Well, ~ Astray, NEW name,
         Cp!Link(name) \/ Cp!Special(name) \/ Cp!Regular(name), outcome' # "failed"
  PROVE  Well'
<1> HIDE DEF Name, CopyCall
<1>0. PICK t, g, x, rest : t = Cp!Top /\ g = Cp!Took(name) /\ x = Cp!In(name) /\ rest = Tail(stack)
  OBVIOUS
<1>1. Passed(name)
  BY PassTypes
<1>2. /\ Cp!Pick(name) /\ fs[x].kind # "dir" /\ stack' = <<g>> \o rest
      /\ stack # <<>> /\ copied = <<>>
  BY <1>0, <1>1 DEF Passed, Cp!Pick, Cp!Busy
<1>3. /\ t \in CopyCall /\ CallOK(t) /\ rest \in Seq(CopyCall) /\ stack = <<t>> \o rest
      /\ Apart(stack) /\ t.op = Cp!Moved(t.ip)
  BY <1>0, <1>2, TopWell
<1>4. /\ x \in Whole /\ x \notin Behind /\ before[x] = fs[x] /\ before[x] \in Inode
      /\ x # Source /\ x \in DOMAIN before
      /\ Branch(x) \subseteq Cov(t) /\ Cov(g) = Cov(t) \ Branch(x)
  BY <1>0, <1>2, TakenWell
<1>5. g \in CopyCall
  BY <1>0, <1>2, TookOK
<1>6. Branch(x) = {x}
  BY <1>2, <1>4, BeforeOK, LeafBranch
<1>7. Apart(stack') /\ ToDo(stack') = ToDo(stack) \ {x}
  <2>1. Apart(<<t>> \o rest) /\ Cov(g) \subseteq Cov(t)
    BY <1>3, <1>4
  <2>2. t \in CopyCall /\ rest \in Seq(CopyCall) /\ g \in CopyCall
    BY <1>3, <1>5
  <2>3. Apart(<<g>> \o rest)
    BY <2>1, <2>2, LessApart
  <2>4. ToDo(<<g>> \o rest) = Cov(g) \cup ToDo(rest)
    BY <2>2, ToDoOne
  <2>5. ToDo(<<t>> \o rest) = Cov(t) \cup ToDo(rest)
    BY <2>2, ToDoOne
  <2>6. Cov(t) \cap ToDo(rest) = {}
    BY <2>1, <2>2, ApartOne
  <2>7. ToDo(stack') = Cov(g) \cup ToDo(rest) /\ ToDo(stack) = Cov(t) \cup ToDo(rest)
    BY <1>2, <1>3, <2>4, <2>5
  <2> QED
    BY <1>2, <1>4, <1>6, <2>3, <2>6, <2>7
<1>8. UNCHANGED <<before, target, program, dry_run, copy_permissions, short>>
  BY DEF Cp!Link, Cp!Special, Cp!Regular, Cp!options, Cp!Fail
<1>9. CountedOne(x)
  <2>1. CASE Cp!Regular(name)
    <3>1. fs[x].kind = "reg" /\ (program = "copytree" => bytes_copied' = bytes_copied + Len(fs[x].data))
      BY <1>0, <2>1 DEF Cp!Regular, Cp!Kind, Cp!Fail
    <3> QED
      BY <1>4, <3>1 DEF CountedOne, Size
  <2>2. CASE Cp!Link(name) \/ Cp!Special(name)
    <3>1. fs[x].kind # "reg" /\ bytes_copied' = bytes_copied
      BY <1>0, <2>2 DEF Cp!Link, Cp!Special, Cp!Kind, Cp!Fail
    <3> QED
      BY <1>4, <3>1 DEF CountedOne
  <2> QED
    BY <2>1, <2>2
\* a step that makes no copy, and one that does
<1>10. ASSUME fs' = fs, copied' = copied, dry_run \/ ~ Cp!Copied(x) PROVE Well'
  BY <1>2, <1>4, <1>7, <1>8, <1>9, <1>10, NoCopy
<1>11. ASSUME NEW node, ~ dry_run, Cp!MayCreate(Cp!Out(name)), fs' = Cp!With(Cp!Out(name), node),
              node.kind = before[x].kind, Cp!Copied(x),
              \/ copied' = <<>> /\ node = before[x]
              \/ /\ node.kind = "reg" /\ node.data = <<>>
                 /\ copied' = <<[ip |-> x, op |-> Cp!Out(name), pos |-> 0]>>
       PROVE  Well'
  <2>1. Cp!Out(name) = Cp!Moved(x) /\ Cp!Front(Cp!Out(name)) = t.op /\ target \in NodePath
    BY <1>0, <1>2, EntryOK
  <2>2. Clear(Cp!Moved(x))
    <3>1. t.ip = Source => t.op = target
      BY <1>3, <2>1, MovedEntry
    <3>2. t.entered
      BY <1>0, <1>2 DEF Cp!Pick
    <3>3. t.op \notin DOMAIN before \/ t.op = target
      BY <1>3, <1>11, <3>1, <3>2 DEF CallOK
    <3> QED
      BY <1>4, <1>11, <2>1, <3>3, ClearCopy
  <2>3. CopyOf(x, node)
    BY <1>4, <1>11, <2>1, <2>2 DEF CopyOf
  <2> QED
    BY <1>2, <1>4, <1>7, <1>8, <1>9, <2>3, OneCopied
<1>12. CASE Cp!Link(name)
  <2>1. fs[x].kind = "lnk" /\ copied' = copied
    BY <1>0, <1>12 DEF Cp!Link, Cp!Kind, Cp!Fail
  <2>2. CASE program = "cp" \/ dry_run
    <3>1. fs' = fs
      BY <1>12, <2>2 DEF Cp!Link
    <3>2. dry_run \/ ~ Cp!Copied(x)
      BY <1>4, <2>1, <2>2 DEF Cp!Copied
    <3> QED
      BY <1>10, <2>1, <3>1, <3>2
  <2>3. CASE ~ (program = "cp" \/ dry_run)
    <3>1. Cp!MayCreate(Cp!Out(name)) /\ fs' = Cp!With(Cp!Out(name), fs[x])
      BY <1>0, <1>12, <2>3 DEF Cp!Link, Cp!Fail
    <3>2. Cp!Copied(x)
      BY <1>4, <2>1, <2>3 DEF Cp!Copied
    <3> QED
      BY <1>2, <1>4, <1>11, <2>1, <2>3, <3>1, <3>2
  <2> QED
    BY <2>2, <2>3
<1>13. CASE Cp!Special(name)
  <2>1. fs[x].kind = "fifo" /\ fs' = fs /\ copied' = copied
    BY <1>0, <1>13 DEF Cp!Special, Cp!Kind, Cp!Fail
  <2>2. ~ Cp!Copied(x)
    BY <1>4, <2>1 DEF Cp!Copied
  <2> QED
    BY <1>10, <2>1, <2>2
<1>14. CASE Cp!Regular(name)
  <2>1. fs[x].kind = "reg"
    BY <1>0, <1>14 DEF Cp!Regular, Cp!Kind
  <2>2. CASE dry_run
    BY <1>10, <1>14, <2>2 DEF Cp!Regular
  <2>3. CASE ~ dry_run
    <3>1. PICK node : node = [kind |-> "reg", ro |-> FALSE, data |-> <<>>]
      OBVIOUS
    <3>2. /\ Cp!MayCreate(Cp!Out(name)) /\ fs' = Cp!With(Cp!Out(name), node)
          /\ copied' = <<[ip |-> x, op |-> Cp!Out(name), pos |-> 0]>>
      BY <1>0, <1>14, <2>3, <3>1 DEF Cp!Regular, Cp!Fail
    <3>3. Cp!Copied(x)
      BY <1>4, <2>1 DEF Cp!Copied
    <3>4. node.kind = "reg" /\ node.data = <<>> /\ before[x].kind = "reg"
      BY <1>4, <2>1, <3>1
    <3> QED
      BY <1>11, <2>3, <3>2, <3>3, <3>4
  <2> QED
    BY <2>2, <2>3
<1> QED
  BY <1>12, <1>13, <1>14

\* A call returns with nothing left to copy.
LEMMA ReturnWell ==
  ASSUME CopyTypes, CpInv, Well, Cp!Return
  PROVE  Well'
<1> HIDE DEF Name, CopyCall
<1>0. PICK t, rest : t = Cp!Top /\ rest = Tail(stack)
  OBVIOUS
<1>1. /\ stack # <<>> /\ t.entered /\ t.left = {} /\ stack' = rest
      /\ UNCHANGED <<before, target, program, dry_run, copy_permissions>>
      /\ UNCHANGED <<fs, copied, bytes_copied, short>>
  BY <1>0 DEF Cp!Return, Cp!Busy, Cp!options
<1>2. t \in CopyCall /\ rest \in Seq(CopyCall) /\ stack = <<t>> \o rest /\ Apart(stack)
  BY <1>0, <1>1, TopWell
<1>3. Cov(t) = {}
  BY <1>1 DEF Cov
<1>4. ToDo(<<t>> \o rest) = Cov(t) \cup ToDo(rest)
  BY <1>2, ToDoOne
<1>5. Apart(<<t>> \o rest) <=> Apart(rest) /\ Cov(t) \cap ToDo(rest) = {}
  BY <1>2, ApartOne
<1>6. Apart(stack') /\ ToDo(stack') = ToDo(stack)
  BY <1>1, <1>2, <1>3, <1>4, <1>5
<1> QED
  BY <1>1, <1>6, WellSame

\* a block of the rest joins what is before
LEMMA BlockJoins ==
  ASSUME NEW d \in Seq(Nat), NEW pos \in Nat, pos =< Len(d),
         NEW n \in 1 .. Len(SubSeq(d, pos + 1, Len(d)))
  PROVE  /\ pos + n =< Len(d)
         /\ SubSeq(d, 1, pos) \o SubSeq(SubSeq(d, pos + 1, Len(d)), 1, n) = SubSeq(d, 1, pos + n)
<1> DEFINE a == SubSeq(d, 1, pos)
           b == SubSeq(d, pos + 1, Len(d))
           c == SubSeq(b, 1, n)
           e == SubSeq(d, 1, pos + n)
           f == a \o c
<1>1. Len(d) \in Nat /\ pos + 1 \in Nat \ {0} /\ n \in Nat /\ n # 0
  OBVIOUS
<1>2. a \in Seq(Nat) /\ Len(a) = pos /\ \A k \in 1 .. pos : a[k] = d[k]
  BY <1>1, Part
<1>3. /\ b \in Seq(Nat) /\ Len(b) = Len(d) - pos /\ \A k \in 1 .. Len(d) - pos : b[k] = d[pos + k]
  BY <1>1, Part
<1>4. n =< Len(b)
  OBVIOUS
<1> HIDE DEF a, b
<1>5. c \in Seq(Nat) /\ Len(c) = n /\ \A k \in 1 .. n : c[k] = b[k]
  BY <1>1, <1>3, <1>4, Part
<1>6. pos + n =< Len(d) /\ pos + n \in Nat
  BY <1>1, <1>3, <1>4
<1>7. e \in Seq(Nat) /\ Len(e) = pos + n /\ \A k \in 1 .. pos + n : e[k] = d[k]
  BY <1>1, <1>6, Part
<1> HIDE DEF c, e
<1>8. /\ f \in Seq(Nat) /\ Len(f) = Len(a) + Len(c) /\ \A k \in 1 .. Len(a) : f[k] = a[k]
      /\ \A k \in Len(a) + 1 .. Len(a) + Len(c) : f[k] = c[k - Len(a)]
  <2>1. a \in Seq(Nat) /\ c \in Seq(Nat)
    BY <1>2, <1>5
  <2> QED
    BY <2>1, Joined
<1> HIDE DEF f
<1>9. ASSUME NEW k \in 1 .. pos + n PROVE f[k] = e[k]
  <2>1. CASE k \in 1 .. pos
    BY <1>2, <1>5, <1>7, <1>8, <2>1
  <2>2. CASE k \in pos + 1 .. pos + n
    <3>1. k - pos \in 1 .. n /\ pos + (k - pos) = k /\ k - pos \in 1 .. Len(d) - pos
      BY <1>1, <1>6, <2>2
    <3>2. f[k] = c[k - pos]
      BY <1>2, <1>5, <1>8, <2>2
    <3> QED
      BY <1>3, <1>5, <1>7, <3>1, <3>2
  <2> QED
    BY <1>1, <2>1, <2>2
<1>10. f = e
  BY <1>1, <1>2, <1>5, <1>7, <1>8, <1>9, SeqEqual
<1> QED
  BY <1>6, <1>10 DEF a, b, c, e, f

\* a step on the bytes of the file, or the last one
LEMMA FileWell ==
  ASSUME CopyTypes, CpInv, Well, NEW node, Rewritten(node),
         UNCHANGED <<before, target, program, dry_run, copy_permissions>>, short' = 0 => short = 0,
         NEW pos \in Nat, pos =< Len(before[copied[1].ip].data),
         \/ /\ copied' = <<[ip |-> copied[1].ip, op |-> copied[1].op, pos |-> pos]>>
            /\ short' = 0 => node.data = SubSeq(before[copied[1].ip].data, 1, pos)
         \/ /\ copied' = <<>>
            /\ short' = 0 => node.data = before[copied[1].ip].data
            /\ copy_permissions => node.ro = before[copied[1].ip].ro
  PROVE  Well'
<1> HIDE DEF Name
<1>0. PICK x, path : x = copied[1].ip /\ path = copied[1].op
  OBVIOUS
<1>1. /\ copied # <<>> /\ path = Cp!Moved(x) /\ x \in Wanted \ {Source} /\ before[x].kind = "reg"
      /\ path \in DOMAIN fs
  BY <1>0, FileTypes DEF Well, FileOK, Rewritten
<1>2. /\ DOMAIN fs' = DOMAIN fs /\ fs'[path] = node /\ \A p \in DOMAIN fs : p # path => fs'[p] = fs[p]
      /\ node.kind = fs[path].kind /\ UNCHANGED <<stack, bytes_copied, program>>
  BY <1>0, <1>1 DEF Rewritten
<1>3. Behind' = Behind /\ Apart(stack)'
  BY <1>2, CovSame DEF Behind, Well
<1>4. Wanted' = Wanted
  BY <1>3, SameCopied DEF Wanted
<1>5. Stable'
  BY <1>2 DEF Well, Stable
<1>6. Counted'
  <2> PICK R : R = RegularOf(Behind)
    OBVIOUS
  <2>1. Counted' <=> (program = "copytree" => bytes_copied' = Bytes(R)')
    BY <1>3 DEF Counted, RegularOf
  <2> QED
    BY <1>2, <2>1, BytesSame DEF Well, Counted
<1>7. ~ dry_run /\ DOMAIN fs = DOMAIN before \cup { Cp!Moved(p) : p \in Wanted }
      /\ \A p \in Wanted \ {Source} : Same(p)
  BY <1>1 DEF Well, Made, CopyTypes
<1>8. ASSUME NEW p \in Wanted \ {Source}, p # x PROVE Same(p)'
  <2>1. Cp!Moved(p) # path
    <3>1. p \in Whole /\ x \in Whole
      BY <1>1 DEF Wanted, Behind
    <3>2. /\ target \in NodePath /\ p \in NodePath /\ x \in NodePath
          /\ Cp!IsPrefix(Source, p) /\ Cp!IsPrefix(Source, x)
      BY <3>1, BeforeOK
    <3> QED
      BY <1>1, <1>8, <3>2, MovedOnce
  <2>2. Cp!Moved(p) \in DOMAIN fs /\ Cp!Moved(p)' = Cp!Moved(p)
    BY <1>7, SameCopied
  <2>3. fs'[Cp!Moved(p)] = fs[Cp!Moved(p)]
    BY <1>2, <2>1, <2>2
  <2>4. ~ (copied # <<>> /\ copied[1].ip = p) /\ Same(p)
    BY <1>0, <1>7, <1>8
  <2>5. ~ (copied' # <<>> /\ copied'[1].ip = p)
    BY <1>0, <1>8
  <2> QED
    BY <2>2, <2>3, <2>4, <2>5 DEF Same
<1>9. Same(x)'
  <2>1. Same(x) /\ Cp!Moved(x)' = path /\ fs[path].kind = before[x].kind
    BY <1>1, <1>7, SameCopied DEF Same
  <2>2. fs'[path] = node /\ node.kind = before[x].kind
    BY <1>2, <2>1
  <2>3. CASE copied' = <<>>
    BY <1>0, <2>1, <2>2, <2>3 DEF Same
  <2>4. CASE copied' # <<>>
    <3>1. copied'[1].ip = x /\ copied'[1].pos = pos
      BY <1>0, <2>4
    <3>2. short' = 0 => node.data = SubSeq(before[x].data, 1, pos)
      BY <1>0, <2>4
    <3> QED
      BY <2>1, <2>2, <2>4, <3>1, <3>2 DEF Same
  <2> QED
    BY <2>3, <2>4
<1>10. Made'
  <2>1. DOMAIN fs' = DOMAIN before' \cup { Cp!Moved(p)' : p \in Wanted' }
    BY <1>2, <1>4, <1>7, SameCopied
  <2>2. \A p \in Wanted' \ {Source} : Same(p)'
    BY <1>4, <1>8, <1>9
  <2> QED
    BY <2>1, <2>2 DEF Made
<1>11. FileOK'
  <2>1. CASE copied' = <<>>
    BY <2>1 DEF FileOK
  <2>2. CASE copied' # <<>>
    <3>1. copied'[1].ip = x /\ copied'[1].op = Cp!Moved(x)' /\ copied'[1].pos = pos
      BY <1>0, <1>1, <2>2, SameCopied
    <3>2. pos =< Len(before[x].data)
      BY <1>0
    <3> QED
      BY <1>1, <1>4, <3>1, <3>2 DEF FileOK
  <2> QED
    BY <2>1, <2>2
<1> QED
  BY <1>3, <1>5, <1>6, <1>10, <1>11 DEF Well

\* the file that is copied is as it was, and its copy as far as it has got
LEMMA FileAt ==
  ASSUME CopyTypes, CpInv, Well, copied # <<>>
  PROVE  /\ Cp!Data = before[copied[1].ip].data /\ before[copied[1].ip] = fs[copied[1].ip]
         /\ copied[1].pos \in Nat /\ copied[1].pos =< Len(Cp!Data) /\ Cp!Data \in Seq(Nat)
         /\ short = 0 => fs[copied[1].op].data = SubSeq(Cp!Data, 1, copied[1].pos)
<1>1. /\ Cp!Data = fs[copied[1].ip].data /\ Cp!Data \in Seq(Nat) /\ copied[1].pos \in Nat
  BY FileTypes
<1>2. /\ copied[1].op = Cp!Moved(copied[1].ip) /\ copied[1].ip \in Wanted \ {Source}
      /\ copied[1].pos =< Len(before[copied[1].ip].data)
  BY DEF Well, FileOK
<1>3. before[copied[1].ip] = fs[copied[1].ip]
  BY <1>2, BeforeOK DEF Wanted, Behind
<1>4. Same(copied[1].ip)
  <2>1. ~ dry_run
    BY DEF CopyTypes
  <2> QED
    BY <1>2, <2>1 DEF Well, Made
<1> QED
  BY <1>1, <1>2, <1>3, <1>4 DEF Same

\* Both copy a block, and cp.c as much as it has written.
LEMMA BlockWell ==
  ASSUME CopyTypes, CpInv, Well, Cp!duplicate \/ Cp!cp_file
  PROVE  Well'
<1>1. copied # <<>> /\ outcome = "running" /\ short' \in Nat
  BY BlockMoved
<1>2. PICK read \in 1 .. Len(Cp!Block), written \in 0 .. Len(Cp!Block) :
         /\ written =< read /\ Cp!Transfer(read, written)
         /\ short' = 0 => short = 0 /\ written = read
  BY BlockMoved
<1>3. /\ Grows /\ CopyTypes'
      /\ \E node : /\ Rewritten(node)
                   /\ node.data = fs[copied[1].op].data \o SubSeq(Cp!Block, 1, written)
      /\ copied' = <<[ip |-> copied[1].ip, op |-> copied[1].op, pos |-> copied[1].pos + read]>>
  <2>1. read \in Nat
    OBVIOUS
  <2> QED
    BY <1>1, <1>2, <2>1, TransferTypes
<1>4. PICK node : /\ Rewritten(node)
                  /\ node.data = fs[copied[1].op].data \o SubSeq(Cp!Block, 1, written)
  BY <1>3
<1>5. copied' = <<[ip |-> copied[1].ip, op |-> copied[1].op, pos |-> copied[1].pos + read]>>
  BY <1>3
<1>6. PICK d, pos : d = Cp!Data /\ pos = copied[1].pos
  OBVIOUS
<1>7. /\ d = before[copied[1].ip].data /\ pos \in Nat /\ pos =< Len(d) /\ d \in Seq(Nat)
      /\ short = 0 => fs[copied[1].op].data = SubSeq(d, 1, pos)
  BY <1>1, <1>6, FileAt
<1>8. Cp!Block = SubSeq(d, pos + 1, Len(d))
  BY <1>6 DEF Cp!Block
<1>9. /\ pos + read =< Len(d) /\ pos + read \in Nat
      /\ SubSeq(d, 1, pos) \o SubSeq(Cp!Block, 1, read) = SubSeq(d, 1, pos + read)
  <2>1. read \in 1 .. Len(SubSeq(d, pos + 1, Len(d)))
    BY <1>8
  <2>2. d \in Seq(Nat) /\ pos \in Nat /\ pos =< Len(d)
    BY <1>7
  <2>3. /\ pos + read =< Len(d)
        /\ SubSeq(d, 1, pos) \o SubSeq(SubSeq(d, pos + 1, Len(d)), 1, read) = SubSeq(d, 1, pos + read)
    BY <2>1, <2>2, BlockJoins
  <2>4. pos + read \in Nat
    BY <2>2
  <2>5. SubSeq(Cp!Block, 1, read) = SubSeq(SubSeq(d, pos + 1, Len(d)), 1, read)
    BY <1>8, Zenon
  <2> QED
    BY <2>3, <2>4, <2>5, Zenon
<1>10. short' = 0 => node.data = SubSeq(d, 1, pos + read)
  BY <1>2, <1>4, <1>7, <1>9, Zenon
<1>11. UNCHANGED <<before, target, program, dry_run, copy_permissions>>
  BY <1>3 DEF Grows
<1> QED
  BY <1>2, <1>4, <1>5, <1>6, <1>7, <1>9, <1>10, <1>11, FileWell

\* At the end of the file its copy is complete.
LEMMA FileEndWell ==
  ASSUME CopyTypes, CpInv, Well, Cp!FileEnd
  PROVE  Well'
<1>1. Grows /\ copied' = <<>> /\ short' = short
  BY FileEndTypes
<1>2. PICK node : /\ Rewritten(node) /\ node.data = fs[copied[1].op].data
                  /\ copy_permissions => node.ro = fs[copied[1].ip].ro
  BY FileEndTypes
<1>3. copied # <<>> /\ Cp!Block = <<>>
  BY DEF Cp!FileEnd
<1>4. PICK d, pos : d = Cp!Data /\ pos = copied[1].pos
  OBVIOUS
<1>5. /\ d = before[copied[1].ip].data /\ before[copied[1].ip] = fs[copied[1].ip]
      /\ pos \in Nat /\ pos =< Len(d) /\ d \in Seq(Nat)
      /\ short = 0 => fs[copied[1].op].data = SubSeq(d, 1, pos)
  BY <1>3, <1>4, FileAt
<1>6. pos = Len(d)
  <2>1. Len(Cp!Block) = IF pos + 1 =< Len(d) THEN Len(d) - pos ELSE 0
    BY <1>3, <1>4, FileTypes
  <2>2. Len(Cp!Block) = 0 /\ Len(d) \in Nat
    BY <1>3, <1>5
  <2> QED
    BY <1>5, <2>1, <2>2
<1>7. SubSeq(d, 1, pos) = d
  BY <1>5, <1>6
<1>8. UNCHANGED <<before, target, program, dry_run, copy_permissions>>
  BY <1>1 DEF Grows
<1> QED
  BY <1>1, <1>2, <1>5, <1>7, <1>8, FileWell

-----------------------------------------------------------------------------
(* A copy that ends.                                                       *)

\* A copy to a new place inside the source does not end; any other has copied all that is
\* behind it, unless it has failed.
CopyInv == CopyTypes /\ CpInv /\ IF Astray THEN Endless ELSE outcome # "failed" => Well

\* A copy that does not go astray has nothing behind it at first, or the source itself whose
\* place cp.c finds there.
LEMMA InitWell ==
  ASSUME Cp!Init, CpInv
  PROVE  Well
<1> HIDE DEF Name, CopyCall
<1>1. CopyTypes
  BY InitCopyTypes
<1>2. /\ fs = before /\ copied = <<>> /\ bytes_copied = 0 /\ stack = << Cp!Frame(Source, target) >>
      /\ program = "cp" => target \in DOMAIN fs
  BY DEF Cp!Init
<1>3. PICK f : f = Cp!Frame(Source, target)
  OBVIOUS
<1>4. f.ip = Source /\ f.entered = FALSE /\ stack = <<f>>
  BY <1>2, <1>3 DEF Cp!Frame
<1>5. /\ Source \in Whole /\ before[Source].kind = "dir" /\ target \in NodePath
      /\ \A p \in Whole : Cp!IsPrefix(Source, p)
  BY <1>1, BeforeOK
<1>6. Branch(Source) = Whole
  BY <1>5 DEF Branch
<1>7. ToDo(stack) = Cov(f)
  <2>1. Range(<<f>>) = {f}
    BY DEF Range
  <2> QED
    BY <1>4, <2>1 DEF ToDo
<1>8. Behind = IF program = "cp" THEN {Source} ELSE {}
  BY <1>4, <1>5, <1>6, <1>7 DEF Behind, Cov
<1>9. Apart(stack)
  <2>1. Len(<<f>>) = 1
    OBVIOUS
  <2> QED
    BY <1>4, <2>1 DEF Apart
<1>10. Counted
  <2>1. RegularOf(Behind) = {}
    BY <1>5, <1>8 DEF RegularOf
  <2>2. Bytes({}) = 0
    BY BytesOf, FS_EmptySet
  <2> QED
    BY <1>2, <2>1, <2>2 DEF Counted
<1>11. Made
  <2>1. Wanted \subseteq {Source} /\ (program # "cp" => Wanted = {})
    BY <1>8 DEF Wanted
  <2>2. Cp!Moved(Source) = target
    BY <1>5, MovedEntry
  <2> QED
    BY <1>2, <2>1, <2>2 DEF Made
<1>12. Stable /\ FileOK
  BY <1>2 DEF Stable, FileOK
<1> QED
  BY <1>9, <1>10, <1>11, <1>12 DEF Well

\* A copy that goes astray has the source before it, which is above its own copy.
LEMMA InitEndless ==
  ASSUME Cp!Init, Astray
  PROVE  Endless
<1>1. outcome = "running" /\ stack = << Cp!Frame(Source, target) >> /\ target \in Targets
  BY DEF Cp!Init
<1>2. PICK f : f = Cp!Frame(Source, target)
  OBVIOUS
<1>3. f.ip = Source /\ f.entered = FALSE /\ f \in Range(stack)
  <2>1. Range(<<f>>) = {f}
    BY DEF Range
  <2> QED
    BY <1>1, <1>2, <2>1 DEF Cp!Frame
<1>4. Inner(Source)
  <2>1. Cp!Moved(Source) = target
    BY <1>1, Paths, MovedEntry
  <2> QED
    BY <2>1 DEF Astray, Cp!Inside, Inner
<1> QED
  BY <1>1, <1>3, <1>4 DEF Endless, Doomed

\* Every step keeps what is behind copied.
LEMMA NextWell ==
  ASSUME CopyTypes, CpInv, ~ Astray, outcome # "failed" => Well, [Cp!Next]_(Cp!vars), outcome' # "failed"
  PROVE  Well'
<1>0. Well
  <2>1. outcome = "failed" => FALSE
    BY DEF Cp!Next, Cp!copytree, Cp!cp_dir, Cp!EnterMkdir, Cp!EnterFails, Cp!EnterScan, Cp!SubTree, Cp!SubDir,
           Cp!SubDirFails, Cp!Link, Cp!Special, Cp!Regular, Cp!duplicate, Cp!cp_file, Cp!FileEnd, Cp!Return,
           Cp!Pick, Cp!Busy, Cp!Running, Cp!vars
  <2> QED
    BY <2>1
<1>1. CASE Idle
  <2>1. Apart(stack') /\ ToDo(stack') = ToDo(stack)
    BY <1>0, <1>1 DEF Idle, Well
  <2> QED
    BY <1>0, <1>1, <2>1, WellSame DEF Idle
<1>2. CASE Cp!EnterMkdir \/ Cp!EnterScan
  BY <1>0, <1>2, EnterWell
<1>3. CASE Cp!Return
  BY <1>0, <1>3, ReturnWell
<1>4. CASE Cp!FileEnd
  BY <1>0, <1>4, FileEndWell
<1>5. CASE Cp!duplicate \/ Cp!cp_file
  BY <1>0, <1>5, BlockWell
<1>6. ASSUME NEW name, outcome' # "failed", Cp!SubTree(name) \/ Cp!SubDir(name) PROVE Well'
  BY <1>0, <1>6, DescendWell
<1>7. ASSUME NEW name, outcome' # "failed",
             Cp!Link(name) \/ Cp!Special(name) \/ Cp!Regular(name)
      PROVE  Well'
  BY <1>0, <1>7, PassWell
<1> QED
  BY <1>1, <1>2, <1>3, <1>4, <1>5, <1>6, <1>7, CopySteps DEF Stranded

\* Every step keeps the invariant.
LEMMA NextCopyInv == CopyInv /\ [Cp!Next]_(Cp!vars) => CopyInv'
<1> SUFFICES ASSUME CopyInv, [Cp!Next]_(Cp!vars) PROVE CopyInv'
  OBVIOUS
<1>1. CopyTypes /\ CpInv
  BY DEF CopyInv
<1>2. Grows /\ CopyTypes' /\ CpInv'
  BY <1>1, NextCopyTypes, NextCpInv
<1>3. Astray' <=> Astray
  BY <1>2 DEF Grows, Astray, Cp!Inside
<1>4. CASE Astray
  BY <1>1, <1>2, <1>3, <1>4, NextEndless DEF CopyInv
<1>5. CASE ~ Astray
  BY <1>1, <1>2, <1>3, <1>5, NextWell DEF CopyInv
<1> QED
  BY <1>4, <1>5

\* When no call is left all is behind.
LEMMA CopyInvCopies == CopyInv => CopiesAll
<1> SUFFICES ASSUME CopyInv, outcome = "done" PROVE CopiesAll
  BY DEF CopiesAll, Cp!CopiesAll
<1>1. CopyTypes /\ Well /\ stack = <<>> /\ copied = <<>>
  BY DEF CopyInv, CopyTypes, Endless
<1>2. Behind = Whole
  <2>1. Range(<<>>) = {}
    BY DEF Range
  <2>2. ToDo(<<>>) = {}
    BY <2>1 DEF ToDo
  <2> QED
    BY <1>1, <2>2 DEF Behind
<1>3. program = "copytree" => bytes_copied = Bytes(Cp!Of("reg"))
  BY <1>1, <1>2 DEF Well, Counted, RegularOf, Whole, Cp!Of
<1>4. dry_run => fs = before
  BY <1>1 DEF CopyTypes
<1>5. Wanted = { p \in Cp!Below(Source, before) : Cp!Copied(p) }
  BY <1>2 DEF Wanted, Whole
<1>6. ASSUME ~ dry_run
      PROVE  /\ DOMAIN fs = DOMAIN before \cup { Cp!Moved(p) : p \in Wanted }
             /\ \A p \in Wanted \ {Source} :
                  /\ fs[Cp!Moved(p)].kind = before[p].kind
                  /\ short = 0 => fs[Cp!Moved(p)].data = before[p].data
                  /\ copy_permissions => fs[Cp!Moved(p)].ro = before[p].ro
  BY <1>1, <1>6 DEF Well, Made, Same
<1> QED
  BY <1>3, <1>4, <1>5, <1>6 DEF CopiesAll, Cp!CopiesAll, Bytes

\* In the composition: a copy that ends normally is complete and adds nothing else, whatever
\* the file system, the place for the copy and the sizes; copytree counted every byte.
THEOREM CopiesTheorem == MCSpec => []CopiesAll
<1>1. MCInit => CopyInv
  <2>1. Cp!Init => CpInv
    BY DEF Cp!Init, CpInv, Cp!KeepsExisting, IsNew
  <2> QED
    BY <2>1, InitCopyTypes, InitWell, InitEndless DEF MCInit, CopyInv
<1>2. CopyInv /\ [MCNext]_MCVars => CopyInv'
  <2>1. MCNext => [Cp!Next]_(Cp!vars)
    BY DEF MCNext, copyVars, Cp!vars, Cp!options
  <2>2. UNCHANGED MCVars => UNCHANGED Cp!vars
    BY DEF MCVars, copyVars, Cp!vars, Cp!options
  <2> QED
    BY <2>1, <2>2, NextCopyInv
<1> QED
  BY <1>1, <1>2, CopyInvCopies, PTL DEF MCSpec
=============================================================================
