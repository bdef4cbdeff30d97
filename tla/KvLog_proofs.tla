---------------------------- MODULE KvLog_proofs ----------------------------
(***************************************************************************)
(* Proofs of DurableSet and of NeverWrongAnswer, for any commands, any     *)
(* sizes of the fields, and any number of kills and crashes (the second,   *)
(* up to the number at which torn appends may add up to a block).          *)
(***************************************************************************)
EXTENDS KvLog, SequenceTheorems, FiniteSetTheorems, WellFoundedInduction, TLAPS

\* all that may be in a file
Chars == {NUL} \cup { s[j] : s \in KeyArgs \cup ValArgs, j \in Nat }

Setting == {"write_key", "write_val", "fsync", "unlock"}
Locked == Setting \cup {"read", "answer"}

Types ==
  /\ db \in Seq(Chars)
  /\ cuts \subseteq 0 .. Len(db) /\ Len(db) \in cuts
  /\ acked \in Nat
  /\ pc \in [Procs -> Locked \cup Ended \cup {"open"}]
  /\ \A p \in Procs : /\ cmd[p].key \in KeyArgs
                      /\ cmd[p].op = "set" => cmd[p].val \in ValArgs
                      /\ pc[p] \in Setting => cmd[p].op = "set"

\* who works on the file has the lock, and is the only one
Exclusive == \A p \in Procs : pc[p] \in Locked => holder = {p}

\* between fsync and unlock all of the file is on disk
Synced == \A p \in Procs : pc[p] = "unlock" => cuts = {Len(db)}

\* no crash leaves less of the file than was acknowledged
Acked == \A n \in cuts : n >= acked

IInv == Types /\ Exclusive /\ Synced /\ Acked

\* a file of n bytes may be b blocks and up to m torn ones
Torn(n, m) == \E t \in 0 .. m, b \in Nat : n = b * BLOCK_SIZE + t * KeyField
Aligned(n) == \E b \in Nat : n = b * BLOCK_SIZE

\* what the history says of file f: it is what a get finds, as long as f has no torn block
Good(f) ==
  /\ Torn(Len(f), kills + crashes)
  /\ Aligned(Len(f)) => \A k \in Keys : store[k] = Lookup(f, k)

\* the file, or the file before the append that is half done, is good
Stored ==
  /\ (\A p \in Procs : pc[p] # "write_val") => Good(db)
  /\ \A p \in Procs : pc[p] = "write_val" =>
       \E f \in Seq(Chars) : db = f \o Padded(cmd[p].key, MAX_KEY_SIZE) /\ Good(f)

\* a crash makes at most one block torn
CutsTorn == \A n \in cuts : Torn(n, kills + crashes + 1)

\* a get has found the last match among the blocks it has read
Found(p, r) ==
  /\ pos[p] = r * BLOCK_SIZE /\ pos[p] <= Len(db)
  /\ out[p] = LastIn(db, 1 .. r, cmd[p].key)

Reading ==
  \A p \in Procs :
    /\ pc[p] = "open" => pos[p] = 0 /\ out[p] = NotFound
    /\ pc[p] \in {"read", "answer"} => \E r \in Nat : Found(p, r)
    /\ pc[p] = "answer" => pos[p] = Len(db)

Counts ==
  /\ kills \in 0 .. MaxKills /\ crashes \in 0 .. MaxCrashes
  /\ store = [k \in Keys |-> store[k]]
  /\ pos \in [Procs -> Nat] /\ out = [p \in Procs |-> out[p]]

AInv == Counts /\ Stored /\ CutsTorn /\ Reading

-----------------------------------------------------------------------------
(* Lengths.                                                                *)

\* the sizes of a block and of its fields
LEMMA Sizes ==
  /\ MAX_KEY_SIZE \in Nat /\ MAX_VAL_SIZE \in Nat
  /\ KeyField \in Nat /\ ValField \in Nat /\ BLOCK_SIZE \in Nat
  /\ KeyField = MAX_KEY_SIZE + 1 /\ ValField = MAX_VAL_SIZE + 1
  /\ BLOCK_SIZE = KeyField + ValField /\ KeyField >= 2 /\ ValField >= 1
BY SizeAssumption DEF KeyField, ValField, BLOCK_SIZE

\* a block more, a torn one more
LEMMA TornMore ==
  ASSUME NEW n \in Nat, NEW m \in Nat, Torn(n, m)
  PROVE  /\ Torn(n, m + 1)
         /\ Torn(n + KeyField, m + 1)
         /\ Torn(n + BLOCK_SIZE, m)
<1> DEFINE K == KeyField
           B == BLOCK_SIZE
<1>1. K \in Nat /\ B \in Nat
  BY Sizes
<1>2. PICK t \in 0 .. m, b \in Nat : n = b * B + t * K
  BY DEF Torn
<1> HIDE DEF K, B
<1>3. (t + 1) * K = t * K + K /\ (b + 1) * B = b * B + B /\ t * K \in Nat /\ b * B \in Nat
  BY <1>1
<1>4. n + K = b * B + (t + 1) * K /\ n + B = (b + 1) * B + t * K
  BY <1>1, <1>2, <1>3
<1>5. t \in 0 .. m + 1 /\ t + 1 \in 0 .. m + 1 /\ b + 1 \in Nat
  OBVIOUS
<1> QED
  BY <1>2, <1>4, <1>5 DEF Torn, K, B

\* a torn append leaves no file of whole blocks
LEMMA TornNotAligned ==
  ASSUME NEW n \in Nat, NEW m \in Nat, Torn(n, m), m + 1 <= MaxKills + MaxCrashes
  PROVE  ~ Aligned(n + KeyField)
<1> DEFINE K == KeyField
           B == BLOCK_SIZE
           M == MaxKills + MaxCrashes
<1>1. K \in Nat /\ B \in Nat /\ 0 < K /\ K < B
  BY Sizes
<1>2. PICK t \in 0 .. m, b \in Nat : n = b * B + t * K
  BY DEF Torn
<1>3. M \in Nat /\ \A x, y \in 1 .. M : x * K # y * B
  BY TornAssumption
<1> HIDE DEF K, B, M
<1> SUFFICES ASSUME NEW c \in Nat, n + K = c * B PROVE FALSE
  BY DEF Aligned, K, B
<1>4. (t + 1) * K = (c - b) * B
  BY <1>1, <1>2
<1> DEFINE x == t + 1
           y == c - b
<1>5. x \in 1 .. M /\ y \in Int
  BY <1>3 DEF M
<1>6. x * K = y * B
  BY <1>4
<1> HIDE DEF x, y
<1>7. x * K > 0
  BY <1>1, <1>5
<1>8. y > 0
  <2>1. CASE y <= 0
    <3>1. y * B <= 0
      BY <1>1, <1>5, <2>1
    <3> QED
      BY <1>1, <1>5, <1>6, <1>7, <3>1
  <2> QED
    BY <1>5, <2>1
<1>9. y <= x
  <2>1. CASE y > x
    <3>1. y * B > x * B /\ x * B >= x * K
      BY <1>1, <1>5, <2>1, <1>3
    <3> QED
      BY <1>1, <1>3, <1>5, <1>6, <3>1
  <2> QED
    BY <1>3, <1>5, <2>1
<1> QED
  BY <1>3, <1>5, <1>6, <1>8, <1>9

-----------------------------------------------------------------------------
(* Blocks of a file.                                                       *)

\* a part of a sequence, for a part that is within it
LEMMA PartOK ==
  ASSUME NEW C, NEW s \in Seq(C), NEW i \in Nat \ {0}, NEW j \in Nat, i <= j + 1, j <= Len(s)
  PROVE  /\ SubSeq(s, i, j) \in Seq(C) /\ Len(SubSeq(s, i, j)) = j - i + 1
         /\ \A k \in 1 .. j - i + 1 : SubSeq(s, i, j)[k] = s[i + k - 1]
<1> DEFINE n == j - i + 1
<1>1. n \in Nat
  OBVIOUS
<1>2. SubSeq(s, i, j) = [k \in 1 .. n |-> s[i + k - 1]]
  OBVIOUS
<1>3. \A k \in 1 .. n : s[i + k - 1] \in C
  OBVIOUS
<1> QED
  BY <1>1, <1>2, <1>3

\* the blocks of a file are those of any longer file
LEMMA BlockOK ==
  ASSUME NEW f \in Seq(Chars), NEW j \in Nat \ {0}, j * BLOCK_SIZE <= Len(f)
  PROVE  /\ Block(f, j) \in Seq(Chars) /\ Len(Block(f, j)) = BLOCK_SIZE
         /\ \A k \in 1 .. BLOCK_SIZE : Block(f, j)[k] = f[(j - 1) * BLOCK_SIZE + k]
<1> DEFINE B == BLOCK_SIZE
           p == (j - 1) * B
           q == j * B
<1>1. B \in Nat /\ B > 0
  BY Sizes
<1>2. Block(f, j) = SubSeq(f, p + 1, q)
  BY DEF Block
<1>3. q \in Nat /\ p \in Nat /\ q = p + B /\ q <= Len(f)
  <2> HIDE DEF B
  <2>1. j * B \in Nat /\ (j - 1) * B \in Nat /\ j * B = (j - 1) * B + B
    BY <1>1
  <2>2. j * B <= Len(f)
    BY DEF B
  <2> QED
    BY <2>1, <2>2
<1> HIDE DEF p, q, B
<1>4. q - (p + 1) + 1 = B /\ p + 1 <= q + 1 /\ p + 1 \in Nat \ {0}
  BY <1>1, <1>3
<1>5. /\ SubSeq(f, p + 1, q) \in Seq(Chars) /\ Len(SubSeq(f, p + 1, q)) = B
      /\ \A k \in 1 .. B : SubSeq(f, p + 1, q)[k] = f[p + 1 + k - 1]
  BY <1>3, <1>4, PartOK
<1>6. \A k \in 1 .. B : p + 1 + k - 1 = p + k
  BY <1>1, <1>3
<1>7. \A k \in 1 .. B : SubSeq(f, p + 1, q)[k] = f[p + k]
  BY <1>5, <1>6
<1> QED
  BY <1>2, <1>5, <1>7 DEF p, B

\* Appending to the file changes none of the blocks that were whole already.
LEMMA BlockOfLonger ==
  ASSUME NEW f \in Seq(Chars), NEW g \in Seq(Chars), NEW j \in Nat \ {0},
         j * BLOCK_SIZE <= Len(f)
  PROVE  Block(f \o g, j) = Block(f, j)
<1> DEFINE B == BLOCK_SIZE
           p == (j - 1) * B
           h == f \o g
<1>1. B \in Nat /\ B > 0 /\ j * B \in Nat /\ p \in Nat /\ j * B = p + B
  <2>1. B \in Nat /\ B > 0
    BY Sizes
  <2> HIDE DEF B
  <2> QED
    BY <2>1
<1>2. h \in Seq(Chars) /\ Len(h) = Len(f) + Len(g) /\ \A i \in 1 .. Len(f) : h[i] = f[i]
  OBVIOUS
<1>3. j * B <= Len(h)
  BY <1>1, <1>2
<1> HIDE DEF h, B
<1>4. /\ Block(f, j) \in Seq(Chars) /\ Len(Block(f, j)) = B
      /\ \A k \in 1 .. B : Block(f, j)[k] = f[p + k]
  BY BlockOK DEF B
<1>5. /\ Block(h, j) \in Seq(Chars) /\ Len(Block(h, j)) = B
      /\ \A k \in 1 .. B : Block(h, j)[k] = h[p + k]
  BY <1>2, <1>3, BlockOK DEF B
<1> HIDE DEF p
<1>6. \A k \in 1 .. B : h[p + k] = f[p + k]
  BY <1>1, <1>2 DEF B
<1>7. \A k \in 1 .. B : Block(h, j)[k] = Block(f, j)[k]
  BY <1>4, <1>5, <1>6
<1> HIDE DEF Block
<1>8. Block(h, j) = Block(f, j)
  BY <1>1, <1>4, <1>5, <1>7
<1> QED
  BY <1>8 DEF h

\* what is appended to a file of whole blocks is its next block
LEMMA BlockAppended ==
  ASSUME NEW f \in Seq(Chars), NEW g \in Seq(Chars), NEW r \in Nat,
         Len(f) = r * BLOCK_SIZE, Len(g) = BLOCK_SIZE
  PROVE  Block(f \o g, r + 1) = g
<1> DEFINE B == BLOCK_SIZE
           p == r * B
           h == f \o g
           j == r + 1
<1>1. B \in Nat /\ B > 0 /\ p \in Nat /\ j * B = p + B /\ (j - 1) * B = p
  <2>1. B \in Nat /\ B > 0
    BY Sizes
  <2> HIDE DEF B
  <2> QED
    BY <2>1
<1>2. h \in Seq(Chars) /\ Len(h) = p + B /\ \A i \in 1 .. B : h[p + i] = g[i]
  BY <1>1
<1>3. j \in Nat \ {0} /\ j * B <= Len(h)
  BY <1>1, <1>2
<1> HIDE DEF h, B, p, j
<1>4. /\ Block(h, j) \in Seq(Chars) /\ Len(Block(h, j)) = B
      /\ \A k \in 1 .. B : Block(h, j)[k] = h[(j - 1) * B + k]
  BY <1>2, <1>3, BlockOK DEF B
<1>5. \A k \in 1 .. B : Block(h, j)[k] = g[k]
  BY <1>1, <1>2, <1>4
<1>6. Len(g) = B
  BY DEF B
<1> HIDE DEF Block
<1>7. Block(h, j) = g
  BY <1>1, <1>4, <1>5, <1>6
<1> QED
  BY <1>7 DEF h, j

\* a file of r blocks has just them
LEMMA WholeAligned ==
  ASSUME NEW f \in Seq(Chars), NEW r \in Nat, Len(f) = r * BLOCK_SIZE
  PROVE  WholeBlocks(f) = 1 .. r
<1> DEFINE B == BLOCK_SIZE
<1>1. B \in Nat /\ B > 0
  BY Sizes
<1> HIDE DEF B
<1>2. \A j \in Nat : j <= r <=> j * B <= r * B
  <2> SUFFICES ASSUME NEW j \in Nat PROVE j <= r <=> j * B <= r * B
    OBVIOUS
  <2>1. CASE j <= r
    BY <1>1, <2>1
  <2>2. CASE j >= r + 1
    <3>1. j * B >= (r + 1) * B /\ (r + 1) * B = r * B + B /\ r * B \in Nat /\ j * B \in Nat
      BY <1>1, <2>2
    <3> QED
      BY <1>1, <2>2, <3>1
  <2> QED
    BY <2>1, <2>2
<1>3. \A j \in Nat : j <= j * B
  BY <1>1
<1>4. Len(f) = r * B /\ r * B \in Nat /\ r <= r * B
  BY <1>1, <1>3 DEF B
<1>5. \A j : j \in 1 .. r <=> j \in 1 .. Len(f) /\ j * B <= Len(f)
  BY <1>1, <1>2, <1>4
<1> QED
  BY <1>5 DEF WholeBlocks, B

-----------------------------------------------------------------------------
(* The last match.                                                         *)

\* one block more
LEMMA LastInNext ==
  ASSUME NEW f, NEW k, NEW r \in Nat
  PROVE  LastIn(f, 1 .. r + 1, k) =
           IF IsBlock(Block(f, r + 1)) /\ KeyOf(Block(f, r + 1)) = k
             THEN ValOf(Block(f, r + 1)) ELSE LastIn(f, 1 .. r, k)
<1> DEFINE P(j) == IsBlock(Block(f, j)) /\ KeyOf(Block(f, j)) = k
           V(j) == ValOf(Block(f, j))
           hits(js) == { j \in js : P(j) }
           last(js) == CHOOSE j \in hits(js) : \A l \in hits(js) : l <= j
<1>1. \A js : LastIn(f, js, k) = IF hits(js) = {} THEN NotFound ELSE V(last(js))
  BY DEF LastIn
<1>2. 1 .. r + 1 = (1 .. r) \cup {r + 1}
  OBVIOUS
<1> HIDE DEF P, V
<1>3. CASE P(r + 1)
  <2>1. r + 1 \in hits(1 .. r + 1) /\ \A l \in hits(1 .. r + 1) : l <= r + 1
    BY <1>3
  <2>2. \A j \in hits(1 .. r + 1) : (\A l \in hits(1 .. r + 1) : l <= j) => j = r + 1
    BY <2>1
  <2>3. last(1 .. r + 1) = r + 1
    BY <2>1, <2>2
  <2>4. hits(1 .. r + 1) # {}
    BY <2>1
  <2> QED
    BY <1>1, <1>3, <2>3, <2>4 DEF P, V
<1>4. CASE ~ P(r + 1)
  <2>1. hits(1 .. r + 1) = hits(1 .. r)
    BY <1>2, <1>4
  <2>2. last(1 .. r + 1) = last(1 .. r)
    BY <2>1
  <2> HIDE DEF hits, last
  <2> QED
    BY <1>1, <1>4, <2>1, <2>2 DEF P
<1> QED
  BY <1>3, <1>4

\* it depends on no other blocks
LEMMA LastInSame ==
  ASSUME NEW f, NEW g, NEW k, NEW js, \A j \in js : Block(f, j) = Block(g, j)
  PROVE  LastIn(f, js, k) = LastIn(g, js, k)
<1> DEFINE hits(h) == { j \in js : IsBlock(Block(h, j)) /\ KeyOf(Block(h, j)) = k }
           last(h) == CHOOSE j \in hits(h) : \A l \in hits(h) : l <= j
<1>1. \A h : LastIn(h, js, k) = IF hits(h) = {} THEN NotFound ELSE ValOf(Block(h, last(h)))
  BY DEF LastIn
<1>2. hits(f) = hits(g)
  BY Zenon
<1>3. last(f) = last(g)
  BY <1>2
<1>4. hits(f) # {} => last(f) \in js
  <2> SUFFICES ASSUME hits(f) # {} PROVE \E j \in js : hits(f) = {} \/ last(f) = j
    OBVIOUS
  <2> QED
    OBVIOUS
<1> QED
  BY <1>1, <1>2, <1>3, <1>4

-----------------------------------------------------------------------------
(* Strings in fields.                                                      *)

\* the C string ends before the first NUL
LEMMA CStringIs ==
  ASSUME NEW C, NEW b \in Seq(C), NEW n \in 0 .. Len(b),
         \A j \in 1 .. n : b[j] # NUL, n < Len(b) => b[n + 1] = NUL
  PROVE  CString(b) = SubSeq(b, 1, n)
<1> DEFINE upTo == { j \in 0 .. Len(b) : \A k \in 1 .. j : b[k] # NUL }
           m == CHOOSE j \in upTo : \A k \in upTo : k <= j
<1>1. n \in upTo
  OBVIOUS
<1>2. \A k \in upTo : k <= n
  <2> SUFFICES ASSUME NEW k \in upTo, k > n PROVE FALSE
    OBVIOUS
  <2>1. k \in 0 .. Len(b) /\ n + 1 \in 1 .. k /\ n < Len(b)
    OBVIOUS
  <2> QED
    BY <2>1
<1>3. \A j \in upTo : (\A k \in upTo : k <= j) => j = n
  BY <1>1, <1>2
<1>4. m = n
  BY <1>1, <1>2, <1>3
<1> HIDE DEF upTo
<1>5. CString(b) = SubSeq(b, 1, m)
  BY DEF CString, upTo
<1> QED
  BY <1>4, <1>5

\* a set of numbers has a least one
LEMMA Least ==
  ASSUME NEW S, S \subseteq Nat, S # {}
  PROVE  \E x \in S : \A y \in S : x <= y
<1> DEFINE T == { 0 .. x : x \in S }
           R == StrictSubsetOrdering(Nat)
           F == FiniteSubsetsOf(Nat)
<1>1. T \subseteq F
  <2>1. ASSUME NEW x \in S PROVE 0 .. x \in F
    <3>1. 0 \in Int /\ x \in Int /\ 0 .. x \subseteq Nat
      OBVIOUS
    <3>2. IsFiniteSet(0 .. x)
      BY <3>1, FS_Interval
    <3> QED
      BY <3>1, <3>2 DEF FiniteSubsetsOf
  <2> QED
    BY <2>1
<1>2. IsWellFoundedOn(R, F) /\ T # {}
  BY FS_StrictSubsetOrderingWellFounded
<1>3. PICK t \in T : \A u \in T : ~ (<<u, t>> \in R)
  <2> HIDE DEF T, R, F
  <2> QED
    BY <1>1, <1>2, WFMin
<1>4. PICK x \in S : t = 0 .. x
  BY <1>3
<1>5. ASSUME NEW y \in S, y < x PROVE FALSE
  <2>1. x \in Nat /\ y \in Nat
    BY <1>4, <1>5
  <2>2. 0 .. y \subseteq 0 .. x /\ x \in 0 .. x /\ x \notin 0 .. y
    BY <1>5, <2>1
  <2>3. 0 .. x \subseteq Nat /\ 0 .. y \subseteq Nat
    BY <2>1
  <2>4. <<0 .. y, 0 .. x>> \in R
    BY <2>2, <2>3 DEF StrictSubsetOrdering
  <2> QED
    BY <1>3, <1>4, <2>4
<1>6. \A y \in S : x <= y
  BY <1>4, <1>5
<1> QED
  BY <1>4, <1>6

\* the C string of a field with a NUL in it ends before that
LEMMA CStringShort ==
  ASSUME NEW C, NEW b \in Seq(C), NEW n \in 1 .. Len(b), b[n] = NUL
  PROVE  Len(CString(b)) < n
<1> DEFINE T == { j \in 1 .. n : b[j] = NUL }
<1>1. PICK x \in T : \A y \in T : x <= y
  <2>1. T \subseteq Nat /\ n \in T
    OBVIOUS
  <2> HIDE DEF T
  <2> QED
    BY <2>1, Least
<1> DEFINE l == x - 1
<1>2. x \in 1 .. n /\ b[x] = NUL /\ \A j \in 1 .. n : b[j] = NUL => x <= j
  BY <1>1
<1>3. l \in 0 .. Len(b) /\ l < n /\ l + 1 = x
  BY <1>2
<1>4. \A j \in 1 .. l : b[j] # NUL
  BY <1>2, <1>3
<1> HIDE DEF l, T
<1>5. CString(b) = SubSeq(b, 1, l)
  BY <1>2, <1>3, <1>4, CStringIs
<1>6. Len(SubSeq(b, 1, l)) = l - 1 + 1
  BY <1>3, PartOK
<1> QED
  BY <1>3, <1>5, <1>6

\* an argument is a sequence of characters
LEMMA ArgOK ==
  ASSUME NEW s \in KeyArgs \cup ValArgs
  PROVE  s \in Seq(Chars) /\ Len(s) \in Nat /\ \A j \in 1 .. Len(s) : s[j] # NUL
<1>1. s \in Seq(Range(s)) /\ ~ Contains(s, NUL)
  BY ArgAssumption
<1>2. Len(s) \in Nat /\ DOMAIN s = 1 .. Len(s) /\ s = [j \in 1 .. Len(s) |-> s[j]]
  BY <1>1
<1>3. \A j \in 1 .. Len(s) : s[j] \in Chars /\ s[j] # NUL
  BY <1>1, <1>2 DEF Chars, Contains
<1>4. s \in [1 .. Len(s) -> Chars]
  BY <1>2, <1>3
<1> QED
  BY <1>2, <1>3, <1>4

\* a field is its string, NULs and a terminator
LEMMA PaddedOK ==
  ASSUME NEW s \in KeyArgs \cup ValArgs, NEW n \in Nat
  PROVE  /\ Padded(s, n) \in Seq(Chars) /\ Len(Padded(s, n)) = n + 1
         /\ Truncated(s, n) \in Seq(Chars) /\ Len(Truncated(s, n)) \in 0 .. n
         /\ \A j \in 1 .. Len(Truncated(s, n)) :
              Padded(s, n)[j] = Truncated(s, n)[j] /\ Padded(s, n)[j] # NUL
         /\ Padded(s, n)[Len(Truncated(s, n)) + 1] = NUL /\ Padded(s, n)[n + 1] = NUL
<1> DEFINE l == IF Len(s) < n THEN Len(s) ELSE n
           t == Truncated(s, n)
           b == Padded(s, n)
           m == n + 1
<1>1. s \in Seq(Chars) /\ Len(s) \in Nat /\ \A j \in 1 .. Len(s) : s[j] # NUL
  BY ArgOK
<1>2. l \in Nat /\ l <= Len(s) /\ l <= n /\ m \in Nat /\ l < m
  BY <1>1
<1>3. t = SubSeq(s, 1, l)
  BY DEF Truncated
<1>4. b = [j \in 1 .. m |-> IF j <= Len(t) THEN s[j] ELSE NUL]
  BY DEF Padded
<1> HIDE DEF l, t, b
<1>5. t \in Seq(Chars) /\ Len(t) = l /\ \A j \in 1 .. l : t[j] = s[j]
  <2>1. /\ SubSeq(s, 1, l) \in Seq(Chars) /\ Len(SubSeq(s, 1, l)) = l - 1 + 1
        /\ \A j \in 1 .. l - 1 + 1 : SubSeq(s, 1, l)[j] = s[1 + j - 1]
    BY <1>1, <1>2, PartOK
  <2> QED
    BY <1>2, <1>3, <2>1
<1>6. \A j \in 1 .. m : b[j] = IF j <= l THEN s[j] ELSE NUL
  BY <1>4, <1>5
<1>7. b \in [1 .. m -> Chars]
  <2>1. \A j \in 1 .. m : (IF j <= l THEN s[j] ELSE NUL) \in Chars
    BY <1>1, <1>2 DEF Chars
  <2> QED
    BY <1>4, <1>5, <2>1
<1> HIDE DEF m
<1>8. b \in Seq(Chars) /\ Len(b) = m
  BY <1>2, <1>7
<1>9. \A j \in 1 .. l : b[j] = t[j] /\ b[j] # NUL
  BY <1>1, <1>2, <1>5, <1>6
<1>10. b[l + 1] = NUL /\ b[m] = NUL
  BY <1>2, <1>6
<1> QED
  BY <1>2, <1>5, <1>8, <1>9, <1>10 DEF t, b, m

\* the string of a field, whatever follows it
LEMMA FieldString ==
  ASSUME NEW s \in KeyArgs \cup ValArgs, NEW n \in Nat, NEW g \in Seq(Chars)
  PROVE  CString(Padded(s, n) \o g) = Truncated(s, n)
<1> DEFINE t == Truncated(s, n)
           b == Padded(s, n)
           c == b \o g
           l == Len(t)
           m == n + 1
<1>1. /\ b \in Seq(Chars) /\ Len(b) = m /\ t \in Seq(Chars) /\ l \in 0 .. n
      /\ \A j \in 1 .. l : b[j] = t[j] /\ b[j] # NUL
      /\ b[l + 1] = NUL
  BY PaddedOK
<1>m. m \in Nat /\ l < m
  BY <1>1
<1> HIDE DEF t, b, m
<1>2. /\ c \in Seq(Chars) /\ Len(c) = m + Len(g) /\ Len(g) \in Nat
      /\ \A j \in 1 .. m : c[j] = b[j]
  BY <1>1, <1>m
<1> HIDE DEF c
<1>3. t = [j \in 1 .. l |-> t[j]] /\ l \in Nat
  BY <1>1
<1> HIDE DEF l
<1>4. l \in 0 .. Len(c) /\ (\A j \in 1 .. l : c[j] # NUL) /\ c[l + 1] = NUL
  BY <1>1, <1>2, <1>m
<1>5. CString(c) = SubSeq(c, 1, l)
  BY <1>2, <1>4, CStringIs
<1>6. SubSeq(c, 1, l) = [j \in 1 .. l |-> c[j]]
  BY <1>2, <1>3, <1>m
<1>7. \A j \in 1 .. l : c[j] = t[j]
  BY <1>1, <1>2, <1>m
<1>8. SubSeq(c, 1, l) = t
  BY <1>3, <1>6, <1>7
<1> QED
  BY <1>5, <1>8 DEF c, b, t

\* an entry written is the block of its key and value, cut to the sizes of the fields
LEMMA EntryWritten ==
  ASSUME NEW k \in KeyArgs, NEW v \in ValArgs
  PROVE  LET b == Padded(k, MAX_KEY_SIZE) \o Padded(v, MAX_VAL_SIZE)
         IN  /\ b \in Seq(Chars) /\ Len(b) = BLOCK_SIZE /\ IsBlock(b)
             /\ KeyOf(b) = Truncated(k, MAX_KEY_SIZE) /\ ValOf(b) = Truncated(v, MAX_VAL_SIZE)
<1> DEFINE x == Padded(k, MAX_KEY_SIZE)
           y == Padded(v, MAX_VAL_SIZE)
           b == x \o y
           K == KeyField
           B == BLOCK_SIZE
<1>1. /\ x \in Seq(Chars) /\ Len(x) = K /\ x[K] = NUL
      /\ y \in Seq(Chars) /\ Len(y) = ValField /\ y[ValField] = NUL
      /\ K \in Nat \ {0} /\ ValField \in Nat \ {0} /\ B = K + ValField
  BY Sizes, PaddedOK
<1>2. KeyOf(b) = Truncated(k, MAX_KEY_SIZE)
  BY <1>1, Sizes, FieldString DEF KeyOf
<1> HIDE DEF x, y, K, B
<1>3. /\ b \in Seq(Chars) /\ Len(b) = B /\ b[K] = NUL /\ b[B] = NUL
      /\ \A j \in 1 .. ValField : b[K + j] = y[j]
  BY <1>1
<1> HIDE DEF b
<1>4. SubSeq(b, K + 1, Len(b)) = y
  <2>1. /\ SubSeq(b, K + 1, B) \in Seq(Chars) /\ Len(SubSeq(b, K + 1, B)) = B - (K + 1) + 1
        /\ \A j \in 1 .. B - (K + 1) + 1 : SubSeq(b, K + 1, B)[j] = b[K + 1 + j - 1]
    <3>1. B \in Nat /\ K + 1 \in Nat \ {0} /\ K + 1 <= B + 1
      BY <1>1
    <3> QED
      BY <1>3, <3>1, PartOK
  <2> DEFINE z == SubSeq(b, K + 1, B)
  <2>2. z \in Seq(Chars) /\ Len(z) = ValField /\ \A j \in 1 .. ValField : z[j] = y[j]
    BY <1>1, <1>3, <2>1
  <2> HIDE DEF z
  <2>3. z = y
    BY <1>1, <2>2
  <2> QED
    BY <1>3, <2>3 DEF z
<1>5. CString(y) = Truncated(v, MAX_VAL_SIZE)
  <2>1. <<>> \in Seq(Chars) /\ y \o <<>> = y
    BY <1>1
  <2>2. CString(y \o <<>>) = Truncated(v, MAX_VAL_SIZE)
    BY <2>1, Sizes, FieldString DEF y
  <2> QED
    BY <2>1, <2>2
<1> QED
  BY <1>2, <1>3, <1>4, <1>5 DEF IsBlock, ValOf, b, x, y, K, B
-----------------------------------------------------------------------------
(* What a write and a crash do to the file.                                *)

\* an append makes the file longer and leaves all cuts behind what was acknowledged
LEMMA Written ==
  ASSUME IInv, NEW bytes \in Seq(Chars), WriteAtEnd(bytes)
  PROVE  /\ db' \in Seq(Chars) /\ Len(db') >= Len(db)
         /\ cuts' \subseteq 0 .. Len(db') /\ Len(db') \in cuts'
         /\ acked \in Nat /\ \A n \in cuts' : n >= acked
<1>1. db' = db \o bytes /\ cuts' = cuts \cup {Len(db')}
  BY DEF WriteAtEnd
<1>2. /\ db \in Seq(Chars) /\ cuts \subseteq 0 .. Len(db) /\ Len(db) \in cuts
      /\ acked \in Nat /\ \A n \in cuts : n >= acked
  BY DEF IInv, Types, Acked
<1>3. db \o bytes \in Seq(Chars) /\ Len(db \o bytes) = Len(db) + Len(bytes)
  BY <1>2, ConcatProperties
<1>4. Len(db) \in Nat /\ Len(bytes) \in Nat
  BY <1>2
<1>5. db' \in Seq(Chars) /\ Len(db') \in Nat /\ Len(db') >= Len(db)
  BY <1>1, <1>3, <1>4
<1>6. Len(db') >= acked
  BY <1>2, <1>4, <1>5
<1>7. cuts' \subseteq 0 .. Len(db')
  <2>1. cuts \subseteq 0 .. Len(db) /\ cuts' = cuts \cup {Len(db')}
    BY <1>1, <1>2
  <2>2. \A n \in 0 .. Len(db) : n \in 0 .. Len(db')
    BY <1>4, <1>5
  <2>3. Len(db') \in 0 .. Len(db')
    BY <1>5
  <2> QED
    BY <2>1, <2>2, <2>3
<1>8. Len(db') \in cuts' /\ \A n \in cuts' : n \in cuts \/ n = Len(db')
  BY <1>1
<1> QED
  BY <1>2, <1>5, <1>6, <1>7, <1>8

\* what a crash leaves of the file is a beginning of it
LEMMA Cut ==
  ASSUME IInv, NEW n \in 0 .. Len(db)
  PROVE  SubSeq(db, 1, n) \in Seq(Chars) /\ Len(SubSeq(db, 1, n)) = n /\ n \in Nat
<1>1. db \in Seq(Chars) /\ n \in 0 .. Len(db)
  BY DEF IInv, Types
<1>2. Len(db) \in Nat /\ n \in Nat /\ n <= Len(db)
  BY <1>1
<1>3. \A j \in 1 .. n : db[j] \in Chars
  BY <1>1, <1>2
<1>4. SubSeq(db, 1, n) = [j \in 1 .. n |-> db[j]]
  BY <1>2
<1> DEFINE s == SubSeq(db, 1, n)
<1>5. s \in [1 .. n -> Chars]
  BY <1>3, <1>4
<1> HIDE DEF s
<1>6. s \in Seq(Chars) /\ Len(s) = n
  BY <1>2, <1>5
<1> QED
  BY <1>2, <1>6 DEF s

\* a crash cuts the file somewhere behind what was acknowledged, or loses all of it
LEMMA CrashCuts ==
  ASSUME IInv, Crash
  PROVE  \E n \in 0 .. Len(db) :
           /\ db' = SubSeq(db, 1, n) /\ cuts' = {n} /\ n >= acked' /\ acked' \in Nat
           /\ n \in cuts \/ n = 0
<1>1. db \in Seq(Chars) /\ cuts \subseteq 0 .. Len(db) /\ acked \in Nat /\ \A n \in cuts : n >= acked
  BY DEF IInv, Types, Acked
<1>2. CASE FileLost
  <2>1. db' = <<>> /\ cuts' = {0} /\ acked' = 0
    BY <1>2 DEF FileLost
  <2>2. SubSeq(db, 1, 0) = <<>> /\ 0 \in 0 .. Len(db)
    BY <1>1
  <2> QED
    BY <2>1, <2>2
<1>3. ASSUME NEW n \in cuts, Survives(n)
      PROVE  /\ n \in 0 .. Len(db) /\ db' = SubSeq(db, 1, n) /\ cuts' = {n}
             /\ n >= acked' /\ acked' \in Nat
  BY <1>1, <1>3 DEF Survives
<1> QED
  BY <1>2, <1>3 DEF Crash

-----------------------------------------------------------------------------

\* an empty file and nobody with the lock
LEMMA InitIInv == Init => IInv
<1> SUFFICES ASSUME Init PROVE IInv
  OBVIOUS
<1>1. Types
  BY DEF Init, Types, Setting, Locked, Ended
<1> QED
  BY <1>1 DEF Init, IInv, Exclusive, Synced, Acked, Locked, Setting

\* a step that leaves the file alone and takes or gives back the lock
LEMMA FileKept ==
  ASSUME IInv, UNCHANGED <<db, cuts, cmd, acked>>, NEW p \in Procs,
         pc' \in [Procs -> Locked \cup Ended \cup {"open"}],
         pc'[p] \in Setting => pc[p] \in Setting \/ cmd[p].op = "set",
         pc'[p] # "unlock", \A q \in Procs \ {p} : pc'[q] = pc[q],
         Exclusive'
  PROVE  IInv'
<1>1. Types'
  BY DEF IInv, Types
<1>2. Synced' /\ Acked'
  BY DEF IInv, Synced, Acked
<1> QED
  BY <1>1, <1>2 DEF IInv

\* each step of a process, a kill and a crash
LEMMA NextIInv == IInv /\ [Next]_vars => IInv'
<1> SUFFICES ASSUME IInv, [Next]_vars PROVE IInv'
  OBVIOUS
<1>t. /\ pc \in [Procs -> Locked \cup Ended \cup {"open"}]
      /\ \A p \in Procs : pc[p] \in Locked => holder = {p}
  BY DEF IInv, Types, Exclusive
<1> USE DEF Locked, Setting, Ended, Goto
<1>1. CASE UNCHANGED vars
  BY <1>1 DEF vars, file, histories, IInv, Types, Exclusive, Synced, Acked
<1>2. ASSUME NEW p \in Procs, Open(p) PROVE IInv'
  <2>1. Exclusive'
    BY <1>2, <1>t DEF Open, Exclusive
  <2>2. /\ UNCHANGED <<db, cuts, cmd, acked>> /\ pc' \in [Procs -> Locked \cup Ended \cup {"open"}]
        /\ pc'[p] \in Setting => cmd[p].op = "set"
        /\ pc'[p] # "unlock" /\ \A q \in Procs \ {p} : pc'[q] = pc[q]
    BY <1>2, <1>t DEF Open, histories
  <2> HIDE DEF Locked, Setting, Ended
  <2> QED
    BY <2>1, <2>2, FileKept
<1>3. ASSUME NEW p \in Procs, Get(p) \/ Kill(p) PROVE IInv'
  <2>1. Exclusive'
    BY <1>3, <1>t DEF Get, ReadBlock, ReadEof, ReadBad, Exit, Kill, Leave, Exclusive
  <2>2. /\ UNCHANGED <<db, cuts, cmd, acked>> /\ pc' \in [Procs -> Locked \cup Ended \cup {"open"}]
        /\ pc'[p] \notin Setting
        /\ pc'[p] # "unlock" /\ \A q \in Procs \ {p} : pc'[q] = pc[q]
    BY <1>3, <1>t DEF Get, ReadBlock, ReadEof, ReadBad, Exit, Kill, file, histories
  <2> HIDE DEF Locked, Setting, Ended
  <2> QED
    BY <2>1, <2>2, FileKept
<1>4. ASSUME NEW p \in Procs, WriteKey(p) \/ WriteVal(p) PROVE IInv'
  <2>1. PICK bytes \in Seq(Chars) : WriteAtEnd(bytes)
    <3>1. CASE WriteKey(p)
      <4>1. cmd[p].key \in KeyArgs \cup ValArgs /\ MAX_KEY_SIZE \in Nat
        BY <3>1, SizeAssumption DEF WriteKey, IInv, Types
      <4>2. Padded(cmd[p].key, MAX_KEY_SIZE) \in Seq(Chars)
        BY <4>1, PaddedOK
      <4>3. WriteAtEnd(Padded(cmd[p].key, MAX_KEY_SIZE))
        BY <3>1 DEF WriteKey
      <4> QED
        BY <4>2, <4>3
    <3>2. CASE WriteVal(p)
      <4>1. cmd[p].val \in KeyArgs \cup ValArgs /\ MAX_VAL_SIZE \in Nat
        BY <3>2, SizeAssumption DEF WriteVal, IInv, Types
      <4>2. Padded(cmd[p].val, MAX_VAL_SIZE) \in Seq(Chars)
        BY <4>1, PaddedOK
      <4>3. WriteAtEnd(Padded(cmd[p].val, MAX_VAL_SIZE))
        BY <3>2 DEF WriteVal
      <4> QED
        BY <4>2, <4>3
    <3> QED
      BY <1>4, <3>1, <3>2
  <2>2. /\ UNCHANGED <<holder, cmd, acked>> /\ pc[p] \in {"write_key", "write_val"}
        /\ pc' = [pc EXCEPT ![p] = "write_val"] \/ pc' = [pc EXCEPT ![p] = "fsync"]
    BY <1>4 DEF WriteKey, WriteVal, histories
  <2>3. holder = {p} /\ \A q \in Procs \ {p} : pc[q] \notin Locked
    BY <1>t, <2>2
  <2>4. Types' /\ Acked'
    <3>1. /\ db' \in Seq(Chars) /\ cuts' \subseteq 0 .. Len(db') /\ Len(db') \in cuts'
          /\ acked' \in Nat /\ \A n \in cuts' : n >= acked'
      BY <2>1, <2>2, Written
    <3>2. pc' \in [Procs -> Locked \cup Ended \cup {"open"}]
      BY <1>t, <2>2
    <3>3. \A q \in Procs : /\ cmd'[q].key \in KeyArgs
                           /\ cmd'[q].op = "set" => cmd'[q].val \in ValArgs
                           /\ pc'[q] \in Setting => cmd'[q].op = "set"
      <4>1. \A q \in Procs : /\ cmd[q].key \in KeyArgs
                             /\ cmd[q].op = "set" => cmd[q].val \in ValArgs
                             /\ pc[q] \in Setting => cmd[q].op = "set"
        BY DEF IInv, Types
      <4>2. \A q \in Procs : pc'[q] \in Setting => pc[q] \in Setting
        BY <1>t, <2>2
      <4>3. cmd' = cmd
        BY <2>2
      <4> HIDE DEF Setting
      <4> QED
        BY <4>1, <4>2, <4>3
    <3> QED
      BY <3>1, <3>2, <3>3 DEF Types, Acked
  <2>5. Exclusive' /\ Synced'
    BY <1>t, <2>2, <2>3 DEF Exclusive, Synced
  <2> QED
    BY <2>4, <2>5 DEF IInv
<1>5. ASSUME NEW p \in Procs, Fsync(p) PROVE IInv'
  <2>1. /\ UNCHANGED <<db, holder, cmd, acked>> /\ cuts' = {Len(db)} /\ pc[p] = "fsync"
        /\ pc' = [pc EXCEPT ![p] = "unlock"]
    BY <1>5 DEF Fsync, histories
  <2>2. Types'
    BY <1>t, <2>1 DEF IInv, Types
  <2>3. Acked'
    BY <2>1 DEF IInv, Types, Acked
  <2>4. Exclusive' /\ Synced'
    BY <1>t, <2>1 DEF Exclusive, Synced
  <2> QED
    BY <2>2, <2>3, <2>4 DEF IInv
<1>6. ASSUME NEW p \in Procs, Unlock(p) PROVE IInv'
  <2>1. /\ UNCHANGED <<file, cmd>> /\ acked' = Len(db) /\ pc[p] = "unlock"
        /\ pc' = [pc EXCEPT ![p] = "ok"] /\ cuts = {Len(db)}
    BY <1>6 DEF Unlock, IInv, Synced
  <2>2. Types' /\ Acked'
    BY <1>t, <2>1 DEF IInv, Types, Acked, file
  <2>3. Exclusive' /\ Synced'
    BY <1>t, <2>1 DEF Exclusive, Synced
  <2> QED
    BY <2>2, <2>3 DEF IInv
<1>7. CASE Crash
  <2>1. PICK n \in 0 .. Len(db) : /\ db' = SubSeq(db, 1, n) /\ cuts' = {n}
                                  /\ n >= acked' /\ acked' \in Nat
    BY <1>7, CrashCuts
  <2>2. UNCHANGED cmd /\ \A p \in Procs : pc'[p] \in Ended \cup {"open"}
    BY <1>7 DEF Crash
  <2>3. pc' \in [Procs -> Locked \cup Ended \cup {"open"}]
    BY <1>7, <1>t DEF Crash
  <2>4. Types' /\ Acked'
    BY <2>1, <2>2, <2>3, Cut DEF IInv, Types, Acked
  <2>5. Exclusive' /\ Synced'
    BY <2>2 DEF Exclusive, Synced
  <2> QED
    BY <2>4, <2>5 DEF IInv
<1> QED
  BY <1>1, <1>2, <1>3, <1>4, <1>5, <1>6, <1>7 DEF Next, Set

-----------------------------------------------------------------------------

\* two files with the same first n bytes
LEMMA PrefixStays ==
  ASSUME NEW s \in Seq(Chars), NEW t \in Seq(Chars), NEW n \in Nat,
         n <= Len(s), n <= Len(t), \A j \in 1 .. n : t[j] = s[j]
  PROVE  IsPrefix(SubSeq(s, 1, n), t)
<1> DEFINE a == SubSeq(s, 1, n)
<1>1. a = [j \in 1 .. n |-> s[j]] /\ a \in Seq(Chars) /\ Len(a) = n
  OBVIOUS
<1>2. SubSeq(a, 1, n) = [j \in 1 .. n |-> a[j]]
  BY <1>1
<1>3. SubSeq(t, 1, n) = [j \in 1 .. n |-> t[j]]
  OBVIOUS
<1> HIDE DEF a
<1>4. SubSeq(a, 1, Len(a)) = SubSeq(t, 1, Len(a))
  BY <1>1, <1>2, <1>3
<1>5. Len(a) <= Len(t)
  BY <1>1
<1> QED
  BY <1>4, <1>5 DEF IsPrefix, a

\* each step leaves what was acknowledged where it is, or loses a file that is new
LEMMA NextDurable ==
  ASSUME IInv, [Next]_vars
  PROVE  \/ IsPrefix(SubSeq(db, 1, acked), db')
         \/ dirEntry = "memory" /\ dirEntry' = "none" /\ db' = <<>>
<1>1. /\ db \in Seq(Chars) /\ cuts \subseteq 0 .. Len(db) /\ Len(db) \in cuts
      /\ acked \in Nat /\ \A n \in cuts : n >= acked
  BY DEF IInv, Types, Acked
<1>2. acked <= Len(db)
  BY <1>1
<1>3. CASE db' = db
  BY <1>1, <1>2, <1>3, PrefixStays
<1>4. ASSUME NEW n \in cuts, Survives(n) PROVE IsPrefix(SubSeq(db, 1, acked), db')
  <2>1. db' = SubSeq(db, 1, n) /\ n \in 0 .. Len(db) /\ acked <= n
    BY <1>1, <1>4 DEF Survives
  <2>2. db' \in Seq(Chars) /\ Len(db') = n
    BY <2>1, Cut
  <2>3. \A j \in 1 .. acked : db'[j] = db[j]
    BY <1>1, <2>1
  <2> QED
    BY <1>1, <1>2, <2>1, <2>2, <2>3, PrefixStays
<1>5. ASSUME NEW p \in Procs, WriteKey(p) \/ WriteVal(p)
      PROVE  IsPrefix(SubSeq(db, 1, acked), db')
  <2>1. PICK bytes \in Seq(Chars) : db' = db \o bytes
    <3>1. CASE WriteKey(p)
      <4>1. cmd[p].key \in KeyArgs \cup ValArgs /\ MAX_KEY_SIZE \in Nat
        BY <3>1, SizeAssumption DEF WriteKey, IInv, Types
      <4> QED
        BY <3>1, <4>1, PaddedOK DEF WriteKey, WriteAtEnd
    <3>2. CASE WriteVal(p)
      <4>1. pc[p] \in Setting
        BY <3>2 DEF WriteVal, Setting
      <4>2. cmd[p].val \in KeyArgs \cup ValArgs /\ MAX_VAL_SIZE \in Nat
        BY <4>1, SizeAssumption DEF IInv, Types
      <4> QED
        BY <3>2, <4>2, PaddedOK DEF WriteVal, WriteAtEnd
    <3> QED
      BY <1>5, <3>1, <3>2
  <2>2. db' \in Seq(Chars) /\ Len(db') = Len(db) + Len(bytes)
    BY <1>1, <2>1, ConcatProperties
  <2>3. \A j \in 1 .. acked : db'[j] = db[j]
    BY <1>1, <1>2, <2>1
  <2>4. acked <= Len(db')
    BY <1>1, <1>2, <2>2
  <2> QED
    BY <1>1, <1>2, <2>2, <2>3, <2>4, PrefixStays
<1>6. CASE FileLost
  BY <1>6 DEF FileLost
<1>7. ASSUME NEW p \in Procs, Open(p) \/ Get(p) \/ Fsync(p) \/ Unlock(p) \/ Kill(p)
      PROVE  db' = db
  BY <1>7 DEF Open, Get, ReadBlock, ReadEof, ReadBad, Exit, Fsync, Unlock, Kill, file
<1>8. CASE UNCHANGED vars
  BY <1>3, <1>8 DEF vars, file
<1> QED
  BY <1>3, <1>4, <1>5, <1>6, <1>7, <1>8 DEF Next, Set, Crash

\* Whatever sets run, are killed, or are cut short by a crash: what a set had written
\* when it returned stays in the file, unless a crash loses the file, whose directory
\* was never written since it was created.
THEOREM DurableTheorem == Spec => DurableSet
<1>1. IInv /\ [Next]_vars =>
        [\/ IsPrefix(SubSeq(db, 1, acked), db')
         \/ dirEntry = "memory" /\ dirEntry' = "none" /\ db' = <<>>]_vars
  BY NextDurable
<1> QED
  BY <1>1, InitIInv, NextIInv, PTL DEF Spec, DurableSet

-----------------------------------------------------------------------------
(* The answers of get.                                                     *)

\* a store that knows an aligned file knows it after an append
LEMMA GoodAppended ==
  ASSUME Counts, NEW f \in Seq(Chars), Good(f), NEW p \in Procs,
         cmd[p].key \in KeyArgs, cmd[p].val \in ValArgs, UNCHANGED <<kills, crashes>>,
         db' = f \o (Padded(cmd[p].key, MAX_KEY_SIZE) \o Padded(cmd[p].val, MAX_VAL_SIZE)),
         store' = [store EXCEPT ![Truncated(cmd[p].key, MAX_KEY_SIZE)] =
                                  Truncated(cmd[p].val, MAX_VAL_SIZE)]
  PROVE  Good(db)' /\ store' = [k \in Keys |-> store'[k]]
<1> DEFINE b == Padded(cmd[p].key, MAX_KEY_SIZE) \o Padded(cmd[p].val, MAX_VAL_SIZE)
           B == BLOCK_SIZE
           m == kills + crashes
           key == Truncated(cmd[p].key, MAX_KEY_SIZE)
           val == Truncated(cmd[p].val, MAX_VAL_SIZE)
<1>1. b \in Seq(Chars) /\ Len(b) = B /\ IsBlock(b) /\ KeyOf(b) = key /\ ValOf(b) = val
  BY EntryWritten
<1>2. store' = [store EXCEPT ![key] = val] /\ store = [k \in Keys |-> store[k]]
  BY DEF Counts
<1>3. key \in Keys
  BY DEF Keys
<1> HIDE DEF b, key, val, B
<1>4. \A k \in Keys : store'[k] = IF k = key THEN val ELSE store[k]
  BY <1>2, <1>3
<1>5. db' = f \o b
  BY DEF b
<1>6. db' \in Seq(Chars) /\ Len(db') = Len(f) + B /\ Len(f) \in Nat /\ B \in Nat /\ B > 0
  <2>1. B \in Nat /\ B > 0
    BY Sizes DEF B
  <2>2. f \o b \in Seq(Chars) /\ Len(f \o b) = Len(f) + Len(b)
    BY <1>1, ConcatProperties
  <2>3. Len(f) \in Nat
    OBVIOUS
  <2> QED
    BY <1>1, <1>5, <2>1, <2>2, <2>3
<1>7. Torn(Len(db'), kills' + crashes')
  <2>1. m \in Nat /\ Torn(Len(f), m)
    BY TornAssumption DEF Good, Counts
  <2> HIDE DEF m
  <2>2. Torn(Len(f) + B, m)
    BY <1>6, <2>1, TornMore DEF B
  <2> QED
    BY <1>6, <2>2 DEF m
<1>8. ASSUME NEW k \in Keys, NEW c \in Nat, Len(db') = c * B
      PROVE  store'[k] = Lookup(db', k)
  <2> DEFINE r == c - 1
  <2>1. c # 0
    BY <1>6, <1>8
  <2>2. r \in Nat /\ c = r + 1
    BY <2>1
  <2> HIDE DEF r
  <2>3. Len(f) = r * B
    BY <1>6, <1>8, <2>2
  <2>4. Lookup(f, k) = LastIn(f, 1 .. r, k)
    BY <2>2, <2>3, WholeAligned DEF Lookup, B
  <2>5. store[k] = LastIn(f, 1 .. r, k)
    BY <2>2, <2>3, <2>4 DEF Good, Aligned, B
  <2>6. LastIn(db', 1 .. r, k) = LastIn(f, 1 .. r, k)
    <3>1. \A j \in 1 .. r : j \in Nat \ {0} /\ j * B <= Len(f)
      BY <1>6, <2>2, <2>3
    <3>2. \A j \in 1 .. r : Block(db', j) = Block(f, j)
      BY <1>1, <1>5, <3>1, BlockOfLonger DEF B
    <3> DEFINE js == 1 .. r
    <3>3. \A j \in js : Block(db', j) = Block(f, j)
      BY <3>2
    <3> HIDE DEF js
    <3>4. LastIn(db', js, k) = LastIn(f, js, k)
      BY <3>3, LastInSame
    <3> QED
      BY <3>4 DEF js
  <2>7. Block(db', r + 1) = b
    BY <1>1, <1>5, <2>2, <2>3, BlockAppended DEF B
  <2>8. Lookup(db', k) = LastIn(db', 1 .. r + 1, k)
    <3>1. Len(db') = (r + 1) * B /\ r + 1 \in Nat
      BY <1>8, <2>2
    <3> QED
      BY <1>6, <3>1, WholeAligned DEF Lookup, B
  <2>9. Lookup(db', k) = IF key = k THEN val ELSE LastIn(db', 1 .. r, k)
    BY <1>1, <2>2, <2>7, <2>8, LastInNext
  <2> QED
    BY <1>4, <2>5, <2>6, <2>9
<1>9. Aligned(Len(db')) => \A k \in Keys : store'[k] = Lookup(db', k)
  BY <1>8 DEF Aligned, B
<1>10. Good(db)'
  BY <1>7, <1>9 DEF Good
<1> QED
  BY <1>2, <1>3, <1>10

\* a file may be good with more failures counted
LEMMA GoodStays ==
  ASSUME NEW f \in Seq(Chars), Counts, Good(f), UNCHANGED store,
         UNCHANGED <<kills, crashes>> \/ kills' + crashes' = kills + crashes + 1
  PROVE  Good(f)'
<1> DEFINE m == kills + crashes
           l == Len(f)
<1>1. m \in Nat /\ Torn(l, m) /\ l \in Nat
  BY TornAssumption DEF Good, Counts
<1>2. kills' + crashes' = m \/ kills' + crashes' = m + 1
  OBVIOUS
<1> HIDE DEF m
<1>3. Torn(l, m + 1)
  BY <1>1, TornMore
<1>4. Torn(l, kills' + crashes')
  BY <1>1, <1>2, <1>3
<1>5. Aligned(Len(f)) => \A k \in Keys : store'[k] = Lookup(f, k)
  BY DEF Good
<1> QED
  BY <1>4, <1>5 DEF Good

\* initially there is no file to know of
LEMMA InitAInv == Init => AInv
<1> SUFFICES ASSUME Init PROVE AInv
  OBVIOUS
<1>1. Counts
  BY TornAssumption DEF Init, Counts
<1>2. /\ db = <<>> /\ Len(db) = 0 /\ kills = 0 /\ crashes = 0
      /\ cuts = {0} /\ BLOCK_SIZE \in Nat /\ KeyField \in Nat
  BY Sizes DEF Init
<1>3. Torn(0, 0) /\ Torn(0, 1)
  <2>1. 0 = 0 * BLOCK_SIZE + 0 * KeyField
    BY <1>2
  <2> QED
    BY <2>1 DEF Torn
<1>4. \A k \in Keys : store[k] = Lookup(db, k)
  <2>1. WholeBlocks(db) = {}
    BY <1>2 DEF WholeBlocks
  <2>2. \A k \in Keys : Lookup(db, k) = NotFound
    BY <2>1 DEF Lookup, LastIn
  <2> QED
    BY <2>2 DEF Init
<1>5. Stored
  <2>1. Good(db)
    BY <1>2, <1>3, <1>4 DEF Good
  <2> QED
    BY <2>1 DEF Init, Stored
<1>6. CutsTorn /\ Reading
  BY <1>2, <1>3 DEF Init, CutsTorn, Reading
<1> QED
  BY <1>1, <1>5, <1>6 DEF AInv

\* a step that leaves the file alone
LEMMA StoredKept ==
  ASSUME IInv, AInv, UNCHANGED <<db, store, cmd, kills, crashes>>,
         \A q \in Procs : pc'[q] = "write_val" <=> pc[q] = "write_val"
  PROVE  Stored'
<1>1. db \in Seq(Chars) /\ Counts /\ Stored
  BY DEF IInv, Types, AInv
<1>2. \A f \in Seq(Chars) : Good(f) => Good(f)'
  BY <1>1, GoodStays
<1> QED
  BY <1>1, <1>2 DEF Stored, Good, Lookup

\* A process takes the lock, or leaves it: the others that read see the same file.
LEMMA ReadingKept ==
  ASSUME AInv, NEW p \in Procs, UNCHANGED <<db, cmd, pos, out>>,
         pc'[p] \notin {"open", "read", "answer"},
         \A q \in Procs \ {p} : pc'[q] = pc[q]
  PROVE  Reading'
BY DEF AInv, Reading, Found

\* a whole block read is the next one of the file
LEMMA BlockRead ==
  ASSUME db \in Seq(Chars), NEW p \in Procs, NEW r \in Nat,
         pos[p] = r * BLOCK_SIZE, pos[p] <= Len(db), IsBlock(BytesRead(p))
  PROVE  /\ BytesRead(p) = Block(db, r + 1) /\ Len(BytesRead(p)) = BLOCK_SIZE
         /\ pos[p] + BLOCK_SIZE = (r + 1) * BLOCK_SIZE /\ pos[p] + BLOCK_SIZE <= Len(db)
<1> DEFINE B == BLOCK_SIZE
           n == pos[p]
           q == (r + 1) * B
           e == IF n + B < Len(db) THEN n + B ELSE Len(db)
<1>1. B \in Nat /\ B > 0 /\ Len(db) \in Nat
  BY Sizes
<1>2. q = n + B /\ n \in Nat /\ n <= Len(db) /\ (r + 1 - 1) * B = n
  <2> HIDE DEF B
  <2>1. r * B \in Nat /\ (r + 1) * B = r * B + B /\ (r + 1 - 1) * B = r * B
    BY <1>1
  <2> QED
    BY <2>1 DEF B
<1>3. BytesRead(p) = SubSeq(db, n + 1, e) /\ Len(BytesRead(p)) = B
  BY DEF BytesRead, IsBlock
<1>4. Block(db, r + 1) = SubSeq(db, n + 1, q)
  <2> DEFINE j == r + 1
  <2>1. (j - 1) * B = n /\ j * B = q
    BY <1>2
  <2> HIDE DEF j, q, n
  <2>2. Block(db, j) = SubSeq(db, (j - 1) * B + 1, j * B)
    BY DEF Block
  <2> QED
    BY <2>1, <2>2 DEF j
<1> HIDE DEF B, n, q
<1>5. e \in Nat /\ n + 1 \in Nat \ {0} /\ n + 1 <= e + 1 /\ e <= Len(db) /\ e - (n + 1) + 1 = e - n
  BY <1>1, <1>2
<1> HIDE DEF e
<1>6. Len(SubSeq(db, n + 1, e)) = e - (n + 1) + 1
  BY <1>5, PartOK
<1>7. e = q
  BY <1>1, <1>2, <1>3, <1>5, <1>6
<1> QED
  BY <1>2, <1>3, <1>4, <1>5, <1>7 DEF B, n, q

\* nothing is read only at the end of the file
LEMMA NothingRead ==
  ASSUME db \in Seq(Chars), NEW p \in Procs, pos[p] \in Nat, pos[p] <= Len(db),
         BytesRead(p) = <<>>
  PROVE  pos[p] = Len(db)
<1> DEFINE n == pos[p]
           e == IF n + BLOCK_SIZE < Len(db) THEN n + BLOCK_SIZE ELSE Len(db)
<1>1. BLOCK_SIZE \in Nat /\ BLOCK_SIZE > 0 /\ Len(db) \in Nat
  BY Sizes
<1>2. SubSeq(db, n + 1, e) = <<>>
  BY DEF BytesRead
<1>3. /\ e \in Nat /\ n + 1 \in Nat \ {0} /\ n + 1 <= e + 1 /\ e <= Len(db)
      /\ n < Len(db) => e - (n + 1) + 1 > 0
  BY <1>1
<1> HIDE DEF e, n
<1>4. Len(SubSeq(db, n + 1, e)) = e - (n + 1) + 1
  BY <1>3, PartOK
<1>5. ~ (n < Len(db))
  <2> DEFINE z == Len(SubSeq(db, n + 1, e))
  <2>1. z = 0
    <3> DEFINE y == SubSeq(db, n + 1, e)
    <3>1. y = <<>>
      BY <1>2
    <3> HIDE DEF y
    <3>2. Len(y) = 0
      BY <3>1
    <3> QED
      BY <3>2 DEF y
  <2>2. z = 0 /\ z = e - (n + 1) + 1
    BY <1>4, <2>1
  <2> HIDE DEF z
  <2> QED
    BY <1>3, <2>2
<1> QED
  BY <1>1, <1>5 DEF n

\* each step of a process, a kill and a crash
LEMMA NextAInv == IInv /\ IInv' /\ AInv /\ [Next]_vars => AInv'
<1> SUFFICES ASSUME IInv, IInv', AInv, [Next]_vars PROVE AInv'
  OBVIOUS
<1>t. /\ pc \in [Procs -> Locked \cup Ended \cup {"open"}]
      /\ \A p \in Procs : pc[p] \in Locked => holder = {p}
      /\ db \in Seq(Chars) /\ Len(db) \in Nat
      /\ \A p \in Procs : cmd[p].key \in KeyArgs
      /\ \A p \in Procs : cmd[p].op = "set" => cmd[p].val \in ValArgs
      /\ \A p \in Procs : pc[p] \in Setting => cmd[p].op = "set"
  BY DEF IInv, Types, Exclusive
<1>c. Counts /\ Stored /\ CutsTorn /\ Reading /\ kills + crashes \in Nat
  BY TornAssumption DEF AInv, Counts
<1>o. \A p \in Procs : pc[p] \in Locked => \A q \in Procs \ {p} : pc[q] \notin Locked
  BY <1>t
<1> USE DEF Locked, Setting, Ended, Goto
<1>1. CASE UNCHANGED vars
  <2>1. UNCHANGED <<db, cuts, store, cmd, kills, crashes, pc, pos, out>>
    BY <1>1 DEF vars, file, histories
  <2>2. Stored'
    BY <2>1, StoredKept
  <2> QED
    BY <1>c, <2>1, <2>2 DEF AInv, Counts, CutsTorn, Reading, Found
<1>2. ASSUME NEW p \in Procs, Open(p) PROVE AInv'
  <2>1. /\ UNCHANGED <<db, cuts, store, cmd, kills, crashes, pos, out>> /\ pc[p] = "open"
        /\ pc' = [pc EXCEPT ![p] = "write_key"] \/ pc' = [pc EXCEPT ![p] = "read"]
    BY <1>2 DEF Open, histories
  <2>2. Stored'
    BY <1>t, <2>1, StoredKept
  <2>3. Found(p, 0)
    <3>1. LastIn(db, 1 .. 0, cmd[p].key) = NotFound
      BY DEF LastIn
    <3>2. pos[p] = 0 /\ out[p] = NotFound
      BY <1>c, <2>1 DEF Reading
    <3> QED
      BY <1>t, <3>1, <3>2, Sizes DEF Found
  <2>4. Reading'
    BY <1>c, <1>t, <2>1, <2>3 DEF Reading, Found
  <2> QED
    BY <1>c, <2>1, <2>2, <2>4 DEF AInv, Counts, CutsTorn
<1>3. ASSUME NEW p \in Procs, WriteKey(p) PROVE AInv'
  <2> DEFINE x == Padded(cmd[p].key, MAX_KEY_SIZE)
             m == kills + crashes
  <2>1. /\ UNCHANGED <<store, cmd, kills, crashes, pos, out>> /\ pc[p] = "write_key"
        /\ db' = db \o x /\ cuts' = cuts \cup {Len(db')}
        /\ pc' = [pc EXCEPT ![p] = "write_val"]
    BY <1>3 DEF WriteKey, WriteAtEnd, histories
  <2>2. x \in Seq(Chars) /\ Len(x) = KeyField
    BY <1>t, Sizes, PaddedOK
  <2>3. Good(db)
    BY <1>c, <1>o, <2>1 DEF Stored
  <2>4. Stored'
    <3>2. \A f \in Seq(Chars) : Good(f) => Good(f)'
      BY <1>c, <2>1, GoodStays
    <3>3. \A q \in Procs : pc'[q] = "write_val" => q = p
      BY <1>t, <1>o, <2>1
    <3>4. \E f \in Seq(Chars) : db' = f \o Padded(cmd'[p].key, MAX_KEY_SIZE) /\ Good(f)'
      BY <1>t, <2>1, <2>3, <3>2
    <3>5. pc'[p] = "write_val"
      BY <1>t, <2>1
    <3> QED
      BY <3>3, <3>4, <3>5 DEF Stored
  <2>5. CutsTorn'
    <3> HIDE DEF m, x
    <3>1. m \in Nat /\ Torn(Len(db), m)
      BY <1>c, <2>3 DEF Good, m
    <3>2. Torn(Len(db) + KeyField, m + 1)
      BY <1>t, <3>1, TornMore
    <3>3. Len(db \o x) = Len(db) + Len(x)
      BY <1>t, <2>2, ConcatProperties
    <3>4. Len(db') = Len(db) + KeyField
      BY <2>1, <2>2, <3>3
    <3> QED
      BY <1>c, <2>1, <3>2, <3>4 DEF CutsTorn, m
  <2>6. Reading'
    BY <1>c, <1>t, <1>o, <2>1 DEF Reading
  <2> QED
    BY <1>c, <2>1, <2>4, <2>5, <2>6 DEF AInv, Counts
<1>4. ASSUME NEW p \in Procs, WriteVal(p) PROVE AInv'
  <2> DEFINE x == Padded(cmd[p].key, MAX_KEY_SIZE)
             y == Padded(cmd[p].val, MAX_VAL_SIZE)
             m == kills + crashes
  <2>1. /\ UNCHANGED <<cmd, kills, crashes, pos, out>> /\ pc[p] = "write_val"
        /\ db' = db \o y /\ cuts' = cuts \cup {Len(db')}
        /\ pc' = [pc EXCEPT ![p] = "fsync"]
        /\ store' = [store EXCEPT ![Truncated(cmd[p].key, MAX_KEY_SIZE)] =
                                    Truncated(cmd[p].val, MAX_VAL_SIZE)]
    BY <1>4 DEF WriteVal, WriteAtEnd
  <2>2. cmd[p].key \in KeyArgs /\ cmd[p].val \in ValArgs
    BY <1>t, <2>1
  <2>3. PICK f \in Seq(Chars) : db = f \o x /\ Good(f)
    BY <1>c, <2>1 DEF Stored
  <2>4. x \in Seq(Chars) /\ y \in Seq(Chars)
    BY <2>2, Sizes, PaddedOK
  <2>5. db' = f \o (x \o y)
    <3> HIDE DEF x, y
    <3> QED
      BY <2>1, <2>3, <2>4, ConcatAssociative
  <2>6. Good(db)' /\ store' = [k \in Keys |-> store'[k]]
    BY <1>c, <2>1, <2>2, <2>3, <2>5, GoodAppended
  <2>7. Stored'
    <3>1. \A q \in Procs : pc'[q] # "write_val"
      BY <1>t, <1>o, <2>1
    <3> QED
      BY <2>6, <3>1 DEF Stored
  <2>8. CutsTorn'
    <3> HIDE DEF m, x, y
    <3>1. m \in Nat /\ Torn(Len(db'), m)
      BY <1>c, <2>1, <2>6 DEF Good, m
    <3>2. Len(db') \in Nat
      BY DEF IInv, Types
    <3>3. Torn(Len(db'), m + 1)
      BY <3>1, <3>2, TornMore
    <3> QED
      BY <1>c, <2>1, <3>3 DEF CutsTorn, m
  <2>9. Reading'
    BY <1>c, <1>t, <1>o, <2>1 DEF Reading
  <2> QED
    BY <1>c, <2>1, <2>6, <2>7, <2>8, <2>9 DEF AInv, Counts
<1>5. ASSUME NEW p \in Procs, Fsync(p) \/ Unlock(p) PROVE AInv'
  <2>1. /\ UNCHANGED <<db, store, cmd, kills, crashes, pos, out>>
        /\ pc[p] \in {"fsync", "unlock"}
        /\ cuts' = cuts \/ cuts' = {Len(db)}
        /\ pc' = [pc EXCEPT ![p] = "unlock"] \/ pc' = [pc EXCEPT ![p] = "ok"]
    BY <1>5 DEF Fsync, Unlock, file, histories
  <2>2. Stored'
    BY <1>t, <2>1, StoredKept
  <2>3. CutsTorn'
    <3> DEFINE m == kills + crashes
    <3>1. Good(db)
      BY <1>c, <1>o, <2>1 DEF Stored
    <3>2. m \in Nat /\ Torn(Len(db), m)
      BY <1>c, <3>1 DEF Good
    <3> HIDE DEF m
    <3>3. Torn(Len(db), m + 1)
      BY <1>t, <3>2, TornMore
    <3> QED
      BY <1>c, <2>1, <3>3 DEF CutsTorn, m
  <2>4. Reading'
    BY <1>c, <1>t, <1>o, <2>1 DEF Reading
  <2> QED
    BY <1>c, <2>1, <2>2, <2>3, <2>4 DEF AInv, Counts
<1>6. ASSUME NEW p \in Procs, Get(p) PROVE AInv'
  <2>1. /\ UNCHANGED <<db, cuts, store, cmd, kills, crashes>> /\ pc[p] \in {"read", "answer"}
        /\ \A q \in Procs \ {p} : pc'[q] = pc[q] /\ pos'[q] = pos[q] /\ out'[q] = out[q]
        /\ pc'[p] \in {"read", "answer", "bailed", "ok"}
    BY <1>6, <1>t, <1>c DEF Get, ReadBlock, ReadEof, ReadBad, Exit, file, histories, Counts
  <2>2. Stored'
    BY <1>t, <2>1, StoredKept
  <2>3. Counts' /\ Reading'
    <3>1. CASE ReadBlock(p)
      <4> DEFINE b == BytesRead(p)
                 key == cmd[p].key
      <4>1. /\ pc[p] = "read" /\ b # <<>> /\ IsBlock(b) /\ pc' = pc
            /\ out' = [out EXCEPT ![p] = IF KeyOf(b) = key THEN ValOf(b) ELSE out[p]]
            /\ pos' = [pos EXCEPT ![p] = pos[p] + Len(b)]
        BY <1>t, <3>1 DEF ReadBlock
      <4>2. PICK r \in Nat : Found(p, r)
        BY <1>c, <4>1 DEF Reading
      <4>3. /\ b = Block(db, r + 1) /\ Len(b) = BLOCK_SIZE
            /\ pos[p] + BLOCK_SIZE = (r + 1) * BLOCK_SIZE /\ pos[p] + BLOCK_SIZE <= Len(db)
        BY <1>t, <4>1, <4>2, BlockRead DEF Found
      <4> HIDE DEF b, key
      <4>4. pos' = [pos EXCEPT ![p] = pos[p] + BLOCK_SIZE]
        BY <4>1, <4>3
      <4>5. /\ pos'[p] = (r + 1) * BLOCK_SIZE /\ pos'[p] <= Len(db) /\ pos' \in [Procs -> Nat]
            /\ out' = [q \in Procs |-> out'[q]]
        <5>1. pos \in [Procs -> Nat] /\ out = [q \in Procs |-> out[q]]
          BY <1>c DEF Counts
        <5>2. pos[p] \in Nat /\ pos[p] + BLOCK_SIZE \in Nat
          BY <5>1, Sizes
        <5>3. pos'[p] = pos[p] + BLOCK_SIZE /\ pos' \in [Procs -> Nat]
          BY <4>4, <5>1, <5>2
        <5>4. out' = [q \in Procs |-> out'[q]]
          BY <4>1, <5>1
        <5> QED
          BY <4>3, <5>3, <5>4
      <4>6. out'[p] = LastIn(db, 1 .. r + 1, key)
        <5>1. out'[p] = IF KeyOf(b) = key THEN ValOf(b) ELSE out[p]
          BY <1>c, <4>1 DEF Counts
        <5>2. out[p] = LastIn(db, 1 .. r, key)
          BY <4>2 DEF Found, key
        <5> QED
          BY <4>1, <4>3, <5>1, <5>2, LastInNext
      <4>7. Found(p, r + 1)'
        BY <2>1, <4>5, <4>6 DEF Found, key
      <4>8. \E i \in Nat : Found(p, i)'
        BY <4>7
      <4>9. Counts'
        BY <1>c, <2>1, <4>5 DEF Counts
      <4>10. ASSUME NEW q \in Procs \ {p}, NEW i \in Nat, Found(q, i) PROVE Found(q, i)'
        BY <2>1, <4>10 DEF Found
      <4>11. pc'[p] = "read" /\ \A q \in Procs : pc'[q] = pc[q]
        BY <4>1
      <4>12. Reading'
        BY <1>c, <2>1, <4>8, <4>10, <4>11 DEF Reading
      <4> QED
        BY <4>9, <4>12
    <3>2. CASE ReadEof(p)
      <4>1. /\ pc[p] = "read" /\ BytesRead(p) = <<>> /\ pc' = [pc EXCEPT ![p] = "answer"]
            /\ UNCHANGED <<pos, out>>
        BY <3>2 DEF ReadEof
      <4>2. PICK r \in Nat : Found(p, r)
        BY <1>c, <4>1 DEF Reading
      <4>3. pos[p] = Len(db)
        BY <1>c, <1>t, <4>1, <4>2, NothingRead DEF Found, Counts
      <4>4. Found(p, r)'
        BY <2>1, <4>1, <4>2 DEF Found
      <4>5. \E i \in Nat : Found(p, i)'
        BY <4>4
      <4> QED
        BY <1>c, <1>t, <2>1, <4>1, <4>3, <4>5 DEF Reading, Found, Counts
    <3>3. CASE ReadBad(p) \/ Exit(p)
      BY <3>3, <1>c, <1>t, <2>1 DEF ReadBad, Exit, Reading, Found, Counts
    <3> QED
      BY <1>6, <3>1, <3>2, <3>3 DEF Get
  <2> QED
    BY <1>c, <2>1, <2>2, <2>3 DEF AInv, CutsTorn
<1>7. ASSUME NEW p \in Procs, Kill(p) PROVE AInv'
  <2> DEFINE m == kills + crashes
  <2>1. /\ UNCHANGED <<db, cuts, store, cmd, crashes, pos, out>>
        /\ kills' = kills + 1 /\ kills < MaxKills /\ pc' = [pc EXCEPT ![p] = "killed"]
    BY <1>7 DEF Kill, file, histories
  <2>2. Counts' /\ m \in Nat /\ kills' + crashes' = m + 1 /\ m + 1 <= MaxKills + MaxCrashes
    BY <1>c, <2>1, TornAssumption DEF Counts
  <2>3. Stored'
    <3>1. \A f \in Seq(Chars) : Good(f) => Good(f)'
      BY <1>c, <2>1, <2>2, GoodStays
    <3>2. CASE pc[p] = "write_val"
      <4>1. PICK f \in Seq(Chars) : db = f \o Padded(cmd[p].key, MAX_KEY_SIZE) /\ Good(f)
        BY <1>c, <3>2 DEF Stored
      <4> DEFINE x == Padded(cmd[p].key, MAX_KEY_SIZE)
                 n == Len(f)
      <4>2. x \in Seq(Chars) /\ Len(x) = KeyField
        BY <1>t, Sizes, PaddedOK
      <4> HIDE DEF x
      <4>3. Len(db) = Len(f) + Len(x)
        BY <4>1, <4>2, ConcatProperties DEF x
      <4>4. n \in Nat /\ Len(db) = n + KeyField /\ Torn(n, m)
        BY <4>1, <4>2, <4>3 DEF Good
      <4> HIDE DEF n, m
      <4>5. Torn(Len(db), m + 1) /\ ~ Aligned(Len(db))
        BY <2>2, <4>4, TornMore, TornNotAligned
      <4>6. Good(db)'
        BY <2>1, <2>2, <4>5 DEF Good
      <4>7. \A q \in Procs : pc'[q] # "write_val"
        BY <1>t, <1>o, <2>1, <3>2
      <4> QED
        BY <4>6, <4>7 DEF Stored
    <3>3. CASE pc[p] # "write_val"
      <4>1. \A q \in Procs : pc'[q] = "write_val" <=> pc[q] = "write_val"
        BY <1>t, <2>1, <3>3
      <4>2. Good(db) => Good(db)'
        BY <1>t, <2>1, <3>1 DEF Good
      <4> QED
        BY <1>c, <2>1, <3>1, <4>1, <4>2 DEF Stored
    <3> QED
      BY <3>2, <3>3
  <2>4. CutsTorn'
    <3> HIDE DEF m
    <3>1. \A n \in cuts : n \in Nat /\ Torn(n, m + 1)
      BY <1>c DEF CutsTorn, IInv, Types, m
    <3>2. \A n \in cuts : Torn(n, m + 1 + 1)
      BY <2>2, <3>1, TornMore
    <3> QED
      BY <2>1, <2>2, <3>2 DEF CutsTorn
  <2>5. Reading'
    BY <1>t, <2>1, ReadingKept
  <2> QED
    BY <2>2, <2>3, <2>4, <2>5 DEF AInv
<1>8. CASE Crash
  <2> DEFINE m == kills + crashes
  <2>1. PICK n \in 0 .. Len(db) : /\ db' = SubSeq(db, 1, n) /\ cuts' = {n}
                                  /\ n \in cuts \/ n = 0
    BY <1>8, CrashCuts
  <2>2. /\ UNCHANGED <<cmd, kills, pos, out>> /\ crashes < MaxCrashes /\ crashes' = crashes + 1
        /\ store' = [k \in Keys |-> Lookup(db', k)]
        /\ \A p \in Procs : pc'[p] \in Ended \cup {"open"} /\ (pc'[p] = "open" => pc[p] = "open")
    BY <1>8 DEF Crash
  <2>3. Counts' /\ m \in Nat /\ kills' + crashes' = m + 1
    BY <1>c, <2>2, TornAssumption DEF Counts
  <2>4. Len(db') = n /\ n \in Nat
    BY <2>1, Cut
  <2> HIDE DEF m
  <2>5. Torn(n, m + 1)
    <3>1. CASE n \in cuts
      BY <1>c, <3>1 DEF CutsTorn, m
    <3>2. CASE n = 0
      <4>1. 0 \in 0 .. m + 1 /\ 0 = 0 * BLOCK_SIZE + 0 * KeyField
        BY <2>3, Sizes
      <4> QED
        BY <3>2, <4>1 DEF Torn
    <3> QED
      BY <2>1, <3>1, <3>2
  <2>6. Good(db)'
    BY <2>2, <2>3, <2>4, <2>5 DEF Good
  <2>7. Stored'
    BY <2>2, <2>6 DEF Stored
  <2>8. CutsTorn'
    <3>1. Torn(n, m + 1 + 1)
      BY <2>3, <2>4, <2>5, TornMore
    <3> QED
      BY <2>1, <2>3, <3>1 DEF CutsTorn
  <2>9. Reading'
    BY <1>c, <2>2 DEF Reading
  <2> QED
    BY <2>3, <2>7, <2>8, <2>9 DEF AInv
<1> QED
  BY <1>1, <1>2, <1>3, <1>4, <1>5, <1>6, <1>7, <1>8 DEF Next, Set

\* what a get answers when it has read to the end
LEMMA AInvAnswers == IInv /\ AInv => NeverWrongAnswer
<1> SUFFICES ASSUME IInv, AInv, NEW p \in Procs, pc[p] = "answer"
             PROVE  out[p] = IF cmd[p].key \in Keys THEN store[cmd[p].key] ELSE NotFound
  BY DEF NeverWrongAnswer
<1> DEFINE key == cmd[p].key
<1>1. /\ db \in Seq(Chars) /\ key \in KeyArgs
      /\ \A q \in Procs : pc[q] \in Locked => holder = {q}
  BY DEF IInv, Types, Exclusive
<1>2. PICK r \in Nat : Found(p, r)
  BY DEF AInv, Reading
<1>3. Len(db) = r * BLOCK_SIZE /\ out[p] = LastIn(db, 1 .. r, key)
  BY <1>2 DEF AInv, Reading, Found
<1>4. \A q \in Procs : pc[q] # "write_val"
  BY <1>1 DEF Locked, Setting
<1>5. \A k \in Keys : store[k] = Lookup(db, k)
  BY <1>3, <1>4 DEF AInv, Stored, Good, Aligned
<1>6. \A k : Lookup(db, k) = LastIn(db, 1 .. r, k)
  BY <1>1, <1>3, WholeAligned DEF Lookup
<1>7. ASSUME key \notin Keys, NEW j \in 1 .. r, IsBlock(Block(db, j)), KeyOf(Block(db, j)) = key
      PROVE  FALSE
  <2> DEFINE b == Block(db, j)
  <2>1. j * BLOCK_SIZE <= Len(db)
    <3> DEFINE B == BLOCK_SIZE
    <3>1. B \in Nat /\ Len(db) = r * B
      BY <1>3, Sizes
    <3> HIDE DEF B
    <3>2. j * B <= r * B
      BY <3>1
    <3> QED
      BY <3>1, <3>2 DEF B
  <2>2. b \in Seq(Chars) /\ Len(b) = BLOCK_SIZE
    BY <1>1, <2>1, BlockOK
  <2>3. b[KeyField] = NUL /\ KeyField \in 1 .. BLOCK_SIZE /\ KeyField = MAX_KEY_SIZE + 1
    BY <1>7, Sizes DEF IsBlock
  <2> HIDE DEF b
  <2>4. Len(CString(b)) < KeyField
    BY <2>2, <2>3, CStringShort
  <2>5. Len(key) < MAX_KEY_SIZE + 1 /\ MAX_KEY_SIZE \in Nat
    BY <1>7, <2>3, <2>4, Sizes DEF KeyOf, b
  <2>6. key \in Seq(Chars) /\ Len(key) \in Nat
    BY <1>1, ArgOK
  <2>7. Truncated(key, MAX_KEY_SIZE) = key
    <3> HIDE DEF key
    <3>1. Truncated(key, MAX_KEY_SIZE) = SubSeq(key, 1, Len(key))
      BY <2>5, <2>6 DEF Truncated
    <3> QED
      BY <2>6, <3>1
  <2> QED
    BY <1>1, <1>7, <2>7 DEF Keys
<1>8. key \notin Keys => LastIn(db, 1 .. r, key) = NotFound
  BY <1>7 DEF LastIn
<1> QED
  BY <1>3, <1>5, <1>6, <1>8

\* Whatever sets are killed or cut short by a crash, a get that answers gives the value of
\* the last completed set of its key.
THEOREM AnswerTheorem == Spec => []NeverWrongAnswer
<1>1. Spec => []IInv
  BY InitIInv, NextIInv, PTL DEF Spec
<1> QED
  BY <1>1, InitAInv, NextAInv, AInvAnswers, PTL DEF Spec
=============================================================================
