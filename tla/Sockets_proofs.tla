--------------------------- MODULE Sockets_proofs ---------------------------
(***************************************************************************)
(* Proofs about the programs on sockets: EventsFresh, EchoInOrder and      *)
(* FailureHasCause of the epoll server, for any clients, any number of     *)
(* blocks, and every set of descriptors and size of the buffers; and       *)
(* OwnAnswers of the composition, for any clients of the stream servers    *)
(* and of the datagram servers, any number of kills and any messages.      *)
(***************************************************************************)
EXTENDS MCSockets, FiniteSetTheorems, SequenceTheorems, TLAPS

\* A queue when an element is put in.
LEMMA PutIn ==
  ASSUME NEW S, NEW s \in Seq(S), NEW e \in S
  PROVE  /\ Append(s, e) \in Seq(S) /\ Len(Append(s, e)) = Len(s) + 1 /\ Len(s) \in Nat
         /\ \A j \in 1 .. Len(s) : Append(s, e)[j] = s[j]
         /\ Append(s, e)[Len(s) + 1] = e
BY AppendProperties, LenProperties

\* A queue when the first element is taken out.
LEMMA TakeOut ==
  ASSUME NEW S, NEW s \in Seq(S), s # <<>>
  PROVE  /\ Tail(s) \in Seq(S) /\ Len(s) = Len(Tail(s)) + 1 /\ Len(Tail(s)) \in Nat
         /\ \A j \in 1 .. Len(Tail(s)) : Tail(s)[j] = s[j + 1]
         /\ Head(s) = s[1] /\ Head(s) \in S
<1>1. /\ Len(s) \in Nat /\ Tail(s) \in Seq(S) /\ Len(Tail(s)) = Len(s) - 1 /\ Head(s) \in S
      /\ \A j \in 1 .. Len(Tail(s)) : Tail(s)[j] = s[j + 1]
  BY HeadTailProperties, LenProperties
<1>2. Len(Tail(s)) \in Nat
  BY <1>1, LenProperties
<1> QED
  BY <1>1, <1>2

-----------------------------------------------------------------------------
(* The epoll server.                                                       *)

\* the lowest of some natural numbers is one of them
LEMMA MinIn ==
  ASSUME NEW S, S \subseteq Nat, S # {}
  PROVE  Min(S) \in S /\ \A y \in S : Min(S) <= y
<1> DEFINE T == { 0 .. x : x \in S }
<1> DEFINE R == StrictSubsetOrdering(Nat)
<1> DEFINE F == FiniteSubsetsOf(Nat)
<1>1. T \subseteq F
  <2>1. ASSUME NEW x \in S PROVE 0 .. x \in F
    <3>1. 0 \in Int /\ x \in Int /\ 0 .. x \subseteq Nat
      OBVIOUS
    <3>2. IsFiniteSet(0 .. x)
      BY <3>1, FS_Interval
    <3> QED
      BY <3>1, <3>2 DEF FiniteSubsetsOf
  <2> QED
    BY <2>1
<1>2. T # {}
  OBVIOUS
<1>3. IsWellFoundedOn(R, F)
  BY FS_StrictSubsetOrderingWellFounded
<1>4. PICK t \in T : \A u \in T : ~ (<<u, t>> \in R)
  <2> HIDE DEF T, R, F
  <2> QED
    BY <1>1, <1>2, <1>3, WFMin
<1>5. PICK x \in S : t = 0 .. x
  OBVIOUS
<1>6. ASSUME NEW y \in S, y < x PROVE FALSE
  <2>1. <<0 .. y, 0 .. x>> \in R
    <3>1. x \in Nat /\ y \in Nat
      BY <1>5, <1>6
    <3>2. 0 .. y \subseteq 0 .. x /\ x \in 0 .. x /\ x \notin 0 .. y
      BY <1>6, <3>1
    <3>3. 0 .. x \subseteq Nat /\ 0 .. y \subseteq Nat
      BY <3>1
    <3> QED
      BY <3>2, <3>3 DEF StrictSubsetOrdering
  <2> QED
    BY <2>1, <1>4, <1>5
<1>7. \A y \in S : x <= y
  BY <1>6
<1> QED
  BY <1>7 DEF Min

-----------------------------------------------------------------------------
(* The inductive invariant for EventsFresh.                                *)

Types ==
  /\ Fds \subseteq Nat \ (0 .. 6)
  /\ conn \in [Fds -> Clients \cup {None}]
  /\ backlog \in Seq(Clients)
  /\ pc \in {"loop", "accept", "read", "write", "stopped", "failed"}

\* one event for a descriptor, and none of a descriptor without connection
Single ==
  /\ \A e, d \in events : e.fd = d.fd => e = d
  /\ \A e \in events : e.fd \in Fds => conn[e.fd] # None

\* the event of the connection that is served is taken
Served == pc \in {"read", "write"} => \A e \in events : e.fd # cur

IInv == Types /\ EventsFresh /\ Single /\ Served

\* the server starts with the listening socket and the pipe only
LEMMA InitIInv == Init => IInv
<1> SUFFICES ASSUME Init PROVE IInv
  OBVIOUS
<1>1. PICK fds \in FdSets : conn \in [fds -> {None}]
  BY DEF Init
<1>2. Types
  BY <1>1, BoundsAssumption DEF Init, Types, Fds
<1>3. EventsFresh /\ Single /\ Served
  BY DEF Init, EventsFresh, Single, Served
<1> QED
  BY <1>2, <1>3 DEF IInv

\* each step of server, clients and signal
LEMMA NextIInv == IInv /\ [Next]_vars => IInv'
<1> SUFFICES ASSUME IInv, [Next]_vars PROVE IInv'
  OBVIOUS
<1> USE NoneAssumption DEF IInv, Types, EventsFresh, Single, Served, Fds, Free, Peer
<1>1. CASE UNCHANGED vars
  BY <1>1 DEF vars, server
<1>2. ASSUME NEW c \in Clients, Client(c) PROVE IInv'
  BY <1>2 DEF Client, Connect, Send, Receive, Shutdown, Close, Reset, server
<1>3. CASE Sigterm
  BY <1>3 DEF Sigterm, server
<1>4. CASE EpollWait
  <2>1. Types' /\ Served'
    BY <1>4 DEF EpollWait
  <2>2. \A e \in events' : \/ e = Event(Listen, None, FALSE)
                          \/ e = Event(Pipe, None, FALSE)
                          \/ \E f \in Fds \ Free :
                               e = Event(f, conn[f], fin[conn[f]] \/ rst[conn[f]])
    BY <1>4 DEF EpollWait, Ready
  <2>3. \A e \in events' : e.fd \in Fds => conn[e.fd] = e.of /\ conn[e.fd] # None
    BY <2>2 DEF Event, Listen, Pipe
  <2>4. \A e, d \in events' : e.fd = d.fd => e = d
    <3> DEFINE Only(f) == IF f \in {Listen, Pipe} THEN Event(f, None, FALSE)
                         ELSE Event(f, conn[f], fin[conn[f]] \/ rst[conn[f]])
    <3>1. \A e \in events' : e = Only(e.fd)
      BY <2>2 DEF Event, Listen, Pipe
    <3> HIDE DEF Only
    <3> QED
      BY <3>1
  <2> QED
    BY <1>4, <2>1, <2>3, <2>4 DEF EpollWait
<1>5. CASE HandleRead
  BY <1>5 DEF HandleRead
<1>6. CASE HandleHup
  <2>1. PICK e \in events : /\ e.fd \in Fds /\ events' = events \ {e}
                            /\ conn' = [conn EXCEPT ![e.fd] = None]
    BY <1>6 DEF HandleHup
  <2>2. Types'
    BY <1>6, <2>1 DEF HandleHup
  <2>3. \A d \in events' : d.fd # e.fd /\ (d.fd \in Fds => conn'[d.fd] = conn[d.fd])
    BY <2>1
  <2> QED
    BY <1>6, <2>1, <2>2, <2>3 DEF HandleHup
<1>7. CASE HandleListen
  BY <1>7 DEF HandleListen
<1>8. CASE HandlePipe
  BY <1>8 DEF HandlePipe
<1>9. CASE Accept
  <2>2. CASE Free # {}
    <3>1. Min(Free) \in Free
      BY <2>2, MinIn
    <3>2. Head(backlog) \in Clients /\ Tail(backlog) \in Seq(Clients)
      BY <1>9 DEF Accept
    <3>3. conn' = [conn EXCEPT ![Min(Free)] = Head(backlog)] /\ backlog' = Tail(backlog)
      BY <1>9, <2>2 DEF Accept
    <3>4. Types'
      BY <1>9, <2>2, <3>1, <3>2, <3>3 DEF Accept
    <3>5. \A f \in Fds : f = Min(Free) \/ conn'[f] = conn[f]
      BY <3>3
    <3>6. \A e \in events : e.fd # Min(Free)
      BY <3>1
    <3> HIDE DEF Free
    <3> QED
      BY <1>9, <2>2, <3>4, <3>5, <3>6, <3>3 DEF Accept
  <2> QED
    BY <1>9, <2>2 DEF Accept
<1>10. CASE AcceptNone \/ AcceptFails
  BY <1>10 DEF AcceptNone, AcceptFails
<1>11. CASE Read
  BY <1>11 DEF Read
<1>12. CASE ReadNothing
  BY <1>12 DEF ReadNothing
<1>13. CASE Write
  BY <1>13 DEF Write
<1>14. CASE WriteFails
  BY <1>14 DEF WriteFails
<1> QED
  BY <1>1, <1>2, <1>3, <1>4, <1>5, <1>6, <1>7, <1>8, <1>9, <1>10, <1>11, <1>12, <1>13, <1>14
  DEF Next, Server

\* However the descriptors are given out again, an event is handled for the
\* connection it was reported for, and what is being read is not closed.
THEOREM EventsFreshTheorem == Spec => []EventsFresh
<1>1. IInv => EventsFresh
  BY DEF IInv
<1> QED
  BY <1>1, InitIInv, NextIInv, PTL DEF Spec

-----------------------------------------------------------------------------
(* The inductive invariant for EchoInOrder.                                *)

\* blocks of c that have been read and either written back or left out for good
Given(c) == IF pc = "write" /\ Peer = c THEN buf.first - 1 ELSE taken[c]

Counts ==
  /\ sent \in [Clients -> Nat] /\ taken \in [Clients -> Nat] /\ unread \in [Clients -> Nat]
  /\ \A c \in Clients : taken[c] <= sent[c] /\ unread[c] <= SndBuf
  /\ short \subseteq Clients
  /\ echoed \in [Clients -> Seq(Clients \X Nat)]

\* read_buffer holds the last blocks that were read
Buffer ==
  pc = "write" => /\ buf.first \in Nat \ {0} /\ buf.last \in Nat
                  /\ buf.first <= buf.last /\ buf.last = taken[Peer]

\* the echoed blocks of c are numbered in order up to m, and all of them if nothing was cut
UpTo(c, m) ==
  /\ \A j, k \in 1 .. Len(echoed[c]) : j < k => echoed[c][j][2] < echoed[c][k][2]
  /\ \A k \in 1 .. Len(echoed[c]) : echoed[c][k][1] = c /\ echoed[c][k][2] <= m
  /\ c \notin short => \A k \in 1 .. Len(echoed[c]) : echoed[c][k][2] = k
  /\ c \notin short /\ pc # "failed" => Len(echoed[c]) = m

Echoes == \A c \in Clients : UpTo(c, Given(c))

EInv == IInv /\ Counts /\ Buffer /\ Echoes

\* the smaller of two numbers
LEMMA MinTwo ==
  ASSUME NEW a \in Nat, NEW b \in Nat
  PROVE  Min({a, b}) \in {a, b} /\ Min({a, b}) <= a /\ Min({a, b}) <= b
<1>1. Min({a, b}) \in {a, b} /\ \A y \in {a, b} : Min({a, b}) <= y
  BY MinIn
<1> QED
  BY <1>1

\* the blocks of a read are a sequence of its length
LEMMA BlocksSeq ==
  ASSUME NEW c \in Clients, NEW a \in Nat \ {0}, NEW l \in Nat, a <= l + 1
  PROVE  /\ Blocks(c, a, l) \in Seq(Clients \X Nat) /\ Len(Blocks(c, a, l)) = l - a + 1
         /\ \A j \in 1 .. l - a + 1 : Blocks(c, a, l)[j] = <<c, a + j - 1>>
<1> DEFINE B == Blocks(c, a, l)
<1>1. B = [j \in 1 .. l - a + 1 |-> <<c, a + j - 1>>]
  BY DEF Blocks
<1>2. \A j \in 1 .. l - a + 1 : <<c, a + j - 1>> \in Clients \X Nat
  OBVIOUS
<1>3. B \in [1 .. l - a + 1 -> Clients \X Nat]
  BY <1>1, <1>2
<1> HIDE DEF B
<1> DEFINE m == l - a + 1
<1>4. m \in Nat
  OBVIOUS
<1>5. B \in Seq(Clients \X Nat) /\ Len(B) = m
  <2>1. B \in [1 .. m -> Clients \X Nat]
    BY <1>3
  <2> HIDE DEF m
  <2>2. B \in Seq(Clients \X Nat)
    BY <1>4, <2>1
  <2> QED
    BY <1>4, <2>1, <2>2
<1> QED
  BY <1>1, <1>5 DEF B

\* nothing sent and nothing echoed yet
LEMMA InitEInv == Init => EInv
<1> SUFFICES ASSUME Init PROVE EInv
  OBVIOUS
<1>1. Counts /\ Buffer
  BY BoundsAssumption DEF Init, Counts, Buffer
<1>2. Echoes
  BY DEF Init, Echoes, UpTo, Given
<1> QED
  BY <1>1, <1>2, InitIInv DEF EInv

\* counters grow together with what they count
LEMMA NextCounts == EInv /\ [Next]_vars => Counts' /\ Buffer'
<1> SUFFICES ASSUME EInv, [Next]_vars PROVE Counts' /\ Buffer'
  OBVIOUS
<1> USE BoundsAssumption DEF EInv, Counts, Buffer, Peer
<1>a. pc \in {"read", "write"} => Peer \in Clients
  BY DEF IInv, EventsFresh
<1>1. CASE UNCHANGED vars
  BY <1>1 DEF vars, server, clients, data
<1>2. ASSUME NEW c \in Clients, Client(c) PROVE Counts' /\ Buffer'
  <2>1. CASE Connect(c)
    BY <2>1 DEF Connect, data
  <2>2. CASE Send(c)
    BY <2>2 DEF Send, data, server
  <2>3. CASE Receive(c)
    BY <2>3 DEF Receive, clients, server
  <2>4. CASE Shutdown(c) \/ Close(c) \/ Reset(c)
    BY <2>4 DEF Shutdown, Close, Reset, data, server
  <2> QED
    BY <1>2, <2>1, <2>2, <2>3, <2>4 DEF Client
<1>3. CASE Sigterm \/ EpollWait \/ HandleRead \/ HandleHup \/ HandleListen \/ HandlePipe
  BY <1>3 DEF Sigterm, EpollWait, HandleRead, HandleHup, HandleListen, HandlePipe,
              clients, data, server
<1>4. CASE Accept \/ AcceptNone \/ AcceptFails \/ ReadNothing \/ WriteFails
  <2>1. UNCHANGED <<clients, data>> /\ pc' # "write"
    BY <1>4 DEF Accept, AcceptNone, AcceptFails, ReadNothing, WriteFails
  <2> QED
    BY <2>1 DEF clients, data
<1>5. CASE Read
  <2> DEFINE m == Min({sent[Peer], taken[Peer] + ReadBuf})
  <2>1. m \in Nat /\ taken[Peer] < m /\ m <= sent[Peer]
    <3>1. /\ sent[Peer] \in Nat /\ taken[Peer] \in Nat /\ ReadBuf \in Nat \ {0}
          /\ taken[Peer] < sent[Peer]
      BY <1>5, <1>a DEF Read
    <3>2. taken[Peer] + ReadBuf \in Nat
      BY <3>1
    <3>3. m \in {sent[Peer], taken[Peer] + ReadBuf} /\ m <= sent[Peer]
      BY <3>1, <3>2, MinTwo
    <3>4. taken[Peer] < taken[Peer] + ReadBuf
      BY <3>1
    <3> HIDE DEF m
    <3> QED
      BY <3>1, <3>2, <3>3, <3>4
  <2>2. taken' = [taken EXCEPT ![Peer] = m] /\ buf' = [first |-> taken[Peer] + 1, last |-> taken'[Peer]]
    BY <1>5 DEF Read
  <2> HIDE DEF m
  <2>3. Counts'
    <3>1. UNCHANGED <<sent, echoed, unread, short>>
      BY <1>5 DEF Read, clients
    <3>2. taken' \in [Clients -> Nat] /\ \A c \in Clients : taken'[c] <= sent[c]
      <4>1. taken \in [Clients -> Nat] /\ \A c \in Clients : taken[c] <= sent[c]
        OBVIOUS
      <4> DEFINE d == Peer
      <4>2. d \in Clients /\ m \in Nat /\ m <= sent[d] /\ taken' = [taken EXCEPT ![d] = m]
        BY <1>5, <1>a, <2>1, <2>2 DEF Read
      <4> HIDE DEF d
      <4> QED
        BY ONLY <4>1, <4>2
    <3> QED
      BY <3>1, <3>2
  <2>4. Buffer'
    <3>1. Peer' = Peer /\ Peer \in Clients /\ taken[Peer] \in Nat
      BY <1>5, <1>a DEF Read
    <3>2. taken'[Peer] = m
      BY <2>2, <3>1
    <3>3. buf'.first = taken[Peer] + 1 /\ buf'.last = m
      BY <2>2, <3>2
    <3> QED
      BY <2>1, <3>1, <3>2, <3>3
  <2> QED
    BY <2>3, <2>4
<1>6. CASE Write
  <2> DEFINE n == buf.last - buf.first + 1
             k == Min({n, SndBuf - unread[Peer]})
  <2>1. Peer \in Clients /\ unread[Peer] \in Nat /\ unread[Peer] < SndBuf /\ n \in Nat \ {0}
    BY <1>6, <1>a DEF Write
  <2>2. k \in Nat /\ k <= n /\ k <= SndBuf - unread[Peer]
    <3>1. SndBuf - unread[Peer] \in Nat
      BY <2>1
    <3> QED
      BY <2>1, <3>1, MinTwo
  <2>3. /\ echoed' = [echoed EXCEPT ![Peer] =
                       @ \o Blocks(Peer, buf.first, buf.first + k - 1)]
        /\ unread' = [unread EXCEPT ![Peer] = @ + k]
        /\ short' \subseteq short \cup {Peer} /\ pc' = "read"
        /\ UNCHANGED <<sent, taken>>
    BY <1>6 DEF Write, clients
  <2> HIDE DEF n, k
  <2>4. echoed[Peer] \o Blocks(Peer, buf.first, buf.first + k - 1) \in Seq(Clients \X Nat)
    <3> DEFINE B == Blocks(Peer, buf.first, buf.first + k - 1)
    <3>1. B \in Seq(Clients \X Nat)
      <4> DEFINE l == buf.first + k - 1
      <4>1. l \in Nat /\ buf.first \in Nat \ {0} /\ buf.first <= l + 1
        BY <1>6, <2>2 DEF Write
      <4> HIDE DEF l
      <4>2. Blocks(Peer, buf.first, l) \in Seq(Clients \X Nat)
        BY <2>1, <4>1, BlocksSeq
      <4> QED
        BY <4>2 DEF l
    <3> HIDE DEF B
    <3>2. echoed[Peer] \o B \in Seq(Clients \X Nat)
      BY <2>1, <3>1, ConcatProperties
    <3> QED
      BY <3>2 DEF B
  <2>5. echoed' \in [Clients -> Seq(Clients \X Nat)]
    BY <2>1, <2>3, <2>4
  <2>6. unread' \in [Clients -> Nat] /\ \A c \in Clients : unread'[c] <= SndBuf
    <3>1. unread[Peer] + k \in Nat /\ unread[Peer] + k <= SndBuf
      BY <2>1, <2>2
    <3> QED
      BY <2>1, <2>3, <3>1
  <2>7. short' \subseteq Clients /\ pc' # "write"
    BY <2>1, <2>3
  <2> QED
    BY <2>3, <2>5, <2>6, <2>7
<1> QED
  BY <1>1, <1>2, <1>3, <1>4, <1>5, <1>6 DEF Next, Server

\* a step that echoes nothing, and does not take from a client what it was given
LEMMA SameEchoes ==
  ASSUME EInv, UNCHANGED <<echoed, short>>,
         \A c \in Clients : Given(c) \in Int /\ Given(c)' \in Int /\ Given(c) <= Given(c)',
         pc' # "failed" => pc # "failed" /\ \A c \in Clients : Given(c)' = Given(c)
  PROVE  Echoes'
<1> SUFFICES ASSUME NEW c \in Clients PROVE UpTo(c, Given(c))'
  BY DEF Echoes
<1>1. UpTo(c, Given(c)) /\ echoed' = echoed /\ short' = short
  BY DEF EInv, Echoes
<1>2. \A k \in 1 .. Len(echoed[c]) : echoed[c][k][2] \in Nat
  <2>1. echoed[c] \in Seq(Clients \X Nat)
    BY DEF EInv, Counts
  <2> QED
    BY <2>1
<1> HIDE DEF Given
<1> QED
  BY <1>1, <1>2 DEF UpTo

\* each step keeps the echoed blocks in order
LEMMA NextEchoes == EInv /\ [Next]_vars => Echoes'
<1> SUFFICES ASSUME EInv, [Next]_vars PROVE Echoes'
  OBVIOUS
<1> USE DEF Peer
<1>a. pc \in {"read", "write"} => Peer \in Clients
  BY DEF EInv, IInv, EventsFresh
<1>b. \A c \in Clients : Given(c) \in Int /\ taken[c] \in Nat /\ Given(c) <= taken[c]
  BY <1>a DEF EInv, Counts, Buffer, Given
<1>1. CASE UNCHANGED <<echoed, short, taken, pc, conn, cur, buf>>
  <2>1. \A c \in Clients : Given(c)' = Given(c)
    BY <1>1 DEF Given
  <2> QED
    BY <1>1, <1>b, <2>1, SameEchoes
<1>2. CASE /\ UNCHANGED <<echoed, short, taken>>
           /\ pc \notin {"write", "failed"} /\ pc' # "write"
  <2>1. \A c \in Clients : Given(c)' = Given(c)
    BY <1>2 DEF Given
  <2> QED
    BY <1>2, <1>b, <2>1, SameEchoes
<1>3. CASE WriteFails
  <2>1. \A c \in Clients : Given(c)' = taken[c]
    BY <1>3 DEF WriteFails, data, Given
  <2> QED
    BY <1>3, <1>b, <2>1, SameEchoes DEF WriteFails, data
<1>4. CASE Read
  <2>1. UNCHANGED <<echoed, short, cur, conn>> /\ pc = "read" /\ pc' = "write"
    BY <1>4 DEF Read
  <2>2. \A c \in Clients : c # Peer => taken'[c] = taken[c]
    BY <1>4 DEF Read, EInv, Counts
  <2>3. buf'.first - 1 = taken[Peer]
    BY <1>4, <1>a, <1>b DEF Read
  <2>4. \A c \in Clients : Given(c)' = Given(c)
    BY <2>1, <2>2, <2>3 DEF Given
  <2> QED
    BY <1>b, <2>1, <2>4, SameEchoes
<1>5. CASE Write
  <2>1. UNCHANGED <<taken, cur, conn>> /\ pc = "write" /\ pc' = "read"
    BY <1>5 DEF Write
  <2>p. PICK p \in Clients : p = Peer
    BY <1>a, <2>1
  <2>2. ASSUME NEW c \in Clients, c # p PROVE UpTo(c, Given(c))'
    <3>1. echoed'[c] = echoed[c] /\ (c \in short' <=> c \in short)
      BY <1>5, <2>2, <2>p DEF Write, EInv, Counts
    <3>2. Given(c)' = Given(c) /\ UpTo(c, Given(c))
      BY <2>1, <2>2, <2>p DEF Given, EInv, Echoes
    <3> HIDE DEF Given
    <3> QED
      BY <2>1, <3>1, <3>2 DEF UpTo
  <2>3. UpTo(p, taken[p])'
    <3> DEFINE n == buf.last - buf.first + 1
               k == Min({n, SndBuf - unread[p]})
               s == echoed[p]
               t == s \o Blocks(p, buf.first, buf.first + k - 1)
    <3>1. /\ unread[p] \in Nat /\ unread[p] < SndBuf /\ SndBuf - unread[p] \in Nat
          /\ buf.first \in Nat \ {0} /\ buf.last \in Nat /\ buf.last = taken[p]
          /\ n \in Nat \ {0}
      BY <1>5, <2>1, <2>p, BoundsAssumption DEF Write, EInv, Counts, Buffer
    <3>2. k \in Nat /\ k <= n
      BY <3>1, MinTwo
    <3>3. /\ echoed'[p] = t /\ taken' = taken
          /\ short' = IF k < n THEN short \cup {p} ELSE short
      BY <1>5, <2>1, <2>p DEF Write, EInv, Counts
    <3>4. s \in Seq(Clients \X Nat) /\ UpTo(p, buf.first - 1)
      BY <2>1, <2>p DEF EInv, Counts, Echoes, Given
    <3> HIDE DEF n, k
    <3>6. \A j \in 1 .. Len(s) : /\ s[j][1] = p /\ s[j][2] \in Nat
                                 /\ s[j][2] <= buf.first - 1
      BY <3>4 DEF UpTo
    <3>u. /\ \A i, j \in 1 .. Len(s) : i < j => s[i][2] < s[j][2]
          /\ p \notin short => Len(s) = buf.first - 1 /\ \A j \in 1 .. Len(s) : s[j][2] = j
      BY <2>1, <3>4 DEF UpTo
    <3> HIDE DEF s
    <3>5. /\ t \in Seq(Clients \X Nat)
          /\ Len(t) = Len(s) + k
          /\ \A j \in 1 .. Len(s) : t[j] = s[j]
          /\ \A j \in Len(s) + 1 .. Len(s) + k : t[j] = <<p, buf.first + (j - Len(s)) - 1>>
      <4> DEFINE B == Blocks(p, buf.first, buf.first + k - 1)
      <4>1. /\ B \in Seq(Clients \X Nat) /\ Len(B) = k
            /\ \A j \in 1 .. k : B[j] = <<p, buf.first + j - 1>>
        <5> DEFINE l == buf.first + k - 1
        <5>1. l \in Nat /\ buf.first \in Nat \ {0} /\ buf.first <= l + 1 /\ l - buf.first + 1 = k
          BY <3>1, <3>2
        <5> HIDE DEF l
        <5>2. /\ Blocks(p, buf.first, l) \in Seq(Clients \X Nat)
              /\ Len(Blocks(p, buf.first, l)) = k
              /\ \A j \in 1 .. k : Blocks(p, buf.first, l)[j] = <<p, buf.first + j - 1>>
          BY <2>p, <5>1, BlocksSeq
        <5> QED
          BY <5>2 DEF l
      <4> HIDE DEF B
      <4>2. s \in Seq(Clients \X Nat)
        BY <3>4
      <4>3. /\ s \o B \in Seq(Clients \X Nat) /\ Len(s \o B) = Len(s) + k
            /\ \A j \in 1 .. Len(s) + k :
                 (s \o B)[j] = IF j <= Len(s) THEN s[j] ELSE B[j - Len(s)]
        BY <4>1, <4>2, ConcatProperties
      <4>4. t = s \o B
        BY DEF B
      <4> HIDE DEF t
      <4>5. Len(s) \in Nat
        BY <4>2
      <4>6. \A j \in 1 .. Len(s) : t[j] = s[j]
        BY <3>2, <4>3, <4>4, <4>5
      <4>7. ASSUME NEW j \in Len(s) + 1 .. Len(s) + k
            PROVE  t[j] = <<p, buf.first + (j - Len(s)) - 1>>
        <5>1. j \in 1 .. Len(s) + k /\ ~ (j <= Len(s)) /\ j - Len(s) \in 1 .. k
          BY <3>2, <4>5
        <5> QED
          BY <4>1, <4>3, <4>4, <5>1
      <4> QED
        BY <4>3, <4>4, <4>6, <4>7
    <3> HIDE DEF t
    <3>7. Len(s) \in Nat /\ \A j \in 1 .. Len(t) : j \in 1 .. Len(s) \/ j \in Len(s) + 1 .. Len(s) + k
      BY <3>2, <3>4, <3>5
    <3>o. \A j \in 1 .. Len(s) : t[j][1] = p /\ t[j][2] = s[j][2]
      BY <3>5, <3>6
    <3>w. \A j \in Len(s) + 1 .. Len(s) + k :
            t[j][1] = p /\ t[j][2] = buf.first + (j - Len(s)) - 1
      BY <3>5
    <3>8. \A j \in 1 .. Len(t) : t[j][1] = p /\ t[j][2] <= taken[p]
      <4>1. taken[p] \in Nat /\ buf.first - 1 <= taken[p] /\ buf.first + k - 1 <= taken[p]
        BY <3>1, <3>2 DEF n
      <4>2. \A j \in 1 .. Len(s) : t[j][2] <= taken[p]
        BY <3>1, <3>6, <3>o, <4>1
      <4>3. \A j \in Len(s) + 1 .. Len(s) + k : t[j][2] <= taken[p]
        BY <3>1, <3>2, <3>7, <3>w, <4>1
      <4> QED
        BY <3>7, <3>o, <3>w, <4>2, <4>3
    <3>9. \A i, j \in 1 .. Len(t) : i < j => t[i][2] < t[j][2]
      <4> SUFFICES ASSUME NEW i \in 1 .. Len(t), NEW j \in 1 .. Len(t), i < j
                   PROVE  t[i][2] < t[j][2]
        OBVIOUS
      <4>4. CASE i \in 1 .. Len(s) /\ j \in 1 .. Len(s)
        BY <3>u, <3>o, <4>4
      <4>5. CASE i \in 1 .. Len(s) /\ j \in Len(s) + 1 .. Len(s) + k
        <5>1. s[i][2] \in Nat /\ t[i][2] = s[i][2] /\ t[i][2] <= buf.first - 1
          BY <3>6, <3>o, <4>5
        <5>2. t[j][2] = buf.first + (j - Len(s)) - 1 /\ j - Len(s) >= 1 /\ j - Len(s) \in Nat
          BY <3>2, <3>7, <3>w, <4>5
        <5>3. buf.first \in Int
          BY <3>1
        <5>4. buf.first - 1 < t[j][2] /\ t[j][2] \in Int
          BY <5>2, <5>3
        <5> QED
          BY <5>1, <5>3, <5>4
      <4>6. CASE i \in Len(s) + 1 .. Len(s) + k /\ j \in Len(s) + 1 .. Len(s) + k
        <5>1. /\ t[i][2] = buf.first + (i - Len(s)) - 1
              /\ t[j][2] = buf.first + (j - Len(s)) - 1
          BY <3>w, <4>6
        <5> QED
          BY <3>1, <3>2, <3>7, <4>6, <5>1
      <4> QED
        BY <3>2, <3>7, <4>4, <4>5, <4>6
    <3>10. ASSUME p \notin short'
           PROVE  Len(t) = taken[p] /\ \A j \in 1 .. Len(t) : t[j][2] = j
      <4>1. p \notin short /\ k = n
        BY <3>2, <3>1, <3>3, <3>10
      <4>2. Len(s) = buf.first - 1 /\ \A j \in 1 .. Len(s) : s[j][2] = j
        BY <3>u, <4>1
      <4>3. Len(t) = taken[p]
        BY <3>1, <3>5, <4>1, <4>2 DEF n
      <4>4. \A j \in Len(s) + 1 .. Len(s) + k : t[j][2] = j
        <5> SUFFICES ASSUME NEW j \in Len(s) + 1 .. Len(s) + k PROVE t[j][2] = j
          OBVIOUS
        <5>1. t[j][2] = buf.first + (j - Len(s)) - 1 /\ j \in Int
          BY <3>w, <3>2, <3>7
        <5> QED
          BY <3>1, <4>2, <5>1
      <4> QED
        BY <3>7, <3>o, <4>2, <4>3, <4>4
    <3> QED
      BY <2>1, <3>3, <3>8, <3>9, <3>10 DEF UpTo
  <2>4. Given(p)' = taken'[p]
    BY <2>1 DEF Given
  <2>5. UpTo(p, Given(p))'
    BY <2>3, <2>4 DEF UpTo
  <2>6. \A c \in Clients : UpTo(c, Given(c))'
    BY <2>2, <2>5
  <2> QED
    BY <2>6 DEF Echoes
<1>6. CASE Read \/ Write \/ WriteFails
  BY <1>3, <1>4, <1>5, <1>6
<1>7. CASE UNCHANGED vars \/ Sigterm \/ \E c \in Clients : Client(c)
  BY <1>1, <1>7 DEF vars, server, data, clients, Sigterm, Client, Connect, Send, Receive,
                    Shutdown, Close, Reset
<1>8. CASE EpollWait \/ HandleRead \/ HandleHup \/ HandleListen \/ HandlePipe
  BY <1>2, <1>8 DEF EpollWait, HandleRead, HandleHup, HandleListen, HandlePipe, data
<1>9. CASE Accept \/ AcceptNone \/ AcceptFails \/ ReadNothing
  BY <1>2, <1>9 DEF Accept, AcceptNone, AcceptFails, ReadNothing, data
<1> QED
  BY <1>6, <1>7, <1>8, <1>9 DEF Next, Server

\* Whatever clients connect, send, stop and close, each gets its own blocks back in
\* order, and without a gap unless a write to it was cut short.
THEOREM EchoTheorem == Spec => []EchoInOrder
<1>1. EInv => EchoInOrder
  <2> SUFFICES ASSUME EInv, NEW c \in Clients
               PROVE  /\ \A j, k \in DOMAIN echoed[c] : j < k => echoed[c][j][2] < echoed[c][k][2]
                      /\ \A k \in DOMAIN echoed[c] : echoed[c][k][1] = c /\ echoed[c][k][2] <= sent[c]
                      /\ c \notin short => \A k \in DOMAIN echoed[c] : echoed[c][k][2] = k
    BY DEF EchoInOrder
  <2>1. UpTo(c, Given(c)) /\ DOMAIN echoed[c] = 1 .. Len(echoed[c])
    BY DEF EInv, Echoes, Counts
  <2>2. Given(c) \in Int /\ Given(c) <= sent[c] /\ sent[c] \in Nat
    BY DEF EInv, IInv, EventsFresh, Counts, Buffer, Given
  <2>3. \A k \in 1 .. Len(echoed[c]) : echoed[c][k][2] \in Nat
    BY DEF EInv, Counts
  <2> HIDE DEF Given
  <2> QED
    BY <2>1, <2>2, <2>3 DEF UpTo
<1>2. EInv /\ [Next]_vars => EInv'
  BY NextIInv, NextCounts, NextEchoes DEF EInv
<1> QED
  BY <1>1, <1>2, InitEInv, PTL DEF Spec

\* The server gives up only when its last descriptor is given away, or because of a
\* connection that was reset or whose client does not read; what it gave up for is still
\* there after.
THEOREM FailureTheorem == Spec => []FailureHasCause
<1>1. Init => FailureHasCause
  BY DEF Init, FailureHasCause
<1>2. IInv /\ FailureHasCause /\ [Next]_vars => FailureHasCause'
  <2> SUFFICES ASSUME IInv, FailureHasCause, [Next]_vars PROVE FailureHasCause'
    OBVIOUS
  <2> USE DEF FailureHasCause, Running
  <2>1. CASE UNCHANGED vars
    BY <2>1 DEF vars, server, clients, data, Free, Fds
  <2>2. ASSUME NEW c \in Clients, Client(c) PROVE FailureHasCause'
    BY <2>2 DEF Client, Connect, Send, Receive, Shutdown, Close, Reset, server
  <2>7. CASE Sigterm
    BY <2>7 DEF Sigterm, server
  <2>3. CASE EpollWait \/ HandleRead \/ HandleHup \/ HandleListen \/ HandlePipe
    BY <2>3 DEF EpollWait, HandleRead, HandleHup, HandleListen, HandlePipe
  <2>4. CASE Accept \/ AcceptNone \/ AcceptFails
    BY <2>4 DEF Accept, AcceptNone, AcceptFails, Free, Fds
  <2>5. CASE Read \/ Write
    BY <2>5 DEF Read, Write
  <2>6. CASE ReadNothing \/ WriteFails
    <3>1. cur \in Fds \ Free
      BY <2>6, NoneAssumption DEF ReadNothing, WriteFails, IInv, EventsFresh, Peer, Free
    <3>2. pc' # "failed" \/ /\ rst[conn[cur]] \/ unread[conn[cur]] = SndBuf
                            /\ UNCHANGED <<rst, unread, conn>>
      BY <2>6 DEF ReadNothing, WriteFails, Peer, clients, data
    <3> QED
      BY <3>1, <3>2 DEF Free, Fds
  <2> HIDE DEF FailureHasCause, Running
  <2> QED
    BY <2>1, <2>2, <2>3, <2>4, <2>5, <2>6, <2>7 DEF Next, Server
<1> QED
  BY <1>1, <1>2, InitIInv, NextIInv, PTL DEF Spec

-----------------------------------------------------------------------------
(* Datagrams.                                                              *)

\* what is on its way: questions to the server of rot13_udp.c, messages of recv.c
Question(c) == [from |-> c, rot |-> 0]
Packets == IF dgProgram = "rot13" THEN { Question(c) : c \in DgClients }
                                  ELSE { Messages[k] : k \in Nat }
Pieces == { Dg!Cut(Messages[k]) : k \in Nat }

DgTypes ==
  /\ dgProgram \in {"rot13", "recv"}
  /\ inbox \in Seq(Packets) /\ received \in Seq(Pieces)
  /\ dgSent \in Nat
  /\ dgPcs = [c \in DgClients |-> dgPcs[c]]
  /\ mail = [c \in DgClients |-> mail[c]]
  /\ dgProgram = "recv" => \A c \in DgClients : mail[c] = <<>>
  /\ dgProgram = "rot13" => received = <<>>
  /\ dgServer = "send" => dgProgram = "rot13" /\ dgBuf \in Packets

\* a client's question is in one place at a time: not sent, at the server, or answered
AtServer(c) ==
  \/ \E j \in 1 .. Len(inbox) : inbox[j] = Question(c)
  \/ dgServer = "send" /\ dgBuf = Question(c)

OnePlace ==
  dgProgram = "rot13" =>
    /\ \A j, k \in 1 .. Len(inbox) : inbox[j] = inbox[k] => j = k
    /\ dgServer = "send" => \A j \in 1 .. Len(inbox) : inbox[j] # dgBuf
    /\ \A c \in DgClients : dgPcs[c] = "send" => ~ AtServer(c)

\* the server answers the client whose question it holds
Answers ==
  dgProgram = "rot13" /\ ~ stale =>
    /\ dgServer = "send" => src_addr \in DgClients /\ dgBuf = Question(src_addr)
    /\ \A c \in DgClients :
         /\ mail[c] \in {<<>>, << [from |-> c, rot |-> 1] >>}
         /\ dgPcs[c] = "send" \/ AtServer(c) => mail[c] = <<>>

\* what recv.c has received and what waits for it are its messages, and without a loss all
InOrder ==
  dgProgram = "recv" =>
    /\ \A j \in 1 .. Len(inbox) : \E k \in 1 .. dgSent : inbox[j] = Messages[k]
    /\ \A j \in 1 .. Len(received) : \E k \in 1 .. dgSent : received[j] = Dg!Cut(Messages[k])
    /\ ~ lost =>
         /\ dgSent = Len(received) + Len(inbox)
         /\ \A j \in 1 .. Len(inbox) : inbox[j] = Messages[Len(received) + j]
         /\ \A j \in 1 .. Len(received) : received[j] = Dg!Cut(Messages[j])

DInv == DgTypes /\ OnePlace /\ Answers /\ InOrder

\* Nothing is on its way at the start.
LEMMA InitDInv == Dg!Init => DInv
<1> SUFFICES ASSUME Dg!Init PROVE DInv
  OBVIOUS
<1>1. /\ inbox = <<>> /\ received = <<>> /\ Len(inbox) = 0 /\ Len(received) = 0
      /\ dgServer = "start" /\ dgSent = 0 /\ lost = FALSE
      /\ mail = [c \in DgClients |-> <<>>]
  BY EmptySeq DEF Dg!Init
<1>2. DgTypes
  BY <1>1, EmptySeq DEF Dg!Init, DgTypes
<1>3. OnePlace /\ Answers
  BY <1>1 DEF OnePlace, Answers, AtServer
<1>4. InOrder
  BY <1>1 DEF InOrder
<1> QED
  BY <1>2, <1>3, <1>4 DEF DInv

\* sendto: the question, or the next message, goes to the end of the queue or is lost.
LEMMA NextSendto ==
  ASSUME DInv, NEW c \in DgClients, Dg!Sendto(c) PROVE DInv'
<1> USE DEF DInv, DgTypes
<1> DEFINE message == IF dgProgram = "rot13" THEN Question(c) ELSE Messages[dgSent + 1]
<1>1. /\ dgPcs[c] = "send"
      /\ \/ inbox' = Append(inbox, message) /\ lost' = lost
         \/ inbox' = inbox /\ lost' = TRUE
      /\ dgProgram = "rot13" => dgPcs' = [dgPcs EXCEPT ![c] = "recv"]
      /\ dgPcs' = dgPcs \/ \E label \in {"recv", "done"} : dgPcs' = [dgPcs EXCEPT ![c] = label]
      /\ dgSent' = dgSent + 1
      /\ UNCHANGED <<dgProgram, dgServer, src_addr, addrlen, dgBuf, mail, received, stale>>
  BY DEF Dg!Sendto, Question
<1>2. message \in Packets
  BY DEF Packets
<1>3. Packets' = Packets /\ Pieces' = Pieces
  BY <1>1 DEF Packets, Pieces, Question
<1>4. /\ Len(inbox) \in Nat
      /\ Append(inbox, message) \in Seq(Packets)
      /\ Len(Append(inbox, message)) = Len(inbox) + 1
      /\ \A j \in 1 .. Len(inbox) : Append(inbox, message)[j] = inbox[j]
      /\ Append(inbox, message)[Len(inbox) + 1] = message
  BY <1>2, PutIn
<1> HIDE DEF message
<1>5. DgTypes'
  <2>1. inbox' \in Seq(Packets)'
    BY <1>1, <1>3, <1>4
  <2>2. dgPcs' = [d \in DgClients |-> dgPcs'[d]]
    BY <1>1
  <2>3. dgSent' \in Nat /\ received' \in Seq(Pieces)'
    BY <1>1, <1>3
  <2>4. dgServer' = "send" => dgProgram' = "rot13" /\ dgBuf' \in Packets'
    BY <1>1, <1>3
  <2> QED
    BY <1>1, <2>1, <2>2, <2>3, <2>4
<1>6. ASSUME dgProgram = "rot13" PROVE OnePlace' /\ Answers'
  <2>1. message = Question(c) /\ dgPcs'[c] = "recv" /\ ~ AtServer(c)
        /\ \A d \in DgClients : d # c => dgPcs'[d] = dgPcs[d] /\ Question(d) # message
    BY <1>1, <1>6 DEF OnePlace, message, Question
  <2>2. \A d \in DgClients : AtServer(d)' => AtServer(d) \/ d = c
    BY <1>1, <1>4, <2>1 DEF AtServer, Question
  <2>3. OnePlace'
    <3>1. \A j \in 1 .. Len(inbox) : inbox[j] # message
      BY <2>1 DEF AtServer
    <3>2. \A j, k \in 1 .. Len(inbox') : inbox'[j] = inbox'[k] => j = k
      <4>1. CASE inbox' = inbox
        BY <1>6, <4>1 DEF OnePlace
      <4>2. CASE inbox' = Append(inbox, message)
        <5>1. \A j \in 1 .. Len(inbox') : j \in 1 .. Len(inbox) \/ j = Len(inbox) + 1
          BY <1>4, <4>2
        <5>2. \A j, k \in 1 .. Len(inbox) : inbox[j] = inbox[k] => j = k
          BY <1>6 DEF OnePlace
        <5> QED
          BY <1>4, <3>1, <4>2, <5>1, <5>2
      <4> QED
        BY <1>1, <4>1, <4>2
    <3>3. dgServer' = "send" => \A j \in 1 .. Len(inbox') : inbox'[j] # dgBuf'
      <4>1. dgServer = "send" => dgBuf # message /\ \A j \in 1 .. Len(inbox) : inbox[j] # dgBuf
        BY <1>6, <2>1 DEF OnePlace, AtServer
      <4>2. CASE inbox' = inbox
        BY <1>1, <4>1, <4>2
      <4>3. CASE inbox' = Append(inbox, message)
        <5>1. \A j \in 1 .. Len(inbox') : j \in 1 .. Len(inbox) \/ j = Len(inbox) + 1
          BY <1>4, <4>3
        <5> QED
          BY <1>1, <1>4, <4>1, <4>3, <5>1
      <4> QED
        BY <1>1, <4>2, <4>3
    <3>4. \A d \in DgClients : dgPcs'[d] = "send" => ~ AtServer(d)'
      BY <1>6, <2>1, <2>2 DEF OnePlace
    <3> QED
      BY <3>2, <3>3, <3>4 DEF OnePlace
  <2>4. Answers'
    BY <1>1, <1>6, <2>1, <2>2 DEF Answers, Question
  <2> QED
    BY <2>3, <2>4
<1>7. ASSUME dgProgram = "recv" PROVE InOrder'
  <2>1. message = Messages[dgSent + 1]
    BY <1>7 DEF message
  <2> USE DEF Dg!Cut
  <2>2. \A j \in 1 .. Len(inbox') : \E k \in 1 .. dgSent' : inbox'[j] = Messages[k]
    <3>1. /\ \A j \in 1 .. Len(inbox) : \E k \in 1 .. dgSent : inbox[j] = Messages[k]
          /\ \A k \in 1 .. dgSent : k \in 1 .. dgSent'
          /\ dgSent + 1 \in 1 .. dgSent'
      BY <1>1, <1>7 DEF InOrder
    <3>2. CASE inbox' = inbox
      BY <3>1, <3>2
    <3>3. CASE inbox' = Append(inbox, message)
      <4>1. \A j \in 1 .. Len(inbox') : j \in 1 .. Len(inbox) \/ j = Len(inbox) + 1
        BY <1>4, <3>3
      <4>2. inbox'[Len(inbox) + 1] = Messages[dgSent + 1]
        BY <1>4, <2>1, <3>3
      <4> QED
        BY <1>4, <3>1, <3>3, <4>1, <4>2
    <3> QED
      BY <1>1, <3>2, <3>3
  <2>3. \A j \in 1 .. Len(received') : \E k \in 1 .. dgSent' : received'[j] = Dg!Cut(Messages[k])
    <3>1. \A k \in 1 .. dgSent : k \in 1 .. dgSent'
      BY <1>1
    <3> QED
      BY <1>1, <1>7, <3>1 DEF InOrder
  <2>4. ~ lost' =>
         /\ dgSent' = Len(received') + Len(inbox')
         /\ \A j \in 1 .. Len(inbox') : inbox'[j] = Messages[Len(received') + j]
         /\ \A j \in 1 .. Len(received') : received'[j] = Dg!Cut(Messages[j])
    <3> SUFFICES ASSUME ~ lost'
                 PROVE  /\ dgSent' = Len(received') + Len(inbox')
                        /\ \A j \in 1 .. Len(inbox') : inbox'[j] = Messages[Len(received') + j]
                        /\ \A j \in 1 .. Len(received') : received'[j] = Dg!Cut(Messages[j])
      OBVIOUS
    <3>1. ~ lost /\ inbox' = Append(inbox, message) /\ received' = received
      BY <1>1
    <3>2. /\ dgSent = Len(received) + Len(inbox)
          /\ \A j \in 1 .. Len(inbox) : inbox[j] = Messages[Len(received) + j]
          /\ \A j \in 1 .. Len(received) : received[j] = Dg!Cut(Messages[j])
      BY <1>7, <3>1 DEF InOrder
    <3>3. Len(received) \in Nat
      BY LenProperties
    <3>4. dgSent' = Len(received') + Len(inbox')
      BY <1>1, <1>4, <3>1, <3>2, <3>3
    <3>5. \A j \in 1 .. Len(inbox') : inbox'[j] = Messages[Len(received') + j]
      <4>1. \A j \in 1 .. Len(inbox') : j \in 1 .. Len(inbox) \/ j = Len(inbox) + 1
        BY <1>4, <3>1
      <4>2. Len(received) + (Len(inbox) + 1) = dgSent + 1
        BY <1>4, <3>2, <3>3
      <4>3. inbox'[Len(inbox) + 1] = Messages[Len(received') + (Len(inbox) + 1)]
        BY <1>4, <2>1, <3>1, <4>2
      <4> QED
        BY <1>4, <3>1, <3>2, <4>1, <4>3
    <3> QED
      BY <3>1, <3>2, <3>4, <3>5
  <2> QED
    BY <2>2, <2>3, <2>4 DEF InOrder
<1> QED
  BY <1>1, <1>5, <1>6, <1>7 DEF OnePlace, Answers, InOrder

\* recvfrom: the first question goes into the buffer.
LEMMA NextRecvfrom ==
  ASSUME DInv, Dg!Recvfrom PROVE DInv'
<1> USE DEF DInv, DgTypes
<1>1. /\ dgProgram = "rot13" /\ dgServer = "recv" /\ inbox # <<>>
      /\ inbox' = Tail(inbox)
      /\ UNCHANGED <<dgProgram, dgPcs, mail, dgSent, received, lost>>
      /\ \/ dgServer' = "bailed" /\ stale'
         \/ /\ dgServer' = "send" /\ dgBuf' = Head(inbox)
            /\ stale' \/ (~ stale /\ src_addr' = Head(inbox).from)
  BY DEF Dg!Recvfrom
<1>2. Packets' = Packets /\ Pieces' = Pieces
  BY <1>1 DEF Packets, Pieces, Question
<1>3. /\ Tail(inbox) \in Seq(Packets)
      /\ Len(inbox) = Len(Tail(inbox)) + 1 /\ Len(Tail(inbox)) \in Nat
      /\ \A j \in 1 .. Len(Tail(inbox)) : Tail(inbox)[j] = inbox[j + 1]
      /\ Head(inbox) = inbox[1] /\ Head(inbox) \in Packets
  BY <1>1, TakeOut
<1>4. DgTypes'
  BY <1>1, <1>2, <1>3
<1>5. \A j \in 1 .. Len(inbox') : j + 1 \in 1 .. Len(inbox) /\ j + 1 # 1 /\ inbox'[j] = inbox[j + 1]
  BY <1>1, <1>3
<1>6. 1 \in 1 .. Len(inbox)
  BY <1>3
<1>7. \A c \in DgClients : AtServer(c)' => AtServer(c)
  BY <1>1, <1>3, <1>5, <1>6 DEF AtServer, Question
<1>8. OnePlace'
  <2>1. \A j, k \in 1 .. Len(inbox') : inbox'[j] = inbox'[k] => j = k
    <3> SUFFICES ASSUME NEW j \in 1 .. Len(inbox'), NEW k \in 1 .. Len(inbox'), inbox'[j] = inbox'[k]
                 PROVE  j = k
      OBVIOUS
    <3>1. j + 1 = k + 1
      BY <1>1, <1>5 DEF OnePlace
    <3> QED
      BY <1>1, <1>3, <3>1
  <2>2. dgServer' = "send" => \A j \in 1 .. Len(inbox') : inbox'[j] # dgBuf'
    <3>1. \A j \in 1 .. Len(inbox') : inbox'[j] # inbox[1]
      BY <1>1, <1>5, <1>6 DEF OnePlace
    <3> QED
      BY <1>1, <1>3, <3>1
  <2>3. \A c \in DgClients : dgPcs'[c] = "send" => ~ AtServer(c)'
    BY <1>1, <1>7 DEF OnePlace
  <2> QED
    BY <2>1, <2>2, <2>3 DEF OnePlace
<1>9. Answers'
  <2> SUFFICES ASSUME ~ stale' PROVE Answers'
    BY DEF Answers
  <2>1. ~ stale /\ dgServer' = "send" /\ dgBuf' = Head(inbox) /\ src_addr' = Head(inbox).from
    BY <1>1
  <2>2. PICK c \in DgClients : Head(inbox) = Question(c)
    BY <1>1, <1>3 DEF Packets
  <2>3. src_addr' \in DgClients /\ dgBuf' = Question(src_addr')
    BY <2>1, <2>2 DEF Question
  <2> QED
    BY <1>1, <1>7, <2>1, <2>3 DEF Answers, Question
<1> QED
  BY <1>1, <1>4, <1>8, <1>9 DEF InOrder

\* sendto of the server: the answer comes to its client, or is lost.
LEMMA NextReply ==
  ASSUME DInv, Dg!Reply PROVE DInv'
<1> USE DEF DInv, DgTypes
<1>1. /\ dgServer = "send" /\ dgServer' \in {"bailed", "recv"} /\ dgProgram = "rot13"
      /\ UNCHANGED <<dgProgram, inbox, src_addr, dgBuf, dgPcs, dgSent, received, stale>>
      /\ \/ mail' = mail
         \/ mail' = [mail EXCEPT ![src_addr] = Append(@, [dgBuf EXCEPT !.rot = 1])]
  BY DEF Dg!Reply
<1>2. Packets' = Packets /\ Pieces' = Pieces
  BY <1>1 DEF Packets, Pieces, Question
<1>3. DgTypes'
  BY <1>1, <1>2
<1>4. \A c \in DgClients : AtServer(c)' => AtServer(c) /\ Question(c) # dgBuf
  BY <1>1 DEF AtServer, OnePlace, Question
<1>5. OnePlace'
  BY <1>1, <1>4 DEF OnePlace
<1>6. Answers'
  <2> SUFFICES ASSUME ~ stale PROVE Answers'
    BY <1>1 DEF Answers
  <2>1. src_addr \in DgClients /\ dgBuf = Question(src_addr) /\ AtServer(src_addr)
    BY <1>1 DEF Answers, AtServer
  <2>2. dgPcs[src_addr] # "send" /\ mail[src_addr] = <<>>
    BY <1>1, <2>1 DEF OnePlace, Answers
  <2>3. ASSUME NEW c \in DgClients
        PROVE  /\ mail'[c] \in {<<>>, << [from |-> c, rot |-> 1] >>}
               /\ dgPcs'[c] = "send" \/ AtServer(c)' => mail'[c] = <<>>
    <3>1. CASE mail'[c] = mail[c]
      BY <1>1, <1>4, <3>1 DEF Answers
    <3>2. CASE mail'[c] # mail[c]
      <4>1. c = src_addr /\ mail'[c] = Append(<<>>, [dgBuf EXCEPT !.rot = 1])
        BY <1>1, <2>1, <2>2, <3>2
      <4>2. mail'[c] = << [from |-> c, rot |-> 1] >>
        BY <2>1, <4>1 DEF Question
      <4> QED
        BY <1>1, <1>4, <2>1, <2>2, <4>1, <4>2
    <3> QED
      BY <3>1, <3>2
  <2> QED
    BY <1>1, <2>3 DEF Answers
<1> QED
  BY <1>1, <1>3, <1>5, <1>6 DEF InOrder

\* recv: the first message is received, whole or cut to the buffer.
LEMMA NextRecv ==
  ASSUME DInv, Dg!Recv PROVE DInv'
<1> USE DEF DInv, DgTypes
<1>1. /\ dgProgram = "recv" /\ inbox # <<>> /\ dgServer = "recv"
      /\ inbox' = Tail(inbox) /\ received' = Append(received, Dg!Cut(Head(inbox)))
      /\ UNCHANGED <<dgProgram, dgServer, dgPcs, mail, dgSent, lost, stale>>
  BY DEF Dg!Recv
<1>2. Packets' = Packets /\ Pieces' = Pieces
  BY <1>1 DEF Packets, Pieces, Question
<1>3. /\ Tail(inbox) \in Seq(Packets)
      /\ Len(inbox) = Len(Tail(inbox)) + 1 /\ Len(Tail(inbox)) \in Nat
      /\ \A j \in 1 .. Len(Tail(inbox)) : Tail(inbox)[j] = inbox[j + 1]
      /\ Head(inbox) = inbox[1] /\ Head(inbox) \in Packets
  BY <1>1, TakeOut
<1> DEFINE piece == Dg!Cut(Head(inbox))
<1>4. piece \in Pieces
  BY <1>1, <1>3 DEF Packets, Pieces
<1>5. /\ Len(received) \in Nat
      /\ Append(received, piece) \in Seq(Pieces)
      /\ Len(Append(received, piece)) = Len(received) + 1
      /\ \A j \in 1 .. Len(received) : Append(received, piece)[j] = received[j]
      /\ Append(received, piece)[Len(received) + 1] = piece
  BY <1>4, PutIn
<1>6. DgTypes'
  BY <1>1, <1>2, <1>3, <1>5
<1>7. 1 \in 1 .. Len(inbox)
  BY <1>3
<1>8. \A j \in 1 .. Len(inbox') : j + 1 \in 1 .. Len(inbox) /\ inbox'[j] = inbox[j + 1]
  BY <1>1, <1>3
<1>9. \A j \in 1 .. Len(inbox') : \E k \in 1 .. dgSent' : inbox'[j] = Messages[k]
  BY <1>1, <1>8 DEF InOrder
<1>10. \E k \in 1 .. dgSent : piece = Dg!Cut(Messages[k])
  <2>1. PICK k \in 1 .. dgSent : inbox[1] = Messages[k]
    BY <1>1, <1>7 DEF InOrder
  <2> QED
    BY <1>3, <2>1
<1> HIDE DEF piece
<1>11. \A j \in 1 .. Len(received') : \E k \in 1 .. dgSent' : received'[j] = Dg!Cut(Messages[k])
  <2>1. \A j \in 1 .. Len(received) : \E k \in 1 .. dgSent : received[j] = Dg!Cut(Messages[k])
    BY <1>1 DEF InOrder
  <2>2. \A j \in 1 .. Len(received') : j \in 1 .. Len(received) \/ j = Len(received) + 1
    BY <1>1, <1>5 DEF piece
  <2> QED
    BY <1>1, <1>5, <1>10, <2>1, <2>2 DEF piece
<1>12. ~ lost' =>
         /\ dgSent' = Len(received') + Len(inbox')
         /\ \A j \in 1 .. Len(inbox') : inbox'[j] = Messages[Len(received') + j]
         /\ \A j \in 1 .. Len(received') : received'[j] = Dg!Cut(Messages[j])
  <2> SUFFICES ASSUME ~ lost
               PROVE  /\ dgSent' = Len(received') + Len(inbox')
                      /\ \A j \in 1 .. Len(inbox') : inbox'[j] = Messages[Len(received') + j]
                      /\ \A j \in 1 .. Len(received') : received'[j] = Dg!Cut(Messages[j])
    BY <1>1
  <2>1. /\ dgSent = Len(received) + Len(inbox)
        /\ \A j \in 1 .. Len(inbox) : inbox[j] = Messages[Len(received) + j]
        /\ \A j \in 1 .. Len(received) : received[j] = Dg!Cut(Messages[j])
    BY <1>1 DEF InOrder
  <2>2. received' = Append(received, piece) /\ Len(received') = Len(received) + 1
    BY <1>1, <1>5 DEF piece
  <2>3. dgSent' = Len(received') + Len(inbox')
    BY <1>1, <1>3, <1>5, <2>1, <2>2
  <2>4. \A j \in 1 .. Len(inbox') : inbox'[j] = Messages[Len(received') + j]
    <3> SUFFICES ASSUME NEW j \in 1 .. Len(inbox') PROVE inbox'[j] = Messages[Len(received') + j]
      OBVIOUS
    <3>1. inbox'[j] = Messages[Len(received) + (j + 1)]
      BY <1>8, <2>1
    <3>2. Len(received) + (j + 1) = Len(received') + j
      BY <1>1, <1>3, <1>5, <2>2
    <3> QED
      BY <3>1, <3>2
  <2>5. piece = Dg!Cut(Messages[Len(received) + 1])
    <3>1. inbox[1] = Messages[Len(received) + 1]
      BY <1>7, <2>1
    <3> QED
      BY <1>3, <3>1 DEF piece
  <2>6. \A j \in 1 .. Len(received') : received'[j] = Dg!Cut(Messages[j])
    <3>1. \A j \in 1 .. Len(received') : j \in 1 .. Len(received) \/ j = Len(received) + 1
      BY <1>5, <2>2
    <3> QED
      BY <1>5, <2>1, <2>2, <2>5, <3>1
  <2> QED
    BY <2>3, <2>4, <2>6
<1> QED
  BY <1>1, <1>6, <1>9, <1>11, <1>12 DEF OnePlace, Answers, InOrder

\* Binding the port and a client's recv move no question and no message.
LEMMA NextDInv == DInv /\ [Dg!Next]_(Dg!vars) => DInv'
<1> SUFFICES ASSUME DInv, [Dg!Next]_(Dg!vars) PROVE DInv'
  OBVIOUS
<1>1. CASE UNCHANGED Dg!vars \/ Dg!Bind
  <2>1. /\ UNCHANGED <<dgProgram, inbox, src_addr, dgBuf, dgPcs, mail, dgSent, received, lost, stale>>
        /\ dgServer' = dgServer \/ (dgServer' = "recv" /\ dgServer # "send")
    BY <1>1 DEF Dg!vars, Dg!Bind
  <2>2. Packets' = Packets /\ Pieces' = Pieces
    BY <2>1 DEF Packets, Pieces, Question
  <2>3. \A c \in DgClients : AtServer(c)' => AtServer(c)
    BY <2>1 DEF AtServer, Question
  <2>4. DgTypes'
    BY <2>1, <2>2 DEF DInv, DgTypes
  <2>5. OnePlace' /\ InOrder'
    BY <2>1, <2>3 DEF DInv, OnePlace, InOrder
  <2>6. Answers'
    BY <2>1, <2>3 DEF DInv, Answers, Question
  <2> QED
    BY <2>4, <2>5, <2>6 DEF DInv
<1>2. ASSUME NEW c \in DgClients, Dg!RecvClient(c) PROVE DInv'
  <2>1. /\ UNCHANGED <<dgProgram, inbox, src_addr, dgBuf, dgServer, mail, dgSent, received, lost, stale>>
        /\ dgPcs' = [dgPcs EXCEPT ![c] = "done"]
    BY <1>2 DEF Dg!RecvClient
  <2>2. Packets' = Packets /\ Pieces' = Pieces
    BY <2>1 DEF Packets, Pieces, Question
  <2>3. \A d \in DgClients : /\ AtServer(d)' => AtServer(d)
                             /\ dgPcs'[d] = "send" => dgPcs[d] = "send"
    BY <2>1 DEF AtServer, Question, DInv, DgTypes
  <2>4. DgTypes'
    BY <2>1, <2>2 DEF DInv, DgTypes
  <2>5. OnePlace' /\ InOrder'
    BY <2>1, <2>3 DEF DInv, OnePlace, InOrder
  <2>6. Answers'
    BY <2>1, <2>3 DEF DInv, Answers, Question
  <2> QED
    BY <2>4, <2>5, <2>6 DEF DInv
<1> QED
  BY <1>1, <1>2, NextSendto, NextRecvfrom, NextReply, NextRecv DEF Dg!Next

\* The invariant says of received datagrams and of answers what the property asks.
LEMMA DInvOwn == DInv => Dg!OwnAnswers
<1> SUFFICES ASSUME DInv PROVE Dg!OwnAnswers
  OBVIOUS
<1>1. CASE dgProgram = "rot13"
  <2>1. received = <<>> /\ Len(received) = 0
    BY <1>1, EmptySeq DEF DInv, DgTypes
  <2>2. ~ stale => \A c \in DgClients : mail[c] \in {<<>>, << [from |-> c, rot |-> 1] >>}
    BY <1>1 DEF DInv, Answers
  <2> QED
    BY <2>1, <2>2 DEF Dg!OwnAnswers
<1>2. CASE dgProgram = "recv"
  <2>1. \A c \in DgClients : mail[c] = <<>>
    BY <1>2 DEF DInv, DgTypes
  <2>2. /\ \A j \in 1 .. Len(received) : \E k \in 1 .. dgSent : received[j] = Dg!Cut(Messages[k])
        /\ ~ lost => \A j \in 1 .. Len(received) : received[j] = Dg!Cut(Messages[j])
    BY <1>2 DEF DInv, InOrder
  <2> QED
    BY <2>1, <2>2 DEF Dg!OwnAnswers
<1> QED
  BY <1>1, <1>2 DEF DInv, DgTypes

-----------------------------------------------------------------------------
(* Stream servers.                                                         *)

Serving == srvPc \in {"recv", "reply", "close"}

StrTypes ==
  /\ program \in {"uds", "hello", "shutdown", "bind"}
  /\ strBacklog \in Seq(StrClients)
  /\ Serving => strConn \in StrClients
  /\ queue = [c \in StrClients |-> queue[c]]
  /\ answer = [c \in StrClients |-> answer[c]]
  /\ got = [c \in StrClients |-> got[c]]
  /\ pcs = [c \in StrClients |-> pcs[c]]
  /\ closed \subseteq StrClients
  /\ kills \in Nat /\ starts \in Nat /\ starts > 0

\* The programs that fork a server and a client: they close no connection, and the client of
\* connect_bind.c meets no server.
Forking ==
  /\ program = "shutdown" =>
       /\ srvPc # "close" /\ (closed # {} => kills > 0)
       /\ \A c \in StrClients : pcs[c] # "answered"
  /\ program = "bind" =>
       /\ ~ Str!Up /\ \A c \in StrClients : pcs[c] \in {"start", "none", "refused", "killed"}
  /\ program \in {"shutdown", "bind"} =>
       \A c \in StrClients : pcs[c] \in {"empty", "reset"} => kills > 0

\* what the servers that loop send to a client, once
Said(c) == << IF program = "hello" THEN "hello" ELSE c >>
Nothing(c) == answer[c] = <<>> /\ got[c] = <<>>

\* a client whose connection was not served yet
Waiting(c) ==
  pcs[c] \in {"send", "recv", "killed"} /\ c \notin closed /\ Nothing(c)

\* the causes for a client of a looping server to get no answer
Cause == kills > 0 \/ (program = "hello" /\ (srvPc = "failed" \/ starts > 1))

Queued(c) == \E j \in 1 .. Len(strBacklog) : strBacklog[j] = c

\* A connection is served once: it waits in the backlog at one place, and while its request
\* is read and answered, nothing was answered before.
Once ==
  /\ srvPc \in {"start", "bound"} => strBacklog = <<>>
  /\ Str!Up =>
    /\ \A j, k \in 1 .. Len(strBacklog) : strBacklog[j] = strBacklog[k] => j = k
    /\ \A c \in StrClients : Queued(c) => Waiting(c) /\ (Serving => c # strConn)
    /\ srvPc \in {"recv", "reply"} => Waiting(strConn)
    /\ srvPc = "reply" /\ program = "uds" => Str!Gone(strConn) \/ queue[strConn] # <<>>
    /\ srvPc = "close" =>
         Str!Gone(strConn) \/ (pcs[strConn] # "send" /\ ~ Nothing(strConn))

\* Who asked has sent, who is done got an answer or there was a cause.
AskedOf(c) ==
  /\ got[c] = <<>> \/ (got[c] = Said(c) /\ answer[c] = <<>>)
  /\ answer[c] \in {<<>>, Said(c)}
  /\ pcs[c] = "start" => Nothing(c)
  /\ pcs[c] \in {"start", "send"} => queue[c] = <<>>
  /\ pcs[c] = "answered" => got[c] = Said(c)
  /\ pcs[c] \notin {"shutdown", "after shutdown"}
  /\ program = "hello" => pcs[c] # "send"
  /\ c \in closed => Cause \/ Str!Gone(c) \/ (pcs[c] \notin {"start", "send"} /\ ~ Nothing(c))
  /\ pcs[c] \in {"empty", "reset"} => Cause
Asked == \A c \in StrClients : AskedOf(c)

\* The path of a killed server stays, that of one ended by an exception does not; and that
\* exception is a client's that was killed.
Paths ==
  /\ \A c \in StrClients : pcs[c] = "killed" => kills > 0
  /\ program = "uds" =>
       /\ name \in {"no", "used"}
       /\ srvPc = "raised" => Str!Ended("killed") /\ name = "no"
       /\ srvPc # "failed"
       /\ srvPc \in {"killed", "in use"} => name = "used" \/ Str!Ended("killed")
       /\ srvPc = "start" /\ starts > 1 => name = "used" \/ Str!Ended("killed")
       /\ (srvPc = "bound" \/ Str!Up) /\ starts > 1 => Str!Ended("killed")
  /\ program # "uds" => srvPc # "raised"

Looping == program \in {"uds", "hello"} => Once /\ Asked

SInv == StrTypes /\ Forking /\ Looping /\ Paths

\* At the start nobody has connected.
LEMMA InitSInv == Str!Init => SInv
<1> SUFFICES ASSUME Str!Init PROVE SInv
  OBVIOUS
<1> USE DEF Str!Init, Str!Up
<1>1. Len(strBacklog) = 0 /\ strBacklog \in Seq(StrClients)
  BY EmptySeq
<1>2. pcs = [c \in StrClients |-> pcs[c]] /\ \A c \in StrClients : pcs[c] \in {"start", "none"}
  BY DEF Str!Init
<1>3. program \in {"uds", "hello", "shutdown", "bind"}
  OBVIOUS
<1>4. StrTypes
  BY <1>1, <1>2, <1>3 DEF StrTypes, Serving
<1>5. Forking /\ Paths
  BY <1>2, <1>3 DEF Forking, Paths
<1>6. Looping
  BY <1>1, <1>2, <1>3 DEF Looping, Once, Queued, Asked, AskedOf, Nothing
<1> QED
  BY <1>4, <1>5, <1>6 DEF SInv

\* Every step keeps the types.
LEMMA NextStrTypes == StrTypes /\ Forking /\ [Str!Next]_(Str!vars) => StrTypes'
<1> SUFFICES ASSUME StrTypes, Forking, [Str!Next]_(Str!vars) PROVE StrTypes'
  OBVIOUS
<1> USE DEF StrTypes, Serving, Str!srv, Str!net, Str!cli, Str!Goto, Str!Up
<1>1. CASE UNCHANGED Str!vars
  BY <1>1 DEF Str!vars
<1>2. CASE Str!Bind \/ Str!Listen \/ Str!EndBound \/ Str!TimeWaitEnds \/ Str!Close
  BY <1>2 DEF Str!Bind, Str!Listen, Str!EndBound, Str!TimeWaitEnds, Str!Close
<1>3. CASE Str!Accept
  <2>1. Tail(strBacklog) \in Seq(StrClients) /\ Head(strBacklog) \in StrClients
    BY <1>3, TakeOut DEF Str!Accept
  <2> QED
    BY <1>3, <2>1 DEF Str!Accept
<1>4. CASE Str!Recv
  BY <1>4 DEF Str!Recv
<1>5. CASE Str!Reply
  BY <1>5 DEF Str!Reply
<1>6. CASE Str!KillServer
  <2>1. kills + 1 \in Nat /\ kills + 1 > 0
    OBVIOUS
  <2>2. /\ Str!Up /\ srvPc' = "killed" /\ kills' = kills + 1
        /\ name' \in Str!Left /\ closed' = StrClients /\ strBacklog' = <<>>
        /\ UNCHANGED <<program, strConn, queue, answer, pcs, got, starts>>
    BY <1>6 DEF Str!KillServer
  <2> QED
    BY <1>6, EmptySeq, <2>1, <2>2
<1>7. ASSUME NEW c \in StrClients, Str!Connect(c) PROVE StrTypes'
  <2>1. Append(strBacklog, c) \in Seq(StrClients)
    BY PutIn
  <2> QED
    BY <1>7, <2>1 DEF Str!Connect
<1>8. ASSUME NEW c \in StrClients, Str!Send(c) PROVE StrTypes'
  BY <1>8 DEF Str!Send
<1>9. ASSUME NEW c \in StrClients, Str!RecvClient(c) PROVE StrTypes'
  <2>1. \E label : pcs' = pcs \/ pcs' = [pcs EXCEPT ![c] = label]
    BY <1>9 DEF Str!RecvClient
  <2> QED
    BY <1>9, <2>1 DEF Str!RecvClient
<1>10. ASSUME NEW c \in StrClients, Str!Shutdown(c) \/ Str!SendAfter(c)
       PROVE  StrTypes'
  BY <1>10 DEF Str!Shutdown, Str!SendAfter
<1>11. ASSUME NEW c \in StrClients, Str!KillClient(c) PROVE StrTypes'
  <2>1. kills + 1 \in Nat /\ kills + 1 > 0
    OBVIOUS
  <2>2. /\ pcs' = [pcs EXCEPT ![c] = "killed"] /\ kills' = kills + 1
        /\ UNCHANGED <<program, srvPc, name, strBacklog, strConn, queue, answer, closed, got, starts>>
    BY <1>11 DEF Str!KillClient
  <2> QED
    BY <2>1, <2>2
<1>12. CASE Str!Restart
  <2>0. starts' = starts + 1
    BY <1>12 DEF Str!Restart
  <2>1. starts' \in Nat /\ starts' > 0
    BY <2>0
  <2>2. strBacklog' \in Seq(StrClients)
    BY <1>12, EmptySeq DEF Str!Restart
  <2>3. /\ srvPc' = "start"
        /\ UNCHANGED <<program, queue, answer, closed, pcs, got, kills>>
    BY <1>12 DEF Str!Restart
  <2> QED
    BY <2>1, <2>2, <2>3
<1> QED
  BY <1>1, <1>2, <1>3, <1>4, <1>5, <1>6, <1>7, <1>8, <1>9, <1>10, <1>11, <1>12
  DEF Str!Next, Str!server_loop, Str!client

\* The programs that fork close no connection, so only a kill cuts their client off.
LEMMA NextForking == StrTypes /\ Forking /\ [Str!Next]_(Str!vars) => Forking'
<1> SUFFICES ASSUME StrTypes, Forking, [Str!Next]_(Str!vars) PROVE Forking'
  OBVIOUS
<1> USE DEF StrTypes, Serving, Forking, Str!srv, Str!net, Str!cli, Str!Goto, Str!Up
<1>1. CASE UNCHANGED Str!vars
  BY <1>1 DEF Str!vars
<1>2. CASE Str!Bind \/ Str!Listen \/ Str!EndBound \/ Str!TimeWaitEnds \/ Str!Close
  BY <1>2 DEF Str!Bind, Str!Listen, Str!EndBound, Str!TimeWaitEnds, Str!Close
<1>3. CASE Str!Accept
  BY <1>3 DEF Str!Accept
<1>4. CASE Str!Recv
  BY <1>4 DEF Str!Recv
<1>5. CASE Str!Reply
  BY <1>5 DEF Str!Reply
<1>6. CASE Str!KillServer
  <2>1. kills + 1 \in Nat /\ kills + 1 > 0
    OBVIOUS
  <2>2. /\ Str!Up /\ srvPc' = "killed" /\ kills' = kills + 1
        /\ name' \in Str!Left /\ closed' = StrClients /\ strBacklog' = <<>>
        /\ UNCHANGED <<program, strConn, queue, answer, pcs, got, starts>>
    BY <1>6 DEF Str!KillServer
  <2> QED
    BY <1>6, <2>1, <2>2
<1>7. ASSUME NEW c \in StrClients, Str!Connect(c) PROVE Forking'
  BY <1>7 DEF Str!Connect
<1>8. ASSUME NEW c \in StrClients, Str!Send(c) PROVE Forking'
  BY <1>8 DEF Str!Send
<1>9. ASSUME NEW c \in StrClients, Str!RecvClient(c) PROVE Forking'
  <2>1. program # "bind"
    BY <1>9 DEF Str!RecvClient
  <2>2. CASE program = "shutdown"
    <3>1. pcs' = [pcs EXCEPT ![c] = "shutdown"] \/ (closed # {} /\ pcs' = [pcs EXCEPT ![c] = "reset"])
      BY <1>9, <2>2 DEF Str!RecvClient
    <3> QED
      BY <1>9, <2>2, <3>1 DEF Str!RecvClient
  <2>3. CASE program \notin {"shutdown", "bind"}
    BY <1>9, <2>3 DEF Str!RecvClient
  <2> QED
    BY <2>1, <2>2, <2>3
<1>10. ASSUME NEW c \in StrClients, Str!Shutdown(c) \/ Str!SendAfter(c)
       PROVE  Forking'
  BY <1>10 DEF Str!Shutdown, Str!SendAfter
<1>11. ASSUME NEW c \in StrClients, Str!KillClient(c) PROVE Forking'
  <2>1. kills + 1 \in Nat /\ kills + 1 > 0
    OBVIOUS
  <2>2. /\ pcs' = [pcs EXCEPT ![c] = "killed"] /\ kills' = kills + 1
        /\ UNCHANGED <<program, srvPc, name, strBacklog, strConn, queue, answer, closed, got, starts>>
    BY <1>11 DEF Str!KillClient
  <2> QED
    BY <2>1, <2>2
<1>12. CASE Str!Restart
  BY <1>12 DEF Str!Restart
<1> QED
  BY <1>1, <1>2, <1>3, <1>4, <1>5, <1>6, <1>7, <1>8, <1>9, <1>10, <1>11, <1>12
  DEF Str!Next, Str!server_loop, Str!client

\* A killed client stays one.
LEMMA KilledStays ==
  ASSUME StrTypes, [Str!Next]_(Str!vars), NEW c \in StrClients, pcs[c] = "killed"
  PROVE  pcs'[c] = "killed"
<1> USE DEF StrTypes, Str!cli, Str!Goto, Str!Gone, Str!Ends
<1>1. CASE UNCHANGED pcs
  BY <1>1
<1>2. ASSUME NEW d \in StrClients, Str!client(d) \/ Str!KillClient(d) PROVE pcs'[c] = "killed"
  <2>1. d # c
    BY <1>2 DEF Str!client, Str!Connect, Str!Send, Str!RecvClient, Str!Shutdown, Str!SendAfter, Str!KillClient
  <2>2. \E label : pcs' = pcs \/ pcs' = [pcs EXCEPT ![d] = label]
    BY <1>2 DEF Str!client, Str!Connect, Str!Send, Str!RecvClient, Str!Shutdown, Str!SendAfter, Str!KillClient
  <2> QED
    BY <2>1, <2>2
<1> QED
  BY <1>1, <1>2
  DEF Str!Next, Str!server_loop, Str!vars, Str!Bind, Str!Listen, Str!EndBound, Str!Accept, Str!Recv, Str!Reply,
      Str!Close, Str!KillServer, Str!TimeWaitEnds, Str!Restart

\* The path and who was killed.
LEMMA NextPaths == SInv /\ [Str!Next]_(Str!vars) => Paths'
<1> SUFFICES ASSUME SInv, [Str!Next]_(Str!vars) PROVE Paths'
  OBVIOUS
<1>0. Str!Ended("killed") => Str!Ended("killed")'
  BY KilledStays DEF SInv, Str!Ended
<1>k. kills \in Nat /\ starts \in Nat /\ kills + 1 \in Nat /\ kills + 1 > 0
  BY DEF SInv, StrTypes
<1> USE DEF SInv, StrTypes, Serving, Paths, Str!srv, Str!net, Str!cli, Str!Goto, Str!Up, Str!Left
<1>1. CASE UNCHANGED Str!vars
  BY <1>0, <1>1 DEF Str!vars
<1>2. CASE Str!Bind \/ Str!Listen \/ Str!EndBound \/ Str!TimeWaitEnds \/ Str!Close
  BY <1>0, <1>2 DEF Str!Bind, Str!Listen, Str!EndBound, Str!TimeWaitEnds, Str!Close
<1>3. CASE Str!Accept
  BY <1>0, <1>3 DEF Str!Accept
<1>4. CASE Str!Recv
  BY <1>0, <1>4 DEF Str!Recv
<1>5. CASE Str!Reply
  <2>1. CASE program = "uds" /\ Str!Gone(strConn)
    <3>1. Waiting(strConn) /\ strConn \in StrClients
      BY <1>5, <2>1 DEF Str!Reply, Looping, Once
    <3>2. pcs[strConn] = "killed"
      BY <2>1, <3>1 DEF Waiting, Str!Gone, Str!Ends
    <3>3. Str!Ended("killed")
      BY <3>1, <3>2 DEF Str!Ended
    <3> QED
      BY <1>0, <1>5, <2>1, <3>3 DEF Str!Reply
  <2>2. CASE ~ (program = "uds" /\ Str!Gone(strConn))
    BY <1>0, <1>5, <2>2 DEF Str!Reply
  <2> QED
    BY <2>1, <2>2
<1>6. CASE Str!KillServer
  <2>1. kills + 1 \in Nat /\ kills + 1 > 0
    BY <1>k
  <2>2. /\ Str!Up /\ srvPc' = "killed" /\ kills' = kills + 1
        /\ name' \in Str!Left /\ closed' = StrClients /\ strBacklog' = <<>>
        /\ UNCHANGED <<program, strConn, queue, answer, pcs, got, starts>>
    BY <1>6 DEF Str!KillServer
  <2> QED
    BY <1>0, <1>6, <2>1, <2>2
<1>7. ASSUME NEW c \in StrClients, Str!Connect(c) PROVE Paths'
  BY <1>0, <1>7 DEF Str!Connect
<1>8. ASSUME NEW c \in StrClients, Str!Send(c) PROVE Paths'
  BY <1>0, <1>8 DEF Str!Send
<1>9. ASSUME NEW c \in StrClients, Str!RecvClient(c) PROVE Paths'
  <2>1. pcs' = pcs \/ \E label \in {"shutdown", "empty", "answered", "reset"} : pcs' = [pcs EXCEPT ![c] = label]
    BY <1>9 DEF Str!RecvClient
  <2> QED
    BY <1>0, <1>9, <2>1 DEF Str!RecvClient
<1>10. ASSUME NEW c \in StrClients, Str!Shutdown(c) \/ Str!SendAfter(c)
       PROVE  Paths'
  BY <1>0, <1>10 DEF Str!Shutdown, Str!SendAfter
<1>11. ASSUME NEW c \in StrClients, Str!KillClient(c) PROVE Paths'
  <2>1. kills + 1 \in Nat /\ kills + 1 > 0
    BY <1>k
  <2>2. /\ pcs' = [pcs EXCEPT ![c] = "killed"] /\ kills' = kills + 1
        /\ UNCHANGED <<program, srvPc, name, strBacklog, strConn, queue, answer, closed, got, starts>>
    BY <1>11 DEF Str!KillClient
  <2> QED
    BY <1>0, <2>1, <2>2
<1>12. CASE Str!Restart
  BY <1>0, <1>12 DEF Str!Restart
<1> QED
  BY <1>1, <1>2, <1>3, <1>4, <1>5, <1>6, <1>7, <1>8, <1>9, <1>10, <1>11, <1>12
  DEF Str!Next, Str!server_loop, Str!client

\* A cause stays one.
LEMMA CauseStays == StrTypes /\ [Str!Next]_(Str!vars) /\ Cause => Cause'
<1> SUFFICES ASSUME StrTypes, [Str!Next]_(Str!vars), Cause PROVE Cause'
  OBVIOUS
<1>k. kills \in Nat /\ starts \in Nat /\ kills + 1 > 0 /\ starts + 1 > 1
  BY DEF StrTypes
<1> USE DEF Cause, Str!srv, Str!cli, Str!Up
<1>1. CASE UNCHANGED Str!vars
  BY <1>1 DEF Str!vars
<1>2. CASE Str!KillServer
  <2>1. kills' = kills + 1
    BY <1>2 DEF Str!KillServer
  <2> QED
    BY <1>k, <2>1
<1>3. CASE Str!Restart
  <2>1. starts' = starts + 1 /\ kills' = kills /\ program' = program
    BY <1>3 DEF Str!Restart
  <2> QED
    BY <1>k, <2>1
<1>4. CASE Str!server_loop \/ Str!TimeWaitEnds
  BY <1>4 DEF Str!server_loop, Str!TimeWaitEnds, Str!Bind, Str!Listen, Str!EndBound, Str!Accept,
              Str!Recv, Str!Reply, Str!Close
<1>5. ASSUME NEW c \in StrClients, Str!client(c) PROVE Cause'
  BY <1>5 DEF Str!client, Str!Connect, Str!Send, Str!RecvClient, Str!Shutdown, Str!SendAfter
<1>6. ASSUME NEW c \in StrClients, Str!KillClient(c) PROVE Cause'
  <2>1. kills' = kills + 1
    BY <1>6 DEF Str!KillClient
  <2> QED
    BY <1>k, <2>1
<1> QED
  BY <1>1, <1>2, <1>3, <1>4, <1>5, <1>6 DEF Str!Next

\* What a looping server does keeps Once and Asked.
LEMMA ServerLooping ==
  ASSUME SInv, program \in {"uds", "hello"}, Cause => Cause',
         Str!Bind \/ Str!Listen \/ Str!EndBound \/ Str!Accept \/ Str!Recv \/ Str!Reply
         \/ Str!Close \/ Str!KillServer \/ Str!TimeWaitEnds \/ Str!Restart
  PROVE  Once' /\ Asked'
<1> USE DEF Str!srv, Str!net, Str!cli, Str!Up, Serving
<1>1. StrTypes /\ Once /\ Asked /\ Paths
  BY DEF SInv, Looping
<1>2. ASSUME UNCHANGED <<program, queue, answer, closed, pcs, got>> PROVE Asked'
  BY <1>1, <1>2 DEF Asked, AskedOf, Said, Nothing, Str!Gone
<1>3. \A c : UNCHANGED <<queue, answer, closed, pcs, got>> => (Waiting(c)' <=> Waiting(c))
  BY DEF Waiting, Nothing
<1>4. ASSUME strBacklog = <<>> \/ strBacklog' = <<>>, strBacklog' = strBacklog \/ strBacklog' = <<>>
      PROVE  Len(strBacklog') = 0
  BY <1>4, EmptySeq
<1>5. CASE Str!Bind \/ Str!TimeWaitEnds
  <2>1. /\ UNCHANGED <<program, strBacklog, strConn, queue, answer, closed, pcs, got>>
        /\ srvPc' = srvPc \/ (srvPc = "start" /\ srvPc' \in {"bound", "in use"})
    BY <1>5 DEF Str!Bind, Str!TimeWaitEnds
  <2>2. Once'
    <3>1. CASE srvPc' = srvPc
      <4>1. \A c \in StrClients : (Queued(c)' <=> Queued(c)) /\ (Waiting(c)' <=> Waiting(c))
        BY <2>1 DEF Queued, Waiting, Nothing
      <4>2. Waiting(strConn)' <=> Waiting(strConn)
        BY <2>1 DEF Waiting, Nothing
      <4> QED
        BY <1>1, <2>1, <3>1, <4>1, <4>2 DEF Once, Str!Gone, Nothing
    <3>2. CASE srvPc' # srvPc
      BY <1>1, <2>1, <3>2 DEF Once
    <3> QED
      BY <3>1, <3>2
  <2> QED
    BY <1>2, <2>1, <2>2
<1>6. CASE Str!Listen \/ Str!EndBound
  <2>1. /\ UNCHANGED <<program, strBacklog, strConn, queue, answer, closed, pcs, got>>
        /\ srvPc = "bound" /\ srvPc' \in {"accept", "done"}
    BY <1>6 DEF Str!Listen, Str!EndBound
  <2>2. Len(strBacklog') = 0
    BY <1>1, <1>4, <2>1 DEF Once
  <2>3. Once'
    BY <2>1, <2>2, EmptySeq DEF Once, Queued
  <2> QED
    BY <1>2, <2>1, <2>3
<1>7. CASE Str!KillServer
  <2>1. /\ UNCHANGED <<program, queue, answer, pcs, got>> /\ closed' = StrClients
        /\ srvPc' = "killed" /\ kills' = kills + 1
    BY <1>7 DEF Str!KillServer
  <2>2. Cause'
    <3>1. kills + 1 > 0
      BY <1>1 DEF StrTypes
    <3> QED
      BY <2>1, <3>1 DEF Cause
  <2> QED
    BY <1>1, <2>1, <2>2 DEF Once, Asked, AskedOf, Said, Nothing, Str!Gone
<1>8. CASE Str!Restart
  <2>1. /\ UNCHANGED <<program, queue, answer, closed, pcs, got>>
        /\ srvPc' = "start" /\ strBacklog' = <<>>
    BY <1>8 DEF Str!Restart
  <2> QED
    BY <1>2, <2>1 DEF Once
<1>9. CASE Str!Accept
  <2>1. /\ srvPc = "accept" /\ strBacklog # <<>> /\ strBacklog' = Tail(strBacklog)
        /\ UNCHANGED <<program, queue, answer, pcs, got>>
        /\ \/ /\ strConn' = Head(strBacklog) /\ closed' = closed
              /\ srvPc' = IF program = "hello" THEN "reply" ELSE "recv"
           \/ program = "hello" /\ srvPc' = "failed" /\ closed' = StrClients
    BY <1>9 DEF Str!Accept
  <2>2. /\ Len(strBacklog) = Len(strBacklog') + 1 /\ Len(strBacklog') \in Nat
        /\ \A j \in 1 .. Len(strBacklog') : strBacklog'[j] = strBacklog[j + 1]
        /\ Head(strBacklog) = strBacklog[1] /\ Head(strBacklog) \in StrClients
    BY <1>1, <2>1, TakeOut DEF StrTypes
  <2>3. CASE srvPc' # "failed"
    <3>1. /\ strConn' = Head(strBacklog) /\ UNCHANGED <<queue, answer, closed, pcs, got>>
          /\ srvPc' = IF program = "hello" THEN "reply" ELSE "recv"
      BY <2>1, <2>3
    <3>2. 1 \in 1 .. Len(strBacklog)
          /\ \A j \in 1 .. Len(strBacklog') : j + 1 \in 1 .. Len(strBacklog) /\ j + 1 # 1
      BY <2>2
    <3>3. /\ \A j, k \in 1 .. Len(strBacklog) : strBacklog[j] = strBacklog[k] => j = k
          /\ \A c \in StrClients : Queued(c) => Waiting(c)
      BY <1>1, <2>1 DEF Once
    <3>4. \A j, k \in 1 .. Len(strBacklog') : strBacklog'[j] = strBacklog'[k] => j = k
      <4> SUFFICES ASSUME NEW j \in 1 .. Len(strBacklog'), NEW k \in 1 .. Len(strBacklog'),
                          strBacklog'[j] = strBacklog'[k]
                   PROVE  j = k
        OBVIOUS
      <4>1. j + 1 = k + 1
        BY <2>2, <3>2, <3>3
      <4> QED
        BY <2>2, <4>1
    <3>5. ASSUME NEW c \in StrClients, Queued(c)'
          PROVE  Waiting(c)' /\ c # strConn'
      <4>1. PICK j \in 1 .. Len(strBacklog') : strBacklog'[j] = c
        BY <3>5 DEF Queued
      <4>2. strBacklog[j + 1] = c /\ c # strBacklog[1] /\ Queued(c)
        BY <2>2, <3>2, <3>3, <4>1 DEF Queued
      <4> QED
        BY <1>3, <2>2, <3>1, <3>3, <4>2
    <3>6. Waiting(strConn)'
      <4>1. Queued(Head(strBacklog))
        BY <2>2, <3>2 DEF Queued
      <4>2. Waiting(Head(strBacklog))
        BY <2>2, <3>3, <4>1
      <4> QED
        BY <3>1, <4>2 DEF Waiting, Nothing
    <3>7. Once'
      BY <2>1, <3>1, <3>4, <3>5, <3>6 DEF Once
    <3> QED
      BY <1>2, <2>1, <3>1, <3>7
  <2>4. CASE srvPc' = "failed"
    <3>1. Cause' /\ closed' = StrClients
      BY <2>1, <2>4 DEF Cause
    <3> QED
      BY <1>1, <2>1, <2>4, <3>1 DEF Once, Asked, AskedOf, Said, Nothing, Str!Gone
  <2> QED
    BY <2>3, <2>4
<1>10. CASE Str!Recv
  <2>1. /\ srvPc = "recv" /\ UNCHANGED <<program, strBacklog, strConn, queue, answer, closed, pcs, got>>
        /\ srvPc' = "reply"
        /\ \/ queue[strConn] # <<>>
           \/ Str!Gone(strConn) \/ pcs[strConn] = "after shutdown"
    BY <1>10 DEF Str!Recv
  <2>2. Waiting(strConn) /\ pcs[strConn] # "after shutdown"
    BY <1>1, <2>1 DEF Once, Waiting
  <2>3. Once'
    <3>1. \A c \in StrClients : (Queued(c)' <=> Queued(c)) /\ (Waiting(c)' <=> Waiting(c))
      BY <2>1 DEF Queued, Waiting, Nothing
    <3>2. Waiting(strConn)' /\ strConn' = strConn /\ queue' = queue
      BY <2>1, <2>2 DEF Waiting, Nothing
    <3>3. /\ \A j, k \in 1 .. Len(strBacklog) : strBacklog[j] = strBacklog[k] => j = k
          /\ \A c \in StrClients : Queued(c) => Waiting(c) /\ c # strConn
      BY <1>1, <2>1 DEF Once
    <3>4. Str!Gone(strConn)' \/ queue'[strConn'] # <<>>
      BY <2>1, <2>2 DEF Str!Gone
    <3> QED
      BY <2>1, <3>1, <3>2, <3>3, <3>4 DEF Once
  <2> QED
    BY <1>2, <2>1, <2>3
<1>11. CASE Str!Reply
  <2>1. /\ srvPc = "reply" /\ queue' = [queue EXCEPT ![strConn] = <<>>]
        /\ UNCHANGED <<program, pcs, got, kills, starts>>
        /\ \/ program = "uds" /\ Str!Gone(strConn) /\ srvPc' = "raised"
              /\ closed' = StrClients /\ UNCHANGED answer
           \/ /\ answer' = [answer EXCEPT ![strConn] = Append(@, IF program = "hello" THEN "hello" ELSE strConn)]
              /\ srvPc' = "close" /\ UNCHANGED <<strBacklog, strConn, closed>>
    BY <1>11 DEF Str!Reply
  <2>2. /\ strConn \in StrClients /\ Waiting(strConn)
        /\ program = "uds" => Str!Gone(strConn) \/ queue[strConn] # <<>>
    BY <1>1, <2>1 DEF Once, StrTypes
  <2>3. pcs[strConn] # "send"
    BY <1>1, <2>2 DEF Asked, AskedOf, Str!Gone, Str!Ends
  <2>q. \A c \in StrClients : queue'[c] = queue[c] \/ queue'[c] = <<>>
    BY <1>1, <2>1 DEF StrTypes
  <2>4. CASE srvPc' = "raised"
    <3>1. Cause'
      <4>1. pcs[strConn] = "killed" /\ kills > 0
        BY <1>1, <2>1, <2>2, <2>4 DEF Waiting, Str!Gone, Str!Ends, Paths
      <4> QED
        BY <2>1, <4>1 DEF Cause
    <3>2. Once'
      BY <2>4 DEF Once
    <3>3. UNCHANGED answer
      BY <2>1, <2>4
    <3>4. Asked'
      BY <1>1, <2>1, <2>q, <3>1, <3>3 DEF Asked, AskedOf, Said, Nothing, Str!Gone
    <3> QED
      BY <3>2, <3>4
  <2>5. CASE srvPc' = "close"
    <3>1. UNCHANGED <<strBacklog, strConn, closed, pcs, got>>
      BY <2>1, <2>5
    <3>2. answer'[strConn] = Said(strConn) /\ \A c \in StrClients : c # strConn => answer'[c] = answer[c]
      BY <1>1, <2>1, <2>2, <2>5 DEF StrTypes, Waiting, Nothing, Said
    <3>3. Said(strConn) # <<>>
      BY DEF Said
    <3>4. ASSUME NEW c \in StrClients, Waiting(c), c # strConn PROVE Waiting(c)'
      BY <3>1, <3>2, <3>4 DEF Waiting, Nothing
    <3>5. /\ \A j, k \in 1 .. Len(strBacklog) : strBacklog[j] = strBacklog[k] => j = k
          /\ \A c \in StrClients : Queued(c) => Waiting(c) /\ c # strConn
      BY <1>1, <2>1 DEF Once
    <3>6. \A c \in StrClients : Queued(c)' => Waiting(c)' /\ c # strConn
      BY <3>1, <3>4, <3>5 DEF Queued
    <3>7. Once'
      BY <2>3, <2>5, <3>1, <3>2, <3>3, <3>5, <3>6 DEF Once, Nothing
    <3>8. Asked'
      <4> SUFFICES ASSUME NEW c \in StrClients PROVE AskedOf(c)'
        BY DEF Asked
      <4>1. CASE c = strConn
        <5>1. pcs[c] \in {"recv", "killed"} /\ c \notin closed /\ got[c] = <<>>
          BY <2>2, <2>3, <4>1 DEF Waiting, Nothing
        <5> QED
          BY <2>1, <2>q, <3>1, <3>2, <4>1, <5>1 DEF Said, AskedOf
      <4>2. CASE c # strConn
        <5>1. answer'[c] = answer[c] /\ queue'[c] = queue[c]
          BY <1>1, <2>1, <3>2, <4>2 DEF StrTypes
        <5> QED
          BY <1>1, <2>1, <3>1, <5>1 DEF Asked, AskedOf, Said, Nothing, Str!Gone
      <4> QED
        BY <4>1, <4>2
    <3> QED
      BY <3>7, <3>8
  <2> QED
    BY <2>1, <2>4, <2>5
<1>12. CASE Str!Close
  <2>1. /\ srvPc = "close" /\ srvPc' = "accept" /\ closed' = closed \cup {strConn}
        /\ UNCHANGED <<program, strBacklog, queue, answer, pcs, got>>
    BY <1>12 DEF Str!Close
  <2>2. /\ \A j, k \in 1 .. Len(strBacklog) : strBacklog[j] = strBacklog[k] => j = k
        /\ \A c \in StrClients : Queued(c) => Waiting(c) /\ c # strConn
        /\ Str!Gone(strConn) \/ (pcs[strConn] # "send" /\ ~ Nothing(strConn))
        /\ strConn \in StrClients
    BY <1>1, <2>1 DEF Once, StrTypes
  <2>3. \A c \in StrClients : Queued(c)' => Waiting(c)'
    BY <2>1, <2>2 DEF Waiting, Nothing, Queued
  <2>4. Once'
    BY <2>1, <2>2, <2>3 DEF Once
  <2>5. Asked'
    BY <1>1, <2>1, <2>2 DEF Asked, AskedOf, Said, Nothing, Str!Gone
  <2> QED
    BY <2>4, <2>5
<1> QED
  BY <1>5, <1>6, <1>7, <1>8, <1>9, <1>10, <1>11, <1>12

\* what a step of client d leaves as it is
Others(d) ==
  /\ UNCHANGED <<program, srvPc, strConn>>
  /\ \A c \in StrClients : c # d =>
       /\ pcs'[c] = pcs[c] /\ queue'[c] = queue[c] /\ answer'[c] = answer[c] /\ got'[c] = got[c]
       /\ c \in closed' <=> c \in closed

\* A step of one client keeps what is said of the others.
LEMMA OthersAsked ==
  ASSUME Asked, Cause => Cause', NEW d \in StrClients, Others(d), AskedOf(d)'
  PROVE  Asked'
<1> SUFFICES ASSUME NEW c \in StrClients, c # d PROVE AskedOf(c)'
  BY DEF Asked
<1> QED
  BY DEF Asked, AskedOf, Others, Said, Nothing, Str!Gone

\* A client that waits stays so, and one that is served gives no reason to serve it again.
LEMMA OthersOnce ==
  ASSUME StrTypes, Once, NEW d \in StrClients, Others(d), strBacklog' = strBacklog,
         Waiting(d) => Waiting(d)',
         queue[d] # <<>> => queue'[d] # <<>>,
         Str!Gone(d) => Str!Gone(d)',
         pcs[d] # "send" /\ ~ Nothing(d) => Str!Gone(d)' \/ (pcs'[d] # "send" /\ ~ Nothing(d)')
  PROVE  Once'
<1>1. \A c \in StrClients : Waiting(c) => Waiting(c)'
  BY DEF Others, Waiting, Nothing
<1>2. \A c \in StrClients : Queued(c)' <=> Queued(c)
  BY DEF Queued
<1>3. /\ Str!Up' <=> Str!Up
      /\ Serving' <=> Serving
      /\ UNCHANGED <<program, srvPc, strConn>>
  BY DEF Others, Str!Up, Serving
<1>4. ASSUME Str!Up PROVE /\ srvPc \in {"recv", "reply"} => Waiting(strConn)'
                          /\ srvPc = "reply" /\ program = "uds" =>
                               Str!Gone(strConn)' \/ queue'[strConn] # <<>>
                          /\ srvPc = "close" => \/ Str!Gone(strConn)'
                                                \/ pcs'[strConn] # "send" /\ ~ Nothing(strConn)'
  <2>1. Serving => strConn \in StrClients
    BY DEF StrTypes
  <2>2. srvPc \in {"recv", "reply"} => Waiting(strConn)'
    <3> SUFFICES ASSUME srvPc \in {"recv", "reply"} PROVE Waiting(strConn)'
      OBVIOUS
    <3>1. strConn \in StrClients /\ Waiting(strConn)
      BY <1>4, <2>1 DEF Once, Serving
    <3> QED
      BY <1>1, <1>3, <3>1 DEF Waiting, Nothing
  <2>3. srvPc = "reply" /\ program = "uds" => Str!Gone(strConn)' \/ queue'[strConn] # <<>>
    BY <1>3, <1>4, <2>1 DEF Once, Serving, Others, Str!Gone
  <2>4. srvPc = "close" => \/ Str!Gone(strConn)'
                           \/ pcs'[strConn] # "send" /\ ~ Nothing(strConn)'
    <3> SUFFICES ASSUME srvPc = "close"
                 PROVE  Str!Gone(strConn)' \/ (pcs'[strConn] # "send" /\ ~ Nothing(strConn)')
      OBVIOUS
    <3>1. /\ strConn \in StrClients
          /\ Str!Gone(strConn) \/ (pcs[strConn] # "send" /\ ~ Nothing(strConn))
      BY <1>4, <2>1 DEF Once, Serving
    <3>2. CASE strConn = d
      BY <1>3, <3>1, <3>2 DEF Str!Gone, Nothing
    <3>3. CASE strConn # d
      BY <1>3, <3>1, <3>3 DEF Others, Str!Gone, Nothing
    <3> QED
      BY <3>2, <3>3
  <2> QED
    BY <2>2, <2>3, <2>4
<1>5. /\ srvPc \in {"start", "bound"} => strBacklog = <<>>
      /\ Str!Up => /\ \A j, k \in 1 .. Len(strBacklog) : strBacklog[j] = strBacklog[k] => j = k
                   /\ \A c \in StrClients : Queued(c) => Waiting(c) /\ (Serving => c # strConn)
  BY DEF Once
<1> QED
  BY <1>1, <1>2, <1>3, <1>4, <1>5 DEF Once

\* What a client of a looping server does keeps Once and Asked.
LEMMA ClientLooping ==
  ASSUME SInv, program \in {"uds", "hello"}, Cause => Cause', NEW d \in StrClients,
         Str!client(d) \/ Str!KillClient(d)
  PROVE  Once' /\ Asked'
<1> USE DEF Str!srv, Str!net, Str!cli, Str!Goto
<1>1. StrTypes /\ Once /\ Asked /\ AskedOf(d)
  BY DEF SInv, Looping, Asked
<1>2. CASE Str!Connect(d)
  <2>1. /\ pcs[d] = "start" /\ UNCHANGED <<program, srvPc, strConn, queue, answer, got, kills, starts>>
        /\ \/ /\ Str!Up /\ strBacklog' = Append(strBacklog, d) /\ closed' = closed \ {d}
              /\ pcs' = [pcs EXCEPT ![d] = IF program = "hello" THEN "recv" ELSE "send"]
           \/ /\ ~ Str!Up /\ UNCHANGED <<strBacklog, closed>>
              /\ pcs' = [pcs EXCEPT ![d] = "refused"]
    BY <1>2 DEF Str!Connect
  <2>2. Others(d)
    BY <1>1, <2>1 DEF Others, StrTypes
  <2>3. Nothing(d) /\ Nothing(d)' /\ queue[d] = <<>> /\ ~ Waiting(d)
    BY <1>1, <2>1 DEF AskedOf, Nothing, Waiting
  <2>4. AskedOf(d)'
    BY <1>1, <2>1, <2>3 DEF AskedOf, Said, Nothing, Str!Gone, Str!Ends, StrTypes
  <2>5. ASSUME ~ Str!Up PROVE Once'
    BY <1>1, <2>1, <2>5 DEF Once, Str!Up
  <2>6. ASSUME Str!Up PROVE Once'
    <3>1. /\ strBacklog' = Append(strBacklog, d) /\ closed' = closed \ {d}
          /\ pcs' = [pcs EXCEPT ![d] = IF program = "hello" THEN "recv" ELSE "send"]
      BY <2>1, <2>6
    <3>2. /\ Len(strBacklog) \in Nat /\ Len(strBacklog') = Len(strBacklog) + 1
          /\ \A j \in 1 .. Len(strBacklog) : strBacklog'[j] = strBacklog[j]
          /\ strBacklog'[Len(strBacklog) + 1] = d
      BY <1>1, <3>1, PutIn DEF StrTypes
    <3>3. /\ \A j, k \in 1 .. Len(strBacklog) : strBacklog[j] = strBacklog[k] => j = k
          /\ \A c \in StrClients : Queued(c) => Waiting(c) /\ (Serving => c # strConn)
          /\ srvPc \in {"recv", "reply"} => Waiting(strConn)
          /\ srvPc = "reply" /\ program = "uds" => Str!Gone(strConn) \/ queue[strConn] # <<>>
          /\ srvPc = "close" =>
               Str!Gone(strConn) \/ (pcs[strConn] # "send" /\ ~ Nothing(strConn))
      BY <1>1, <2>6 DEF Once
    <3>4. ~ Queued(d) /\ (Serving => strConn # d)
      BY <2>1, <2>3, <3>3 DEF Serving, Str!Gone, Str!Ends
    <3>5. \A j \in 1 .. Len(strBacklog') : j \in 1 .. Len(strBacklog) \/ j = Len(strBacklog) + 1
      BY <3>2
    <3>6. \A j \in 1 .. Len(strBacklog) : strBacklog[j] # d
      BY <3>4 DEF Queued
    <3>7. \A j, k \in 1 .. Len(strBacklog') : strBacklog'[j] = strBacklog'[k] => j = k
      BY <3>2, <3>3, <3>5, <3>6
    <3>8. \A c \in StrClients : Queued(c)' => Queued(c) \/ c = d
      BY <3>2, <3>5 DEF Queued
    <3>9. \A c \in StrClients : Waiting(c) => Waiting(c)'
      BY <2>2, <2>3 DEF Others, Waiting, Nothing
    <3>10. Waiting(d)'
      BY <1>1, <2>3, <3>1 DEF Waiting, StrTypes
    <3>11. \A c \in StrClients : Queued(c)' => Waiting(c)' /\ (Serving' => c # strConn')
      BY <2>1, <3>3, <3>4, <3>8, <3>9, <3>10 DEF Serving
    <3>12. ASSUME Serving
           PROVE  /\ srvPc \in {"recv", "reply"} => Waiting(strConn)'
                  /\ srvPc = "reply" /\ program = "uds" =>
                       Str!Gone(strConn)' \/ queue[strConn] # <<>>
                  /\ srvPc = "close" =>
                       Str!Gone(strConn)' \/ (pcs'[strConn] # "send" /\ ~ Nothing(strConn)')
      <4>1. strConn \in StrClients /\ strConn # d /\ strConn' = strConn
        BY <1>1, <2>1, <3>4, <3>12 DEF StrTypes
      <4>2. Waiting(strConn) => Waiting(strConn)'
        BY <2>2, <4>1 DEF Others, Waiting, Nothing
      <4>3. pcs'[strConn] = pcs[strConn] /\ (Nothing(strConn)' <=> Nothing(strConn))
        BY <2>2, <4>1 DEF Others, Nothing
      <4> QED
        BY <3>3, <4>1, <4>2, <4>3 DEF Str!Gone
    <3> QED
      BY <2>1, <3>3, <3>7, <3>11, <3>12, <2>6 DEF Once, Serving, Str!Up
  <2>7. Asked'
    BY <1>1, <2>2, <2>4, OthersAsked
  <2> QED
    BY <2>5, <2>6, <2>7
<1>3. CASE Str!Send(d)
  <2>1. /\ pcs[d] = "send" /\ UNCHANGED <<program, srvPc, strConn, strBacklog, answer, closed, got, kills, starts>>
        /\ \/ /\ d \in closed /\ UNCHANGED queue
              /\ \/ pcs' = [pcs EXCEPT ![d] = "reset"]
                 \/ program # "uds" /\ pcs' = [pcs EXCEPT ![d] = "sigpipe"]
           \/ /\ d \notin closed /\ pcs' = [pcs EXCEPT ![d] = "recv"]
              /\ queue' = [queue EXCEPT ![d] = <<d>>]
    BY <1>3 DEF Str!Send
  <2>2. Others(d)
    BY <1>1, <2>1 DEF Others, StrTypes
  <2>3. d \in closed => Cause
    BY <1>1, <2>1 DEF AskedOf, Str!Gone, Str!Ends
  <2>4. \E label \in {"reset", "sigpipe", "recv"} : pcs'[d] = label /\ (label = "reset" => d \in closed)
    BY <1>1, <2>1 DEF StrTypes
  <2>5. Nothing(d)' <=> Nothing(d)
    BY <2>1 DEF Nothing
  <2>6. AskedOf(d)'
    <3>1. pcs'[d] \in {"reset", "sigpipe", "recv"} /\ (pcs'[d] = "reset" => Cause') /\ (d \in closed' => Cause')
      BY <2>1, <2>3, <2>4
    <3> QED
      BY <1>1, <2>1, <3>1 DEF AskedOf, Said
  <2>7. Waiting(d) => Waiting(d)'
    BY <1>1, <2>1 DEF Waiting, Nothing, StrTypes
  <2>8. queue[d] # <<>> => queue'[d] # <<>>
    BY <1>1, <2>1 DEF AskedOf
  <2>9. ~ Str!Gone(d)
    BY <2>1 DEF Str!Gone, Str!Ends
  <2>10. Once'
    BY <1>1, <2>1, <2>2, <2>7, <2>8, <2>9, OthersOnce
  <2> QED
    BY <1>1, <2>2, <2>6, <2>10, OthersAsked
<1>4. CASE Str!RecvClient(d)
  <2>1. /\ pcs[d] = "recv" /\ UNCHANGED <<program, srvPc, strConn, strBacklog, queue, closed, kills, starts>>
        /\ \/ /\ answer[d] # <<>> /\ got' = [got EXCEPT ![d] = @ \o answer[d]]
              /\ answer' = [answer EXCEPT ![d] = <<>>]
              /\ IF program = "hello" THEN pcs' = pcs ELSE pcs' = [pcs EXCEPT ![d] = "answered"]
           \/ /\ answer[d] = <<>> /\ d \in closed /\ UNCHANGED <<got, answer>>
              /\ \/ pcs' = [pcs EXCEPT ![d] = IF got[d] = <<>> THEN "empty" ELSE "answered"]
                 \/ got[d] = <<>> /\ pcs' = [pcs EXCEPT ![d] = "reset"]
    BY <1>4 DEF Str!RecvClient
  <2>2. Others(d)
    BY <1>1, <2>1 DEF Others, StrTypes
  <2>3. ~ Str!Gone(d)
    BY <2>1 DEF Str!Gone, Str!Ends
  <2>4. CASE answer[d] # <<>>
    <3>1. got[d] = <<>> /\ answer[d] = Said(d)
      BY <1>1, <2>4 DEF AskedOf
    <3>2. <<>> \o Said(d) = Said(d) /\ Said(d) # <<>>
      <4>1. Said(d) \in Seq({IF program = "hello" THEN "hello" ELSE d})
        BY DEF Said
      <4> QED
        BY <4>1, ConcatEmptySeq DEF Said
    <3>3. got'[d] = Said(d) /\ answer'[d] = <<>> /\ pcs'[d] \in {"recv", "answered"}
      BY <1>1, <2>1, <2>4, <3>1, <3>2 DEF StrTypes
    <3>4. ~ Waiting(d) /\ ~ Nothing(d)'
      BY <2>4, <3>2, <3>3 DEF Waiting, Nothing
    <3>5. AskedOf(d)'
      BY <2>1, <3>3, <3>4 DEF AskedOf, Said
    <3>6. Once'
      BY <1>1, <2>1, <2>2, <2>3, <3>3, <3>4, OthersOnce
    <3> QED
      BY <1>1, <2>2, <3>5, <3>6, OthersAsked
  <2>5. CASE answer[d] = <<>>
    <3>1. d \in closed /\ UNCHANGED <<got, answer>> /\ (got[d] = <<>> => Cause)
      BY <1>1, <2>1, <2>3, <2>5 DEF AskedOf, Nothing
    <3>2. \/ got[d] = <<>> /\ pcs'[d] \in {"empty", "reset"}
          \/ got[d] # <<>> /\ pcs'[d] = "answered"
      BY <1>1, <2>1, <2>5 DEF StrTypes
    <3>3. ~ Waiting(d)
      BY <3>1 DEF Waiting
    <3>4. Str!Gone(d)'
      BY <3>2 DEF Str!Gone, Str!Ends
    <3>5. AskedOf(d)'
      BY <1>1, <2>1, <3>1, <3>2, <3>4 DEF AskedOf, Said
    <3>6. Once'
      BY <1>1, <2>1, <2>2, <2>3, <3>3, <3>4, OthersOnce
    <3> QED
      BY <1>1, <2>2, <3>5, <3>6, OthersAsked
  <2> QED
    BY <2>4, <2>5
<1>5. CASE Str!Shutdown(d) \/ Str!SendAfter(d)
  BY <1>1, <1>5 DEF Str!Shutdown, Str!SendAfter, AskedOf
<1>6. CASE Str!KillClient(d)
  <2>1. /\ UNCHANGED <<program, srvPc, strConn, strBacklog, queue, answer, closed, got, starts>>
        /\ pcs' = [pcs EXCEPT ![d] = "killed"] /\ kills' = kills + 1
    BY <1>6 DEF Str!KillClient
  <2>2. Others(d) /\ pcs'[d] = "killed"
    BY <1>1, <2>1 DEF Others, StrTypes
  <2>3. Cause'
    <3>1. kills + 1 > 0
      BY <1>1 DEF StrTypes
    <3> QED
      BY <2>1, <3>1 DEF Cause
  <2>4. AskedOf(d)'
    BY <1>1, <2>1, <2>2, <2>3 DEF AskedOf, Said
  <2>5. Str!Gone(d)' /\ (Waiting(d) => Waiting(d)')
    BY <2>1, <2>2 DEF Str!Gone, Str!Ends, Waiting, Nothing
  <2>6. Once'
    BY <1>1, <2>1, <2>2, <2>5, OthersOnce
  <2> QED
    BY <1>1, <2>2, <2>4, <2>6, OthersAsked
<1> QED
  BY <1>2, <1>3, <1>4, <1>5, <1>6 DEF Str!client

\* Every step of server and clients keeps the invariant.
LEMMA NextSInv == SInv /\ [Str!Next]_(Str!vars) => SInv'
<1> SUFFICES ASSUME SInv, [Str!Next]_(Str!vars) PROVE SInv'
  OBVIOUS
<1>1. StrTypes' /\ Forking' /\ Paths'
  BY NextStrTypes, NextForking, NextPaths DEF SInv
<1>2. Cause => Cause'
  BY CauseStays DEF SInv
<1>3. program' = program
  BY DEF Str!Next, Str!server_loop, Str!client, Str!vars, Str!Bind, Str!Listen, Str!EndBound, Str!Accept,
         Str!Recv, Str!Reply, Str!Close, Str!KillServer, Str!TimeWaitEnds, Str!Restart, Str!Connect,
         Str!Send, Str!RecvClient, Str!Shutdown, Str!SendAfter, Str!KillClient
<1>4. CASE UNCHANGED Str!vars
  <2>1. UNCHANGED <<program, srvPc, name, strBacklog, strConn, queue, answer, closed, pcs, got, kills, starts>>
    BY <1>4 DEF Str!vars, Str!srv, Str!net, Str!cli
  <2>2. \A c \in StrClients : (Queued(c)' <=> Queued(c)) /\ (Waiting(c)' <=> Waiting(c)) /\ (AskedOf(c)' <=> AskedOf(c))
    BY <2>1 DEF Queued, AskedOf, Said, Waiting, Nothing, Cause, Str!Gone
  <2>3. Asked' <=> Asked
    BY <2>2 DEF Asked
  <2>4. Serving => strConn \in StrClients
    BY DEF SInv, StrTypes
  <2>5. Once => Once'
    BY <2>1, <2>2, <2>4 DEF Once, Serving, Nothing, Str!Up, Str!Gone
  <2> QED
    BY <1>1, <2>1, <2>3, <2>5 DEF SInv, Looping
<1>5. CASE Str!Next
  <2>1. ASSUME program \in {"uds", "hello"} PROVE Once' /\ Asked'
    BY <1>2, <1>5, <2>1, ServerLooping, ClientLooping DEF Str!Next, Str!server_loop
  <2> QED
    BY <1>1, <1>3, <2>1 DEF SInv, Looping
<1> QED
  BY <1>4, <1>5

\* The invariant says of answers and their causes what the property asks.
LEMMA SInvAnswers == SInv => Str!AnswersUnlessCause
<1> SUFFICES ASSUME SInv PROVE Str!AnswersUnlessCause
  OBVIOUS
<1>1. ASSUME NEW c \in StrClients
      PROVE  /\ pcs[c] = "answered" => got[c] = << IF program = "hello" THEN "hello" ELSE c >>
             /\ pcs[c] \in {"empty", "reset"} =>
                  kills > 0 \/ (program = "hello" /\ (srvPc = "failed" \/ starts > 1))
  <2>1. CASE program \in {"uds", "hello"}
    BY <2>1 DEF SInv, Looping, Asked, AskedOf, Said, Cause
  <2>2. CASE program \in {"shutdown", "bind"}
    BY <2>2 DEF SInv, Forking
  <2> QED
    BY <2>1, <2>2 DEF SInv, StrTypes
<1>2. srvPc = "raised" => Str!Ended("killed") /\ name = "no"
  BY DEF SInv, Paths
<1>3. program = "uds" /\ Str!Up /\ starts > 1 => Str!Ended("killed")
  BY DEF SInv, Paths
<1> QED
  BY <1>1, <1>2, <1>3 DEF Str!AnswersUnlessCause

-----------------------------------------------------------------------------
\* In the composition: of every server on stream sockets and of both programs on datagrams,
\* a client gets no answer but its own, and one that gets none has a cause for it.
THEOREM OwnAnswersTheorem == MCSpec => []OwnAnswers
<1> DEFINE Both == SInv /\ DInv
<1>1. MCInit => Both
  BY InitSInv, InitDInv DEF MCInit
<1>2. Both /\ [MCNext]_MCVars => Both'
  <2>1. MCNext => [Str!Next]_(Str!vars) /\ [Dg!Next]_(Dg!vars)
    BY DEF MCNext, strVars, dgVars, Str!vars, Str!srv, Str!net, Str!cli, Dg!vars
  <2>2. UNCHANGED MCVars => UNCHANGED Str!vars /\ UNCHANGED Dg!vars
    BY DEF MCVars, strVars, dgVars, Str!vars, Str!srv, Str!net, Str!cli, Dg!vars
  <2> QED
    BY <2>1, <2>2, NextSInv, NextDInv
<1>3. Both => OwnAnswers
  BY SInvAnswers, DInvOwn DEF OwnAnswers
<1> HIDE DEF Both
<1> QED
  BY <1>1, <1>2, <1>3, PTL DEF MCSpec
=============================================================================
