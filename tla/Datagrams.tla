------------------------------ MODULE Datagrams ------------------------------
(***************************************************************************)
(* The programs of archive/2025-002-fall/week6 that send datagrams:        *)
(* rot13_udp.c ("rot13"), whose server answers each client, and recv.c     *)
(* ("recv"), whose client sends letters and then a message that is longer  *)
(* than the server's buffer.  A datagram may get lost, on one machine      *)
(* only when nobody has bound the port or a buffer is full.                *)
(***************************************************************************)
EXTENDS Integers, Sequences

CONSTANTS Programs, Clients, None,
          Messages,       \* of recv.c: sequences of bytes
          BUFSZ           \* sizeof buf - 1, 3

VARIABLES program,
          server,         \* "start", "recv", "send", "bailed"
          inbox,          \* datagrams at the server: who sent what
          src_addr, addrlen, buf,
          pc, mail,       \* of each client, and the datagrams that have come to it
          sent, received, \* of recv.c
          lost, stale     \* ghosts; stale: an address length was not right

vars == <<program, server, inbox, src_addr, addrlen, buf, pc, mail, sent, received, lost, stale>>

Init ==
  /\ program \in Programs
  /\ server = "start" /\ inbox = <<>> /\ buf = <<>>
  /\ src_addr = None /\ addrlen \in {"ok", "zero", "negative"}    \* not initialized
  /\ \E one \in Clients :
       pc = [c \in Clients |-> IF program = "rot13" \/ c = one THEN "send" ELSE "none"]
  /\ mail = [c \in Clients |-> <<>>]
  /\ sent = 0 /\ received = <<>> /\ lost = FALSE /\ stale = FALSE

-----------------------------------------------------------------------------
Bind ==
  /\ server = "start" /\ server' = "recv"
  /\ UNCHANGED <<program, inbox, src_addr, addrlen, buf, pc, mail, sent, received, lost, stale>>

\* a client's sendto; what rot13 does to a message is a count
Sendto(c) ==
  /\ pc[c] = "send"
  /\ LET message == IF program = "rot13" THEN [from |-> c, rot |-> 0] ELSE Messages[sent + 1]
         last == program = "rot13" \/ sent + 1 = Len(Messages)
     IN /\ \/ server # "start" /\ inbox' = Append(inbox, message) /\ UNCHANGED lost
           \/ lost' = TRUE /\ UNCHANGED inbox
        /\ pc' = IF last THEN [pc EXCEPT ![c] = IF program = "rot13" THEN "recv" ELSE "done"] ELSE pc
        /\ sent' = sent + 1
  /\ UNCHANGED <<program, server, src_addr, addrlen, buf, mail, received, stale>>

\* recvfrom() reads *addrlen and writes it: with zero it does not write src_addr, which
\* holds what was there before; the variable may or may not keep its value in the loop
Recvfrom ==
  /\ program = "rot13" /\ server = "recv" /\ inbox # <<>>
  /\ inbox' = Tail(inbox)
  /\ IF addrlen = "negative"
       THEN server' = "bailed" /\ stale' = TRUE /\ UNCHANGED <<src_addr, buf>>
       ELSE /\ buf' = Head(inbox) /\ server' = "send"
            /\ src_addr' = IF addrlen = "ok" THEN Head(inbox).from ELSE src_addr
            /\ stale' = (stale \/ addrlen # "ok")
  /\ UNCHANGED <<program, addrlen, pc, mail, sent, received, lost>>

\* rot13(buf), which stops at a byte 0 or goes on behind the message; sendto() bails if
\* there is no address
Reply ==
  /\ server = "send"
  /\ \/ /\ src_addr = None
        /\ server' = "bailed" /\ UNCHANGED <<mail, lost>>
     \/ /\ src_addr # None /\ server' = "recv"
        /\ \/ mail' = [mail EXCEPT ![src_addr] = Append(@, [buf EXCEPT !.rot = 1])] /\ UNCHANGED lost
           \/ lost' = TRUE /\ UNCHANGED mail
  /\ addrlen' \in {"ok", "zero", "negative"}
  /\ UNCHANGED <<program, inbox, src_addr, buf, pc, sent, received, stale>>

\* what recv() puts into the buffer
Cut(message) == SubSeq(message, 1, IF Len(message) < BUFSZ THEN Len(message) ELSE BUFSZ)

\* one datagram, of which the rest is thrown away
Recv ==
  /\ program = "recv" /\ server = "recv" /\ inbox # <<>>
  /\ inbox' = Tail(inbox)
  /\ received' = Append(received, Cut(Head(inbox)))
  /\ UNCHANGED <<program, server, src_addr, addrlen, buf, pc, mail, sent, lost, stale>>

\* whatever comes first, from whomever
RecvClient(c) ==
  /\ pc[c] = "recv" /\ mail[c] # <<>>
  /\ pc' = [pc EXCEPT ![c] = "done"]
  /\ UNCHANGED <<program, server, inbox, src_addr, addrlen, buf, mail, sent, received, lost, stale>>

Next ==
  \/ Bind \/ Recvfrom \/ Reply \/ Recv
  \/ \E c \in Clients : Sendto(c) \/ RecvClient(c)

\* the processes run when they can
Spec ==
  /\ Init /\ [][Next]_vars
  /\ WF_vars(Bind \/ Recvfrom \/ Reply \/ Recv)
  /\ \A c \in Clients : WF_vars(Sendto(c) \/ RecvClient(c))

-----------------------------------------------------------------------------
(* Properties.                                                             *)

\* If the server has the right address lengths, what comes to a client is the answer to its
\* own message, once; the server of recv.c takes no two datagrams for one or one for
\* two: each is received by a call of its own, cut to the buffer, in order if none is lost.
OwnAnswers ==
  /\ ~ stale => \A c \in Clients : mail[c] \in {<<>>, << [from |-> c, rot |-> 1] >>}
  /\ \A i \in 1 .. Len(received) : \E k \in 1 .. sent : received[i] = Cut(Messages[k])
  /\ ~ lost => \A i \in 1 .. Len(received) : received[i] = Cut(Messages[i])

\* Every client is answered, or a datagram was lost (nobody sends again, and the client waits
\* for ever) or the server used an address length that nothing had set.
AllAnswered ==
  <>(lost \/ stale \/ \A c \in Clients : pc[c] \in {"none", "done"})
=============================================================================
