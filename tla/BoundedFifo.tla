---------------------------- MODULE BoundedFifo ----------------------------
(***************************************************************************)
(* What the shared-memory ring buffer promises its users: a first-in       *)
(* first-out queue of bytes of bounded capacity, from which every byte is  *)
(* taken at most once and by one consumer.  The histories sent and got     *)
(* record what went in and who took what out.                              *)
(***************************************************************************)
EXTENDS Naturals, Sequences

CONSTANTS Capacity,   \* the most bytes the queue holds
          Bytes,      \* the values that may be stored
          Consumers   \* who may take a byte

VARIABLES queue, sent, got

vars == <<queue, sent, got>>

Init == queue = <<>> /\ sent = <<>> /\ got = <<>>

Put(b) ==
  /\ Len(queue) < Capacity
  /\ queue' = Append(queue, b)
  /\ sent' = Append(sent, b)
  /\ UNCHANGED got

Take(c) ==
  /\ queue # <<>>
  /\ queue' = Tail(queue)
  /\ got' = Append(got, [by |-> c, byte |-> Head(queue)])
  /\ UNCHANGED sent

Next == (\E b \in Bytes : Put(b)) \/ (\E c \in Consumers : Take(c))

Spec == Init /\ [][Next]_vars
=============================================================================
