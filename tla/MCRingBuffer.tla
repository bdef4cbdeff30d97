---------------------------- MODULE MCRingBuffer ----------------------------
(* An instance of RingBuffer for TLC.                                      *)
EXTENDS RingBuffer

\* Two rounds; producer() passes 0 .. N-1 both times, here every slot gets another
\* byte the second time round.
Changing == [k \in 0 .. 5 |-> (k % 3) + (k \div 3)]

Everybody == Procs
=============================================================================
