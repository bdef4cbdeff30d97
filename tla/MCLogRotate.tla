----------------------------- MODULE MCLogRotate -----------------------------
(* Lines of three bytes, of which a read returns at most two.  Some        *)
(* behaviours write many lines and rotate once, the others write nothing   *)
(* and rotate many times, so that both stay small.                         *)
EXTENDS LogRotate, TLC

TwoChars == <<"c", "d", "nl">>

Symmetric == Permutations(Rotators) \cup Permutations(Writers)

Budget(lines, rotations, kills, shorts) ==
  [lines |-> lines, rotations |-> rotations, kills |-> kills, shorts |-> shorts]

CountOrRotate == { Budget(3, 1, 1, 1), Budget(0, 5, 3, 0) }
OneShortWrite == { Budget(3, 1, 1, 1) }
=============================================================================
