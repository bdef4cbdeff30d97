-------------------------------- MODULE Lines --------------------------------
(***************************************************************************)
(* What reading a file line by line promises: the lines of the file, one   *)
(* after the other, the last one even without a newline, and then nothing. *)
(***************************************************************************)
EXTENDS Naturals, Sequences

CONSTANTS NL,
          keepends        \* whether the newline is given to the caller

VARIABLES rest,           \* what has not been returned yet
          lines           \* the lines returned

vars == <<rest, lines>>

Init == lines = <<>>

IsPrefixLine(n) ==
  /\ \A j \in 1 .. n - 1 : rest[j] # NL
  /\ rest[n] = NL \/ n = Len(rest)

Returned(n) == SubSeq(rest, 1, IF keepends \/ rest[n] # NL THEN n ELSE n - 1)

NextLine ==
  \E n \in 1 .. Len(rest) :
    /\ IsPrefixLine(n)
    /\ lines' = Append(lines, Returned(n))
    /\ rest' = SubSeq(rest, n + 1, Len(rest))

Spec == Init /\ [][NextLine]_vars
=============================================================================
