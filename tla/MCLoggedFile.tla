---------------------------- MODULE MCLoggedFile ----------------------------
(* A file of three cells, two overlapping writes and an empty one.         *)
EXTENDS LoggedFile

ThreeCells == 0 .. 2
TwoVals == {"a", "b"}
SomeWrites == { [off |-> 0, data |-> <<"a", "b">>],
                [off |-> 1, data |-> <<"b", "a">>],
                [off |-> 2, data |-> <<>>] }
=============================================================================
