------------------------------ MODULE MCKvLog ------------------------------
(* Keys of one character and values of two: a block is 2 + 3 bytes.  A torn *)
(* append leaves 2 bytes, so that five of them would make the file whole    *)
(* again; an instance has fewer processes than that.                        *)
EXTENDS KvLog

KeyStrings == { <<"a">>, <<"b", "a">> }
ValStrings == { <<>>, <<"a", "b", "a">> }
=============================================================================
