----------------------------- MODULE AtomicFile -----------------------------
(***************************************************************************)
(* What write-ahead logging promises of a file: a logged write takes place *)
(* as a whole or not at all, whatever crash happens, and once it has been  *)
(* acknowledged no crash undoes it.  recent is the set of the contents     *)
(* since the last acknowledgement, that one included.                      *)
(***************************************************************************)
CONSTANTS Writes,                 \* the writes that may be logged
          Overwrite(_, _)         \* the content after a write

VARIABLES content, recent

vars == <<content, recent>>

Init == recent = {content}

Put(w) ==
  /\ content' = Overwrite(content, w)
  /\ recent' = recent \cup {content'}

Acknowledge == recent' = {content} /\ UNCHANGED content

Crash == content' \in recent /\ UNCHANGED recent

Next == (\E w \in Writes : Put(w)) \/ Acknowledge \/ Crash

Spec == Init /\ [][Next]_vars
=============================================================================
