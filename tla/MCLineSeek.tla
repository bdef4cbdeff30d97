----------------------------- MODULE MCLineSeek -----------------------------
(* All files of at most five bytes, of which only newlines are told apart. *)
EXTENDS LineSeek, SequencesExt

Files == SeqOf({"c", "nl"}, 5)
=============================================================================
