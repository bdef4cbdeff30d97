------------------------------ MODULE LineSeek ------------------------------
(***************************************************************************)
(* archive/2025-002-fall/week2/solutions/line-by-line.c: readline collects *)
(* blocks of the file until it sees a newline and then sets the offset of  *)
(* the file back to behind that newline.                                   *)
(***************************************************************************)
EXTENDS Integers, Sequences

CONSTANTS Contents,       \* the files read
          NL,
          READSZ

VARIABLES file,
          offset,         \* of the file descriptor
          s,              \* the string being built
          pc,             \* "read", "seek", or "done" when readline has returned NULL
          lseek_offset,   \* what build_line returned
          lines           \* the lines returned: text, and whether a NUL ends it

vars == <<file, offset, s, pc, lseek_offset, lines>>

Init ==
  /\ file \in Contents
  /\ offset = 0 /\ s = <<>> /\ pc = "read" /\ lseek_offset = 0
  /\ lines = <<>>

\* cs644_str_find, plus one
Find(str) ==
  LET I == { i \in 1 .. Len(str) : str[i] = NL }
  IN  IF I # {} THEN CHOOSE i \in I : \A j \in I : i =< j ELSE 0

\* build_line's result when str has a newline
Offset(str) == (Find(str) - 1 - Len(str)) + 1

\* a read() and build_line, which asks for more
ReadMore ==
  /\ pc = "read"
  /\ \E k \in 1 .. READSZ :
       /\ k <= Len(file) - offset
       /\ s' = s \o SubSeq(file, offset + 1, offset + k)
       /\ offset' = offset + k
  /\ Find(s') = 0
  /\ UNCHANGED <<file, pc, lseek_offset, lines>>

\* a read() and build_line, which finds the newline
ReadNewline ==
  /\ pc = "read"
  /\ \E k \in 1 .. READSZ :
       /\ k <= Len(file) - offset
       /\ s' = s \o SubSeq(file, offset + 1, offset + k)
       /\ offset' = offset + k
  /\ Find(s') > 0
  /\ lseek_offset' = Offset(s')
  /\ pc' = "seek"
  /\ UNCHANGED <<file, lines>>

\* the line up to the newline, which a NUL replaces
SeekBack ==
  /\ pc = "seek"
  /\ offset' = offset + lseek_offset
  /\ lines' = Append(lines, [text |-> SubSeq(s, 1, Find(s) - 1), ended |-> TRUE])
  /\ s' = <<>>
  /\ pc' = "read"
  /\ UNCHANGED <<file, lseek_offset>>

\* read() returns 0: the string as it is, NULL if nothing was appended
ReadEof ==
  /\ pc = "read"
  /\ offset = Len(file)
  /\ IF s = <<>>
       THEN pc' = "done" /\ UNCHANGED <<s, lines>>
       ELSE /\ lines' = Append(lines, [text |-> s, ended |-> FALSE])
            /\ s' = <<>>
            /\ UNCHANGED pc
  /\ UNCHANGED <<file, offset, lseek_offset>>

Next == ReadMore \/ ReadNewline \/ SeekBack \/ ReadEof

Spec == Init /\ [][Next]_vars

\* one process that nothing holds up
FairSpec == Spec /\ WF_vars(Next)

-----------------------------------------------------------------------------
(* Properties.                                                             *)

Texts == [j \in 1 .. Len(lines) |-> lines[j].text]

\* where the current line begins
LineStart == offset - Len(s)

\* The lines returned are those of the file without their newlines, complete and in
\* order: reading ahead by a block and seeking back loses and repeats nothing.
Reference ==
  INSTANCE Lines WITH rest <- SubSeq(file, LineStart + 1, Len(file)),
                      lines <- Texts, keepends <- FALSE
IsLines == Reference!Spec

\* "Make it null-terminated so it's a valid C string": every line readline returns
\* ends in a NUL.
ReturnsCString == \A j \in 1 .. Len(lines) : lines[j].ended

\* The program gets to its end, and only when the whole file has been returned.
EndsWithAll == <>(pc = "done" /\ LineStart = Len(file))
=============================================================================
