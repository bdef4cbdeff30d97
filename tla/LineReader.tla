----------------------------- MODULE LineReader -----------------------------
(***************************************************************************)
(* class LineReader of week1/line_by_line.py: read_line keeps what it read *)
(* too much in a buffer.  The main program calls it until it returns an    *)
(* empty line.  os.read may return less than it was asked for.             *)
(***************************************************************************)
EXTENDS Integers, Sequences

CONSTANTS Contents,       \* the files read
          NL,
          chunk_size

VARIABLES unread,         \* the file from the offset of the descriptor on
          buffer, eof,
          pc,             \* "main", in the loop of read_line, or "done"
          lines           \* what read_line has returned to the main program

vars == <<unread, buffer, eof, pc, lines>>

Init ==
  /\ unread \in Contents
  /\ buffer = <<>> /\ eof = FALSE
  /\ pc = "main"
  /\ lines = <<>>

\* buffer.find(b"\n") + 1
NewlineEnd ==
  LET I == { i \in 1 .. Len(buffer) : buffer[i] = NL }
  IN  IF I # {} THEN CHOOSE i \in I : \A j \in I : i =< j ELSE 0

\* an empty line is the end for the main program
Return(line) ==
  IF line = <<>> THEN pc' = "done" /\ UNCHANGED lines
                 ELSE pc' = "main" /\ lines' = Append(lines, line)

\* mutant: the rest of the buffer is thrown away
ConsumeAll(n) ==
  /\ Return(SubSeq(buffer, 1, n))
  /\ buffer' = <<>>

\* _consume_from_buffer, and read_line returns
Consume(n) ==
  /\ Return(SubSeq(buffer, 1, n))
  /\ buffer' = SubSeq(buffer, n + 1, Len(buffer))

CallReadLine ==
  /\ pc = "main"
  /\ IF eof THEN pc' = "done" ELSE pc' = "loop"
  /\ UNCHANGED <<unread, buffer, eof, lines>>

ConsumeLine ==
  /\ pc = "loop" /\ NewlineEnd > 0
  /\ Consume(NewlineEnd)
  /\ UNCHANGED <<unread, eof>>

ConsumeRest ==
  /\ pc = "loop" /\ NewlineEnd = 0
  /\ eof
  /\ Consume(Len(buffer))
  /\ UNCHANGED <<unread, eof>>

\* _read_into_buffer
ReadIntoBuffer ==
  /\ pc = "loop" /\ NewlineEnd = 0 /\ ~ eof
  /\ \/ unread = <<>> /\ eof' = TRUE /\ UNCHANGED <<unread, buffer>>
     \/ /\ \E k \in 1 .. chunk_size :
             /\ k <= Len(unread)
             /\ buffer' = buffer \o SubSeq(unread, 1, k)
             /\ unread' = SubSeq(unread, k + 1, Len(unread))
        /\ UNCHANGED eof
  /\ UNCHANGED <<pc, lines>>

Next == CallReadLine \/ ConsumeLine \/ ConsumeRest \/ ReadIntoBuffer

Spec == Init /\ [][Next]_vars

\* one process that nothing holds up
FairSpec == Spec /\ WF_vars(Next)

-----------------------------------------------------------------------------
(* Properties.                                                             *)

\* The lines returned are those of the file, complete and in order, however short
\* the reads are and wherever in the buffer a newline falls.
Reference == INSTANCE Lines WITH rest <- buffer \o unread, keepends <- TRUE
IsLines == Reference!Spec

\* "Returns an empty bytestring at end of file": the main program gets to its end, and
\* has then seen the whole file, also one without a newline at the end.
EndsWithAll == <>(pc = "done" /\ buffer = <<>> /\ unread = <<>>)
=============================================================================
