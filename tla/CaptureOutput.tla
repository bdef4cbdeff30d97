--------------------------- MODULE CaptureOutput ---------------------------
(***************************************************************************)
(* Running a command and capturing its standard output through a pipe:     *)
(* week4/pipe_fork.py (readFirst) reads the pipe to its end before it      *)
(* waits for the child; archive/2025-002-fall/week5/solutions/pyfork.py    *)
(* (not readFirst) waits first.                                            *)
(*                                                                         *)
(* A pipe holds at most CAPACITY bytes; a read of an empty pipe waits      *)
(* while some process has the write end open, a write waits while the pipe *)
(* is full.  Bytes are counted, as a pipe keeps their order.               *)
(***************************************************************************)
EXTENDS Naturals

CONSTANTS Orders,      \* the programs: whether the parent reads before it waits
          CAPACITY,    \* of the pipe
          READSZ,      \* most bytes one read returns
          MAXOUT       \* bound: bytes the command prints

ASSUME SizeAssumption == CAPACITY \in Nat \ {0} /\ READSZ \in Nat \ {0} /\ MAXOUT \in Nat
ASSUME OrderAssumption == Orders \subseteq BOOLEAN

VARIABLES readFirst,   \* which of the programs runs
          buffered,    \* bytes in the pipe
          readEnd, writeEnd,  \* the processes that have each end open
          parent, child,      \* where each process is
          total,       \* bytes the command prints before it ends
          status,      \* exit status of the child
          printed,     \* bytes the child has written
          captured     \* bytes the parent has read

ends == <<readEnd, writeEnd>>
vars == <<readFirst, buffered, ends, parent, child, total, status, printed, captured>>

\* right after os.fork: both processes have both ends
Init ==
  /\ readFirst \in Orders
  /\ buffered = 0 /\ printed = 0 /\ captured = 0
  /\ readEnd = {"parent", "child"} /\ writeEnd = {"parent", "child"}
  /\ parent = "close_w" /\ child = "close_r"
  /\ total \in 0 .. MAXOUT
  /\ status = 0

-----------------------------------------------------------------------------
(* The child: close(r), dup2(w, stdout), exec, then the command.           *)

ChildCloseR ==
  /\ child = "close_r"
  /\ readEnd' = readEnd \ {"child"}
  /\ child' = "exec"
  /\ UNCHANGED <<readFirst, buffered, writeEnd, parent, total, status, printed, captured>>

\* exec succeeds, or fails and the handler exits with 127
ChildExec ==
  /\ child = "exec"
  /\ \/ child' = "run" /\ UNCHANGED <<ends, status>>
     \/ /\ child' = "exited" /\ status' = 127
        /\ writeEnd' = writeEnd \ {"child"} /\ UNCHANGED readEnd
  /\ UNCHANGED <<readFirst, buffered, parent, total, printed, captured>>

ChildWrite ==
  /\ child = "run"
  /\ printed < total
  /\ buffered < CAPACITY /\ readEnd # {}
  /\ buffered' = buffered + 1
  /\ printed' = printed + 1
  /\ UNCHANGED <<readFirst, ends, parent, child, total, status, captured>>

\* the command ends, with whatever status it likes; its descriptors are closed
ChildExit ==
  /\ child = "run"
  /\ printed = total
  /\ child' = "exited"
  /\ status' \in {0, 1}
  /\ writeEnd' = writeEnd \ {"child"}
  /\ UNCHANGED <<readFirst, buffered, readEnd, parent, total, printed, captured>>

\* a signal may end the command at any time (SIGPIPE, if nobody can read)
ChildKilled ==
  /\ child = "run"
  /\ child' = "exited"
  /\ status' = 9
  /\ writeEnd' = writeEnd \ {"child"}
  /\ UNCHANGED <<readFirst, buffered, readEnd, parent, total, printed, captured>>

-----------------------------------------------------------------------------
(* The parent.                                                             *)

Min2(a, b) == IF a < b THEN a ELSE b

ParentCloseW ==
  /\ parent = "close_w"
  /\ writeEnd' = writeEnd \ {"parent"}
  /\ parent' = IF readFirst THEN "read" ELSE "wait"
  /\ UNCHANGED <<readFirst, buffered, readEnd, child, total, status, printed, captured>>

\* mutant: a short read is taken for the end of the output
ParentReadShort ==
  /\ parent = "read"
  /\ buffered > 0
  /\ \E k \in 1 .. Min2(READSZ, buffered) :
       /\ buffered' = buffered - k /\ captured' = captured + k
       /\ IF k < READSZ THEN parent' = "wait" /\ readEnd' = readEnd \ {"parent"}
                        ELSE UNCHANGED <<parent, readEnd>>
  /\ UNCHANGED <<readFirst, writeEnd, child, total, status, printed>>

\* one os.read of _read_all, or of the file object's read()
ParentRead ==
  /\ parent = "read"
  /\ buffered > 0
  /\ \E k \in 1 .. Min2(READSZ, buffered) :
       buffered' = buffered - k /\ captured' = captured + k
  /\ UNCHANGED <<readFirst, ends, parent, child, total, status, printed>>

\* mutant: the loop does not stop at an empty read
ParentEofAgain ==
  /\ parent = "read"
  /\ buffered = 0 /\ writeEnd = {}
  /\ UNCHANGED vars

\* end of file, then os.close(r)
ParentEof ==
  /\ parent = "read"
  /\ buffered = 0 /\ writeEnd = {}
  /\ readEnd' = readEnd \ {"parent"}
  /\ parent' = IF readFirst THEN "wait" ELSE "returned"
  /\ UNCHANGED <<readFirst, buffered, writeEnd, child, total, status, printed, captured>>

\* os.waitpid; pipe_fork.py then raises on a non-zero status
ParentWait ==
  /\ parent = "wait"
  /\ child = "exited"
  /\ child' = "reaped"
  /\ parent' = IF ~ readFirst THEN "read" ELSE IF status = 0 THEN "returned" ELSE "raised"
  /\ UNCHANGED <<readFirst, buffered, ends, total, status, printed, captured>>

-----------------------------------------------------------------------------
Parent == ParentCloseW \/ ParentRead \/ ParentEof \/ ParentWait
Child == ChildCloseR \/ ChildExec \/ ChildWrite \/ ChildExit

Finished == parent \in {"returned", "raised"}

Next == Parent \/ Child \/ ChildKilled

Spec == Init /\ [][Next]_vars

\* Both processes are scheduled, and the command does end once it has printed all;
\* no signal need come.
FairSpec == Spec /\ WF_vars(Parent) /\ WF_vars(Child)

-----------------------------------------------------------------------------
(* Properties.                                                             *)

\* When the function is over it has all the child printed, the child is reaped, and
\* no end of the pipe is left open: the end of file it saw was the real one.
\* pipe_fork.py returns normally only if the command printed all it had to.
CapturedAll ==
  /\ Finished => /\ captured = printed
                 /\ child = "reaped"
                 /\ readEnd = {} /\ writeEnd = {}
  /\ parent = "returned" /\ readFirst => captured = total

\* The function gets to its end, and does not wait for ever for a child that waits
\* for room in the pipe: always if it reads first, and otherwise if the pipe has
\* room for all the command prints.
ReturnsUnlessPipeFills == (readFirst \/ total <= CAPACITY) => <>Finished

\* "Runs the command specified by `args`, returning its captured standard output":
\* the function gets to its end, however much the command prints.
Returns == <>Finished
=============================================================================
