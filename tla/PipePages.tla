------------------------------ MODULE PipePages ------------------------------
(***************************************************************************)
(* How much fits into a pipe that nobody reads: write_atomic ("atomic")    *)
(* and write_limit ("limit") of week4/pipe_edge_cases.py, and pipebuffer.c *)
(* ("buffer").  The pipe of Linux is a ring of pages.  A write() first     *)
(* puts its remainder modulo a page behind what the last page holds, if    *)
(* that fits, and then the rest into new pages; it waits when there are    *)
(* no more.                                                                *)
(***************************************************************************)
EXTENDS Integers, SequencesExt, Folds

CONSTANTS Programs,
          PAGE, PAGES,    \* 4096 bytes, 16 pages
          WriteSize,      \* of each program: write_size, BUFSZ, 1
          NumWrites       \* num_writes, the values tried

VARIABLES program, num_writes,
          pipe,           \* bytes in each page
          left,           \* bytes each process has still to write
          pc,             \* of the parent: children to fork, then -1 for the reads,
                          \* -2 at the end and -3 after an exception
          n               \* bytes written, samples read

vars == <<program, num_writes, pipe, left, pc, n>>

Size == WriteSize[program]
Loops == program # "atomic"

Init ==
  /\ program \in Programs
  /\ num_writes \in IF Loops THEN {1} ELSE NumWrites
  /\ pipe = <<>> /\ n = 0
  /\ left = [i \in 1 .. num_writes |-> IF Loops THEN Size ELSE 0]
  /\ pc = IF Loops THEN 0 ELSE num_writes

-----------------------------------------------------------------------------
\* the pipe and what is left of a write of k bytes
NewPages(p, k) ==
  LET fit == (PAGES - Len(p)) * PAGE
      put == IF k < fit THEN k ELSE fit
      full == [i \in 1 .. put \div PAGE |-> PAGE]
  IN << p \o full \o (IF put % PAGE = 0 THEN <<>> ELSE << put % PAGE >>), k - put >>

\* mutant: what is written always begins in a new page
WriteIntoNew(p, k) == NewPages(p, k)

WriteInto(p, k) ==
  IF k = Size /\ p # <<>> /\ (k % PAGE) > 0 /\ Last(p) + (k % PAGE) <= PAGE
    THEN NewPages(Front(p) \o << Last(p) + (k % PAGE) >>, k - (k % PAGE))
    ELSE NewPages(p, k)

\* _fork_n, the last number first
Fork ==
  /\ pc \in 1 .. num_writes
  /\ left' = [left EXCEPT ![pc] = Size]
  /\ pc' = pc - 1
  /\ UNCHANGED <<program, num_writes, pipe, n>>

Write(i) ==
  /\ left[i] > 0
  /\ LET after == WriteInto(pipe, left[i])
     IN /\ after[2] < left[i]
        /\ pipe' = after[1]
        /\ left' = [left EXCEPT ![i] = IF after[2] = 0 /\ Loops THEN Size ELSE after[2]]
        /\ n' = IF Loops THEN n + left[i] - after[2] ELSE n
  /\ UNCHANGED <<program, num_writes, pc>>

\* waitpid for every child
Wait ==
  /\ ~ Loops /\ pc = 0 /\ \A i \in 1 .. num_writes : left[i] = 0
  /\ pc' = -1
  /\ UNCHANGED <<program, num_writes, pipe, left, n>>

\* write_size bytes, which are those of one child as none of them had to wait
Read ==
  /\ pc = -1
  /\ n' = n + 1 /\ pc' = IF n' = num_writes THEN -2 ELSE pc
  /\ pipe' = IF n' = num_writes THEN <<>> ELSE pipe
  /\ UNCHANGED <<program, num_writes, left>>

Full(i) == left[i] > 0 /\ WriteInto(pipe, left[i])[2] = left[i]

\* SIGALRM raises an exception in write()
Alarm ==
  /\ program = "limit" /\ pc = 0 /\ Full(1)
  /\ pc' = -3
  /\ UNCHANGED <<program, num_writes, pipe, left, n>>

Next == Fork \/ (\E i \in 1 .. num_writes : Write(i)) \/ Wait \/ Read \/ Alarm

\* every process runs when it can
Spec == Init /\ [][Next]_vars /\ WF_vars(Next)

-----------------------------------------------------------------------------
Needed == num_writes + (num_writes + 1) \div 2

\* write_atomic ends if each pair of writes has three pages, and otherwise waits for ever
\* though bytes may be free (the eleventh of its TODO, :55); a program that writes in a loop
\* fills the pipe to the last byte, as its writes divide a page, and then waits or is
\* interrupted.
FillsPages ==
  /\ program = "atomic" /\ Needed <= PAGES => <>(pc = -2)
  /\ program = "atomic" /\ Needed > PAGES =>
       <>[](pc = 0 /\ \E i \in 1 .. num_writes : Full(i))
  /\ Loops => <>[](n = PAGE * PAGES /\ (program = "limit" => pc = -3))
=============================================================================
