----------------------------- MODULE IoUringCat -----------------------------
(***************************************************************************)
(* archive/2025-002-fall/week9/cat_io_uring.c, which works on the two      *)
(* rings itself, and cat_liburing.c, which leaves them to liburing.  Each  *)
(* file is one readv request into buffers for the size fstat gave; the     *)
(* kernel completes it later, in full, in part when the file has become    *)
(* shorter, or with an error.  A file is its number of blocks.             *)
(***************************************************************************)
EXTENDS Integers, Sequences

CONSTANTS Files,          \* bound: files on the command line
          Sizes,          \* blocks a file may have
          QUEUE_DEPTH, CQ_ENTRIES,
          WRAP            \* the indices of the rings are unsigned: modulo WRAP

ASSUME RingAssumption ==
  /\ Files \in Nat /\ Sizes \subseteq Nat
  /\ QUEUE_DEPTH \in Nat \ {0} /\ CQ_ENTRIES \in Nat \ {0} /\ WRAP \in Nat
  /\ WRAP % QUEUE_DEPTH = 0 /\ WRAP % CQ_ENTRIES = 0 /\ CQ_ENTRIES < WRAP

VARIABLES liburing,                  \* which of the two programs
          sqHead, sqTail, sqes,      \* submission ring; an entry is a file_info
          cqHead, cqTail, cqes,      \* completion ring: [fi, res]
          inflight,                  \* requests the kernel works on
          overflow,                  \* completions there is no room for in the ring
          filled,                    \* blocks read into the buffers of each file
          file,                      \* the file of the current turn of the main loop
          head,                      \* read_from_cq's local copy
          pc,                        \* "submit", "enter", "wait", "reap", "done"
          printed                    \* the files printed: [name, blocks, filled]

sq == <<sqHead, sqTail, sqes>>
cq == <<cqHead, cqTail, cqes>>
vars == <<liburing, sq, cq, inflight, overflow, filled, file, head, pc, printed>>

Error == -1                \* any negative result
Unread == -2

Init ==
  /\ liburing \in BOOLEAN
  /\ sqHead = 0 /\ sqTail = 0 /\ sqes = <<>>
  /\ cqHead = 0 /\ cqTail = 0 /\ cqes = <<>>
  /\ inflight = {} /\ overflow = <<>>
  /\ filled = [f \in 1 .. Files |-> Unread]
  /\ file = 1 /\ head = 0
  /\ pc = "submit"
  /\ printed = <<>>

Put(ring, j, entry) == [k \in DOMAIN ring \cup {j} |-> IF k = j THEN entry ELSE ring[k]]

\* submit_to_sq, submit_read_request: one entry, and the tail after it
Submit ==
  /\ pc = "submit" /\ file <= Files
  /\ \E blocks \in Sizes :
       sqes' = Put(sqes, sqTail % QUEUE_DEPTH, [name |-> file, blocks |-> blocks])
  /\ sqTail' = (sqTail + 1) % WRAP
  /\ pc' = "enter"
  /\ UNCHANGED <<liburing, sqHead, cq, inflight, overflow, filled, file, head, printed>>

\* mutant: the submission is never made
EnterNothing ==
  /\ pc = "enter"
  /\ pc' = "wait"
  /\ UNCHANGED <<liburing, sq, cq, inflight, overflow, filled, file, head, printed>>

\* io_uring_enter, io_uring_submit: the kernel takes the entry
Enter ==
  /\ pc = "enter"
  /\ sqHead # sqTail
  /\ inflight' = inflight \cup {sqes[sqHead % QUEUE_DEPTH]}
  /\ sqHead' = (sqHead + 1) % WRAP
  /\ pc' = "wait"
  /\ UNCHANGED <<liburing, sqTail, sqes, cq, overflow, filled, file, head, printed>>

CqRoom == (cqTail + WRAP - cqHead) % WRAP < CQ_ENTRIES

\* the kernel completes a request at any time
Complete ==
  \E fi \in inflight : \E res \in {Error} \cup 0 .. fi.blocks :
    /\ inflight' = inflight \ {fi}
    /\ filled' = [filled EXCEPT ![fi.name] = res]
    /\ LET cqe == [fi |-> fi, res |-> res]
       IN  IF CqRoom
           THEN /\ cqes' = Put(cqes, cqTail % CQ_ENTRIES, cqe)
                /\ cqTail' = (cqTail + 1) % WRAP
                /\ UNCHANGED overflow
           ELSE overflow' = Append(overflow, cqe) /\ UNCHANGED <<cqes, cqTail>>
    /\ UNCHANGED <<liburing, sq, cqHead, file, head, pc, printed>>

\* the minimum of one completion io_uring_enter waits for, io_uring_wait_cqe
Wait ==
  /\ pc = "wait" /\ cqHead # cqTail
  /\ pc' = "reap"
  /\ head' = cqHead
  /\ UNCHANGED <<liburing, sq, cq, inflight, overflow, filled, file, printed>>

Cqe == cqes[head % CQ_ENTRIES]

\* all blocks of the size fstat gave, whatever was read into them
Output(fi) ==
  printed' = Append(printed, [name |-> fi.name, blocks |-> fi.blocks,
                              filled |-> filled[fi.name]])

NextFile ==
  /\ file' = file + 1
  /\ pc' = "submit"

\* read_from_cq prints one completion and looks for the next
Reap ==
  /\ pc = "reap" /\ ~ liburing /\ head # cqTail /\ Cqe.res # Error
  /\ Output(Cqe.fi)
  /\ head' = (head + 1) % WRAP
  /\ UNCHANGED <<liburing, sq, cq, inflight, overflow, filled, file, pc>>

\* read_from_cq says that it failed and looks at the same completion again
ReapError ==
  /\ pc = "reap" /\ ~ liburing /\ head # cqTail /\ Cqe.res = Error
  /\ UNCHANGED vars

ReapEnd ==
  /\ pc = "reap" /\ ~ liburing /\ head = cqTail
  /\ cqHead' = head
  /\ NextFile
  /\ UNCHANGED <<liburing, sq, cqTail, cqes, inflight, overflow, filled, head, printed>>

\* mutant: the completion is not marked as seen
PrintUnseen ==
  /\ pc = "reap" /\ liburing /\ Cqe.res # Error
  /\ Output(Cqe.fi)
  /\ NextFile
  /\ UNCHANGED <<liburing, sq, cq, inflight, overflow, filled, head>>

\* get_completion_and_print; the main program does not look at its result
PrintFile ==
  /\ pc = "reap" /\ liburing /\ Cqe.res # Error
  /\ Output(Cqe.fi)
  /\ cqHead' = (cqHead + 1) % WRAP
  /\ NextFile
  /\ UNCHANGED <<liburing, sq, cqTail, cqes, inflight, overflow, filled, head>>

\* the completion of a failed read is not marked as seen
PrintFailed ==
  /\ pc = "reap" /\ liburing /\ Cqe.res = Error
  /\ NextFile
  /\ UNCHANGED <<liburing, sq, cq, inflight, overflow, filled, head, printed>>

Done ==
  /\ pc = "submit" /\ file > Files
  /\ pc' = "done"
  /\ UNCHANGED <<liburing, sq, cq, inflight, overflow, filled, file, head, printed>>

Next ==
  \/ Submit \/ Enter \/ Complete \/ Wait \/ Done
  \/ Reap \/ ReapError \/ ReapEnd \/ PrintFile \/ PrintFailed

Spec == Init /\ [][Next]_vars

\* the program runs, and the kernel completes every request
FairSpec == Spec /\ WF_vars(Next) /\ WF_vars(Complete)

-----------------------------------------------------------------------------
(* Properties.                                                             *)

\* a request is never overwritten in the submission ring before the kernel took it,
\* and read_from_cq leaves no completion behind, so that the ring has always room
RingsSuffice ==
  /\ (sqTail + WRAP - sqHead) % WRAP <= QUEUE_DEPTH
  /\ ~ liburing => overflow = <<>> /\ (cqTail + WRAP - cqHead) % WRAP <= 1

\* The rings never run over, also when their indices wrap; and the files come out in the
\* order of the command line, none twice, and none before its own read has come to an
\* end without an error.
Faithful ==
  /\ RingsSuffice
  /\ \A j, k \in DOMAIN printed : j < k => printed[j].name < printed[k].name
  /\ \A k \in DOMAIN printed : printed[k].filled \in 0 .. printed[k].blocks

\* Without a failed read every file is printed; cat_liburing ends even with one.
AllPrinted ==
  /\ \/ <>(pc = "done" /\ Len(printed) = Files)
     \/ <>(\E j \in DOMAIN cqes : cqes[j].res = Error)
  /\ liburing => <>(pc = "done")
=============================================================================
