-------------------------------- MODULE Fifo --------------------------------
(***************************************************************************)
(* week4/myfifo.py: a server that opens a named pipe, reads it to its end  *)
(* and opens it again, until a read returns "exit".  Writers are commands  *)
(* such as "echo hello > fifo", each of which writes one line.             *)
(*                                                                         *)
(* The server never closes what it has opened, so that after the first     *)
(* round there is always a reader: a writer need not wait for the server   *)
(* to open the pipe, and what it wrote stays there when it is gone.        *)
(***************************************************************************)
EXTENDS Naturals, Sequences, FiniteSets

CONSTANTS Writers,
          MaxFds          \* RLIMIT_NOFILE, less the standard files

Lines == {"hello", "exit"}

VARIABLES fds,            \* descriptors of the pipe that the server holds
          pc,             \* "open", "wait" in open(), "read" or an end
          exists,         \* the name
          pipe,           \* lines written and not read
          line, wpc,      \* of each writer: what it writes, where it is
          read            \* what each read returned, sequences of lines

vars == <<fds, pc, exists, pipe, line, wpc, read>>

Init ==
  /\ fds = 0 /\ pc = "open" /\ exists = TRUE
  /\ pipe = <<>> /\ read = <<>>
  /\ line \in [Writers -> Lines] /\ wpc = [w \in Writers |-> "start"]

Opened == { w \in Writers : wpc[w] \in {"opened", "written"} }
ServerRuns == pc \in {"open", "wait", "read"}
Readers == fds + (IF pc = "wait" THEN 1 ELSE 0)

-----------------------------------------------------------------------------
(* The server.  open() waits for a writer to come if none has it open.     *)

Open ==
  /\ pc = "open"
  /\ IF fds = MaxFds THEN pc' = "raised" /\ exists' = FALSE /\ UNCHANGED fds
     ELSE /\ IF Opened = {} THEN pc' = "wait" /\ UNCHANGED fds
                            ELSE pc' = "read" /\ fds' = fds + 1
          /\ UNCHANGED exists
  /\ UNCHANGED <<pipe, line, wpc, read>>

\* no writer has it open and nothing is left
ReadEof ==
  /\ pc = "read" /\ pipe = <<>> /\ Opened = {}
  /\ pc' = "open"
  /\ UNCHANGED <<fds, exists, pipe, line, wpc, read>>

\* mutant: only the inner loop is left
ReadBreaks ==
  /\ pc = "read" /\ pipe # <<>>
  /\ read' = Append(read, pipe) /\ pipe' = <<>>
  /\ pc' = IF pipe = <<"exit">> THEN "open" ELSE pc
  /\ UNCHANGED <<fds, exists, line, wpc>>

\* 4096 bytes at most, here all that there is
Read ==
  /\ pc = "read" /\ pipe # <<>>
  /\ read' = Append(read, pipe) /\ pipe' = <<>>
  /\ IF pipe = <<"exit">> THEN pc' = "exited" /\ exists' = FALSE
                          ELSE UNCHANGED <<pc, exists>>
  /\ UNCHANGED <<fds, line, wpc>>

Kill ==
  /\ ServerRuns
  /\ pc' = "killed"
  /\ UNCHANGED <<fds, exists, pipe, line, wpc, read>>

-----------------------------------------------------------------------------
(* A writer.                                                               *)

\* it waits for a reader, and it wakes the server; later the shell makes a file
WOpen(w) ==
  /\ wpc[w] = "start"
  /\ \/ ~ exists /\ wpc' = [wpc EXCEPT ![w] = "no pipe"] /\ UNCHANGED <<pc, fds>>
     \/ /\ exists /\ ServerRuns /\ Readers > 0
        /\ wpc' = [wpc EXCEPT ![w] = "opened"]
        /\ pc' = IF pc = "wait" THEN "read" ELSE pc
        /\ fds' = IF pc = "wait" THEN fds + 1 ELSE fds
  /\ UNCHANGED <<exists, pipe, line, read>>

\* SIGPIPE if the server is gone
Write(w) ==
  /\ wpc[w] = "opened"
  /\ IF ServerRuns THEN pipe' = Append(pipe, line[w]) /\ wpc' = [wpc EXCEPT ![w] = "written"]
                   ELSE wpc' = [wpc EXCEPT ![w] = "killed"] /\ UNCHANGED pipe
  /\ UNCHANGED <<fds, pc, exists, line, read>>

Close(w) ==
  /\ wpc[w] = "written"
  /\ wpc' = [wpc EXCEPT ![w] = "closed"]
  /\ UNCHANGED <<fds, pc, exists, pipe, line, read>>

Server == Open \/ ReadEof \/ Read
Writer(w) == WOpen(w) \/ Write(w) \/ Close(w)

Next == Server \/ Kill \/ \E w \in Writers : Writer(w)

\* the server runs when it can, and a command that has been started goes on
Spec ==
  /\ Init /\ [][Next]_vars
  /\ WF_vars(Server) /\ \A w \in Writers : WF_vars(Writer(w))

-----------------------------------------------------------------------------
(* Properties.                                                             *)

Quiet == \A w \in Writers : wpc[w] \in {"closed", "no pipe", "killed"}
Asked == \E w \in Writers : line[w] = "exit" /\ wpc[w] = "closed"

\* When all writers are done, one of which wrote "exit", the server ends, but in two
\* cases: the line was read together with another, or it lies in the pipe, as its
\* writer came and went between two opens, and the server waits for one more to come.
ExitHeard ==
  (Quiet /\ Asked) ~>
    \/ ~ ServerRuns
    \/ pc = "wait" /\ \E i \in 1 .. Len(pipe) : pipe[i] = "exit"
    \/ \E i \in 1 .. Len(read) : Len(read[i]) > 1 /\ \E j \in 1 .. Len(read[i]) : read[i][j] = "exit"
=============================================================================
