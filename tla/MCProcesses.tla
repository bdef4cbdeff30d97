----------------------------- MODULE MCProcesses -----------------------------
(* The programs about processes, pipes, signals and threads, one of which    *)
(* runs: capturing a command's output, filling a pipe, the server that reads *)
(* a FIFO, the signal programs and the thread programs.                      *)
EXTENDS CaptureOutput, Sequences

CONSTANTS w1, w2, w3, None,
          MaxSent         \* bound: times that each signal is sent, lines typed

Writers == {w1, w2, w3}

VARIABLES running,
          pageProgram, num_writes, pipe, left, pagePc, n,             \* pipe_edge_cases.py
          fds, fifoPc, exists, fifo, line, wpc, read,                 \* myfifo.py
          sigProgram, sigPc, mask, pending, oldset, restore, disp,    \* signals
          waiting, frames, ready, typed, eof, said, sigOutcome, sent, handled, late,
          thrProgram, thrPc, round, holder, created, thrOutcome       \* threads

pageVars == <<pageProgram, num_writes, pipe, left, pagePc, n>>
fifoVars == <<fds, fifoPc, exists, fifo, line, wpc, read>>
sigVars == <<sigProgram, sigPc, mask, pending, oldset, restore, disp,
             waiting, frames, ready, typed, eof, said, sigOutcome, sent, handled, late>>
thrVars == <<thrProgram, thrPc, round, holder, created, thrOutcome>>

\* nine pages of eight bytes: a write of write_atomic is larger than a page, those of
\* the others divide it
Pages == INSTANCE PipePages WITH
           Programs <- {"atomic", "buffer", "limit"}, PAGE <- 8, PAGES <- 9,
           WriteSize <- [atomic |-> 10, buffer |-> 2, limit |-> 1], NumWrites <- 5 .. 7,
           program <- pageProgram, pc <- pagePc

\* three commands write to the FIFO, and the server may have two descriptors
Ff == INSTANCE Fifo WITH MaxFds <- 2, pc <- fifoPc, pipe <- fifo

Sig == INSTANCE Signals WITH
         Programs <- {"double_delivery", "multiple_pending", "reentrant_handler",
                      "sigcatch", "sigexample", "sig_fork", "sig_fork_awaits",
                      "sig_pre_exec", "sig_pre_exec_awaits", "signalfd"},
         program <- sigProgram, pc <- sigPc, outcome <- sigOutcome

Thr == INSTANCE Threads WITH
         Programs <- {"deadlock", "locks", "lock_n_exit", "main_returns", "in_class_example"},
         Rounds <- 2, program <- thrProgram, pc <- thrPc, outcome <- thrOutcome

-----------------------------------------------------------------------------
\* of the programs that do not run, one state is enough
MCInit ==
  /\ running \in {"capture", "pages", "fifo", "signals", "threads"}
  /\ Init /\ (running # "capture" => total = 0 /\ readFirst = (TRUE \in Orders))
  /\ Pages!Init /\ (running # "pages" => pageProgram = "limit")
  /\ Ff!Init /\ (running # "fifo" => line = [w \in Writers |-> "hello"])
  /\ Sig!Init /\ (running # "signals" => sigProgram = "sigcatch")
  /\ Thr!Init /\ (running # "threads" => thrProgram = "locks")

MCNext ==
  /\ UNCHANGED running
  /\ \/ running = "capture" /\ Next /\ UNCHANGED <<pageVars, fifoVars, sigVars, thrVars>>
     \/ running = "pages" /\ Pages!Next /\ UNCHANGED <<vars, fifoVars, sigVars, thrVars>>
     \/ running = "fifo" /\ Ff!Next /\ UNCHANGED <<vars, pageVars, sigVars, thrVars>>
     \/ running = "signals" /\ Sig!Next /\ UNCHANGED <<vars, pageVars, fifoVars, thrVars>>
     \/ running = "threads" /\ Thr!Next /\ UNCHANGED <<vars, pageVars, fifoVars, sigVars>>

MCVars == <<running, vars, pageVars, fifoVars, sigVars, thrVars>>

\* The fairness of each specification: the processes and threads that are scheduled, of
\* which the program that runs has up to four.
Capturing(A) == running = "capture" /\ A /\ UNCHANGED <<running, pageVars, fifoVars, sigVars, thrVars>>
Reading(A) == running = "fifo" /\ A /\ UNCHANGED <<running, vars, pageVars, sigVars, thrVars>>
Threading(A) == running = "threads" /\ A /\ UNCHANGED <<running, vars, pageVars, fifoVars, sigVars>>
Signalling(A) == running = "signals" /\ A /\ UNCHANGED <<running, vars, pageVars, fifoVars, thrVars>>

Main == \/ Capturing(Parent) \/ Reading(Ff!Server) \/ Threading(Thr!Main)
        \/ Signalling(Sig!Process) \/ (running = "pages" /\ MCNext)

MCSpec ==
  /\ MCInit /\ [][MCNext]_MCVars
  /\ WF_MCVars(Main)
  /\ WF_MCVars(Capturing(Child) \/ Threading(Thr!Run("main")) \/ Reading(Ff!Writer(w1)))
  /\ WF_MCVars(Threading(Thr!Run("thrd")) \/ Reading(Ff!Writer(w2)))
  /\ WF_MCVars(Reading(Ff!Writer(w3)))

-----------------------------------------------------------------------------
\* The function that captures a command's output ends, if it reads first or the pipe has
\* room for all of it.
CaptureEnds == running = "capture" => ReturnsUnlessPipeFills

\* A pipe is filled to its last page by writes that do not divide one, to its last
\* byte by those that do.
FillsPages == running = "pages" => Pages!FillsPages

\* A server that reads a FIFO hears the line "exit", with the two exceptions of ExitHeard.
ExitHeard == Ff!ExitHeard

\* A blocked signal is neither lost nor handled twice, and what fork and execve leave of it
\* is what the programs print.
SignalsKept == Sig!HandledOnce /\ Sig!Answers

\* The signal programs end once they got the signals they wait for.
SignalledEnds == Sig!SignalledEnds

\* The thread programs end, except the one that may get stuck in a cycle.
EndsOrCycle == running = "threads" => Thr!EndsOrCycle
=============================================================================
