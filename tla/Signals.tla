------------------------------- MODULE Signals -------------------------------
(***************************************************************************)
(* The signal examples, archive/2025-002-fall/week8 and 2025-001-spring    *)
(* weeks 8 and 9: one process, the calls it makes one after the other, and *)
(* a user who sends it signals and types at any time.  After a fork() one  *)
(* of the two processes is followed, after an execve() the new program.    *)
(*                                                                         *)
(* A signal that is pending and not blocked is delivered before the        *)
(* process executes another instruction, the lowest number first.          *)
(***************************************************************************)
EXTENDS Integers, Sequences, FiniteSetsExt

CONSTANTS Programs,
          MaxSent         \* bound: times that each signal is sent, lines typed

SIGUSR1 == 10
SIGUSR2 == 12
SIGTERM == 15
Signals == {SIGUSR1, SIGUSR2, SIGTERM}

VARIABLES program, pc,
          mask, pending,
          oldset, restore, \* the masks to suspend with, and to return with
          disp,           \* "default", "handler" or "ignore"
          waiting,        \* in sigsuspend or pause: "no", "in", "woken"
          frames,         \* the handlers that run, innermost first
          ready,          \* what select() found
          typed, eof,     \* lines not read yet; end of standard input
          said,           \* the answers that were printed
          outcome,
          sent, handled, late   \* ghosts; late: a signal was sent
                          \* at a time that was not asked for

kernel == <<mask, pending, oldset, restore, disp, waiting, frames>>
ghosts == <<sent, handled, late>>
vars == <<program, pc, kernel, ready, typed, eof, said, outcome, ghosts>>

-----------------------------------------------------------------------------
(* The programs.                                                           *)

Call(op, set, how) == [op |-> op, set |-> set, how |-> how]
Sigaction(sig, how) == Call("sigaction", {sig}, how)
Block(set) == Call("block", set, "")
Do(op) == Call(op, {}, "")
Await(op) == Call(op, {SIGUSR1}, "")

double_delivery ==
  << Sigaction(SIGUSR1, "handler"), Block({SIGUSR1}), Do("getchar"), Do("sigsuspend"), Do("sleep") >>

\* mutant: only one of the signals is blocked
multiple_unblocked ==
  << Sigaction(SIGUSR1, "handler"), Sigaction(SIGUSR2, "handler"), Block({SIGUSR1}),
     Do("getchar"), Do("sigsuspend"), Do("sleep") >>

multiple_pending ==
  << Sigaction(SIGUSR1, "handler"), Sigaction(SIGUSR2, "handler"), Block({SIGUSR1, SIGUSR2}),
     Do("getchar"), Do("sigsuspend"), Do("sleep") >>

\* mutant: pause() in the place of sigsuspend()
reentrant_pause ==
  << Sigaction(SIGUSR1, "handler"), Sigaction(SIGUSR2, "handler"), Block({SIGUSR1}),
     Do("pause"), Do("sleep") >>

reentrant_handler ==
  << Sigaction(SIGUSR1, "handler"), Sigaction(SIGUSR2, "handler"), Block({SIGUSR1}),
     Do("sigsuspend"), Do("sleep") >>

sigcatch == << Sigaction(SIGUSR1, "handler"), Do("pause") >>

sigexample == << Sigaction(SIGTERM, "handler"), Do("puts"), Do("pause"), Do("puts") >>

fork_asks ==
  << Do("fork"), Call("asks_mask", {SIGUSR1}, ""), Call("asks_disp", {SIGUSR1}, "handler"),
     Call("asks_pending", {SIGUSR1}, "") >>

sig_fork ==
  << Sigaction(SIGUSR1, "handler"), Block({SIGUSR1}), Await("raise"), Await("expect") >> \o fork_asks

\* of spring, where the user sends the signal
sig_fork_awaits ==
  << Sigaction(SIGUSR1, "handler"), Block({SIGUSR1}), Await("sigpending") >> \o fork_asks

sig_post_exec ==
  << Call("asks_mask", {SIGUSR1}, ""), Call("asks_pending", {SIGUSR1}, ""),
     Call("asks_disp", {SIGUSR2}, "ignore") >>

sig_pre_exec ==
  << Sigaction(SIGUSR1, "handler"), Sigaction(SIGUSR2, "ignore"), Block({SIGUSR1}),
     Await("raise"), Do("execve") >> \o sig_post_exec

sig_pre_exec_awaits ==
  << Sigaction(SIGUSR1, "handler"), Sigaction(SIGUSR2, "ignore"), Block({SIGUSR1}),
     Await("sigpending"), Do("execve") >> \o sig_post_exec

signalfd == << Block({SIGUSR1, SIGTERM}), Do("select"), Do("read_stdin"), Do("read_sigfd") >>

Code ==
  CASE program = "double_delivery" -> double_delivery
    [] program = "multiple_pending" -> multiple_pending
    [] program = "reentrant_handler" -> reentrant_handler
    [] program = "sigcatch" -> sigcatch
    [] program = "sigexample" -> sigexample
    [] program = "sig_fork" -> sig_fork
    [] program = "sig_fork_awaits" -> sig_fork_awaits
    [] program = "sig_pre_exec" -> sig_pre_exec
    [] program = "sig_pre_exec_awaits" -> sig_pre_exec_awaits
    [] program = "signalfd" -> signalfd

Init ==
  /\ program \in Programs /\ pc = 1
  /\ mask = {} /\ pending = {} /\ oldset = {} /\ restore = {}
  /\ disp = [sig \in Signals |-> "default"]
  /\ waiting = "no" /\ frames = <<>> /\ ready = {}
  /\ typed = 0 /\ eof = FALSE /\ said = <<>> /\ outcome = "running"
  /\ sent = [sig \in Signals |-> 0] /\ handled = [sig \in Signals |-> 0]
  /\ late = FALSE

-----------------------------------------------------------------------------
(* The user and the kernel.                                                *)

Running == outcome = "running"

\* at the prompt and before the wait; before the fork
Timely ==
  \E i \in pc .. Len(Code) :
    \/ Code[i].op = "fork"
    \/ Code[i].op = "sigsuspend" /\ waiting = "no" /\ i - pc \in {0, 1} /\ Code[pc].op # "block"

Send(sig) ==
  /\ Running /\ sent[sig] < MaxSent
  /\ sent' = [sent EXCEPT ![sig] = @ + 1]
  /\ pending' = IF disp[sig] = "ignore" /\ sig \notin mask THEN pending ELSE pending \cup {sig}
  /\ late' = (late \/ ~ Timely)
  /\ UNCHANGED <<program, pc, mask, oldset, restore, disp, waiting, frames, ready, typed, eof, said,
                 outcome, handled>>

Type ==
  /\ Running /\ ~ eof
  /\ \/ typed < MaxSent /\ typed' = typed + 1 /\ UNCHANGED eof
     \/ eof' = TRUE /\ UNCHANGED typed
  /\ UNCHANGED <<program, pc, kernel, ready, said, outcome, ghosts>>

Deliverable == pending \ mask

\* a handler starts with its signal blocked, and with the mask to restore after it
Deliver ==
  /\ Running /\ Deliverable # {}
  /\ LET sig == Min(Deliverable)
     IN /\ pending' = pending \ {sig}
        /\ IF disp[sig] = "default"
             THEN outcome' = "killed" /\ UNCHANGED <<mask, waiting, frames, handled>>
             ELSE /\ frames' = <<[sig |-> sig, saved |-> IF waiting = "in" THEN restore ELSE mask]>>
                               \o frames
                  /\ mask' = mask \cup {sig}
                  /\ waiting' = IF waiting = "in" THEN "woken" ELSE waiting
                  /\ handled' = [handled EXCEPT ![sig] = @ + 1]
                  /\ UNCHANGED outcome
  /\ UNCHANGED <<program, pc, oldset, restore, disp, ready, typed, eof, said, sent, late>>

UserMode == Running /\ Deliverable = {}

\* graceful_cleanup exits, the other handlers write and return
HandlerEnds ==
  /\ UserMode /\ frames # <<>>
  /\ IF program = "sigexample" THEN outcome' = "cleaned" /\ UNCHANGED <<mask, frames>>
     ELSE mask' = Head(frames).saved /\ frames' = Tail(frames) /\ UNCHANGED outcome
  /\ UNCHANGED <<program, pc, pending, oldset, restore, disp, waiting, ready, typed, eof, said, ghosts>>

-----------------------------------------------------------------------------
(* The calls.                                                              *)

At(op) == UserMode /\ frames = <<>> /\ pc <= Len(Code) /\ Code[pc].op = op
Arg == Code[pc].set
Step == pc' = pc + 1 /\ UNCHANGED <<program, ghosts>>

\* to ignore a signal discards it
sigaction ==
  /\ At("sigaction") /\ Step
  /\ disp' = [sig \in Signals |-> IF sig \in Arg THEN Code[pc].how ELSE disp[sig]]
  /\ pending' = IF Code[pc].how = "ignore" THEN pending \ Arg ELSE pending
  /\ UNCHANGED <<mask, oldset, restore, waiting, frames, ready, typed, eof, said, outcome>>

sigprocmask ==
  /\ At("block") /\ Step
  /\ oldset' = mask /\ mask' = mask \cup Arg
  /\ UNCHANGED <<pending, restore, disp, waiting, frames, ready, typed, eof, said, outcome>>

raise ==
  /\ At("raise") /\ Step
  /\ pending' = pending \cup Arg
  /\ UNCHANGED <<mask, oldset, restore, disp, waiting, frames, ready, typed, eof, said, outcome>>

\* a line, or the end of the input
getchar ==
  /\ At("getchar") /\ Step
  /\ typed > 0 \/ eof
  /\ typed' = IF typed > 0 THEN typed - 1 ELSE 0
  /\ UNCHANGED <<kernel, ready, eof, said, outcome>>

\* sigsuspend(&oldset), or pause(), until a handler has run
Suspend ==
  /\ \/ At("sigsuspend") /\ waiting = "no" /\ mask' = oldset
     \/ At("pause") /\ waiting = "no" /\ UNCHANGED mask
  /\ restore' = mask /\ waiting' = "in"
  /\ UNCHANGED <<program, pc, pending, oldset, disp, frames, ready, typed, eof, said, outcome, ghosts>>

Wake ==
  /\ At("sigsuspend") \/ At("pause")
  /\ waiting = "woken" /\ waiting' = "no" /\ Step
  /\ UNCHANGED <<mask, pending, oldset, restore, disp, frames, ready, typed, eof, said, outcome>>

\* sleep() and puts(), and the loop of sigpending() and sleep()
Pass ==
  /\ At("sleep") \/ At("puts") \/ (At("sigpending") /\ Arg \subseteq pending)
  /\ Step
  /\ UNCHANGED <<kernel, ready, typed, eof, said, outcome>>

\* "sent myself a SIGUSR1 but it's not pending..."
Expect ==
  /\ At("expect") /\ Step
  /\ outcome' = IF Arg \subseteq pending THEN outcome ELSE "bailed"
  /\ UNCHANGED <<kernel, ready, typed, eof, said>>

\* the parent returns, the child has no signal pending
fork ==
  /\ At("fork") /\ Step
  /\ \/ pending' = {} /\ UNCHANGED outcome
     \/ outcome' = "done" /\ UNCHANGED pending
  /\ UNCHANGED <<mask, oldset, restore, disp, waiting, frames, ready, typed, eof, said>>

\* it fails if the program was not built in ./builddir
execve ==
  /\ At("execve") /\ Step
  /\ \/ /\ disp' = [sig \in Signals |-> IF disp[sig] = "ignore" THEN "ignore" ELSE "default"]
        /\ UNCHANGED outcome
     \/ outcome' = "failed" /\ UNCHANGED disp
  /\ UNCHANGED <<mask, pending, oldset, restore, waiting, frames, ready, typed, eof, said>>

Ask ==
  /\ \/ At("asks_mask") /\ said' = Append(said, Arg \subseteq mask)
     \/ At("asks_pending") /\ said' = Append(said, Arg \subseteq pending)
     \/ At("asks_disp") /\ said' = Append(said, \A sig \in Arg : disp[sig] = Code[pc].how)
  /\ Step
  /\ UNCHANGED <<kernel, ready, typed, eof, outcome>>

\* the set of signalfd is the set that is blocked
InFd == pending \cap mask
Loop(next) == pc' = next /\ UNCHANGED <<program, ghosts>>

select ==
  /\ At("select")
  /\ ready' = (IF typed > 0 \/ eof THEN {"stdin"} ELSE {}) \cup (IF InFd # {} THEN {"sigfd"} ELSE {})
  /\ ready' # {} /\ Step
  /\ UNCHANGED <<kernel, typed, eof, said, outcome>>

ReadStdin ==
  /\ At("read_stdin") /\ Step
  /\ typed' = IF "stdin" \in ready THEN 0 ELSE typed
  /\ UNCHANGED <<kernel, ready, eof, said, outcome>>

ReadSigfd ==
  /\ At("read_sigfd") /\ Loop(2)
  /\ LET sig == Min(InFd)
     IN IF "sigfd" \notin ready THEN UNCHANGED <<pending, outcome>>
        ELSE pending' = pending \ {sig} /\ outcome' = IF sig = SIGTERM THEN "done" ELSE outcome
  /\ UNCHANGED <<mask, oldset, restore, disp, waiting, frames, ready, typed, eof, said>>

Return ==
  /\ UserMode /\ frames = <<>> /\ pc > Len(Code)
  /\ outcome' = "done"
  /\ UNCHANGED <<program, pc, kernel, ready, typed, eof, said, ghosts>>

-----------------------------------------------------------------------------
User == Type \/ \E sig \in Signals : Send(sig)

Process ==
  \/ Deliver \/ HandlerEnds \/ sigaction \/ sigprocmask \/ raise \/ getchar \/ Suspend \/ Wake
  \/ Pass \/ Expect \/ fork \/ execve \/ Ask \/ select \/ ReadStdin \/ ReadSigfd \/ Return

Next == User \/ Process

\* the process runs when it can; nothing obliges the user
Spec == Init /\ [][Next]_vars /\ WF_vars(Process)

-----------------------------------------------------------------------------
(* Properties.                                                             *)

Ended == ~ Running
Suspends == program \in {"double_delivery", "multiple_pending", "reentrant_handler"}

\* A signal that was sent once or more often at the prompt is handled exactly once before
\* a program that waits in sigsuspend ends, and two such signals are both handled though
\* sigsuspend waits for one; handlers of the same signal do not nest.
HandledOnce ==
  /\ Suspends /\ outcome = "done" /\ ~ late =>
       \A sig \in {SIGUSR1} \cup (IF program = "multiple_pending" THEN {SIGUSR2} ELSE {}) :
         handled[sig] = Min({1, sent[sig]})
  /\ \A i, j \in 1 .. Len(frames) : frames[i].sig = frames[j].sig => i = j

HandledBeforePause ==
  program = "sigcatch" /\ waiting = "in" /\ handled[SIGUSR1] > 0 /\ sent[SIGTERM] = 0

\* Every program ends after a SIGTERM, also the loop on a signalfd while its input is at
\* an end and always ready.  Those that block a signal before they suspend end once it is
\* pending, at whatever point; the one that calls pause() may have handled it before.
SignalledEnds ==
  \/ sent[SIGTERM] > 0
  \/ Suspends /\ SIGUSR1 \in pending \cap mask /\ frames = <<>> /\ (eof \/ program = "reentrant_handler")
  \/ program = "sigcatch" /\ sent[SIGUSR1] > 0
  ~> Ended \/ HandledBeforePause

\* The parent never finds that the signal it raised is not pending (:31), and the
\* answers are those of the manual unless a signal came in between: a child inherits the
\* mask and the handler but no pending signal; execve() keeps mask, pending and
\* ignored signals.
Answers ==
  /\ outcome # "bailed"
  /\ outcome = "done" /\ Len(said) = 3 =>
       CASE program \in {"sig_fork", "sig_fork_awaits"} -> said = <<TRUE, TRUE, late /\ said[3]>>
         [] OTHER -> said = <<TRUE, TRUE, TRUE>>
=============================================================================
