-------------------------- MODULE Processes_proofs --------------------------
(***************************************************************************)
(* Proofs about the programs of MCProcesses: capturing a command's output  *)
(* gets all of it, for every capacity of the pipe, every size of a read    *)
(* and any amount of output; and the signal programs handle what was       *)
(* blocked exactly once and print what fork and execve leave, however      *)
(* often each signal is sent.                                              *)
(***************************************************************************)
EXTENDS MCProcesses, SequenceTheorems, TLAPS

-----------------------------------------------------------------------------
(* Capturing the output of a command.                                      *)

Types ==
  /\ readFirst \in BOOLEAN
  /\ buffered \in Nat /\ printed \in Nat /\ captured \in Nat /\ total \in Nat /\ status \in Nat
  /\ parent \in {"close_w", "read", "wait", "returned", "raised"}
  /\ child \in {"close_r", "exec", "run", "exited", "reaped"}

\* who has which end of the pipe open
Ends ==
  /\ readEnd \subseteq {"parent", "child"} /\ writeEnd \subseteq {"parent", "child"}
  /\ "parent" \in writeEnd <=> parent = "close_w"
  /\ "child" \in writeEnd <=> child \in {"close_r", "exec", "run"}
  /\ "parent" \in readEnd => ~ Finished /\ (parent = "wait" => ~ readFirst)
  /\ "child" \in readEnd => child = "close_r"

Bytes ==
  /\ printed = captured + buffered /\ printed <= total
  /\ child \in {"exited", "reaped"} /\ status = 0 => printed = total

\* once the parent has seen the end of the file nothing more comes
Drained ==
  (parent = "wait" /\ readFirst) \/ Finished => buffered = 0 /\ child \in {"exited", "reaped"}

Reaped ==
  /\ Finished \/ (parent = "read" /\ ~ readFirst) => child = "reaped"
  /\ child = "reaped" => Finished \/ (parent = "read" /\ ~ readFirst)
  /\ parent = "returned" /\ readFirst => status = 0

IInv == Types /\ Ends /\ Bytes /\ Drained /\ Reaped

\* Everything is open and nothing printed at the start.
LEMMA InitIInv == Init => IInv
BY SizeAssumption, OrderAssumption DEF Init, IInv, Types, Ends, Bytes, Drained, Reaped, Finished

\* Every step of parent, child and signal keeps the four parts.
LEMMA NextIInv == IInv /\ [Next]_vars => IInv'
<1> SUFFICES ASSUME IInv, [Next]_vars PROVE IInv'
  OBVIOUS
<1> USE SizeAssumption DEF IInv, Types, Ends, Bytes, Drained, Reaped, Finished, ends
<1>1. CASE UNCHANGED vars
  BY <1>1 DEF vars
<1>2. CASE ChildCloseR
  BY <1>2 DEF ChildCloseR
<1>3. CASE ChildExec
  <2>1. Types'
    BY <1>3 DEF ChildExec
  <2>2. Ends'
    BY <1>3 DEF ChildExec
  <2>3. Bytes' /\ Drained' /\ Reaped'
    BY <1>3 DEF ChildExec
  <2> QED
    BY <2>1, <2>2, <2>3
<1>4. CASE ChildWrite
  BY <1>4 DEF ChildWrite
<1>5. CASE ChildExit
  BY <1>5 DEF ChildExit
<1>6. CASE ChildKilled
  BY <1>6 DEF ChildKilled
<1>7. CASE ParentCloseW
  BY <1>7 DEF ParentCloseW
<1>8. CASE ParentRead
  <2>1. PICK k \in 1 .. Min2(READSZ, buffered) :
          buffered' = buffered - k /\ captured' = captured + k
    BY <1>8 DEF ParentRead
  <2>2. k \in Nat /\ k <= buffered
    BY <2>1 DEF Min2
  <2>3. buffered' \in Nat /\ captured' \in Nat /\ captured' + buffered' = captured + buffered
    BY <2>1, <2>2
  <2> QED
    BY <1>8, <2>3 DEF ParentRead
<1>9. CASE ParentEof
  <2>1. Types'
    BY <1>9 DEF ParentEof
  <2>2. Ends'
    BY <1>9 DEF ParentEof
  <2>3. Bytes' /\ Drained' /\ Reaped'
    BY <1>9 DEF ParentEof
  <2> QED
    BY <2>1, <2>2, <2>3
<1>10. CASE ParentWait
  <2>1. Types' /\ Bytes'
    BY <1>10 DEF ParentWait
  <2>2. Ends'
    BY <1>10 DEF ParentWait
  <2>3. Drained' /\ Reaped'
    BY <1>10 DEF ParentWait
  <2> QED
    BY <2>1, <2>2, <2>3
<1> QED
  BY <1>1, <1>2, <1>3, <1>4, <1>5, <1>6, <1>7, <1>8, <1>9, <1>10 DEF Next, Parent, Child

\* A function that is over has seen the end of the pipe and reaped its child.
LEMMA IInvCaptured == IInv => CapturedAll
<1> SUFFICES ASSUME IInv PROVE CapturedAll
  OBVIOUS
<1>1. ASSUME Finished
      PROVE captured = printed /\ child = "reaped" /\ readEnd = {} /\ writeEnd = {}
  <2>1. buffered = 0 /\ child = "reaped"
    BY <1>1 DEF IInv, Drained, Reaped
  <2>2. "parent" \notin writeEnd /\ "child" \notin writeEnd
    BY <1>1, <2>1 DEF IInv, Ends, Finished
  <2>3. "parent" \notin readEnd /\ "child" \notin readEnd
    BY <1>1, <2>1 DEF IInv, Ends
  <2>4. readEnd \subseteq {"parent", "child"} /\ writeEnd \subseteq {"parent", "child"}
    BY DEF IInv, Ends
  <2>5. captured = printed
    BY <2>1 DEF IInv, Types, Bytes
  <2> QED
    BY <2>1, <2>2, <2>3, <2>4, <2>5
<1>2. ASSUME parent = "returned", readFirst PROVE captured = total
  BY <1>2 DEF IInv, Types, Bytes, Drained, Reaped, Finished
<1> QED
  BY <1>1, <1>2 DEF CapturedAll

\* When the function is over it has captured all that the command wrote, its child is
\* reaped and the pipe closed; pipe_fork.py returns normally only with the whole output.
THEOREM CapturedTheorem == Spec => []CapturedAll
BY IInvCaptured, InitIInv, NextIInv, PTL DEF Spec

\* The same of the system that runs one of the programs.
THEOREM CapturedInRun == MCSpec => []CapturedAll
<1>1. MCInit => IInv
  BY InitIInv DEF MCInit
<1>2. IInv /\ [MCNext]_MCVars => IInv'
  <2> SUFFICES ASSUME IInv, [MCNext]_MCVars PROVE IInv'
    OBVIOUS
  <2>1. [Next]_vars
    BY DEF MCNext, MCVars
  <2> QED
    BY <2>1, NextIInv
<1>3. IInv => CapturedAll
  BY IInvCaptured
<1> QED
  BY <1>1, <1>2, <1>3, PTL DEF MCSpec

-----------------------------------------------------------------------------
(* The lists of calls.                                                     *)

\* one list of calls after another
LEMMA TwoLists ==
  ASSUME NEW S, NEW a \in Seq(S), NEW b \in Seq(S)
  PROVE  /\ Len(a \o b) = Len(a) + Len(b)
         /\ \A i \in 1 .. Len(a) : (a \o b)[i] = a[i]
         /\ \A i \in 1 .. Len(b) : (a \o b)[Len(a) + i] = b[i]
<1>1. /\ Len(a \o b) = Len(a) + Len(b) /\ Len(a) \in Nat /\ Len(b) \in Nat
      /\ \A i \in 1 .. Len(a) + Len(b) : (a \o b)[i] = IF i <= Len(a) THEN a[i] ELSE b[i - Len(a)]
  BY ConcatProperties
<1> QED
  BY <1>1

\* the four calls of sig_fork and its questions
LEMMA FourFour ==
  ASSUME NEW a, NEW b, NEW c, NEW d, NEW e, NEW f, NEW g, NEW h
  PROVE  LET z == <<a, b, c, d>> \o <<e, f, g, h>>
         IN  /\ Len(z) = 8
             /\ z[1] = a /\ z[2] = b /\ z[3] = c /\ z[4] = d /\ z[5] = e /\ z[6] = f /\ z[7] = g /\ z[8] = h
<1> DEFINE S == {a, b, c, d, e, f, g, h}
           x == <<a, b, c, d>>
           y == <<e, f, g, h>>
           z == x \o y
<1>1. x \in Seq(S) /\ Len(x) = 4 /\ x[1] = a /\ x[2] = b /\ x[3] = c /\ x[4] = d
  OBVIOUS
<1>2. y \in Seq(S) /\ Len(y) = 4 /\ y[1] = e /\ y[2] = f /\ y[3] = g /\ y[4] = h
  OBVIOUS
<1> HIDE DEF S
<1>3. z = <<a, b, c, d>> \o <<e, f, g, h>>
  OBVIOUS
<1> HIDE DEF x, y
<1>4. /\ Len(z) = Len(x) + Len(y) /\ \A i \in 1 .. Len(x) : z[i] = x[i]
      /\ \A i \in 1 .. Len(y) : z[Len(x) + i] = y[i]
  <2>1. x \in Seq(S) /\ y \in Seq(S)
    BY <1>1, <1>2
  <2> QED
    BY <2>1, TwoLists
<1> HIDE DEF z
<1>5. Len(z) = 8 /\ z[1] = a /\ z[2] = b /\ z[3] = c /\ z[4] = d
  BY <1>1, <1>2, <1>4
<1>6. z[4 + 1] = e /\ z[4 + 2] = f /\ z[4 + 3] = g /\ z[4 + 4] = h
  BY <1>1, <1>2, <1>4
<1>7. z[5] = e /\ z[6] = f /\ z[7] = g /\ z[8] = h
  <2>1. 4 + 1 = 5 /\ 4 + 2 = 6 /\ 4 + 3 = 7 /\ 4 + 4 = 8
    OBVIOUS
  <2> QED
    BY <1>6, <2>1
<1> QED
  BY <1>3, <1>5, <1>7

\* those of the version of spring
LEMMA ThreeFour ==
  ASSUME NEW a, NEW b, NEW c, NEW d, NEW e, NEW f, NEW g
  PROVE  LET z == <<a, b, c>> \o <<d, e, f, g>>
         IN  /\ Len(z) = 7
             /\ z[1] = a /\ z[2] = b /\ z[3] = c /\ z[4] = d /\ z[5] = e /\ z[6] = f /\ z[7] = g
<1> DEFINE S == {a, b, c, d, e, f, g}
           x == <<a, b, c>>
           y == <<d, e, f, g>>
           z == x \o y
<1>1. x \in Seq(S) /\ Len(x) = 3 /\ x[1] = a /\ x[2] = b /\ x[3] = c
  OBVIOUS
<1>2. y \in Seq(S) /\ Len(y) = 4 /\ y[1] = d /\ y[2] = e /\ y[3] = f /\ y[4] = g
  OBVIOUS
<1> HIDE DEF S
<1>3. z = <<a, b, c>> \o <<d, e, f, g>>
  OBVIOUS
<1> HIDE DEF x, y
<1>4. /\ Len(z) = Len(x) + Len(y) /\ \A i \in 1 .. Len(x) : z[i] = x[i]
      /\ \A i \in 1 .. Len(y) : z[Len(x) + i] = y[i]
  <2>1. x \in Seq(S) /\ y \in Seq(S)
    BY <1>1, <1>2
  <2> QED
    BY <2>1, TwoLists
<1> HIDE DEF z
<1>5. Len(z) = 7 /\ z[1] = a /\ z[2] = b /\ z[3] = c
  BY <1>1, <1>2, <1>4
<1>6. z[3 + 1] = d /\ z[3 + 2] = e /\ z[3 + 3] = f /\ z[3 + 4] = g
  BY <1>1, <1>2, <1>4
<1>7. z[4] = d /\ z[5] = e /\ z[6] = f /\ z[7] = g
  <2>1. 3 + 1 = 4 /\ 3 + 2 = 5 /\ 3 + 3 = 6 /\ 3 + 4 = 7
    OBVIOUS
  <2> QED
    BY <1>6, <2>1
<1> QED
  BY <1>3, <1>5, <1>7

\* the five calls before execve, and the questions after it
LEMMA FiveThree ==
  ASSUME NEW a, NEW b, NEW c, NEW d, NEW e, NEW f, NEW g, NEW h
  PROVE  LET z == <<a, b, c, d, e>> \o <<f, g, h>>
         IN  /\ Len(z) = 8
             /\ z[1] = a /\ z[2] = b /\ z[3] = c /\ z[4] = d /\ z[5] = e /\ z[6] = f /\ z[7] = g /\ z[8] = h
<1> DEFINE S == {a, b, c, d, e, f, g, h}
           x == <<a, b, c, d, e>>
           y == <<f, g, h>>
           z == x \o y
<1>1. x \in Seq(S) /\ Len(x) = 5 /\ x[1] = a /\ x[2] = b /\ x[3] = c /\ x[4] = d /\ x[5] = e
  OBVIOUS
<1>2. y \in Seq(S) /\ Len(y) = 3 /\ y[1] = f /\ y[2] = g /\ y[3] = h
  OBVIOUS
<1> HIDE DEF S
<1>3. z = <<a, b, c, d, e>> \o <<f, g, h>>
  OBVIOUS
<1> HIDE DEF x, y
<1>4. /\ Len(z) = Len(x) + Len(y) /\ \A i \in 1 .. Len(x) : z[i] = x[i]
      /\ \A i \in 1 .. Len(y) : z[Len(x) + i] = y[i]
  <2>1. x \in Seq(S) /\ y \in Seq(S)
    BY <1>1, <1>2
  <2> QED
    BY <2>1, TwoLists
<1> HIDE DEF z
<1>5. Len(z) = 8 /\ z[1] = a /\ z[2] = b /\ z[3] = c /\ z[4] = d /\ z[5] = e
  BY <1>1, <1>2, <1>4
<1>6. z[5 + 1] = f /\ z[5 + 2] = g /\ z[5 + 3] = h
  BY <1>1, <1>2, <1>4
<1>7. z[6] = f /\ z[7] = g /\ z[8] = h
  <2>1. 5 + 1 = 6 /\ 5 + 2 = 7 /\ 5 + 3 = 8
    OBVIOUS
  <2> QED
    BY <1>6, <2>1
<1> QED
  BY <1>3, <1>5, <1>7

USR1 == Sig!SIGUSR1
USR2 == Sig!SIGUSR2

Forks == sigProgram \in {"sig_fork", "sig_fork_awaits"}
Execs == sigProgram \in {"sig_pre_exec", "sig_pre_exec_awaits"}
Asking == Forks \/ Execs

\* where a program blocks its signals, where it waits for them, where it forks or becomes
\* another program; and what it blocks
BlockAt == IF sigProgram \in {"multiple_pending", "reentrant_handler"} \/ Execs THEN 3 ELSE 2
WaitAt == IF sigProgram = "multiple_pending" THEN 5 ELSE 4
LeaveAt == IF sigProgram = "sig_fork_awaits" THEN 4 ELSE 5
Blocked == IF sigProgram = "multiple_pending" THEN {USR1, USR2} ELSE {USR1}

\* The programs that wait in sigsuspend set up handlers, block, may ask for a line, wait, and
\* sleep.
LEMMA SuspendsCode ==
  ASSUME Sig!Suspends
  PROVE  /\ Len(Sig!Code) = WaitAt + 1
         /\ \A i \in 1 .. BlockAt - 1 : Sig!Code[i].op = "sigaction" /\ Sig!Code[i].how = "handler"
         /\ Sig!Code[BlockAt].op = "block" /\ Sig!Code[BlockAt].set = Blocked
         /\ \A i \in BlockAt + 1 .. WaitAt - 1 : Sig!Code[i].op = "getchar"
         /\ Sig!Code[WaitAt].op = "sigsuspend" /\ Sig!Code[WaitAt + 1].op = "sleep"
<1> DEFINE c == Sig!Code
<1>1. CASE sigProgram = "double_delivery"
  <2>1. c = Sig!double_delivery
    BY <1>1 DEF Sig!Code
  <2>2. /\ Len(c) = 5 /\ c[1].op = "sigaction" /\ c[1].how = "handler"
        /\ c[2].op = "block" /\ c[2].set = {USR1}
        /\ c[3].op = "getchar" /\ c[4].op = "sigsuspend" /\ c[5].op = "sleep"
    BY <2>1 DEF Sig!double_delivery, Sig!Sigaction, Sig!Block, Sig!Do, Sig!Call, USR1
  <2>3. BlockAt = 2 /\ WaitAt = 4 /\ Blocked = {USR1}
    BY <1>1 DEF BlockAt, WaitAt, Blocked, Execs
  <2> HIDE DEF c
  <2> QED
    BY <2>2, <2>3 DEF c
<1>2. CASE sigProgram = "multiple_pending"
  <2>1. c = Sig!multiple_pending
    BY <1>2 DEF Sig!Code
  <2>2. /\ Len(c) = 6 /\ c[1].op = "sigaction" /\ c[1].how = "handler"
        /\ c[2].op = "sigaction" /\ c[2].how = "handler"
        /\ c[3].op = "block" /\ c[3].set = {USR1, USR2}
        /\ c[4].op = "getchar" /\ c[5].op = "sigsuspend" /\ c[6].op = "sleep"
    BY <2>1 DEF Sig!multiple_pending, Sig!Sigaction, Sig!Block, Sig!Do, Sig!Call, USR1, USR2
  <2>3. BlockAt = 3 /\ WaitAt = 5 /\ Blocked = {USR1, USR2}
    BY <1>2 DEF BlockAt, WaitAt, Blocked
  <2> HIDE DEF c
  <2> QED
    BY <2>2, <2>3 DEF c
<1>3. CASE sigProgram = "reentrant_handler"
  <2>1. c = Sig!reentrant_handler
    BY <1>3 DEF Sig!Code
  <2>2. /\ Len(c) = 5 /\ c[1].op = "sigaction" /\ c[1].how = "handler"
        /\ c[2].op = "sigaction" /\ c[2].how = "handler"
        /\ c[3].op = "block" /\ c[3].set = {USR1}
        /\ c[4].op = "sigsuspend" /\ c[5].op = "sleep"
    BY <2>1 DEF Sig!reentrant_handler, Sig!Sigaction, Sig!Block, Sig!Do, Sig!Call, USR1
  <2>3. BlockAt = 3 /\ WaitAt = 4 /\ Blocked = {USR1}
    BY <1>3 DEF BlockAt, WaitAt, Blocked
  <2> HIDE DEF c
  <2> QED
    BY <2>2, <2>3 DEF c
<1> QED
  BY <1>1, <1>2, <1>3 DEF Sig!Suspends

\* The call that has an operation, a set and a disposition.
Has(i, op, set) == Sig!Code[i].op = op /\ Sig!Code[i].set = set

\* The others set up handlers, block a signal, see that it is pending, fork or become another
\* program, and ask three questions.
AskingList ==
  /\ Len(Sig!Code) = LeaveAt + 3
  /\ Has(1, "sigaction", {USR1}) /\ Sig!Code[1].how = "handler"
  /\ Execs => Has(2, "sigaction", {USR2}) /\ Sig!Code[2].how = "ignore"
  /\ Has(BlockAt, "block", {USR1})
  /\ Has(BlockAt + 1, "raise", {USR1}) \/ Has(BlockAt + 1, "sigpending", {USR1})
  /\ \A i \in BlockAt + 2 .. LeaveAt - 1 : Has(i, "expect", {USR1})
  /\ Sig!Code[LeaveAt].op = IF Forks THEN "fork" ELSE "execve"
  /\ Has(LeaveAt + 1, "asks_mask", {USR1})
  /\ Forks => /\ Has(LeaveAt + 2, "asks_disp", {USR1}) /\ Sig!Code[LeaveAt + 2].how = "handler"
              /\ Has(LeaveAt + 3, "asks_pending", {USR1})
  /\ Execs => /\ Has(LeaveAt + 2, "asks_pending", {USR1})
              /\ Has(LeaveAt + 3, "asks_disp", {USR2}) /\ Sig!Code[LeaveAt + 3].how = "ignore"

\* what the calls are made of
LEMMA CallParts ==
  /\ Sig!Sigaction(USR1, "handler").op = "sigaction"
  /\ Sig!Sigaction(USR1, "handler").set = {USR1}
  /\ Sig!Sigaction(USR1, "handler").how = "handler"
  /\ Sig!Sigaction(USR2, "ignore").op = "sigaction"
  /\ Sig!Sigaction(USR2, "ignore").set = {USR2}
  /\ Sig!Sigaction(USR2, "ignore").how = "ignore"
  /\ Sig!Block({USR1}).op = "block"
  /\ Sig!Block({USR1}).set = {USR1}
  /\ Sig!Await("raise").op = "raise"
  /\ Sig!Await("raise").set = {USR1}
  /\ Sig!Await("sigpending").op = "sigpending"
  /\ Sig!Await("sigpending").set = {USR1}
  /\ Sig!Await("expect").op = "expect"
  /\ Sig!Await("expect").set = {USR1}
  /\ Sig!Do("fork").op = "fork"
  /\ Sig!Do("execve").op = "execve"
  /\ Sig!Call("asks_mask", {USR1}, "").op = "asks_mask"
  /\ Sig!Call("asks_mask", {USR1}, "").set = {USR1}
  /\ Sig!Call("asks_pending", {USR1}, "").op = "asks_pending"
  /\ Sig!Call("asks_pending", {USR1}, "").set = {USR1}
  /\ Sig!Call("asks_disp", {USR1}, "handler").op = "asks_disp"
  /\ Sig!Call("asks_disp", {USR1}, "handler").set = {USR1}
  /\ Sig!Call("asks_disp", {USR1}, "handler").how = "handler"
  /\ Sig!Call("asks_disp", {USR2}, "ignore").op = "asks_disp"
  /\ Sig!Call("asks_disp", {USR2}, "ignore").set = {USR2}
  /\ Sig!Call("asks_disp", {USR2}, "ignore").how = "ignore"
BY DEF Sig!Sigaction, Sig!Block, Sig!Do, Sig!Await, Sig!Call, USR1

\* Those are the lists of sig_fork and sig_pre_exec, of both terms.
LEMMA AskingCode == Asking => AskingList
<1> DEFINE c == Sig!Code
<1>1. CASE sigProgram = "sig_fork"
  <2>1. c = <<Sig!Sigaction(USR1, "handler"), Sig!Block({USR1}), Sig!Await("raise"), Sig!Await("expect")>>
              \o <<Sig!Do("fork"), Sig!Call("asks_mask", {USR1}, ""),
                   Sig!Call("asks_disp", {USR1}, "handler"), Sig!Call("asks_pending", {USR1}, "")>>
    BY <1>1 DEF Sig!Code, Sig!sig_fork, Sig!fork_asks, USR1
  <2>2. /\ Len(c) = 8 /\ c[1] = Sig!Sigaction(USR1, "handler") /\ c[2] = Sig!Block({USR1})
        /\ c[3] = Sig!Await("raise") /\ c[4] = Sig!Await("expect") /\ c[5] = Sig!Do("fork")
        /\ c[6] = Sig!Call("asks_mask", {USR1}, "") /\ c[7] = Sig!Call("asks_disp", {USR1}, "handler")
        /\ c[8] = Sig!Call("asks_pending", {USR1}, "")
    <3> DEFINE u1 == Sig!Sigaction(USR1, "handler")
               u2 == Sig!Block({USR1})
               u3 == Sig!Await("raise")
               u4 == Sig!Await("expect")
               u5 == Sig!Do("fork")
               u6 == Sig!Call("asks_mask", {USR1}, "")
               u7 == Sig!Call("asks_disp", {USR1}, "handler")
               u8 == Sig!Call("asks_pending", {USR1}, "")
    <3>1. c = <<u1, u2, u3, u4>> \o <<u5, u6, u7, u8>>
      BY <2>1
    <3> HIDE DEF c, u1, u2, u3, u4, u5, u6, u7, u8
    <3>2. Len(c) = 8 /\ c[1] = u1 /\ c[2] = u2 /\ c[3] = u3 /\ c[4] = u4 /\ c[5] = u5 /\ c[6] = u6 /\ c[7] = u7 /\ c[8] = u8
      BY <3>1, FourFour
    <3> QED
      BY <3>2 DEF u1, u2, u3, u4, u5, u6, u7, u8
  <2> HIDE DEF c
  <2>4. /\ Len(c) = 8
        /\ c[1].op = "sigaction" /\ c[1].set = {USR1} /\ c[1].how = "handler"
        /\ c[2].op = "block" /\ c[2].set = {USR1}
        /\ c[3].op = "raise" /\ c[3].set = {USR1}
        /\ c[4].op = "expect" /\ c[4].set = {USR1}
        /\ c[5].op = "fork"
        /\ c[6].op = "asks_mask" /\ c[6].set = {USR1}
        /\ c[7].op = "asks_disp" /\ c[7].set = {USR1} /\ c[7].how = "handler"
        /\ c[8].op = "asks_pending" /\ c[8].set = {USR1}
    <3>1. Len(c) = 8
      BY <2>2, CallParts
    <3>2. c[1].op = "sigaction" /\ c[1].set = {USR1} /\ c[1].how = "handler"
      BY <2>2, CallParts
    <3>3. c[2].op = "block" /\ c[2].set = {USR1}
      BY <2>2, CallParts
    <3>4. c[3].op = "raise" /\ c[3].set = {USR1}
      BY <2>2, CallParts
    <3>5. c[4].op = "expect" /\ c[4].set = {USR1}
      BY <2>2, CallParts
    <3>6. c[5].op = "fork"
      BY <2>2, CallParts
    <3>7. c[6].op = "asks_mask" /\ c[6].set = {USR1}
      BY <2>2, CallParts
    <3>8. c[7].op = "asks_disp" /\ c[7].set = {USR1} /\ c[7].how = "handler"
      BY <2>2, CallParts
    <3>9. c[8].op = "asks_pending" /\ c[8].set = {USR1}
      BY <2>2, CallParts
    <3> QED
      BY <3>1, <3>2, <3>3, <3>4, <3>5, <3>6, <3>7, <3>8, <3>9
  <2>3. BlockAt = 2 /\ LeaveAt = 5 /\ Forks /\ ~ Execs
    BY <1>1 DEF BlockAt, LeaveAt, Forks, Execs
  <2> QED
    BY <2>3, <2>4 DEF c, Has, AskingList
<1>2. CASE sigProgram = "sig_fork_awaits"
  <2>1. c = <<Sig!Sigaction(USR1, "handler"), Sig!Block({USR1}), Sig!Await("sigpending")>>
              \o <<Sig!Do("fork"), Sig!Call("asks_mask", {USR1}, ""),
                   Sig!Call("asks_disp", {USR1}, "handler"), Sig!Call("asks_pending", {USR1}, "")>>
    BY <1>2 DEF Sig!Code, Sig!sig_fork_awaits, Sig!fork_asks, USR1
  <2>2. /\ Len(c) = 7 /\ c[1] = Sig!Sigaction(USR1, "handler") /\ c[2] = Sig!Block({USR1})
        /\ c[3] = Sig!Await("sigpending") /\ c[4] = Sig!Do("fork")
        /\ c[5] = Sig!Call("asks_mask", {USR1}, "") /\ c[6] = Sig!Call("asks_disp", {USR1}, "handler")
        /\ c[7] = Sig!Call("asks_pending", {USR1}, "")
    <3> DEFINE u1 == Sig!Sigaction(USR1, "handler")
               u2 == Sig!Block({USR1})
               u3 == Sig!Await("sigpending")
               u4 == Sig!Do("fork")
               u5 == Sig!Call("asks_mask", {USR1}, "")
               u6 == Sig!Call("asks_disp", {USR1}, "handler")
               u7 == Sig!Call("asks_pending", {USR1}, "")
    <3>1. c = <<u1, u2, u3>> \o <<u4, u5, u6, u7>>
      BY <2>1
    <3> HIDE DEF c, u1, u2, u3, u4, u5, u6, u7
    <3>2. Len(c) = 7 /\ c[1] = u1 /\ c[2] = u2 /\ c[3] = u3 /\ c[4] = u4 /\ c[5] = u5 /\ c[6] = u6 /\ c[7] = u7
      BY <3>1, ThreeFour
    <3> QED
      BY <3>2 DEF u1, u2, u3, u4, u5, u6, u7
  <2> HIDE DEF c
  <2>4. /\ Len(c) = 7
        /\ c[1].op = "sigaction" /\ c[1].set = {USR1} /\ c[1].how = "handler"
        /\ c[2].op = "block" /\ c[2].set = {USR1}
        /\ c[3].op = "sigpending" /\ c[3].set = {USR1}
        /\ c[4].op = "fork"
        /\ c[5].op = "asks_mask" /\ c[5].set = {USR1}
        /\ c[6].op = "asks_disp" /\ c[6].set = {USR1} /\ c[6].how = "handler"
        /\ c[7].op = "asks_pending" /\ c[7].set = {USR1}
    <3>1. Len(c) = 7
      BY <2>2, CallParts
    <3>2. c[1].op = "sigaction" /\ c[1].set = {USR1} /\ c[1].how = "handler"
      BY <2>2, CallParts
    <3>3. c[2].op = "block" /\ c[2].set = {USR1}
      BY <2>2, CallParts
    <3>4. c[3].op = "sigpending" /\ c[3].set = {USR1}
      BY <2>2, CallParts
    <3>5. c[4].op = "fork"
      BY <2>2, CallParts
    <3>6. c[5].op = "asks_mask" /\ c[5].set = {USR1}
      BY <2>2, CallParts
    <3>7. c[6].op = "asks_disp" /\ c[6].set = {USR1} /\ c[6].how = "handler"
      BY <2>2, CallParts
    <3>8. c[7].op = "asks_pending" /\ c[7].set = {USR1}
      BY <2>2, CallParts
    <3> QED
      BY <3>1, <3>2, <3>3, <3>4, <3>5, <3>6, <3>7, <3>8
  <2>3. BlockAt = 2 /\ LeaveAt = 4 /\ Forks /\ ~ Execs
    BY <1>2 DEF BlockAt, LeaveAt, Forks, Execs
  <2> QED
    BY <2>3, <2>4 DEF c, Has, AskingList
<1>3. ASSUME Execs, NEW op \in {"raise", "sigpending"},
             c = <<Sig!Sigaction(USR1, "handler"), Sig!Sigaction(USR2, "ignore"), Sig!Block({USR1}),
                   Sig!Await(op), Sig!Do("execve")>>
                   \o <<Sig!Call("asks_mask", {USR1}, ""), Sig!Call("asks_pending", {USR1}, ""),
                        Sig!Call("asks_disp", {USR2}, "ignore")>>
      PROVE  AskingList
  <2>2. /\ Len(c) = 8 /\ c[1] = Sig!Sigaction(USR1, "handler") /\ c[2] = Sig!Sigaction(USR2, "ignore")
        /\ c[3] = Sig!Block({USR1}) /\ c[4] = Sig!Await(op) /\ c[5] = Sig!Do("execve")
        /\ c[6] = Sig!Call("asks_mask", {USR1}, "") /\ c[7] = Sig!Call("asks_pending", {USR1}, "")
        /\ c[8] = Sig!Call("asks_disp", {USR2}, "ignore")
    <3> DEFINE u1 == Sig!Sigaction(USR1, "handler")
               u2 == Sig!Sigaction(USR2, "ignore")
               u3 == Sig!Block({USR1})
               u4 == Sig!Await(op)
               u5 == Sig!Do("execve")
               u6 == Sig!Call("asks_mask", {USR1}, "")
               u7 == Sig!Call("asks_pending", {USR1}, "")
               u8 == Sig!Call("asks_disp", {USR2}, "ignore")
    <3>1. c = <<u1, u2, u3, u4, u5>> \o <<u6, u7, u8>>
      BY <1>3
    <3> HIDE DEF c, u1, u2, u3, u4, u5, u6, u7, u8
    <3>2. Len(c) = 8 /\ c[1] = u1 /\ c[2] = u2 /\ c[3] = u3 /\ c[4] = u4 /\ c[5] = u5 /\ c[6] = u6 /\ c[7] = u7 /\ c[8] = u8
      BY <3>1, FiveThree
    <3> QED
      BY <3>2 DEF u1, u2, u3, u4, u5, u6, u7, u8
  <2> HIDE DEF c
  <2>4. /\ Len(c) = 8
        /\ c[1].op = "sigaction" /\ c[1].set = {USR1} /\ c[1].how = "handler"
        /\ c[2].op = "sigaction" /\ c[2].set = {USR2} /\ c[2].how = "ignore"
        /\ c[3].op = "block" /\ c[3].set = {USR1}
        /\ c[4].op = op /\ c[4].set = {USR1}
        /\ c[5].op = "execve"
        /\ c[6].op = "asks_mask" /\ c[6].set = {USR1}
        /\ c[7].op = "asks_pending" /\ c[7].set = {USR1}
        /\ c[8].op = "asks_disp" /\ c[8].set = {USR2} /\ c[8].how = "ignore"
    <3>1. Len(c) = 8
      BY <2>2, CallParts
    <3>2. c[1].op = "sigaction" /\ c[1].set = {USR1} /\ c[1].how = "handler"
      BY <2>2, CallParts
    <3>3. c[2].op = "sigaction" /\ c[2].set = {USR2} /\ c[2].how = "ignore"
      BY <2>2, CallParts
    <3>4. c[3].op = "block" /\ c[3].set = {USR1}
      BY <2>2, CallParts
    <3>5. c[4].op = op /\ c[4].set = {USR1}
      BY <2>2, CallParts
    <3>6. c[5].op = "execve"
      BY <2>2, CallParts
    <3>7. c[6].op = "asks_mask" /\ c[6].set = {USR1}
      BY <2>2, CallParts
    <3>8. c[7].op = "asks_pending" /\ c[7].set = {USR1}
      BY <2>2, CallParts
    <3>9. c[8].op = "asks_disp" /\ c[8].set = {USR2} /\ c[8].how = "ignore"
      BY <2>2, CallParts
    <3> QED
      BY <3>1, <3>2, <3>3, <3>4, <3>5, <3>6, <3>7, <3>8, <3>9
  <2>3. BlockAt = 3 /\ LeaveAt = 5 /\ ~ Forks
    BY <1>3 DEF BlockAt, LeaveAt, Forks, Execs
  <2>5. /\ Execs
        /\ (c[4].op = "raise" /\ c[4].set = {USR1}) \/ (c[4].op = "sigpending" /\ c[4].set = {USR1})
    BY <1>3, <2>4
  <2> QED
    BY <2>3, <2>4, <2>5 DEF c, Has, AskingList
<1>4. CASE sigProgram = "sig_pre_exec"
  <2>1. Execs
    BY <1>4 DEF Execs
  <2>2. c = <<Sig!Sigaction(USR1, "handler"), Sig!Sigaction(USR2, "ignore"), Sig!Block({USR1}),
              Sig!Await("raise"), Sig!Do("execve")>>
              \o <<Sig!Call("asks_mask", {USR1}, ""), Sig!Call("asks_pending", {USR1}, ""),
                   Sig!Call("asks_disp", {USR2}, "ignore")>>
    BY <1>4 DEF Sig!Code, Sig!sig_pre_exec, Sig!sig_post_exec, USR1, USR2
  <2> QED
    BY <1>3, <2>1, <2>2
<1>5. CASE sigProgram = "sig_pre_exec_awaits"
  <2>1. Execs
    BY <1>5 DEF Execs
  <2>2. c = <<Sig!Sigaction(USR1, "handler"), Sig!Sigaction(USR2, "ignore"), Sig!Block({USR1}),
              Sig!Await("sigpending"), Sig!Do("execve")>>
              \o <<Sig!Call("asks_mask", {USR1}, ""), Sig!Call("asks_pending", {USR1}, ""),
                   Sig!Call("asks_disp", {USR2}, "ignore")>>
    BY <1>5 DEF Sig!Code, Sig!sig_pre_exec_awaits, Sig!sig_post_exec, USR1, USR2
  <2> QED
    BY <1>3, <2>1, <2>2
<1> QED
  BY <1>1, <1>2, <1>4, <1>5 DEF Asking, Forks, Execs


-----------------------------------------------------------------------------
(* The invariant.                                                          *)

Sigs == Sig!Signals
Frame == [sig : Sigs, saved : SUBSET Sigs]

\* what the state of the process and of the kernel is made of
SigTypes ==
  /\ sigProgram \in {"double_delivery", "multiple_pending", "reentrant_handler",
                     "sigcatch", "sigexample", "sig_fork", "sig_fork_awaits",
                     "sig_pre_exec", "sig_pre_exec_awaits", "signalfd"}
  /\ sigPc \in Nat \ {0}
  /\ mask \subseteq Sigs /\ pending \subseteq Sigs /\ oldset \subseteq Sigs /\ restore \subseteq Sigs
  /\ waiting \in {"no", "in", "woken"}
  /\ frames \in Seq(Frame)
  /\ sent \in [Sigs -> Nat] /\ handled \in [Sigs -> Nat]
  /\ late \in BOOLEAN

\* the signal of a handler is blocked while it runs, also while the handlers run that
\* interrupt it
Nested ==
  /\ waiting = "in" => frames = <<>>
  /\ \A i \in 1 .. Len(frames) : frames[i].sig \in mask
  /\ \A i, j \in 1 .. Len(frames) :
       i < j => frames[j].sig \in frames[i].saved /\ frames[i].sig # frames[j].sig

-----------------------------------------------------------------------------
(* A program that suspends, and gets its signals at the prompt.            *)

Before ==
  /\ sigPc <= BlockAt /\ waiting = "no" /\ frames = <<>> /\ mask = {} /\ pending = {}
  /\ \A sig \in Sigs : sent[sig] = 0 /\ handled[sig] = 0

Unhandled(sig) == handled[sig] = 0 /\ (sig \in pending <=> sent[sig] > 0)

AtPrompt ==
  /\ BlockAt < sigPc /\ sigPc <= WaitAt /\ waiting = "no" /\ oldset = {}
  /\ Blocked \subseteq mask /\ \A i \in 1 .. Len(frames) : Blocked \subseteq frames[i].saved
  /\ \A sig \in Blocked : Unhandled(sig)

Suspended ==
  /\ sigPc = WaitAt /\ waiting = "in" /\ frames = <<>> /\ mask = {}
  /\ \A sig \in Blocked : Unhandled(sig)

\* until the first handler returns nothing is blocked but the signals of the handlers
Handling ==
  /\ sigPc = WaitAt /\ waiting = "woken" /\ frames # <<>>
  /\ \A sig \in mask : \E i \in 1 .. Len(frames) : frames[i].sig = sig
  /\ \A i \in 1 .. Len(frames) - 1 :
       \A sig \in frames[i].saved : \E j \in i + 1 .. Len(frames) : frames[j].sig = sig
  /\ \A i \in 1 .. Len(frames) : frames[i].sig \in Blocked => frames[i].sig \notin pending
  /\ \A sig \in Blocked :
       Unhandled(sig) \/ (handled[sig] = 1 /\ sent[sig] > 0 /\ sig \notin pending)

Settled ==
  /\ sigPc > WaitAt \/ (sigPc = WaitAt /\ waiting = "woken")
  /\ \A sig \in Blocked : sig \notin pending /\ handled[sig] = IF sent[sig] = 0 THEN 0 ELSE 1

Prompted ==
  Sig!Suspends =>
    /\ \A sig \in Sigs : disp[sig] # "ignore"
    /\ said = <<>> /\ sigOutcome # "bailed"
    /\ sigOutcome = "running" /\ ~ late => Before \/ AtPrompt \/ Suspended \/ Handling \/ Settled
    /\ sigOutcome = "done" /\ ~ late => Settled

-----------------------------------------------------------------------------
(* A program that asks what is left after a fork or an execve.             *)

Setup ==
  /\ waiting = "no" /\ mask \subseteq {USR1}
  /\ \A i \in 1 .. Len(frames) : frames[i].sig = USR1
  /\ sigPc <= BlockAt => \A i \in 1 .. Len(frames) : frames[i].saved = {}
  /\ sigPc > BlockAt => mask = {USR1} /\ frames = <<>>

Dispositions ==
  /\ disp[Sig!SIGTERM] = "default"
  /\ disp[USR2] = "default" \/ (disp[USR2] = "ignore" /\ USR2 \notin pending)
  /\ disp[USR1] \in {"default", "handler"}
  /\ Forks /\ sigPc > 1 => disp[USR1] = "handler"
  /\ Execs /\ sigPc > 2 => disp[USR2] = "ignore"

Kept ==
  /\ BlockAt + 1 < sigPc /\ sigPc <= LeaveAt => USR1 \in pending
  /\ Execs /\ sigPc > LeaveAt => USR1 \in pending
  /\ Forks /\ sigPc > LeaveAt /\ ~ late => USR1 \notin pending

Replies ==
  /\ sigPc <= LeaveAt + 1 => said = <<>>
  /\ sigPc = LeaveAt + 2 => said = <<TRUE>>
  /\ sigPc = LeaveAt + 3 => said = <<TRUE, TRUE>>
  /\ sigPc > LeaveAt + 3 => \E b \in BOOLEAN : /\ said = <<TRUE, TRUE, b>>
                                               /\ Forks /\ b => late
                                               /\ Execs => b

Asked ==
  Asking => /\ sigOutcome # "bailed" /\ Replies
            /\ sigOutcome = "running" => Setup /\ Dispositions /\ Kept

\* the programs that neither suspend nor ask
Silent == ~ Sig!Suspends /\ ~ Asking => said = <<>> /\ sigOutcome # "bailed"

SigInv == SigTypes /\ Nested /\ Prompted /\ Asked /\ Silent

-----------------------------------------------------------------------------
(* What the next call can be.                                              *)

Op == Sig!Code[sigPc].op
Arg == Sig!Code[sigPc].set
How == Sig!Code[sigPc].how

\* the numbers of the calls
LEMMA Places ==
  /\ BlockAt \in Nat /\ WaitAt \in Nat /\ LeaveAt \in Nat
  /\ 0 < BlockAt /\ BlockAt < WaitAt
  /\ Asking => BlockAt = IF Execs THEN 3 ELSE 2
  /\ Asking => BlockAt + 1 < LeaveAt
  /\ ~ (Forks /\ Execs)
BY DEF BlockAt, WaitAt, LeaveAt, Asking, Forks, Execs

\* The calls of a program that suspends.
LEMMA SuspendsAt ==
  ASSUME Sig!Suspends, sigPc \in Nat \ {0}, sigPc <= Len(Sig!Code)
  PROVE  /\ sigPc <= WaitAt + 1
         /\ Op \in {"sigaction", "block", "getchar", "sigsuspend", "sleep"}
         /\ Op = "sigaction" => sigPc < BlockAt /\ How = "handler"
         /\ Op = "block" => sigPc = BlockAt /\ Arg = Blocked
         /\ Op = "getchar" => BlockAt < sigPc /\ sigPc < WaitAt
         /\ Op = "sigsuspend" => sigPc = WaitAt
         /\ Op = "sleep" => sigPc = WaitAt + 1
<1>1. /\ sigPc \in 1 .. BlockAt - 1 \/ sigPc = BlockAt \/ sigPc \in BlockAt + 1 .. WaitAt - 1
         \/ sigPc = WaitAt \/ sigPc = WaitAt + 1
      /\ sigPc <= WaitAt + 1
  BY SuspendsCode, Places
<1>2. CASE sigPc \in 1 .. BlockAt - 1
  BY <1>1, <1>2, SuspendsCode, Places DEF Op, How
<1>3. CASE sigPc = BlockAt
  BY <1>1, <1>3, SuspendsCode, Places DEF Op, Arg
<1>4. CASE sigPc \in BlockAt + 1 .. WaitAt - 1
  BY <1>1, <1>4, SuspendsCode, Places DEF Op
<1>5. CASE sigPc = WaitAt
  BY <1>1, <1>5, SuspendsCode, Places DEF Op
<1>6. CASE sigPc = WaitAt + 1
  BY <1>1, <1>6, SuspendsCode, Places DEF Op
<1> QED
  BY <1>1, <1>2, <1>3, <1>4, <1>5, <1>6

AskingOps ==
  /\ sigPc <= LeaveAt + 3
  /\ Op \in {"sigaction", "block", "raise", "sigpending", "expect", "fork", "execve",
             "asks_mask", "asks_disp", "asks_pending"}
  /\ Op = "sigaction" => \/ sigPc = 1 /\ Arg = {USR1} /\ How = "handler"
                         \/ Execs /\ sigPc = 2 /\ Arg = {USR2} /\ How = "ignore"
  /\ Op = "block" => sigPc = BlockAt /\ Arg = {USR1}
  /\ Op \in {"raise", "sigpending"} => sigPc = BlockAt + 1 /\ Arg = {USR1}
  /\ Op = "expect" => BlockAt + 1 < sigPc /\ sigPc < LeaveAt /\ Arg = {USR1}
  /\ Op = "fork" => Forks /\ sigPc = LeaveAt
  /\ Op = "execve" => Execs /\ sigPc = LeaveAt
  /\ Op = "asks_mask" => sigPc = LeaveAt + 1 /\ Arg = {USR1}
  /\ Op = "asks_disp" => \/ Forks /\ sigPc = LeaveAt + 2 /\ Arg = {USR1} /\ How = "handler"
                         \/ Execs /\ sigPc = LeaveAt + 3 /\ Arg = {USR2} /\ How = "ignore"
  /\ Op = "asks_pending" => \/ Forks /\ sigPc = LeaveAt + 3 /\ Arg = {USR1}
                            \/ Execs /\ sigPc = LeaveAt + 2 /\ Arg = {USR1}

\* The calls of a program that asks.
LEMMA AskingAt ==
  ASSUME Asking, sigPc \in Nat \ {0}, sigPc <= Len(Sig!Code)
  PROVE  AskingOps
<1>1. /\ sigPc = 1 \/ (Execs /\ sigPc = 2) \/ sigPc = BlockAt \/ sigPc = BlockAt + 1
         \/ sigPc \in BlockAt + 2 .. LeaveAt - 1 \/ sigPc = LeaveAt \/ sigPc = LeaveAt + 1
         \/ sigPc = LeaveAt + 2 \/ sigPc = LeaveAt + 3
      /\ sigPc <= LeaveAt + 3
  BY AskingCode, Places DEF AskingList
<1>2. CASE sigPc = 1
  BY <1>1, <1>2, AskingCode, Places DEF AskingList, Has, AskingOps, Op, Arg, How
<1>3. CASE Execs /\ sigPc = 2
  BY <1>1, <1>3, AskingCode, Places DEF AskingList, Has, AskingOps, Op, Arg, How
<1>4. CASE sigPc = BlockAt
  BY <1>1, <1>4, AskingCode, Places DEF AskingList, Has, AskingOps, Op, Arg
<1>5. CASE sigPc = BlockAt + 1
  BY <1>1, <1>5, AskingCode, Places DEF AskingList, Has, AskingOps, Op, Arg
<1>6. CASE sigPc \in BlockAt + 2 .. LeaveAt - 1
  BY <1>1, <1>6, AskingCode, Places DEF AskingList, Has, AskingOps, Op, Arg
<1>7. CASE sigPc = LeaveAt
  BY <1>1, <1>7, AskingCode, Places DEF AskingList, AskingOps, Op, Asking
<1>8. CASE sigPc = LeaveAt + 1
  BY <1>1, <1>8, AskingCode, Places DEF AskingList, Has, AskingOps, Op, Arg
<1>9. CASE sigPc = LeaveAt + 2
  <2>1. (Forks /\ Op = "asks_disp" /\ Arg = {USR1} /\ How = "handler")
        \/ (Execs /\ Op = "asks_pending" /\ Arg = {USR1})
    BY <1>9, AskingCode DEF AskingList, Has, Op, Arg, How, Asking
  <2> QED
    BY <1>1, <1>9, <2>1 DEF AskingOps
<1>10. CASE sigPc = LeaveAt + 3
  <2>1. (Forks /\ Op = "asks_pending" /\ Arg = {USR1})
        \/ (Execs /\ Op = "asks_disp" /\ Arg = {USR2} /\ How = "ignore")
    BY <1>10, AskingCode DEF AskingList, Has, Op, Arg, How, Asking
  <2> QED
    BY <1>1, <1>10, <2>1 DEF AskingOps
<1> QED
  BY <1>1, <1>2, <1>3, <1>4, <1>5, <1>6, <1>7, <1>8, <1>9, <1>10

\* The other programs neither raise a signal, nor look for one that they raised, nor ask, and
\* they block signals of the three.
LEMMA OthersAt ==
  ASSUME SigTypes, ~ Sig!Suspends, ~ Asking, sigPc <= Len(Sig!Code)
  PROVE  /\ Op \notin {"expect", "asks_mask", "asks_disp", "asks_pending", "raise"}
         /\ Op = "block" => Arg \subseteq Sigs
<1> DEFINE c == Sig!Code
<1>0. sigPc \in Nat \ {0} /\ sigProgram \in {"sigcatch", "sigexample", "signalfd"}
  BY DEF SigTypes, Sig!Suspends, Asking, Forks, Execs
<1>1. CASE sigProgram = "sigcatch"
  <2>1. c = Sig!sigcatch
    BY <1>1 DEF Sig!Code
  <2>2. Len(c) = 2 /\ c[1].op = "sigaction" /\ c[2].op = "pause"
    BY <2>1 DEF Sig!sigcatch, Sig!Sigaction, Sig!Do, Sig!Call
  <2> HIDE DEF c
  <2>3. sigPc = 1 \/ sigPc = 2
    BY <1>0, <2>2 DEF c
  <2> QED
    BY <2>2, <2>3 DEF c, Op
<1>2. CASE sigProgram = "sigexample"
  <2>1. c = Sig!sigexample
    BY <1>2 DEF Sig!Code
  <2>2. Len(c) = 4 /\ c[1].op = "sigaction" /\ c[2].op = "puts" /\ c[3].op = "pause" /\ c[4].op = "puts"
    BY <2>1 DEF Sig!sigexample, Sig!Sigaction, Sig!Do, Sig!Call
  <2> HIDE DEF c
  <2>3. sigPc = 1 \/ sigPc = 2 \/ sigPc = 3 \/ sigPc = 4
    BY <1>0, <2>2 DEF c
  <2> QED
    BY <2>2, <2>3 DEF c, Op
<1>3. CASE sigProgram = "signalfd"
  <2>1. c = Sig!signalfd
    BY <1>3 DEF Sig!Code
  <2>2. /\ Len(c) = 4 /\ c[1].op = "block" /\ c[1].set = {USR1, Sig!SIGTERM}
        /\ c[2].op = "select" /\ c[3].op = "read_stdin" /\ c[4].op = "read_sigfd"
    BY <2>1 DEF Sig!signalfd, Sig!Block, Sig!Do, Sig!Call, USR1
  <2> HIDE DEF c
  <2>3. sigPc = 1 \/ sigPc = 2 \/ sigPc = 3 \/ sigPc = 4
    BY <1>0, <2>2 DEF c
  <2>4. {USR1, Sig!SIGTERM} \subseteq Sigs
    BY DEF USR1, Sigs, Sig!Signals
  <2> QED
    BY <2>2, <2>3, <2>4 DEF c, Op, Arg
<1> QED
  BY <1>0, <1>1, <1>2, <1>3

\* What is blocked or raised is one of the three signals.
LEMMA CallSets ==
  ASSUME SigTypes, sigPc <= Len(Sig!Code), Op \in {"block", "raise"}
  PROVE  Arg \subseteq Sigs
<1>1. sigPc \in Nat \ {0} /\ {USR1} \subseteq Sigs /\ Blocked \subseteq Sigs
  BY DEF SigTypes, Blocked, USR1, USR2, Sigs, Sig!Signals
<1>2. CASE Sig!Suspends
  BY <1>1, <1>2, SuspendsAt
<1>3. CASE Asking
  BY <1>1, <1>3, AskingAt DEF AskingOps
<1>4. CASE ~ Sig!Suspends /\ ~ Asking
  BY <1>4, OthersAt
<1> QED
  BY <1>2, <1>3, <1>4

-----------------------------------------------------------------------------
(* The steps.                                                              *)

\* the lowest of the signals that can be delivered is one of them
LEMMA LowestIn ==
  ASSUME NEW S, S \subseteq Sigs, S # {}
  PROVE  Sig!Min(S) \in S
<1>1. S \subseteq {10, 12, 15}
  BY DEF Sigs, Sig!Signals, Sig!SIGUSR1, Sig!SIGUSR2, Sig!SIGTERM
<1>2. \E x \in S : \A y \in S : x <= y
  <2>1. CASE 10 \in S
    BY <1>1, <2>1
  <2>2. CASE 10 \notin S /\ 12 \in S
    BY <1>1, <2>2
  <2>3. CASE 10 \notin S /\ 12 \notin S
    <3>1. \A y \in S : y = 15
      BY <1>1, <2>3
    <3> QED
      BY <3>1
  <2> QED
    BY <2>1, <2>2, <2>3
<1> QED
  BY <1>2 DEF Sig!Min

\* one, or none if none was sent
LEMMA MinOne ==
  ASSUME NEW k \in Nat
  PROVE  Sig!Min({1, k}) = IF k = 0 THEN 0 ELSE 1
<1> DEFINE r == IF k = 0 THEN 0 ELSE 1
<1>1. r \in {1, k} /\ \A y \in {1, k} : r <= y
  OBVIOUS
<1>2. \A x \in {1, k} : (\A y \in {1, k} : x <= y) => x = r
  OBVIOUS
<1> QED
  BY <1>1, <1>2 DEF Sig!Min

\* a handler starts
LEMMA Push ==
  ASSUME NEW s \in Seq(Frame), NEW f \in Frame
  PROVE  /\ <<f>> \o s \in Seq(Frame) /\ Len(<<f>> \o s) = Len(s) + 1 /\ Len(s) \in Nat
         /\ (<<f>> \o s)[1] = f
         /\ \A i \in 2 .. Len(s) + 1 : (<<f>> \o s)[i] = s[i - 1]
<1> DEFINE o == <<f>>
<1>1. o \in Seq(Frame) /\ Len(o) = 1 /\ o[1] = f
  OBVIOUS
<1> HIDE DEF o
<1>2. /\ o \o s \in Seq(Frame) /\ Len(o \o s) = Len(s) + 1 /\ Len(s) \in Nat
      /\ \A i \in 1 .. Len(o) + Len(s) : (o \o s)[i] = IF i <= Len(o) THEN o[i] ELSE s[i - Len(o)]
  <2>1. /\ o \o s \in Seq(Frame) /\ Len(o \o s) = Len(o) + Len(s)
        /\ \A i \in 1 .. Len(o) + Len(s) : (o \o s)[i] = IF i <= Len(o) THEN o[i] ELSE s[i - Len(o)]
    BY <1>1, ConcatProperties
  <2>2. Len(s) \in Nat
    BY LenProperties
  <2> QED
    BY <1>1, <2>1, <2>2
<1>3. (o \o s)[1] = f /\ \A i \in 2 .. Len(s) + 1 : (o \o s)[i] = s[i - 1]
  BY <1>1, <1>2
<1> QED
  BY <1>2, <1>3 DEF o

\* a handler returns
LEMMA Pop ==
  ASSUME NEW s \in Seq(Frame), s # <<>>
  PROVE  /\ Head(s) = s[1] /\ s[1] \in Frame /\ Tail(s) \in Seq(Frame)
         /\ Len(s) \in Nat \ {0} /\ Len(Tail(s)) = Len(s) - 1
         /\ \A i \in 1 .. Len(s) - 1 : Tail(s)[i] = s[i + 1]
<1>1. Len(s) \in Nat \ {0}
  BY EmptySeq, LenProperties
<1> QED
  BY <1>1, HeadTailProperties, ElementOfSeq

\* A call is made by the program itself.
LEMMA AtCall ==
  ASSUME NEW op, Sig!At(op)
  PROVE  /\ sigOutcome = "running" /\ pending \subseteq mask /\ frames = <<>>
         /\ sigPc <= Len(Sig!Code) /\ Op = op
BY DEF Sig!At, Sig!UserMode, Sig!Running, Sig!Deliverable, Op

\* A signal is delivered: the program is killed or its handler starts.
LEMMA DeliverFacts ==
  ASSUME SigTypes, Sig!Deliver
  PROVE  \E sig \in Sigs :
           /\ sig \in pending /\ sig \notin mask /\ sigOutcome = "running"
           /\ pending' = pending \ {sig}
           /\ \/ disp[sig] = "default" /\ sigOutcome' = "killed" /\ UNCHANGED <<mask, waiting, frames, handled>>
              \/ /\ disp[sig] # "default" /\ sigOutcome' = "running"
                 /\ frames' = <<[sig |-> sig, saved |-> IF waiting = "in" THEN restore ELSE mask]>> \o frames
                 /\ mask' = mask \cup {sig}
                 /\ waiting' = IF waiting = "in" THEN "woken" ELSE waiting
                 /\ handled' = [handled EXCEPT ![sig] = @ + 1]
           /\ UNCHANGED <<sigProgram, sigPc, oldset, restore, disp, said, sent, late>>
<1> DEFINE s == Sig!Min(Sig!Deliverable)
<1>1. s \in pending /\ s \notin mask /\ s \in Sigs
  <2>1. Sig!Deliverable \subseteq Sigs /\ Sig!Deliverable # {}
    BY DEF SigTypes, Sig!Deliver, Sig!Deliverable
  <2>2. s \in Sig!Deliverable
    BY <2>1, LowestIn
  <2> QED
    BY <2>2 DEF SigTypes, Sig!Deliverable
<1>2. /\ sigOutcome = "running" /\ pending' = pending \ {s}
      /\ \/ disp[s] = "default" /\ sigOutcome' = "killed" /\ UNCHANGED <<mask, waiting, frames, handled>>
         \/ /\ disp[s] # "default" /\ sigOutcome' = sigOutcome
            /\ frames' = <<[sig |-> s, saved |-> IF waiting = "in" THEN restore ELSE mask]>> \o frames
            /\ mask' = mask \cup {s}
            /\ waiting' = IF waiting = "in" THEN "woken" ELSE waiting
            /\ handled' = [handled EXCEPT ![s] = @ + 1]
      /\ UNCHANGED <<sigProgram, sigPc, oldset, restore, disp, said, sent, late>>
  BY DEF Sig!Deliver, Sig!Running
<1> HIDE DEF s
<1> QED
  BY <1>1, <1>2

\* Every step keeps the types.
LEMMA TypesStep == SigTypes /\ Sig!Next => SigTypes'
<1> SUFFICES ASSUME SigTypes, Sig!Next PROVE SigTypes'
  OBVIOUS
<1> USE DEF SigTypes
<1>1. CASE Sig!Type
  BY <1>1 DEF Sig!Type, Sig!kernel, Sig!ghosts
<1>2. ASSUME NEW sig \in Sigs, Sig!Send(sig) PROVE SigTypes'
  <2>1. sent' \in [Sigs -> Nat]
    BY <1>2 DEF Sig!Send
  <2>2. late' \in BOOLEAN /\ pending' \subseteq Sigs
    BY <1>2 DEF Sig!Send
  <2> QED
    BY <1>2, <2>1, <2>2 DEF Sig!Send
<1>3. CASE Sig!Deliver
  <2>1. PICK sig \in Sigs :
           /\ pending' = pending \ {sig}
           /\ \/ UNCHANGED <<mask, waiting, frames, handled>>
              \/ /\ frames' = <<[sig |-> sig, saved |-> IF waiting = "in" THEN restore ELSE mask]>> \o frames
                 /\ mask' = mask \cup {sig}
                 /\ waiting' = IF waiting = "in" THEN "woken" ELSE waiting
                 /\ handled' = [handled EXCEPT ![sig] = @ + 1]
           /\ UNCHANGED <<sigProgram, sigPc, oldset, restore, sent, late>>
    BY <1>3, DeliverFacts
  <2>2. frames' \in Seq(Frame)
    <3> DEFINE f == [sig |-> sig, saved |-> IF waiting = "in" THEN restore ELSE mask]
    <3>1. f \in Frame
      BY DEF Frame
    <3>2. frames' = frames \/ frames' = <<f>> \o frames
      BY <2>1
    <3> HIDE DEF f
    <3> QED
      BY <3>1, <3>2, Push
  <2>3. handled' \in [Sigs -> Nat] /\ waiting' \in {"no", "in", "woken"}
    <3>1. handled' = handled \/ handled' = [handled EXCEPT ![sig] = @ + 1]
      BY <2>1
    <3>2. waiting' = waiting \/ waiting' = "woken"
      BY <2>1
    <3>3. handled' \in [Sigs -> Nat]
      BY <3>1
    <3> QED
      BY <3>2, <3>3
  <2>4. mask' \subseteq Sigs
    <3>1. mask' = mask \/ mask' = mask \cup {sig}
      BY <2>1
    <3> QED
      BY <3>1
  <2>5. pending' \subseteq Sigs
    <3>1. pending' \subseteq pending /\ pending \subseteq Sigs
      BY <2>1
    <3> QED
      BY <3>1
  <2> QED
    BY <2>1, <2>2, <2>3, <2>4, <2>5
<1>4. CASE Sig!HandlerEnds
  <2>1. (frames' = Tail(frames) /\ mask' = Head(frames).saved) \/ UNCHANGED <<mask, frames>>
    BY <1>4 DEF Sig!HandlerEnds
  <2>2. frames # <<>> /\ UNCHANGED <<sigProgram, sigPc, pending, oldset, restore, waiting, sent, handled, late>>
    BY <1>4 DEF Sig!HandlerEnds, Sig!ghosts
  <2>3. Tail(frames) \in Seq(Frame) /\ Head(frames).saved \subseteq Sigs
    BY <2>2, Pop DEF Frame
  <2> QED
    BY <2>1, <2>2, <2>3
<1>5. CASE Sig!sigaction
  BY <1>5 DEF Sig!sigaction, Sig!Step, Sig!ghosts
<1>6. CASE Sig!sigprocmask
  <2>1. Arg \subseteq Sigs
    BY <1>6, AtCall, CallSets DEF Sig!sigprocmask
  <2> QED
    BY <1>6, <2>1 DEF Sig!sigprocmask, Sig!Step, Sig!ghosts, Sig!Arg, Arg
<1>7. CASE Sig!raise
  <2>1. Arg \subseteq Sigs
    BY <1>7, AtCall, CallSets DEF Sig!raise
  <2> QED
    BY <1>7, <2>1 DEF Sig!raise, Sig!Step, Sig!ghosts, Sig!Arg, Arg
<1>8. CASE Sig!getchar \/ Sig!Pass \/ Sig!Expect \/ Sig!Ask \/ Sig!select \/ Sig!ReadStdin \/ Sig!Return
  <2>1. /\ sigPc' = sigPc \/ sigPc' = sigPc + 1
        /\ UNCHANGED <<sigProgram, mask, pending, oldset, restore, waiting, frames, sent, handled, late>>
    BY <1>8 DEF Sig!getchar, Sig!Pass, Sig!Expect, Sig!Ask, Sig!select, Sig!ReadStdin, Sig!Return,
                Sig!Step, Sig!kernel, Sig!ghosts
  <2> QED
    BY <2>1
<1>9. CASE Sig!Suspend
  BY <1>9 DEF Sig!Suspend, Sig!ghosts
<1>10. CASE Sig!Wake
  BY <1>10 DEF Sig!Wake, Sig!Step, Sig!ghosts
<1>11. CASE Sig!fork
  BY <1>11 DEF Sig!fork, Sig!Step, Sig!ghosts
<1>12. CASE Sig!execve
  BY <1>12 DEF Sig!execve, Sig!Step, Sig!ghosts
<1>13. CASE Sig!ReadSigfd
  BY <1>13 DEF Sig!ReadSigfd, Sig!Loop, Sig!ghosts
<1> QED
  BY <1>1, <1>2, <1>3, <1>4, <1>5, <1>6, <1>7, <1>8, <1>9, <1>10, <1>11, <1>12, <1>13
     DEF Sig!Next, Sig!User, Sig!Process, Sigs

Calls ==
  \/ Sig!sigaction \/ Sig!sigprocmask \/ Sig!raise \/ Sig!getchar \/ Sig!Suspend \/ Sig!Wake
  \/ Sig!Pass \/ Sig!Expect \/ Sig!fork \/ Sig!execve \/ Sig!Ask \/ Sig!select
  \/ Sig!ReadStdin \/ Sig!ReadSigfd \/ Sig!Return

\* No call is made in a handler, and none starts one.
LEMMA CallFrames ==
  ASSUME Calls
  PROVE  frames = <<>> /\ frames' = frames /\ sigProgram' = sigProgram
<1> USE DEF Sig!At, Sig!Step, Sig!kernel
<1>1. CASE Sig!sigaction \/ Sig!sigprocmask \/ Sig!raise \/ Sig!getchar \/ Sig!Suspend
  BY <1>1 DEF Sig!sigaction, Sig!sigprocmask, Sig!raise, Sig!getchar, Sig!Suspend
<1>2. CASE Sig!Wake \/ Sig!Pass \/ Sig!Expect \/ Sig!fork \/ Sig!execve
  BY <1>2 DEF Sig!Wake, Sig!Pass, Sig!Expect, Sig!fork, Sig!execve
<1>3. CASE Sig!Ask \/ Sig!select \/ Sig!ReadStdin \/ Sig!ReadSigfd \/ Sig!Return
  BY <1>3 DEF Sig!Ask, Sig!select, Sig!ReadStdin, Sig!ReadSigfd, Sig!Return, Sig!Loop
<1> QED
  BY <1>1, <1>2, <1>3 DEF Calls

\* The next step is the user's, of a handler, or a call.
LEMMA SigSteps ==
  ASSUME Sig!Next
  PROVE  \/ Sig!Type \/ (\E sig \in Sigs : Sig!Send(sig))
         \/ Sig!Deliver \/ Sig!HandlerEnds \/ Calls
BY DEF Sig!Next, Sig!User, Sig!Process, Calls, Sigs

\* Every step keeps the handlers nested.
LEMMA NestedStep == SigTypes /\ Nested /\ Sig!Next => Nested'
<1> SUFFICES ASSUME SigTypes, Nested, Sig!Next PROVE Nested'
  OBVIOUS
<1>1. CASE Sig!Type \/ (\E sig \in Sigs : Sig!Send(sig))
  BY <1>1 DEF Nested, Sig!Type, Sig!Send, Sig!kernel
<1>2. CASE Sig!Deliver
  <2>1. PICK sig \in Sigs :
           /\ sig \notin mask
           /\ \/ UNCHANGED <<mask, waiting, frames>>
              \/ /\ frames' = <<[sig |-> sig, saved |-> IF waiting = "in" THEN restore ELSE mask]>> \o frames
                 /\ mask' = mask \cup {sig}
                 /\ waiting' = IF waiting = "in" THEN "woken" ELSE waiting
    BY <1>2, DeliverFacts
  <2>2. CASE UNCHANGED <<mask, waiting, frames>>
    BY <2>2 DEF Nested
  <2>3. CASE frames' # frames
    <3> DEFINE f == [sig |-> sig, saved |-> IF waiting = "in" THEN restore ELSE mask]
    <3>1. f \in Frame /\ f.sig = sig /\ (waiting # "in" => f.saved = mask)
      BY DEF Frame, SigTypes
    <3>2. frames' = <<f>> \o frames /\ mask' = mask \cup {sig} /\ waiting' # "in"
      BY <2>1, <2>3
    <3> HIDE DEF f
    <3>3. /\ Len(frames') = Len(frames) + 1 /\ Len(frames) \in Nat /\ frames'[1] = f
          /\ \A i \in 2 .. Len(frames) + 1 : frames'[i] = frames[i - 1]
      BY <3>1, <3>2, Push DEF SigTypes
    <3>4. waiting = "in" => Len(frames) = 0
      BY DEF Nested
    <3>5. ASSUME NEW i \in 1 .. Len(frames') PROVE frames'[i].sig \in mask'
      BY <3>1, <3>2, <3>3 DEF Nested
    <3>6. ASSUME NEW i \in 1 .. Len(frames'), NEW j \in 1 .. Len(frames'), i < j
          PROVE  frames'[j].sig \in frames'[i].saved /\ frames'[i].sig # frames'[j].sig
      <4>1. frames'[j] = frames[j - 1] /\ j - 1 \in 1 .. Len(frames)
        BY <3>3, <3>6
      <4>2. CASE i = 1
        BY <2>1, <3>1, <3>3, <3>4, <4>1, <4>2 DEF Nested
      <4>3. CASE i # 1
        <5>1. frames'[i] = frames[i - 1] /\ i - 1 \in 1 .. Len(frames) /\ i - 1 < j - 1
          BY <3>3, <3>6, <4>3
        <5> QED
          BY <4>1, <5>1 DEF Nested
      <4> QED
        BY <4>2, <4>3
    <3> QED
      BY <3>2, <3>5, <3>6 DEF Nested
  <2> QED
    BY <2>1, <2>2, <2>3
<1>3. CASE Sig!HandlerEnds
  <2>1. /\ frames # <<>> /\ UNCHANGED waiting
        /\ \/ UNCHANGED <<mask, frames>>
           \/ mask' = Head(frames).saved /\ frames' = Tail(frames)
    BY <1>3 DEF Sig!HandlerEnds
  <2>2. CASE UNCHANGED <<mask, frames>>
    BY <2>1, <2>2 DEF Nested
  <2>3. CASE mask' = Head(frames).saved /\ frames' = Tail(frames)
    <3>1. /\ Len(frames) \in Nat \ {0} /\ mask' = frames[1].saved /\ Len(frames') = Len(frames) - 1
          /\ \A i \in 1 .. Len(frames) - 1 : frames'[i] = frames[i + 1]
      BY <2>1, <2>3, Pop DEF SigTypes
    <3>2. waiting' # "in"
      BY <2>1 DEF Nested
    <3>3. ASSUME NEW i \in 1 .. Len(frames') PROVE frames'[i].sig \in mask'
      BY <3>1 DEF Nested
    <3>4. ASSUME NEW i \in 1 .. Len(frames'), NEW j \in 1 .. Len(frames'), i < j
          PROVE  frames'[j].sig \in frames'[i].saved /\ frames'[i].sig # frames'[j].sig
      <4>1. /\ frames'[i] = frames[i + 1] /\ frames'[j] = frames[j + 1] /\ i + 1 < j + 1
            /\ i + 1 \in 1 .. Len(frames) /\ j + 1 \in 1 .. Len(frames)
        BY <3>1, <3>4
      <4> QED
        BY <4>1 DEF Nested
    <3> QED
      BY <3>2, <3>3, <3>4 DEF Nested
  <2> QED
    BY <2>1, <2>2, <2>3
<1>4. CASE Calls
  <2>1. frames' = <<>>
    BY <1>4, CallFrames
  <2> QED
    BY <2>1 DEF Nested
<1> QED
  BY <1>1, <1>2, <1>3, <1>4, SigSteps

\* A signal that is sent while a program may not expect it makes the run late.
LEMMA SentLate ==
  ASSUME NEW sig \in Sigs, SigTypes, Sig!Send(sig), Sig!Suspends, ~ late'
  PROVE  ~ late /\ BlockAt < sigPc /\ sigPc <= WaitAt /\ waiting = "no"
<1>1. ~ late /\ Sig!Timely /\ sigPc \in Nat \ {0}
  BY DEF Sig!Send, SigTypes
<1>2. PICK i \in sigPc .. Len(Sig!Code) :
        \/ Sig!Code[i].op = "fork"
        \/ Sig!Code[i].op = "sigsuspend" /\ waiting = "no" /\ i - sigPc \in {0, 1} /\ Sig!Code[sigPc].op # "block"
  BY <1>1 DEF Sig!Timely
<1>3. Len(Sig!Code) = WaitAt + 1 /\ WaitAt \in Nat
  BY SuspendsCode, Places
<1>4. i \in 1 .. WaitAt + 1
  BY <1>1, <1>2, <1>3
<1>5. i = WaitAt /\ Sig!Code[i].op = "sigsuspend"
  <2>1. CASE i \in 1 .. BlockAt - 1
    BY <1>2, <2>1, SuspendsCode
  <2>2. CASE i = BlockAt
    BY <1>2, <2>2, SuspendsCode
  <2>3. CASE i \in BlockAt + 1 .. WaitAt - 1
    BY <1>2, <2>3, SuspendsCode
  <2>4. CASE i = WaitAt
    BY <2>4, SuspendsCode
  <2>5. CASE i = WaitAt + 1
    BY <1>2, <2>5, SuspendsCode
  <2> QED
    BY <1>3, <1>4, <2>1, <2>2, <2>3, <2>4, <2>5, Places
<1>6. waiting = "no" /\ i - sigPc \in {0, 1} /\ (i # sigPc => Sig!Code[sigPc].op # "block")
  BY <1>2, <1>5
<1>7. sigPc # BlockAt
  BY <1>5, <1>6, SuspendsCode, Places
<1> QED
  BY <1>1, <1>3, <1>5, <1>6, <1>7, Places

\* Nothing but the state of a program that suspends is looked at.
LEMMA SameProgram ==
  ASSUME sigProgram' = sigProgram
  PROVE  /\ BlockAt' = BlockAt /\ WaitAt' = WaitAt /\ LeaveAt' = LeaveAt /\ Blocked' = Blocked
         /\ Sig!Suspends' = Sig!Suspends /\ Forks' = Forks /\ Execs' = Execs /\ Asking' = Asking
BY DEF BlockAt, WaitAt, LeaveAt, Blocked, Sig!Suspends, Forks, Execs, Asking

\* A signal comes at the prompt.
LEMMA PromptedSend ==
  ASSUME NEW sig \in Sigs, SigTypes, Nested, Prompted, Sig!Suspends, Sig!Send(sig)
  PROVE  Prompted'
<1>1. /\ UNCHANGED <<sigProgram, sigPc, mask, oldset, waiting, frames, disp, said, sigOutcome, handled>>
      /\ sigOutcome = "running" /\ pending' = pending \cup {sig}
      /\ sent' = [sent EXCEPT ![sig] = @ + 1]
  BY DEF Prompted, Sig!Send, Sig!Running
<1>2. CASE ~ late'
  <2>1. ~ late /\ BlockAt < sigPc /\ sigPc <= WaitAt /\ waiting = "no"
    BY <1>2, SentLate
  <2>2. AtPrompt
    <3>1. Before \/ AtPrompt \/ Suspended \/ Handling \/ Settled
      BY <1>1, <2>1 DEF Prompted
    <3> QED
      BY <2>1, <3>1, Places DEF Before, Suspended, Handling, Settled, SigTypes
  <2>3. ASSUME NEW s \in Blocked PROVE Unhandled(s)'
    <3>1. s \in Sigs /\ Unhandled(s) /\ sent[s] \in Nat
      BY <2>2 DEF AtPrompt, Blocked, USR1, USR2, Sigs, Sig!Signals, SigTypes
    <3> QED
      BY <1>1, <3>1 DEF Unhandled, SigTypes
  <2>4. AtPrompt'
    BY <1>1, <2>2, <2>3, SameProgram DEF AtPrompt
  <2> QED
    BY <1>1, <2>4 DEF Prompted
<1> QED
  BY <1>1, <1>2 DEF Prompted

\* the signals that a program blocks are among those that there are
LEMMA BlockedIn == Blocked \subseteq Sigs /\ USR1 \in Blocked
BY DEF Blocked, USR1, USR2, Sigs, Sig!Signals

\* A signal is delivered.
LEMMA PromptedDeliver ==
  ASSUME SigTypes, Nested, Prompted, Sig!Suspends, Sig!Deliver
  PROVE  Prompted'
<1>1. PICK sig \in Sigs :
         /\ sig \in pending /\ sig \notin mask /\ sigOutcome = "running"
         /\ pending' = pending \ {sig}
         /\ \/ disp[sig] = "default" /\ sigOutcome' = "killed" /\ UNCHANGED <<mask, waiting, frames, handled>>
            \/ /\ disp[sig] # "default" /\ sigOutcome' = "running"
               /\ frames' = <<[sig |-> sig, saved |-> IF waiting = "in" THEN restore ELSE mask]>> \o frames
               /\ mask' = mask \cup {sig}
               /\ waiting' = IF waiting = "in" THEN "woken" ELSE waiting
               /\ handled' = [handled EXCEPT ![sig] = @ + 1]
         /\ UNCHANGED <<sigProgram, sigPc, oldset, restore, disp, said, sent, late>>
  BY DeliverFacts
<1>2. CASE sigOutcome' = "killed"
  BY <1>1, <1>2 DEF Prompted, Sig!Suspends
<1>3. CASE sigOutcome' = "running" /\ ~ late
  <2> DEFINE f == [sig |-> sig, saved |-> IF waiting = "in" THEN restore ELSE mask]
  <2>1. f \in Frame /\ f.sig = sig /\ (waiting # "in" => f.saved = mask)
    BY DEF Frame, SigTypes
  <2>2. /\ frames' = <<f>> \o frames /\ mask' = mask \cup {sig}
        /\ waiting' = (IF waiting = "in" THEN "woken" ELSE waiting)
        /\ handled' = [handled EXCEPT ![sig] = @ + 1]
    BY <1>1, <1>3
  <2> HIDE DEF f
  <2>3. /\ Len(frames') = Len(frames) + 1 /\ Len(frames) \in Nat /\ frames'[1] = f
        /\ \A i \in 2 .. Len(frames) + 1 : frames'[i] = frames[i - 1]
    BY <2>1, <2>2, Push DEF SigTypes
  <2>4. \A s \in Sigs : handled'[s] = IF s = sig THEN handled[s] + 1 ELSE handled[s]
    BY <2>2 DEF SigTypes
  <2>5. /\ UNCHANGED <<sigProgram, sigPc, oldset, said, sent, late>>
        /\ pending' = pending \ {sig} /\ sig \in pending /\ sig \notin mask
        /\ WaitAt' = WaitAt /\ BlockAt' = BlockAt /\ Blocked' = Blocked
    BY <1>1, SameProgram
  <2>6. Before \/ AtPrompt \/ Suspended \/ Handling \/ Settled
    BY <1>1, <1>3 DEF Prompted
  <2>7. ~ Before
    BY <1>1 DEF Before
  <2>8. CASE AtPrompt
    <3>1. sig \notin Blocked /\ waiting' = waiting /\ f.saved = mask
      BY <2>1, <2>2, <2>5, <2>8 DEF AtPrompt
    <3>2. ASSUME NEW s \in Blocked PROVE Unhandled(s)'
      BY <2>4, <2>5, <2>8, <3>1, <3>2, BlockedIn DEF AtPrompt, Unhandled
    <3>3. ASSUME NEW i \in 1 .. Len(frames') PROVE Blocked \subseteq frames'[i].saved
      <4>1. CASE i = 1
        BY <2>3, <2>8, <3>1, <4>1 DEF AtPrompt
      <4>2. CASE i # 1
        <5>1. i \in 2 .. Len(frames) + 1 /\ i - 1 \in 1 .. Len(frames)
          BY <2>3, <4>2
        <5> QED
          BY <2>3, <2>8, <5>1 DEF AtPrompt
      <4> QED
        BY <4>1, <4>2
    <3>4. AtPrompt'
      BY <2>2, <2>5, <2>8, <3>1, <3>2, <3>3 DEF AtPrompt
    <3> QED
      BY <1>1, <1>3, <3>4 DEF Prompted
  <2>9. CASE Suspended \/ Handling
    <3>1. sigPc' = WaitAt' /\ waiting' = "woken"
      BY <2>2, <2>5, <2>9 DEF Suspended, Handling
    <3>2. Len(frames') \in Nat \ {0} /\ frames' # <<>>
      BY <2>3
    <3>3. ASSUME NEW s \in mask' PROVE \E i \in 1 .. Len(frames') : frames'[i].sig = s
      <4>1. CASE s = sig
        <5>1. frames'[1].sig = s /\ 1 \in 1 .. Len(frames')
          BY <2>1, <2>3, <4>1
        <5> QED
          BY <5>1
      <4>2. CASE s \in mask
        <5>1. PICK i \in 1 .. Len(frames) : frames[i].sig = s
          BY <2>9, <4>2 DEF Suspended, Handling
        <5>2. i + 1 \in 1 .. Len(frames') /\ i + 1 \in 2 .. Len(frames) + 1 /\ (i + 1) - 1 = i
          BY <2>3
        <5>3. frames'[i + 1].sig = s
          BY <2>3, <5>1, <5>2
        <5> QED
          BY <5>2, <5>3
      <4> QED
        BY <2>2, <4>1, <4>2
    <3>4. ASSUME NEW i \in 1 .. Len(frames') - 1, NEW s \in frames'[i].saved
          PROVE  \E j \in i + 1 .. Len(frames') : frames'[j].sig = s
      <4>1. Handling
        BY <2>3, <2>9, <3>4 DEF Suspended
      <4>2. \E k \in i .. Len(frames) : frames[k].sig = s
        <5>1. CASE i = 1
          <6>1. s \in mask
            BY <2>1, <2>3, <4>1, <5>1 DEF Handling
          <6> QED
            BY <4>1, <5>1, <6>1 DEF Handling
        <5>2. CASE i # 1
          <6>1. i \in 2 .. Len(frames) + 1 /\ i - 1 \in 1 .. Len(frames) - 1 /\ (i - 1) + 1 = i
            BY <2>3, <5>2
          <6>2. s \in frames[i - 1].saved
            BY <2>3, <6>1
          <6> QED
            BY <4>1, <6>1, <6>2 DEF Handling
        <5> QED
          BY <5>1, <5>2
      <4>3. PICK k \in i .. Len(frames) : frames[k].sig = s
        BY <4>2
      <4>4. k + 1 \in i + 1 .. Len(frames') /\ k + 1 \in 2 .. Len(frames) + 1 /\ (k + 1) - 1 = k
        BY <2>3
      <4>5. frames'[k + 1].sig = s
        BY <2>3, <4>3, <4>4
      <4> QED
        BY <4>4, <4>5
    <3>5. ASSUME NEW i \in 1 .. Len(frames'), frames'[i].sig \in Blocked
          PROVE  frames'[i].sig \notin pending'
      <4>1. CASE i = 1
        BY <2>1, <2>3, <2>5, <4>1
      <4>2. CASE i # 1
        <5>1. i \in 2 .. Len(frames) + 1 /\ i - 1 \in 1 .. Len(frames)
          BY <2>3, <4>2
        <5>2. frames'[i] = frames[i - 1] /\ Handling
          BY <2>3, <2>9, <5>1 DEF Suspended
        <5> QED
          BY <2>5, <3>5, <5>1, <5>2 DEF Handling
      <4> QED
        BY <4>1, <4>2
    <3>6. ASSUME NEW s \in Blocked
          PROVE  Unhandled(s)' \/ (handled'[s] = 1 /\ sent'[s] > 0 /\ s \notin pending')
      <4>1. Unhandled(s) \/ (handled[s] = 1 /\ sent[s] > 0 /\ s \notin pending)
        BY <2>9 DEF Suspended, Handling
      <4>2. s \in Sigs
        BY BlockedIn
      <4> QED
        BY <2>4, <2>5, <4>1, <4>2 DEF Unhandled
    <3>7. Handling'
      BY <2>5, <3>1, <3>2, <3>3, <3>4, <3>5, <3>6 DEF Handling
    <3> QED
      BY <1>1, <1>3, <3>7 DEF Prompted
  <2>10. CASE Settled
    <3>1. waiting = "woken" => waiting' = "woken"
      BY <2>2
    <3>2. ASSUME NEW s \in Blocked
          PROVE  s \notin pending' /\ handled'[s] = IF sent'[s] = 0 THEN 0 ELSE 1
      BY <2>4, <2>5, <2>10, BlockedIn DEF Settled
    <3>3. Settled'
      BY <2>5, <2>10, <3>1, <3>2 DEF Settled
    <3> QED
      BY <1>1, <1>3, <3>3 DEF Prompted
  <2> QED
    BY <2>6, <2>7, <2>8, <2>9, <2>10
<1> QED
  BY <1>1, <1>2, <1>3 DEF Prompted

\* A handler returns: after the first one nothing that was blocked is pending.
LEMMA PromptedReturn ==
  ASSUME SigTypes, Nested, Prompted, Sig!Suspends, Sig!HandlerEnds
  PROVE  Prompted'
<1>1. /\ frames # <<>> /\ mask' = Head(frames).saved /\ frames' = Tail(frames)
      /\ pending \subseteq mask /\ sigOutcome = "running" /\ sigOutcome' = sigOutcome
      /\ UNCHANGED <<sigProgram, sigPc, pending, oldset, disp, waiting, said, sent, handled, late>>
  BY DEF Sig!HandlerEnds, Sig!UserMode, Sig!Running, Sig!Deliverable, Sig!ghosts, Sig!Suspends
<1>2. /\ Len(frames) \in Nat \ {0} /\ mask' = frames[1].saved /\ Len(frames') = Len(frames) - 1
      /\ \A i \in 1 .. Len(frames) - 1 : frames'[i] = frames[i + 1]
  BY <1>1, Pop DEF SigTypes
<1>3. WaitAt' = WaitAt /\ BlockAt' = BlockAt /\ Blocked' = Blocked
  BY <1>1, SameProgram
<1>4. CASE late
  BY <1>1, <1>4 DEF Prompted
<1>5. CASE ~ late
  <2>1. AtPrompt \/ Handling \/ Settled
    BY <1>1, <1>5 DEF Prompted, Before, Suspended
  <2>2. CASE AtPrompt
    <3>1. ASSUME NEW i \in 1 .. Len(frames') PROVE Blocked \subseteq frames'[i].saved
      <4>1. frames'[i] = frames[i + 1] /\ i + 1 \in 1 .. Len(frames)
        BY <1>2
      <4> QED
        BY <2>2, <4>1 DEF AtPrompt
    <3>2. Blocked \subseteq mask'
      BY <1>2, <2>2 DEF AtPrompt
    <3>3. \A s \in Blocked : Unhandled(s)'
      BY <1>1, <2>2 DEF AtPrompt, Unhandled
    <3>4. AtPrompt'
      BY <1>1, <1>3, <2>2, <3>1, <3>2, <3>3 DEF AtPrompt
    <3> QED
      BY <1>1, <3>4 DEF Prompted
  <2>3. CASE Handling
    <3>1. CASE frames' # <<>>
      <4>1. ASSUME NEW s \in mask' PROVE \E i \in 1 .. Len(frames') : frames'[i].sig = s
        <5>0. Len(frames) > 1
          <6>1. frames' \in Seq(Frame)
            BY <1>1, Pop DEF SigTypes
          <6>2. Len(frames') # 0
            BY <3>1, <6>1, EmptySeq
          <6> QED
            BY <1>2, <6>2
        <5>1. PICK j \in 2 .. Len(frames) : frames[j].sig = s
          <6>1. 1 \in 1 .. Len(frames) - 1 /\ 1 + 1 = 2 /\ s \in frames[1].saved
            BY <1>2, <5>0
          <6>2. \E j \in 1 + 1 .. Len(frames) : frames[j].sig = s
            BY <2>3, <6>1 DEF Handling
          <6> QED
            BY <6>1, <6>2
        <5>2. j - 1 \in 1 .. Len(frames') /\ j - 1 \in 1 .. Len(frames) - 1 /\ (j - 1) + 1 = j
          BY <1>2
        <5>3. frames'[j - 1].sig = s
          BY <1>2, <5>1, <5>2
        <5> QED
          BY <5>2, <5>3
      <4>2. ASSUME NEW i \in 1 .. Len(frames') - 1, NEW s \in frames'[i].saved
            PROVE  \E j \in i + 1 .. Len(frames') : frames'[j].sig = s
        <5>1. /\ i + 1 \in 1 .. Len(frames) - 1 /\ frames'[i] = frames[i + 1]
              /\ (i + 1) + 1 = i + 2
          BY <1>2
        <5>2. PICK j \in (i + 1) + 1 .. Len(frames) : frames[j].sig = s
          BY <2>3, <5>1 DEF Handling
        <5>3. j - 1 \in i + 1 .. Len(frames') /\ j - 1 \in 1 .. Len(frames) - 1 /\ (j - 1) + 1 = j
          BY <1>2
        <5>4. frames'[j - 1].sig = s
          BY <1>2, <5>2, <5>3
        <5> QED
          BY <5>3, <5>4
      <4>3. ASSUME NEW i \in 1 .. Len(frames'), frames'[i].sig \in Blocked
            PROVE  frames'[i].sig \notin pending'
        <5>1. frames'[i] = frames[i + 1] /\ i + 1 \in 1 .. Len(frames)
          BY <1>2
        <5> QED
          BY <1>1, <2>3, <4>3, <5>1 DEF Handling
      <4>4. \A s \in Blocked :
              Unhandled(s)' \/ (handled'[s] = 1 /\ sent'[s] > 0 /\ s \notin pending')
        BY <1>1, <2>3 DEF Handling, Unhandled
      <4>5. Handling'
        BY <1>1, <1>3, <2>3, <3>1, <4>1, <4>2, <4>3, <4>4 DEF Handling
      <4> QED
        BY <1>1, <4>5 DEF Prompted
    <3>2. ASSUME NEW s \in Blocked
          PROVE  s \notin pending' /\ handled'[s] = IF sent'[s] = 0 THEN 0 ELSE 1
      <4>1. s \notin pending
        <5> SUFFICES ASSUME s \in pending PROVE FALSE
          OBVIOUS
        <5>1. s \in mask
          BY <1>1
        <5>2. PICK i \in 1 .. Len(frames) : frames[i].sig = s
          BY <2>3, <5>1 DEF Handling
        <5> QED
          BY <2>3, <5>2 DEF Handling
      <4>2. sent[s] \in Nat
        BY BlockedIn DEF SigTypes
      <4> QED
        BY <1>1, <2>3, <4>1, <4>2 DEF Handling, Unhandled
    <3>3. Settled'
      BY <1>1, <1>3, <2>3, <3>2 DEF Handling, Settled
    <3> QED
      BY <1>1, <3>3 DEF Prompted
  <2>4. CASE Settled
    <3>1. Settled'
      BY <1>1, <1>3, <2>4 DEF Settled
    <3> QED
      BY <1>1, <3>1 DEF Prompted
  <2> QED
    BY <2>1, <2>2, <2>3, <2>4
<1> QED
  BY <1>4, <1>5

\* A call of a program that suspends.
LEMMA PromptedCall ==
  ASSUME SigTypes, Nested, Prompted, Sig!Suspends, Calls
  PROVE  Prompted'
<1>0. /\ frames = <<>> /\ frames' = <<>> /\ sigProgram' = sigProgram
      /\ WaitAt' = WaitAt /\ BlockAt' = BlockAt /\ Blocked' = Blocked
      /\ WaitAt \in Nat /\ BlockAt \in Nat /\ BlockAt < WaitAt /\ sigPc \in Nat \ {0}
  BY CallFrames, SameProgram, Places DEF SigTypes
<1>1. ASSUME NEW op, Sig!At(op)
      PROVE  /\ op \in {"sigaction", "block", "getchar", "sigsuspend", "sleep"}
             /\ sigPc <= WaitAt + 1
             /\ op = "sigaction" => sigPc < BlockAt /\ How = "handler"
             /\ op = "block" => sigPc = BlockAt /\ Arg = Blocked
             /\ op = "getchar" => BlockAt < sigPc /\ sigPc < WaitAt
             /\ op = "sigsuspend" => sigPc = WaitAt
             /\ op = "sleep" => sigPc = WaitAt + 1
             /\ pending \subseteq mask /\ sigOutcome = "running"
  BY <1>0, <1>1, AtCall, SuspendsAt
<1>2. CASE Sig!sigaction
  <2>1. sigPc < BlockAt /\ How = "handler" /\ sigOutcome = "running"
    BY <1>1, <1>2 DEF Sig!sigaction
  <2>2. /\ sigPc' = sigPc + 1 /\ pending' = pending
        /\ UNCHANGED <<mask, oldset, waiting, said, sigOutcome, sent, handled, late>>
        /\ disp' = [sig \in Sigs |-> IF sig \in Arg THEN "handler" ELSE disp[sig]]
    BY <1>2, <2>1 DEF Sig!sigaction, Sig!Step, Sig!ghosts, How, Arg, Sig!Arg, Sigs
  <2>3. \A sig \in Sigs : disp'[sig] # "ignore"
    BY <2>2 DEF Prompted
  <2>4. ~ late => Before
    <3>1. ~ late => Before \/ AtPrompt \/ Suspended \/ Handling \/ Settled
      BY <2>1 DEF Prompted
    <3> QED
      BY <1>0, <2>1, <3>1 DEF AtPrompt, Suspended, Handling, Settled
  <2>5. ~ late' => Before'
    BY <1>0, <2>1, <2>2, <2>4 DEF Before
  <2> QED
    BY <2>1, <2>2, <2>3, <2>5 DEF Prompted
<1>3. CASE Sig!sigprocmask
  <2>1. sigPc = BlockAt /\ Arg = Blocked /\ sigOutcome = "running"
    BY <1>1, <1>3 DEF Sig!sigprocmask
  <2>2. /\ sigPc' = sigPc + 1 /\ oldset' = mask /\ mask' = mask \cup Arg
        /\ UNCHANGED <<pending, disp, waiting, said, sigOutcome, sent, handled, late>>
    BY <1>3 DEF Sig!sigprocmask, Sig!Step, Sig!ghosts, Arg, Sig!Arg
  <2>3. ~ late => Before
    <3>1. ~ late => Before \/ AtPrompt \/ Suspended \/ Handling \/ Settled
      BY <2>1 DEF Prompted
    <3> QED
      BY <1>0, <2>1, <3>1 DEF AtPrompt, Suspended, Handling, Settled
  <2>4. Before => AtPrompt'
    BY <1>0, <2>1, <2>2, BlockedIn DEF Before, AtPrompt, Unhandled
  <2> QED
    BY <2>1, <2>2, <2>3, <2>4 DEF Prompted
<1>4. CASE Sig!getchar
  <2>1. BlockAt < sigPc /\ sigPc < WaitAt /\ sigOutcome = "running"
    BY <1>1, <1>4 DEF Sig!getchar
  <2>2. /\ sigPc' = sigPc + 1
        /\ UNCHANGED <<mask, oldset, pending, disp, waiting, said, sigOutcome, sent, handled, late>>
    BY <1>4 DEF Sig!getchar, Sig!Step, Sig!ghosts, Sig!kernel
  <2>3. ~ late => AtPrompt
    <3>1. ~ late => Before \/ AtPrompt \/ Suspended \/ Handling \/ Settled
      BY <2>1 DEF Prompted
    <3> QED
      BY <1>0, <2>1, <3>1 DEF Before, Suspended, Handling, Settled
  <2>4. AtPrompt => AtPrompt'
    BY <1>0, <2>1, <2>2 DEF AtPrompt, Unhandled
  <2> QED
    BY <2>1, <2>2, <2>3, <2>4 DEF Prompted
<1>5. CASE Sig!Suspend
  <2>1. Sig!At("sigsuspend") /\ waiting = "no" /\ mask' = oldset
    BY <1>1, <1>5 DEF Sig!Suspend
  <2>2. /\ waiting' = "in"
        /\ UNCHANGED <<sigPc, pending, disp, said, sigOutcome, sent, handled, late>>
    BY <1>5 DEF Sig!Suspend, Sig!ghosts
  <2>3. sigPc = WaitAt /\ sigOutcome = "running"
    BY <1>1, <2>1
  <2>4. ~ late => AtPrompt
    <3>1. ~ late => Before \/ AtPrompt \/ Suspended \/ Handling \/ Settled
      BY <2>3 DEF Prompted
    <3> QED
      BY <1>0, <2>1, <2>3, <3>1 DEF Before, Suspended, Handling, Settled
  <2>5. AtPrompt => Suspended'
    BY <1>0, <2>1, <2>2, <2>3 DEF AtPrompt, Suspended, Unhandled
  <2> QED
    BY <2>2, <2>3, <2>4, <2>5 DEF Prompted
<1>6. CASE Sig!Wake
  <2>1. sigPc = WaitAt /\ sigOutcome = "running" /\ waiting = "woken"
    BY <1>1, <1>6 DEF Sig!Wake
  <2>2. /\ sigPc' = sigPc + 1
        /\ UNCHANGED <<pending, disp, said, sigOutcome, sent, handled, late>>
    BY <1>6 DEF Sig!Wake, Sig!Step, Sig!ghosts
  <2>3. ~ late => Settled
    <3>1. ~ late => Before \/ AtPrompt \/ Suspended \/ Handling \/ Settled
      BY <2>1 DEF Prompted
    <3> QED
      BY <1>0, <2>1, <3>1 DEF Before, AtPrompt, Suspended, Handling
  <2>4. Settled => Settled'
    BY <1>0, <2>1, <2>2 DEF Settled
  <2> QED
    BY <2>1, <2>2, <2>3, <2>4 DEF Prompted
<1>7. CASE Sig!Pass
  <2>1. sigPc = WaitAt + 1 /\ sigOutcome = "running"
    BY <1>1, <1>7 DEF Sig!Pass
  <2>2. /\ sigPc' = sigPc + 1
        /\ UNCHANGED <<pending, disp, said, sigOutcome, sent, handled, late>>
    BY <1>7 DEF Sig!Pass, Sig!Step, Sig!ghosts, Sig!kernel
  <2>3. ~ late => Settled
    <3>1. ~ late => Before \/ AtPrompt \/ Suspended \/ Handling \/ Settled
      BY <2>1 DEF Prompted
    <3> QED
      BY <1>0, <2>1, <3>1 DEF Before, AtPrompt, Suspended, Handling
  <2>4. Settled => Settled'
    BY <1>0, <2>1, <2>2 DEF Settled
  <2> QED
    BY <2>1, <2>2, <2>3, <2>4 DEF Prompted
<1>8. CASE Sig!Return
  <2>1. sigPc > WaitAt + 1 /\ sigOutcome = "running"
    BY <1>0, <1>8, SuspendsCode DEF Sig!Return, Sig!UserMode, Sig!Running
  <2>2. /\ sigOutcome' = "done"
        /\ UNCHANGED <<sigPc, pending, disp, waiting, said, sent, handled, late>>
    BY <1>8 DEF Sig!Return, Sig!ghosts, Sig!kernel
  <2>3. ~ late => Settled
    <3>1. ~ late => Before \/ AtPrompt \/ Suspended \/ Handling \/ Settled
      BY <2>1 DEF Prompted
    <3> QED
      BY <1>0, <2>1, <3>1 DEF Before, AtPrompt, Suspended, Handling
  <2>4. Settled => Settled'
    BY <1>0, <2>1, <2>2 DEF Settled
  <2> QED
    BY <2>1, <2>2, <2>3, <2>4 DEF Prompted
<1>9. CASE \/ Sig!raise \/ Sig!Expect \/ Sig!fork \/ Sig!execve \/ Sig!Ask \/ Sig!select
           \/ Sig!ReadStdin \/ Sig!ReadSigfd
  <2>1. \E op \in {"raise", "expect", "fork", "execve", "asks_mask", "asks_pending", "asks_disp",
                   "select", "read_stdin", "read_sigfd"} : Sig!At(op)
    BY <1>9 DEF Sig!raise, Sig!Expect, Sig!fork, Sig!execve, Sig!Ask, Sig!select,
                Sig!ReadStdin, Sig!ReadSigfd
  <2>2. PICK op \in {"raise", "expect", "fork", "execve", "asks_mask", "asks_pending", "asks_disp",
                     "select", "read_stdin", "read_sigfd"} : Sig!At(op)
    BY <2>1
  <2>3. op \in {"sigaction", "block", "getchar", "sigsuspend", "sleep"}
    BY <1>1, <2>2
  <2> QED
    BY <2>3
<1> QED
  BY <1>2, <1>3, <1>4, <1>5, <1>6, <1>7, <1>8, <1>9 DEF Calls

\* A program that suspends keeps its invariant.
LEMMA PromptedStep == SigTypes /\ Nested /\ Prompted /\ Sig!Next => Prompted'
<1> SUFFICES ASSUME SigTypes, Nested, Prompted, Sig!Next PROVE Prompted'
  OBVIOUS
<1>1. sigProgram' = sigProgram
  <2>1. CASE Sig!Type \/ (\E sig \in Sigs : Sig!Send(sig)) \/ Sig!HandlerEnds
    BY <2>1 DEF Sig!Type, Sig!Send, Sig!HandlerEnds
  <2> QED
    BY <2>1, SigSteps, CallFrames, DeliverFacts
<1>2. CASE ~ Sig!Suspends
  BY <1>1, <1>2, SameProgram DEF Prompted
<1>3. CASE Sig!Suspends
  <2>1. CASE Sig!Type
    <3>1. /\ UNCHANGED <<sigPc, mask, pending, oldset, disp, waiting, frames, said, sigOutcome, sent, handled, late>>
      BY <2>1 DEF Sig!Type, Sig!kernel, Sig!ghosts
    <3>2. UNCHANGED <<BlockAt, WaitAt, Blocked>>
      BY <1>1, SameProgram
    <3> QED
      BY <1>3, <3>1, <3>2 DEF Prompted, Before, AtPrompt, Suspended, Handling, Settled, Unhandled
  <2> QED
    BY <1>3, <2>1, SigSteps, PromptedSend, PromptedDeliver, PromptedReturn, PromptedCall
<1> QED
  BY <1>2, <1>3

\* the three signals
LEMMA Three ==
  /\ USR1 \in Sigs /\ USR2 \in Sigs /\ Sig!SIGTERM \in Sigs
  /\ \A sig \in Sigs : sig \in {USR1, USR2, Sig!SIGTERM}
  /\ USR1 # USR2 /\ USR1 # Sig!SIGTERM /\ USR2 # Sig!SIGTERM
BY DEF USR1, USR2, Sigs, Sig!Signals, Sig!SIGUSR1, Sig!SIGUSR2, Sig!SIGTERM

\* A signal is sent to a program that asks.
LEMMA AskedSend ==
  ASSUME NEW sig \in Sigs, SigTypes, Asked, Asking, Sig!Send(sig)
  PROVE  Asked'
<1>1. /\ UNCHANGED <<sigProgram, sigPc, mask, waiting, frames, disp, said, sigOutcome>>
      /\ sigOutcome = "running" /\ late' = (late \/ ~ Sig!Timely)
      /\ pending' = IF disp[sig] = "ignore" /\ sig \notin mask THEN pending ELSE pending \cup {sig}
  BY DEF Sig!Send, Sig!Running
<1>2. Setup /\ Dispositions /\ Kept /\ Replies
  BY <1>1 DEF Asked
<1>3. UNCHANGED <<BlockAt, LeaveAt, Forks, Execs, Asking>>
  BY <1>1, SameProgram
<1>4. Setup'
  BY <1>1, <1>2, <1>3 DEF Setup
<1>5. Dispositions'
  <2>1. disp[USR2] = "ignore" => USR2 \notin pending'
    <3>1. USR2 \notin mask
      BY <1>2, Three DEF Setup
    <3> QED
      BY <1>1, <1>2, <3>1 DEF Dispositions
  <2> QED
    BY <1>1, <1>2, <1>3, <2>1 DEF Dispositions
<1>6. Kept'
  <2>1. USR1 \in pending => USR1 \in pending'
    BY <1>1
  <2>2. ASSUME Forks, sigPc > LeaveAt, ~ late' PROVE FALSE
    <3>1. PICK i \in sigPc .. Len(Sig!Code) : Sig!Code[i].op \in {"fork", "sigsuspend"}
      BY <1>1, <2>2 DEF Sig!Timely
    <3>2. i \in Nat /\ sigPc \in Nat /\ Len(Sig!Code) = LeaveAt + 3 /\ LeaveAt \in Nat
      BY AskingCode, Places DEF AskingList, SigTypes
    <3>3. i = LeaveAt + 1 \/ i = LeaveAt + 2 \/ i = LeaveAt + 3
      BY <2>2, <3>1, <3>2
    <3> QED
      BY <2>2, <3>1, <3>3, AskingCode DEF AskingList, Has
  <2> QED
    BY <1>1, <1>2, <1>3, <2>1, <2>2 DEF Kept
<1>7. Replies'
  <2>1. late => late'
    BY <1>1
  <2> QED
    BY <1>1, <1>2, <1>3, <2>1 DEF Replies
<1> QED
  BY <1>1, <1>2, <1>4, <1>5, <1>6, <1>7 DEF Asked

\* A signal is delivered to it, a handler returns, or the user types.
LEMMA AskedDeliver ==
  ASSUME SigTypes, Asked, Asking, Sig!Deliver
  PROVE  Asked'
<1>1. PICK sig \in Sigs :
         /\ sig \in pending /\ sig \notin mask /\ sigOutcome = "running"
         /\ pending' = pending \ {sig}
         /\ \/ disp[sig] = "default" /\ sigOutcome' = "killed" /\ UNCHANGED <<mask, waiting, frames, handled>>
            \/ /\ disp[sig] # "default" /\ sigOutcome' = "running"
               /\ frames' = <<[sig |-> sig, saved |-> IF waiting = "in" THEN restore ELSE mask]>> \o frames
               /\ mask' = mask \cup {sig}
               /\ waiting' = IF waiting = "in" THEN "woken" ELSE waiting
               /\ handled' = [handled EXCEPT ![sig] = @ + 1]
         /\ UNCHANGED <<sigProgram, sigPc, oldset, restore, disp, said, sent, late>>
  BY DeliverFacts
<1>2. Setup /\ Dispositions /\ Kept /\ Replies
  BY <1>1 DEF Asked
<1>3. UNCHANGED <<BlockAt, LeaveAt, Forks, Execs, Asking>>
  BY <1>1, SameProgram
<1>4. Replies'
  BY <1>1, <1>2, <1>3 DEF Replies
<1>5. CASE sigOutcome' = "killed"
  BY <1>4, <1>5 DEF Asked
<1>6. CASE sigOutcome' = "running"
  <2> DEFINE f == [sig |-> sig, saved |-> IF waiting = "in" THEN restore ELSE mask]
  <2>1. f \in Frame /\ f.sig = sig /\ f.saved = mask /\ waiting' = "no"
    BY <1>1, <1>2, <1>6 DEF Frame, SigTypes, Setup
  <2>2. /\ frames' = <<f>> \o frames /\ mask' = mask \cup {sig} /\ disp[sig] # "default"
    BY <1>1, <1>6
  <2> HIDE DEF f
  <2>3. sig = USR1
    BY <1>1, <1>2, <2>2, Three DEF Dispositions
  <2>4. sigPc <= BlockAt /\ mask = {}
    <3>1. sigPc <= BlockAt
      BY <1>1, <1>2, <2>3, Places DEF Setup, SigTypes
    <3>2. \A x \in mask : x = USR1
      BY <1>2 DEF Setup
    <3> QED
      BY <1>1, <2>3, <3>1, <3>2
  <2>5. /\ Len(frames') = Len(frames) + 1 /\ Len(frames) \in Nat /\ frames'[1] = f
        /\ \A i \in 2 .. Len(frames) + 1 : frames'[i] = frames[i - 1]
    BY <2>1, <2>2, Push DEF SigTypes
  <2>6. ASSUME NEW i \in 1 .. Len(frames')
        PROVE  frames'[i].sig = USR1 /\ frames'[i].saved = {}
    <3>1. CASE i = 1
      BY <2>1, <2>3, <2>4, <2>5, <3>1
    <3>2. CASE i # 1
      <4>1. frames'[i] = frames[i - 1] /\ i - 1 \in 1 .. Len(frames)
        BY <2>5, <3>2
      <4> QED
        BY <1>2, <2>4, <4>1 DEF Setup
    <3> QED
      BY <3>1, <3>2
  <2>7. Setup'
    <3>1. mask' \subseteq {USR1}
      BY <2>2, <2>3, <2>4
    <3>2. sigPc' <= BlockAt' /\ ~ (sigPc' > BlockAt')
      BY <1>1, <1>3, <2>4, Places DEF SigTypes
    <3> QED
      BY <2>1, <2>6, <3>1, <3>2 DEF Setup
  <2>8. Dispositions'
    BY <1>1, <1>2, <1>3 DEF Dispositions
  <2>9. Kept'
    BY <1>1, <1>2, <1>3, <2>4, Places DEF Kept, SigTypes
  <2> QED
    BY <1>4, <1>6, <2>7, <2>8, <2>9 DEF Asked
<1> QED
  BY <1>1, <1>5, <1>6

\* A handler returns to a program that asks: it had blocked nothing.
LEMMA AskedReturn ==
  ASSUME SigTypes, Asked, Asking, Sig!HandlerEnds
  PROVE  Asked'
<1>1. /\ frames # <<>> /\ mask' = Head(frames).saved /\ frames' = Tail(frames)
      /\ sigOutcome = "running" /\ sigOutcome' = sigOutcome
      /\ UNCHANGED <<sigProgram, sigPc, pending, disp, waiting, said, late>>
  BY DEF Sig!HandlerEnds, Sig!UserMode, Sig!Running, Sig!ghosts, Asking, Forks, Execs
<1>2. /\ Len(frames) \in Nat \ {0} /\ mask' = frames[1].saved /\ Len(frames') = Len(frames) - 1
      /\ \A i \in 1 .. Len(frames) - 1 : frames'[i] = frames[i + 1]
  BY <1>1, Pop DEF SigTypes
<1>3. UNCHANGED <<BlockAt, LeaveAt, Forks, Execs, Asking>>
  BY <1>1, SameProgram
<1>4. Setup /\ Dispositions /\ Kept /\ Replies
  BY <1>1 DEF Asked
<1>5. Setup'
  <2>1. sigPc <= BlockAt /\ sigPc' <= BlockAt' /\ ~ (sigPc' > BlockAt')
    BY <1>1, <1>3, <1>4, Places DEF Setup, SigTypes
  <2>2. \A i \in 1 .. Len(frames) : frames[i].sig = USR1 /\ frames[i].saved = {}
    BY <1>4, <2>1 DEF Setup
  <2>3. mask' = {}
    BY <1>2, <2>2
  <2>4. ASSUME NEW i \in 1 .. Len(frames') PROVE frames'[i].sig = USR1 /\ frames'[i].saved = {}
    <3>1. frames'[i] = frames[i + 1] /\ i + 1 \in 1 .. Len(frames)
      BY <1>2
    <3> QED
      BY <2>2, <3>1
  <2> QED
    BY <1>1, <1>4, <2>1, <2>3, <2>4 DEF Setup
<1>6. Dispositions' /\ Kept' /\ Replies'
  BY <1>1, <1>3, <1>4 DEF Dispositions, Kept, Replies
<1> QED
  BY <1>1, <1>5, <1>6 DEF Asked

\* an answer more
LEMMA OneMore ==
  ASSUME NEW a, NEW b, NEW c
  PROVE  Append(<<>>, a) = <<a>> /\ Append(<<a>>, b) = <<a, b>> /\ Append(<<a, b>>, c) = <<a, b, c>>
<1> DEFINE S == {a, b, c}
<1>1. ASSUME NEW s \in Seq(S), NEW t \in Seq(S), NEW x \in S, Len(t) = Len(s) + 1,
             \A i \in 1 .. Len(s) : t[i] = s[i], t[Len(s) + 1] = x
      PROVE  Append(s, x) = t
  <2> DEFINE u == Append(s, x)
  <2>1. /\ u \in Seq(S) /\ Len(u) = Len(s) + 1 /\ u[Len(s) + 1] = x /\ Len(s) \in Nat
        /\ \A i \in 1 .. Len(s) : u[i] = s[i]
    BY AppendProperties, LenProperties
  <2> HIDE DEF u
  <2>2. ASSUME NEW i \in 1 .. Len(u) PROVE u[i] = t[i]
    BY <1>1, <2>1
  <2>3. Len(u) = Len(t)
    BY <1>1, <2>1
  <2>4. u = t
    BY <2>1, <2>2, <2>3, SeqEqual
  <2> QED
    BY <2>4 DEF u
<1>2. /\ <<>> \in Seq(S) /\ Len(<<>>) = 0
      /\ <<a>> \in Seq(S) /\ Len(<<a>>) = 1 /\ <<a>>[1] = a
  OBVIOUS
<1>3. <<a, b>> \in Seq(S) /\ Len(<<a, b>>) = 2 /\ <<a, b>>[1] = a /\ <<a, b>>[2] = b
  OBVIOUS
<1>4. /\ <<a, b, c>> \in Seq(S) /\ Len(<<a, b, c>>) = 3
      /\ <<a, b, c>>[1] = a /\ <<a, b, c>>[2] = b /\ <<a, b, c>>[3] = c
  OBVIOUS
<1>5. a \in S /\ b \in S /\ c \in S
  OBVIOUS
<1> HIDE DEF S
<1>6. Append(<<>>, a) = <<a>>
  <2> DEFINE s == <<>>
             t == <<a>>
  <2>1. s \in Seq(S) /\ t \in Seq(S) /\ Len(s) = 0 /\ Len(t) = 1 /\ t[1] = a
    BY <1>2
  <2> HIDE DEF s, t
  <2>2. Len(t) = Len(s) + 1 /\ t[Len(s) + 1] = a /\ \A i \in 1 .. Len(s) : t[i] = s[i]
    BY <2>1
  <2>3. Append(s, a) = t
    BY <1>1, <1>5, <2>1, <2>2
  <2> QED
    BY <2>3 DEF s, t
<1>7. Append(<<a>>, b) = <<a, b>>
  <2> DEFINE s == <<a>>
             t == <<a, b>>
  <2>1. s \in Seq(S) /\ t \in Seq(S) /\ Len(s) = 1 /\ Len(t) = 2 /\ s[1] = a /\ t[1] = a /\ t[2] = b
    BY <1>2, <1>3
  <2> HIDE DEF s, t
  <2>2. Len(t) = Len(s) + 1 /\ t[Len(s) + 1] = b /\ \A i \in 1 .. Len(s) : t[i] = s[i]
    BY <2>1
  <2>3. Append(s, b) = t
    BY <1>1, <1>5, <2>1, <2>2
  <2> QED
    BY <2>3 DEF s, t
<1>8. Append(<<a, b>>, c) = <<a, b, c>>
  <2> DEFINE s == <<a, b>>
             t == <<a, b, c>>
  <2>1. /\ s \in Seq(S) /\ t \in Seq(S) /\ Len(s) = 2 /\ Len(t) = 3 /\ s[1] = a /\ s[2] = b
        /\ t[1] = a /\ t[2] = b /\ t[3] = c
    BY <1>3, <1>4
  <2> HIDE DEF s, t
  <2>2. Len(t) = Len(s) + 1 /\ t[Len(s) + 1] = c /\ \A i \in 1 .. Len(s) : t[i] = s[i]
    BY <2>1
  <2>3. Append(s, c) = t
    BY <1>1, <1>5, <2>1, <2>2
  <2> QED
    BY <2>3 DEF s, t
<1> QED
  BY <1>6, <1>7, <1>8

\* the answers so far
LEMMA RepliesAre ==
  ASSUME Replies, sigPc \in Nat, LeaveAt \in Nat
  PROVE  /\ sigPc <= LeaveAt + 1 => said = <<>>
         /\ sigPc = LeaveAt + 2 => said = <<TRUE>>
         /\ sigPc = LeaveAt + 3 => said = <<TRUE, TRUE>>
BY Zenon DEF Replies

\* the answers after a call
LEMMA RepliesThen ==
  ASSUME sigPc \in Nat, sigPc' = sigPc + 1, LeaveAt \in Nat, LeaveAt' = LeaveAt
  PROVE  /\ sigPc <= LeaveAt /\ said' = <<>> => Replies'
         /\ sigPc = LeaveAt + 1 /\ said' = <<TRUE>> => Replies'
         /\ sigPc = LeaveAt + 2 /\ said' = <<TRUE, TRUE>> => Replies'
         /\ \A b \in BOOLEAN :
              (sigPc = LeaveAt + 3 /\ said' = <<TRUE, TRUE, b>> /\ (Forks' /\ b => late') /\ (Execs' => b))
              => Replies'
<1>1. CASE sigPc <= LeaveAt
  <2>1. /\ sigPc # LeaveAt + 1 /\ sigPc # LeaveAt + 2 /\ sigPc # LeaveAt + 3
        /\ sigPc' # LeaveAt' + 2 /\ sigPc' # LeaveAt' + 3 /\ ~ (sigPc' > LeaveAt' + 3)
    BY <1>1
  <2> QED
    BY <2>1, Zenon DEF Replies
<1>2. CASE sigPc = LeaveAt + 1
  <2>1. /\ ~ (sigPc <= LeaveAt) /\ sigPc # LeaveAt + 2 /\ sigPc # LeaveAt + 3
        /\ ~ (sigPc' <= LeaveAt' + 1) /\ sigPc' # LeaveAt' + 3 /\ ~ (sigPc' > LeaveAt' + 3)
    BY <1>2
  <2> QED
    BY <2>1, Zenon DEF Replies
<1>3. CASE sigPc = LeaveAt + 2
  <2>1. /\ ~ (sigPc <= LeaveAt) /\ sigPc # LeaveAt + 1 /\ sigPc # LeaveAt + 3
        /\ ~ (sigPc' <= LeaveAt' + 1) /\ sigPc' # LeaveAt' + 2 /\ ~ (sigPc' > LeaveAt' + 3)
    BY <1>3
  <2> QED
    BY <2>1, Zenon DEF Replies
<1>4. CASE sigPc = LeaveAt + 3
  <2>1. /\ ~ (sigPc <= LeaveAt) /\ sigPc # LeaveAt + 1 /\ sigPc # LeaveAt + 2
        /\ ~ (sigPc' <= LeaveAt' + 1) /\ sigPc' # LeaveAt' + 2 /\ sigPc' # LeaveAt' + 3
    BY <1>4
  <2> QED
    BY <2>1, Zenon DEF Replies
<1>5. CASE ~ (sigPc <= LeaveAt) /\ sigPc # LeaveAt + 1 /\ sigPc # LeaveAt + 2 /\ sigPc # LeaveAt + 3
  BY <1>5, Zenon
<1> QED
  BY <1>1, <1>2, <1>3, <1>4, <1>5

\* no question was asked yet, and none is asked
LEMMA StillNone ==
  ASSUME Replies, sigPc \in Nat, LeaveAt \in Nat, sigPc <= LeaveAt, said' = said,
         LeaveAt' = LeaveAt, sigPc' = sigPc + 1
  PROVE  Replies'
<1>1. sigPc <= LeaveAt + 1
  OBVIOUS
<1>2. said' = <<>>
  BY <1>1, RepliesAre
<1> QED
  BY <1>2, RepliesThen

\* A program that asks makes its next call.
LEMMA AskedCall ==
  ASSUME SigTypes, Asked, Asking, Calls
  PROVE  Asked'
<1>0. /\ frames = <<>> /\ frames' = <<>> /\ sigProgram' = sigProgram
      /\ UNCHANGED <<BlockAt, LeaveAt, Forks, Execs, Asking>>
      /\ LeaveAt \in Nat /\ BlockAt \in Nat /\ BlockAt + 1 < LeaveAt /\ sigPc \in Nat \ {0}
      /\ BlockAt = (IF Execs THEN 3 ELSE 2) /\ ~ (Forks /\ Execs)
  BY CallFrames, SameProgram, Places DEF SigTypes
<1>e. Len(frames) = 0 /\ Len(frames') = 0
  BY <1>0
<1>1. ASSUME NEW op, Sig!At(op)
      PROVE  AskingOps /\ Op = op /\ sigOutcome = "running"
  BY <1>0, <1>1, AtCall, AskingAt
<1>2. sigOutcome = "running" /\ Setup /\ Dispositions /\ Kept /\ Replies
  <2>1. sigOutcome = "running"
    BY DEF Calls, Sig!sigaction, Sig!sigprocmask, Sig!raise, Sig!getchar, Sig!Suspend, Sig!Wake,
           Sig!Pass, Sig!Expect, Sig!fork, Sig!execve, Sig!Ask, Sig!select, Sig!ReadStdin,
           Sig!ReadSigfd, Sig!Return, Sig!At, Sig!UserMode, Sig!Running
  <2> QED
    BY <2>1 DEF Asked
<1>3. CASE Sig!sigaction
  <2>1. \/ sigPc = 1 /\ Arg = {USR1} /\ How = "handler"
        \/ Execs /\ sigPc = 2 /\ Arg = {USR2} /\ How = "ignore"
    BY <1>1, <1>3 DEF Sig!sigaction, AskingOps
  <2>2. /\ sigPc' = sigPc + 1 /\ UNCHANGED <<mask, waiting, said, sigOutcome, late>>
        /\ disp' = [sig \in Sigs |-> IF sig \in Arg THEN How ELSE disp[sig]]
        /\ pending' = IF How = "ignore" THEN pending \ Arg ELSE pending
    BY <1>3 DEF Sig!sigaction, Sig!Step, Sig!ghosts, How, Arg, Sig!Arg, Sigs
  <2>3. sigPc < BlockAt /\ sigPc + 1 <= BlockAt /\ sigPc + 1 <= LeaveAt
    BY <1>0, <2>1
  <2>4. Setup'
    BY <1>0, <1>e, <1>2, <2>2, <2>3 DEF Setup
  <2>5. Dispositions'
    <3>1. CASE sigPc = 1 /\ Arg = {USR1} /\ How = "handler"
      <4>1. /\ disp'[USR1] = "handler" /\ disp'[USR2] = disp[USR2] /\ disp'[Sig!SIGTERM] = disp[Sig!SIGTERM]
            /\ pending' = pending
        BY <2>2, <3>1, Three
      <4> QED
        BY <1>0, <1>2, <2>2, <3>1, <4>1 DEF Dispositions
    <3>2. CASE Execs /\ sigPc = 2 /\ Arg = {USR2} /\ How = "ignore"
      <4>1. /\ disp'[USR2] = "ignore" /\ disp'[USR1] = disp[USR1] /\ disp'[Sig!SIGTERM] = disp[Sig!SIGTERM]
            /\ USR2 \notin pending'
        BY <2>2, <3>2, Three
      <4> QED
        BY <1>0, <1>2, <2>2, <3>2, <4>1 DEF Dispositions
    <3> QED
      BY <2>1, <3>1, <3>2
  <2>6. Kept'
    BY <1>0, <1>2, <2>2, <2>3 DEF Kept
  <2>7. Replies'
    BY <1>0, <1>2, <2>2, <2>3, StillNone
  <2> QED
    BY <1>2, <2>2, <2>4, <2>5, <2>6, <2>7 DEF Asked
<1>4. CASE Sig!sigprocmask
  <2>1. sigPc = BlockAt /\ Arg = {USR1}
    BY <1>1, <1>4 DEF Sig!sigprocmask, AskingOps
  <2>2. /\ sigPc' = sigPc + 1 /\ mask' = mask \cup Arg
        /\ UNCHANGED <<pending, disp, waiting, said, sigOutcome, late>>
    BY <1>4 DEF Sig!sigprocmask, Sig!Step, Sig!ghosts, Arg, Sig!Arg
  <2>3. mask' = {USR1}
    BY <1>2, <2>1, <2>2 DEF Setup
  <2>4. Setup'
    BY <1>0, <1>e, <1>2, <2>1, <2>2, <2>3 DEF Setup
  <2>5. Dispositions' /\ Kept'
    BY <1>0, <1>2, <2>1, <2>2 DEF Dispositions, Kept
  <2>6. Replies'
    BY <1>0, <1>2, <2>1, <2>2, StillNone
  <2> QED
    BY <1>2, <2>2, <2>4, <2>5, <2>6 DEF Asked
<1>5. CASE Sig!raise \/ Sig!Pass
  <2>1. sigPc = BlockAt + 1 /\ Arg = {USR1}
    <3>1. CASE Sig!raise
      BY <1>1, <3>1 DEF Sig!raise, AskingOps
    <3>2. CASE Sig!Pass
      <4>1. Sig!At("sigpending")
        BY <1>1, <3>2 DEF Sig!Pass, AskingOps
      <4> QED
        BY <1>1, <4>1 DEF AskingOps
    <3> QED
      BY <1>5, <3>1, <3>2
  <2>2. /\ sigPc' = sigPc + 1 /\ USR1 \in pending' /\ pending' \subseteq pending \cup {USR1}
        /\ UNCHANGED <<mask, disp, waiting, said, sigOutcome, late>>
    <3>1. CASE Sig!raise
      BY <2>1, <3>1 DEF Sig!raise, Sig!Step, Sig!ghosts, Arg, Sig!Arg
    <3>2. CASE Sig!Pass
      <4>1. Sig!At("sigpending") /\ USR1 \in pending
        BY <1>1, <2>1, <3>2 DEF Sig!Pass, AskingOps, Arg, Sig!Arg
      <4> QED
        BY <3>2, <4>1 DEF Sig!Pass, Sig!Step, Sig!ghosts, Sig!kernel
    <3> QED
      BY <1>5, <3>1, <3>2
  <2>3. Setup'
    BY <1>0, <1>e, <1>2, <2>1, <2>2 DEF Setup
  <2>4. Dispositions'
    BY <1>0, <1>2, <2>1, <2>2, Three DEF Dispositions
  <2>5. Kept'
    BY <1>0, <1>2, <2>1, <2>2 DEF Kept
  <2>6. Replies'
    BY <1>0, <1>2, <2>1, <2>2, StillNone
  <2> QED
    BY <1>2, <2>2, <2>3, <2>4, <2>5, <2>6 DEF Asked
<1>6. CASE Sig!Expect
  <2>1. BlockAt + 1 < sigPc /\ sigPc < LeaveAt /\ Arg = {USR1}
    BY <1>1, <1>6 DEF Sig!Expect, AskingOps
  <2>2. Arg \subseteq pending
    BY <1>0, <1>2, <2>1 DEF Kept
  <2>3. /\ sigPc' = sigPc + 1
        /\ UNCHANGED <<mask, pending, disp, waiting, said, sigOutcome, late>>
    BY <1>6, <2>2 DEF Sig!Expect, Sig!Step, Sig!ghosts, Sig!kernel, Arg, Sig!Arg
  <2>4. Setup'
    BY <1>0, <1>e, <1>2, <2>1, <2>3 DEF Setup
  <2>5. Dispositions' /\ Kept'
    BY <1>0, <1>2, <2>1, <2>3 DEF Dispositions, Kept
  <2>6. Replies'
    BY <1>0, <1>2, <2>1, <2>3, StillNone
  <2> QED
    BY <1>2, <2>3, <2>4, <2>5, <2>6 DEF Asked
<1>7. CASE Sig!fork
  <2>1. Forks /\ sigPc = LeaveAt
    BY <1>1, <1>7 DEF Sig!fork, AskingOps
  <2>2. /\ sigPc' = sigPc + 1 /\ UNCHANGED <<mask, disp, waiting, said, late>>
        /\ (pending' = {} /\ sigOutcome' = sigOutcome) \/ sigOutcome' = "done"
    BY <1>7 DEF Sig!fork, Sig!Step, Sig!ghosts
  <2>3. Replies'
    BY <1>0, <1>2, <2>1, <2>2, StillNone
  <2>4. Setup'
    BY <1>0, <1>e, <1>2, <2>1, <2>2 DEF Setup
  <2>5. pending' = {} => Dispositions' /\ Kept'
    BY <1>0, <1>2, <2>1, <2>2 DEF Dispositions, Kept
  <2> QED
    BY <1>2, <2>2, <2>3, <2>4, <2>5 DEF Asked
<1>8. CASE Sig!execve
  <2>1. Execs /\ sigPc = LeaveAt
    BY <1>1, <1>8 DEF Sig!execve, AskingOps
  <2>2. /\ sigPc' = sigPc + 1 /\ UNCHANGED <<mask, pending, waiting, said, late>>
        /\ \/ /\ disp' = [sig \in Sigs |-> IF disp[sig] = "ignore" THEN "ignore" ELSE "default"]
              /\ sigOutcome' = sigOutcome
           \/ sigOutcome' = "failed"
    BY <1>8 DEF Sig!execve, Sig!Step, Sig!ghosts, Sigs
  <2>3. Replies'
    BY <1>0, <1>2, <2>1, <2>2, StillNone
  <2>4. Setup'
    BY <1>0, <1>e, <1>2, <2>1, <2>2 DEF Setup
  <2>5. Kept'
    BY <1>0, <1>2, <2>1, <2>2 DEF Kept
  <2>6. CASE sigOutcome' = "failed"
    BY <2>3, <2>6 DEF Asked
  <2>7. CASE sigOutcome' = "running"
    <3>1. \A sig \in Sigs : disp'[sig] = IF disp[sig] = "ignore" THEN "ignore" ELSE "default"
      BY <1>2, <2>2, <2>7
    <3>2. disp[USR2] = "ignore"
      BY <1>0, <1>2, <2>1 DEF Dispositions
    <3>3. /\ disp'[USR1] = "default" /\ disp'[USR2] = "ignore" /\ disp'[Sig!SIGTERM] = "default"
      BY <1>2, <3>1, <3>2, Three DEF Dispositions
    <3>4. Dispositions'
      BY <1>0, <1>2, <2>1, <2>2, <3>2, <3>3 DEF Dispositions
    <3> QED
      BY <2>3, <2>4, <2>5, <2>7, <3>4 DEF Asked
  <2> QED
    BY <1>2, <2>2, <2>6, <2>7
<1>9. CASE Sig!Ask
  <2>1. /\ sigPc' = sigPc + 1
        /\ UNCHANGED <<mask, pending, disp, waiting, sigOutcome, late>>
    BY <1>9 DEF Sig!Ask, Sig!Step, Sig!ghosts, Sig!kernel
  <2>2. LeaveAt < sigPc
    <3>1. PICK op \in {"asks_mask", "asks_pending", "asks_disp"} : Sig!At(op)
      BY <1>9 DEF Sig!Ask
    <3>2. AskingOps /\ Op = op
      BY <1>1, <3>1
    <3> QED
      BY <1>0, <3>2 DEF AskingOps
  <2>3. Setup'
    BY <1>0, <1>e, <1>2, <2>1, <2>2 DEF Setup
  <2>4. Dispositions'
    BY <1>0, <1>2, <2>1, <2>2 DEF Dispositions
  <2>5. Kept'
    BY <1>0, <1>2, <2>1, <2>2 DEF Kept
  <2>6. Replies'
    <3>1. CASE Sig!At("asks_mask") /\ said' = Append(said, Sig!Arg \subseteq mask)
      <4>1. sigPc = LeaveAt + 1 /\ Sig!Arg = {USR1}
        BY <1>1, <3>1 DEF AskingOps, Arg, Sig!Arg
      <4>2. said = <<>> /\ USR1 \in mask
        <5>1. sigPc <= LeaveAt + 1 /\ sigPc > BlockAt
          BY <1>0, <4>1
        <5> QED
          BY <1>0, <1>2, <5>1, RepliesAre DEF Setup
      <4>3. (Sig!Arg \subseteq mask) = TRUE
        BY <4>1, <4>2
      <4>4. said' = <<TRUE>>
        <5>1. said' = Append(<<>>, TRUE)
          BY <3>1, <4>2, <4>3
        <5> QED
          BY <5>1, OneMore
      <4> QED
        BY <1>0, <2>1, <4>1, <4>4, RepliesThen
    <3>2. CASE Sig!At("asks_pending") /\ said' = Append(said, Sig!Arg \subseteq pending)
      <4> DEFINE b == USR1 \in pending
      <4>1. Sig!Arg = {USR1} /\ ((Forks /\ sigPc = LeaveAt + 3) \/ (Execs /\ sigPc = LeaveAt + 2))
        BY <1>1, <3>2 DEF AskingOps, Arg, Sig!Arg
      <4>2. (Sig!Arg \subseteq pending) = b /\ b \in BOOLEAN
        BY <4>1
      <4>3. (Execs => b) /\ (Forks /\ b => late)
        BY <1>0, <1>2, <4>1 DEF Kept
      <4>4. CASE Forks /\ sigPc = LeaveAt + 3
        <5>1. said = <<TRUE, TRUE>>
          BY <1>0, <1>2, <4>4, RepliesAre
        <5>2. said' = Append(<<TRUE, TRUE>>, b)
          BY <3>2, <4>2, <5>1
        <5>3. said' = <<TRUE, TRUE, b>>
          BY <5>2, OneMore
        <5>4. (Forks' /\ b => late') /\ (Execs' => b)
          BY <1>0, <2>1, <4>3
        <5> HIDE DEF b
        <5> QED
          BY <1>0, <2>1, <4>2, <4>4, <5>3, <5>4, RepliesThen
      <4>5. CASE Execs /\ sigPc = LeaveAt + 2
        <5>1. said = <<TRUE>> /\ b = TRUE
          BY <1>0, <1>2, <4>2, <4>3, <4>5, RepliesAre
        <5>2. said' = Append(<<TRUE>>, TRUE)
          BY <3>2, <4>2, <5>1
        <5>3. said' = <<TRUE, TRUE>>
          BY <5>2, OneMore
        <5> QED
          BY <1>0, <2>1, <4>5, <5>3, RepliesThen
      <4> QED
        BY <4>1, <4>4, <4>5
    <3>3. CASE Sig!At("asks_disp") /\ said' = Append(said, \A sig \in Sig!Arg : disp[sig] = How)
      <4> DEFINE a == \A sig \in Sig!Arg : disp[sig] = How
      <4>1. \/ Forks /\ sigPc = LeaveAt + 2 /\ Sig!Arg = {USR1} /\ How = "handler"
            \/ Execs /\ sigPc = LeaveAt + 3 /\ Sig!Arg = {USR2} /\ How = "ignore"
        BY <1>1, <3>3 DEF AskingOps, Arg, Sig!Arg
      <4>2. a = TRUE
        <5>1. CASE Forks /\ sigPc = LeaveAt + 2 /\ Sig!Arg = {USR1} /\ How = "handler"
          BY <1>0, <1>2, <5>1 DEF Dispositions
        <5>2. CASE Execs /\ sigPc = LeaveAt + 3 /\ Sig!Arg = {USR2} /\ How = "ignore"
          BY <1>0, <1>2, <5>2 DEF Dispositions
        <5> QED
          BY <4>1, <5>1, <5>2
      <4>3. said' = Append(said, TRUE)
        BY <3>3, <4>2
      <4>4. CASE Forks /\ sigPc = LeaveAt + 2
        <5>1. said = <<TRUE>>
          BY <1>0, <1>2, <4>4, RepliesAre
        <5>2. said' = <<TRUE, TRUE>>
          BY <4>3, <5>1, OneMore
        <5> QED
          BY <1>0, <2>1, <4>4, <5>2, RepliesThen
      <4>5. CASE Execs /\ sigPc = LeaveAt + 3
        <5>1. said = <<TRUE, TRUE>>
          BY <1>0, <1>2, <4>5, RepliesAre
        <5>2. said' = <<TRUE, TRUE, TRUE>>
          BY <4>3, <5>1, OneMore
        <5>3. ~ Forks'
          BY <1>0, <4>5
        <5> QED
          BY <1>0, <2>1, <4>5, <5>2, <5>3, RepliesThen
      <4> QED
        BY <4>1, <4>4, <4>5
    <3> QED
      BY <1>9, <3>1, <3>2, <3>3 DEF Sig!Ask, How
  <2> QED
    BY <1>2, <2>1, <2>3, <2>4, <2>5, <2>6 DEF Asked
<1>10. CASE Sig!Return
  <2>1. sigOutcome' = "done" /\ UNCHANGED <<sigPc, said, late>>
    BY <1>10 DEF Sig!Return, Sig!ghosts
  <2>2. Replies'
    BY <1>0, <1>2, <2>1 DEF Replies
  <2> QED
    BY <2>1, <2>2 DEF Asked
<1>11. CASE \/ Sig!getchar \/ Sig!Suspend \/ Sig!Wake \/ Sig!select \/ Sig!ReadStdin \/ Sig!ReadSigfd
  <2>1. PICK op \in {"getchar", "sigsuspend", "pause", "select", "read_stdin", "read_sigfd"} : Sig!At(op)
    BY <1>11 DEF Sig!getchar, Sig!Suspend, Sig!Wake, Sig!select, Sig!ReadStdin, Sig!ReadSigfd
  <2> QED
    BY <1>1, <2>1 DEF AskingOps
<1> QED
  BY <1>3, <1>4, <1>5, <1>6, <1>7, <1>8, <1>9, <1>10, <1>11 DEF Calls

\* A program that asks keeps its invariant.
LEMMA AskedStep == SigTypes /\ Asked /\ Sig!Next => Asked'
<1> SUFFICES ASSUME SigTypes, Asked, Sig!Next PROVE Asked'
  OBVIOUS
<1>1. sigProgram' = sigProgram
  <2>1. CASE Sig!Type \/ (\E sig \in Sigs : Sig!Send(sig)) \/ Sig!HandlerEnds
    BY <2>1 DEF Sig!Type, Sig!Send, Sig!HandlerEnds
  <2> QED
    BY <2>1, SigSteps, CallFrames, DeliverFacts
<1>2. CASE ~ Asking
  BY <1>1, <1>2, SameProgram DEF Asked
<1>3. CASE Asking
  <2>1. CASE Sig!Type
    <3>1. UNCHANGED <<sigPc, mask, pending, disp, waiting, frames, said, sigOutcome, late>>
      BY <2>1 DEF Sig!Type, Sig!kernel, Sig!ghosts
    <3>2. UNCHANGED <<BlockAt, LeaveAt, Forks, Execs, Asking>>
      BY <1>1, SameProgram
    <3>3. Replies' = Replies
      BY <3>1, <3>2 DEF Replies
    <3> QED
      BY <3>1, <3>2, <3>3 DEF Asked, Setup, Dispositions, Kept
  <2> QED
    BY <1>3, <2>1, SigSteps, AskedSend, AskedDeliver, AskedReturn, AskedCall
<1> QED
  BY <1>2, <1>3

\* The other programs print no answer.
LEMMA SilentStep == SigTypes /\ Silent /\ Sig!Next => Silent'
<1> SUFFICES ASSUME SigTypes, Silent, Sig!Next PROVE Silent'
  OBVIOUS
<1>0. sigProgram' = sigProgram
  <2>1. CASE Sig!Type \/ (\E sig \in Sigs : Sig!Send(sig)) \/ Sig!HandlerEnds
    BY <2>1 DEF Sig!Type, Sig!Send, Sig!HandlerEnds
  <2> QED
    BY <2>1, SigSteps, CallFrames, DeliverFacts
<1> SUFFICES ASSUME ~ Sig!Suspends, ~ Asking PROVE UNCHANGED said /\ sigOutcome' # "bailed"
  BY <1>0, SameProgram DEF Silent
<1>1. said = <<>> /\ sigOutcome # "bailed"
  BY DEF Silent
<1>2. CASE Sig!Type \/ (\E sig \in Sigs : Sig!Send(sig)) \/ Sig!HandlerEnds
  BY <1>1, <1>2 DEF Sig!Type, Sig!Send, Sig!HandlerEnds
<1>3. CASE Sig!Deliver
  BY <1>1, <1>3, DeliverFacts
<1>4. ASSUME NEW op, Sig!At(op)
      PROVE  op \notin {"expect", "asks_mask", "asks_disp", "asks_pending", "raise"}
  BY <1>4, AtCall, OthersAt
<1>5. CASE Calls
  <2>1. ~ Sig!Expect /\ ~ Sig!Ask
    BY <1>4 DEF Sig!Expect, Sig!Ask
  <2>2. CASE Sig!sigaction \/ Sig!sigprocmask \/ Sig!raise \/ Sig!getchar \/ Sig!Suspend
    BY <1>1, <2>2 DEF Sig!sigaction, Sig!sigprocmask, Sig!raise, Sig!getchar, Sig!Suspend
  <2>3. CASE Sig!Wake \/ Sig!Pass \/ Sig!fork \/ Sig!execve
    BY <1>1, <2>3 DEF Sig!Wake, Sig!Pass, Sig!fork, Sig!execve
  <2>4. CASE Sig!select \/ Sig!ReadStdin \/ Sig!ReadSigfd \/ Sig!Return
    BY <1>1, <2>4 DEF Sig!select, Sig!ReadStdin, Sig!ReadSigfd, Sig!Return
  <2> QED
    BY <1>5, <2>1, <2>2, <2>3, <2>4 DEF Calls
<1> QED
  BY <1>2, <1>3, <1>5, SigSteps

\* Nothing was called, sent or answered at the start.
LEMMA InitSigInv == MCInit => SigInv
<1> SUFFICES ASSUME MCInit PROVE SigInv
  OBVIOUS
<1>1. Sig!Init
  BY DEF MCInit
<1>2. SigTypes
  <2>1. frames \in Seq(Frame)
    BY <1>1, EmptySeq DEF Sig!Init
  <2>2. sent \in [Sigs -> Nat] /\ handled \in [Sigs -> Nat]
    BY <1>1 DEF Sig!Init, Sigs
  <2>3. /\ sigPc = 1 /\ late = FALSE /\ waiting = "no"
        /\ mask = {} /\ pending = {} /\ oldset = {} /\ restore = {}
    BY <1>1 DEF Sig!Init
  <2>4. sigProgram \in {"double_delivery", "multiple_pending", "reentrant_handler",
                       "sigcatch", "sigexample", "sig_fork", "sig_fork_awaits",
                       "sig_pre_exec", "sig_pre_exec_awaits", "signalfd"}
    BY <1>1 DEF Sig!Init
  <2>5. late \in BOOLEAN
    BY <2>3
  <2>6. mask \subseteq Sigs /\ pending \subseteq Sigs /\ oldset \subseteq Sigs /\ restore \subseteq Sigs
    BY <2>3
  <2>7. sigPc \in Nat \ {0} /\ waiting \in {"no", "in", "woken"}
    BY <2>3
  <2> QED
    BY <2>1, <2>2, <2>4, <2>5, <2>6, <2>7 DEF SigTypes
<1>3. Nested
  BY <1>1 DEF Sig!Init, Nested
<1>4. Prompted
  <2>1. Before
    BY <1>1, Places DEF Sig!Init, Before, Sigs
  <2> QED
    BY <1>1, <2>1 DEF Sig!Init, Prompted, Sigs
<1>5. Asked
  <2>1. ASSUME Asking PROVE Replies
    <3>1. sigPc = 1 /\ said = <<>> /\ LeaveAt \in Nat /\ LeaveAt > 3
      BY <1>1, <2>1, Places DEF Sig!Init
    <3>2. sigPc <= LeaveAt + 1 /\ sigPc # LeaveAt + 2 /\ sigPc # LeaveAt + 3 /\ ~ (sigPc > LeaveAt + 3)
      BY <3>1
    <3> QED
      BY <3>1, <3>2, Zenon DEF Replies
  <2>2. ASSUME Asking PROVE Setup /\ Dispositions /\ Kept
    BY <1>1, <2>2, Places, Three DEF Sig!Init, Setup, Dispositions, Kept, Sigs
  <2> QED
    BY <1>1, <2>1, <2>2 DEF Asked, Sig!Init
<1>6. Silent
  BY <1>1 DEF Sig!Init, Silent
<1> QED
  BY <1>2, <1>3, <1>4, <1>5, <1>6 DEF SigInv

\* Every step of the signal programs, and of the others, keeps the invariant.
LEMMA NextSigInv == SigInv /\ [MCNext]_MCVars => SigInv'
<1> SUFFICES ASSUME SigInv, [MCNext]_MCVars PROVE SigInv'
  OBVIOUS
<1>1. CASE Sig!Next
  BY <1>1, TypesStep, NestedStep, PromptedStep, AskedStep, SilentStep DEF SigInv
<1>2. CASE UNCHANGED sigVars
  <2>1. UNCHANGED <<sigProgram, sigPc, mask, pending, oldset, restore, disp,
             waiting, frames, said, sigOutcome, sent, handled, late>>
    BY <1>2 DEF sigVars
  <2>2. /\ UNCHANGED <<BlockAt, WaitAt, LeaveAt, Blocked, Forks, Execs, Asking>>
        /\ Sig!Suspends' = Sig!Suspends
    BY <2>1, SameProgram
  <2>3. SigTypes' /\ Nested' /\ Silent'
    BY <2>1, <2>2 DEF SigInv, SigTypes, Nested, Silent
  <2>4. Prompted'
    BY <2>1, <2>2 DEF SigInv, Prompted, Before, AtPrompt, Suspended, Handling, Settled, Unhandled
  <2>5. Asked'
    <3>1. Replies' = Replies
      BY <2>1, <2>2 DEF Replies
    <3> QED
      BY <2>1, <2>2, <3>1 DEF SigInv, Asked, Setup, Dispositions, Kept
  <2> QED
    BY <2>3, <2>4, <2>5 DEF SigInv
<1> QED
  BY <1>1, <1>2 DEF MCNext, MCVars

\* The invariant says what the run checks.
LEMMA SigInvKept == SigInv => SignalsKept
<1> SUFFICES ASSUME SigInv PROVE SignalsKept
  OBVIOUS
<1>1. Sig!HandledOnce
  <2>1. ASSUME Sig!Suspends, sigOutcome = "done", ~ late,
               NEW sig \in {Sig!SIGUSR1} \cup (IF sigProgram = "multiple_pending" THEN {Sig!SIGUSR2} ELSE {})
        PROVE  handled[sig] = Sig!Min({1, sent[sig]})
    <3>1. sig \in Blocked
      BY <2>1 DEF Blocked, USR1, USR2
    <3>2. Settled
      BY <2>1 DEF SigInv, Prompted
    <3>3. sent[sig] \in Nat
      BY <3>1, BlockedIn DEF SigInv, SigTypes
    <3> QED
      BY <3>1, <3>2, <3>3, MinOne DEF Settled
  <2>2. ASSUME NEW i \in 1 .. Len(frames), NEW j \in 1 .. Len(frames), frames[i].sig = frames[j].sig
        PROVE  i = j
    <3>1. Len(frames) \in Nat
      BY LenProperties DEF SigInv, SigTypes
    <3>2. ~ (i < j) /\ ~ (j < i)
      BY <2>2 DEF SigInv, Nested
    <3> QED
      BY <3>1, <3>2
  <2> QED
    BY <2>1, <2>2 DEF Sig!HandledOnce
<1>2. sigOutcome # "bailed"
  BY DEF SigInv, Prompted, Asked, Silent
<1>3. ASSUME Len(said) = 3
      PROVE  /\ Forks => said = <<TRUE, TRUE, late /\ said[3]>>
             /\ ~ Forks => said = <<TRUE, TRUE, TRUE>>
  <2>1. Asking
    <3>1. said # <<>>
      BY <1>3
    <3> QED
      BY <3>1 DEF SigInv, Prompted, Silent
  <2>2. Replies /\ LeaveAt \in Nat /\ sigPc \in Nat
    BY <2>1, Places DEF SigInv, Asked, SigTypes
  <2>3. sigPc > LeaveAt + 3
    <3>1. Len(<<>>) # 3 /\ Len(<<TRUE>>) # 3 /\ Len(<<TRUE, TRUE>>) # 3
      OBVIOUS
    <3>2. ~ (sigPc <= LeaveAt + 1) /\ sigPc # LeaveAt + 2 /\ sigPc # LeaveAt + 3
      BY <1>3, <2>2, <3>1, RepliesAre
    <3> QED
      BY <2>2, <3>2
  <2>4. PICK b \in BOOLEAN : said = <<TRUE, TRUE, b>> /\ (Forks /\ b => late) /\ (Execs => b)
    BY <2>2, <2>3, Zenon DEF Replies
  <2>5. said[3] = b
    BY <2>4
  <2>6. CASE Forks
    <3>1. (late /\ said[3]) = b
      BY <2>4, <2>5, <2>6 DEF SigInv, SigTypes
    <3> QED
      BY <2>4, <2>6, <3>1
  <2>7. CASE ~ Forks
    <3>1. b = TRUE
      BY <2>1, <2>4, <2>7 DEF Asking
    <3> QED
      BY <2>4, <2>7, <3>1
  <2> QED
    BY <2>6, <2>7
<1>4. Sig!Answers
  BY <1>2, <1>3 DEF Sig!Answers, Forks
<1> QED
  BY <1>1, <1>4 DEF SignalsKept

\* A blocked signal is neither lost nor handled twice, and what fork and execve leave of it is
\* what the programs print.
THEOREM SignalsTheorem == MCSpec => []SignalsKept
<1>1. MCSpec => []SigInv
  BY InitSigInv, NextSigInv, PTL DEF MCSpec
<1> QED
  BY <1>1, SigInvKept, PTL
=============================================================================
