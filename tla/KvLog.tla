------------------------------- MODULE KvLog -------------------------------
(***************************************************************************)
(* The key-value store of archive/2025-001-spring/final/db/main.c: one     *)
(* file, a list of blocks of fixed size, each a key field and a value      *)
(* field padded with NULs.  `set` appends a block with two writes, `get`   *)
(* scans all blocks and answers with the last match; both hold an          *)
(* exclusive flock on the file, which the end of a process releases.       *)
(*                                                                         *)
(* Every process runs one command.  A process may be killed between two    *)
(* system calls, and the machine may crash: the writes since the last      *)
(* fsync are then lost from some point on (one write() is kept or lost as  *)
(* a whole).  The first open creates the file, and nothing ever syncs its  *)
(* directory: until the kernel has written it, a crash may lose the file   *)
(* with all that is in it.                                                 *)
(***************************************************************************)
EXTENDS Integers, SequencesExt

CONSTANTS Procs,
          MAX_KEY_SIZE, MAX_VAL_SIZE,
          NUL,                        \* the padding, no character of a string
          KeyArgs, ValArgs,           \* the arguments given, some too long
          NotFound,                   \* db_entry_empty
          MaxKills, MaxCrashes        \* bounds on failures

ASSUME SizeAssumption == MAX_KEY_SIZE \in Nat \ {0} /\ MAX_VAL_SIZE \in Nat
ASSUME ArgAssumption ==
  \A s \in KeyArgs \cup ValArgs : s \in Seq(Range(s)) /\ ~ Contains(s, NUL)

KeyField == MAX_KEY_SIZE + 1
ValField == MAX_VAL_SIZE + 1
BLOCK_SIZE == KeyField + ValField

\* No number of torn appends fills blocks: too few sets are cut short.  The sizes of
\* the code, 101 and 4102, have no common divisor: it takes 4102 of them.
ASSUME TornAssumption ==
  /\ MaxKills \in Nat /\ MaxCrashes \in Nat
  /\ \A t, b \in 1 .. MaxKills + MaxCrashes : t * KeyField # b * BLOCK_SIZE

VARIABLES db,        \* the bytes of the file
          cuts,      \* how long the file may be after a crash
          dirEntry,  \* of the file: there is "none", or in memory, or on disk
          holder,    \* who holds the flock, or nobody: a set
          pc, cmd,   \* where each process is; its command and arguments
          pos,       \* offset of the file descriptor, for reads
          out,       \* the entry found so far (get)
          store,     \* history: what the completed appends say
          acked,     \* history: length of the file when a set last returned
          kills, crashes

file == <<db, cuts, dirEntry>>
histories == <<store, acked>>
vars == <<file, holder, pc, cmd, pos, out, histories, kills, crashes>>

Truncated(s, n) == SubSeq(s, 1, IF Len(s) < n THEN Len(s) ELSE n)

\* strncpy into a zero-padded field of n bytes and its terminator
Padded(s, n) == [j \in 1 .. n + 1 |-> IF j <= Len(Truncated(s, n)) THEN s[j] ELSE NUL]

\* the C string that starts a sequence of bytes
CString(bytes) ==
  LET upTo == { j \in 0 .. Len(bytes) : \A k \in 1 .. j : bytes[k] # NUL }
  IN  SubSeq(bytes, 1, CHOOSE j \in upTo : \A k \in upTo : k <= j)

Keys == { Truncated(k, MAX_KEY_SIZE) : k \in KeyArgs }

Init ==
  /\ db = <<>> /\ cuts = {0}
  /\ dirEntry \in {"none", "disk"}
  /\ holder = {}
  /\ pc = [p \in Procs |-> "open"]
  /\ cmd \in [Procs -> [op : {"set"}, key : KeyArgs, val : ValArgs]
                       \cup [op : {"get"}, key : KeyArgs]]
  /\ pos = [p \in Procs |-> 0]
  /\ out = [p \in Procs |-> NotFound]
  /\ store = [k \in Keys |-> NotFound]
  /\ acked = 0
  /\ kills = 0 /\ crashes = 0

Goto(p, label) == pc' = [pc EXCEPT ![p] = label] /\ UNCHANGED <<cmd, kills, crashes>>

-----------------------------------------------------------------------------
\* dbfile_open: open(O_CREAT), then flock(LOCK_EX), which waits while another has it
Open(p) ==
  /\ pc[p] = "open"
  /\ holder = {}
  /\ holder' = {p}
  /\ dirEntry' = IF dirEntry = "none" THEN "memory" ELSE dirEntry
  /\ Goto(p, IF cmd[p].op = "set" THEN "write_key" ELSE "read")
  /\ UNCHANGED <<db, cuts, pos, out, histories>>

\* one write(): with O_APPEND it goes to the end of the file
WriteAtEnd(bytes) ==
  db' = db \o bytes /\ cuts' = cuts \cup {Len(db')} /\ UNCHANGED dirEntry

\* dbfile_append
WriteKey(p) ==
  /\ pc[p] = "write_key"
  /\ WriteAtEnd(Padded(cmd[p].key, MAX_KEY_SIZE))
  /\ Goto(p, "write_val")
  /\ UNCHANGED <<holder, pos, out, histories>>

WriteVal(p) ==
  /\ pc[p] = "write_val"
  /\ WriteAtEnd(Padded(cmd[p].val, MAX_VAL_SIZE))
  /\ store' = [store EXCEPT ![Truncated(cmd[p].key, MAX_KEY_SIZE)] =
                              Truncated(cmd[p].val, MAX_VAL_SIZE)]
  /\ Goto(p, "fsync")
  /\ UNCHANGED <<holder, pos, out, acked>>

\* mutant: dbfile_close without fsync
FsyncNot(p) ==
  /\ pc[p] = "fsync"
  /\ Goto(p, "unlock")
  /\ UNCHANGED <<file, holder, pos, out, histories>>

\* dbfile_close: fsync of the file, not of its directory
Fsync(p) ==
  /\ pc[p] = "fsync"
  /\ cuts' = {Len(db)}
  /\ Goto(p, "unlock")
  /\ UNCHANGED <<db, dirEntry, holder, pos, out, histories>>

Unlock(p) ==
  /\ pc[p] = "unlock"
  /\ holder' = holder \ {p}
  /\ acked' = Len(db)
  /\ Goto(p, "ok")
  /\ UNCHANGED <<file, pos, out, store>>

-----------------------------------------------------------------------------
(* dbfile_read and the loop of db_get.                                     *)

\* at most BLOCK_SIZE bytes from p's offset on
BytesRead(p) == SubSeq(db, pos[p] + 1, IF pos[p] + BLOCK_SIZE < Len(db)
                                         THEN pos[p] + BLOCK_SIZE ELSE Len(db))

\* mutant: a short read is taken for a block
IsBlockOrShort(block) == Len(block) >= KeyField /\ block[KeyField] = NUL

\* what dbfile_read accepts
IsBlock(block) ==
  Len(block) = BLOCK_SIZE /\ block[KeyField] = NUL /\ block[BLOCK_SIZE] = NUL

KeyOf(block) == CString(block)
ValOf(block) == CString(SubSeq(block, KeyField + 1, Len(block)))

ReadBlock(p) ==
  /\ pc[p] = "read"
  /\ BytesRead(p) # <<>> /\ IsBlock(BytesRead(p))
  /\ out' = [out EXCEPT ![p] = IF KeyOf(BytesRead(p)) = cmd[p].key
                                 THEN ValOf(BytesRead(p)) ELSE @]
  /\ pos' = [pos EXCEPT ![p] = @ + Len(BytesRead(p))]
  /\ Goto(p, "read")
  /\ UNCHANGED <<file, holder, histories>>

ReadEof(p) ==
  /\ pc[p] = "read"
  /\ BytesRead(p) = <<>>
  /\ Goto(p, "answer")
  /\ UNCHANGED <<file, holder, pos, out, histories>>

\* mutant: the lock outlives the process
LeaveLocked(p) == UNCHANGED holder

\* get never unlocks: the end of the process does
Leave(p) == holder' = holder \ {p}

ReadBad(p) ==
  /\ pc[p] = "read"
  /\ BytesRead(p) # <<>> /\ ~ IsBlock(BytesRead(p))
  /\ Leave(p)
  /\ Goto(p, "bailed")
  /\ UNCHANGED <<file, pos, out, histories>>

Exit(p) ==
  /\ pc[p] = "answer"
  /\ Leave(p)
  /\ Goto(p, "ok")
  /\ UNCHANGED <<file, pos, out, histories>>

-----------------------------------------------------------------------------
Ended == {"ok", "bailed", "killed"}

Kill(p) ==
  /\ pc[p] \notin Ended /\ kills < MaxKills
  /\ kills' = kills + 1
  /\ Leave(p)
  /\ pc' = [pc EXCEPT ![p] = "killed"]
  /\ UNCHANGED <<file, cmd, pos, out, histories, crashes>>

\* the blocks of a file but for what is left of a torn one at its end
Block(f, j) == SubSeq(f, (j - 1) * BLOCK_SIZE + 1, j * BLOCK_SIZE)
WholeBlocks(f) == { j \in 1 .. Len(f) : j * BLOCK_SIZE <= Len(f) }

\* the last value of key k in blocks js of a file
LastIn(f, js, k) ==
  LET hits == { j \in js : IsBlock(Block(f, j)) /\ KeyOf(Block(f, j)) = k }
  IN  IF hits = {} THEN NotFound
      ELSE ValOf(Block(f, CHOOSE j \in hits : \A l \in hits : l <= j))

Lookup(f, k) == LastIn(f, WholeBlocks(f), k)

\* The directory entry is on disk by then, or was written in time.
Survives(n) ==
  /\ db' = SubSeq(db, 1, n) /\ cuts' = {n}
  /\ dirEntry' = IF dirEntry = "memory" THEN "disk" ELSE dirEntry
  /\ UNCHANGED acked

FileLost ==
  /\ dirEntry = "memory" /\ dirEntry' = "none"
  /\ db' = <<>> /\ cuts' = {0} /\ acked' = 0

Crash ==
  /\ crashes < MaxCrashes
  /\ crashes' = crashes + 1
  /\ FileLost \/ \E n \in cuts : Survives(n)
  /\ holder' = {}
  /\ pc' = [p \in Procs |-> IF pc[p] \in Ended \cup {"open"} THEN pc[p] ELSE "killed"]
  /\ store' = [k \in Keys |-> Lookup(db', k)]
  /\ UNCHANGED <<cmd, pos, out, kills>>

Get(p) == ReadBlock(p) \/ ReadEof(p) \/ ReadBad(p) \/ Exit(p)
Set(p) == WriteKey(p) \/ WriteVal(p) \/ Fsync(p) \/ Unlock(p)

Next == (\E p \in Procs : Open(p) \/ Get(p) \/ Set(p) \/ Kill(p)) \/ Crash

Spec == Init /\ [][Next]_vars

\* flock wakes its waiters: a process waits only for the holder to let go
Fairness == \A p \in Procs : WF_vars(Get(p) \/ Set(p)) /\ SF_vars(Open(p))

FairSpec == Spec /\ Fairness

-----------------------------------------------------------------------------
(* Properties.                                                             *)

\* A get that answers gives the value of the last completed set of its key, or
\* "<not found>" if there is none: two sets at once, a set killed between its two
\* writes or a crash may make a get fail, never make it answer with anything else.
\* (A key too long to be stored is never found.)
NeverWrongAnswer ==
  \A p \in Procs :
    pc[p] = "answer" => out[p] = IF cmd[p].key \in Keys THEN store[cmd[p].key] ELSE NotFound

\* What a set that returned has written is never taken back, by a crash, a kill or
\* another command, but in one way: a crash before the kernel has written the directory
\* of a new file (dbfile_close syncs only the file) loses the file as a whole.
DurableSet ==
  [][\/ IsPrefix(SubSeq(db, 1, acked), db')
     \/ dirEntry = "memory" /\ dirEntry' = "none" /\ db' = <<>>]_vars

\* Every command that is not killed ends, whoever is killed holding the lock.
EveryCommandEnds == \A p \in Procs : <>(pc[p] \in Ended)
=============================================================================
