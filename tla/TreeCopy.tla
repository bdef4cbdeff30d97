------------------------------ MODULE TreeCopy ------------------------------
(***************************************************************************)
(* Copying a directory: week2/copytree.py with duplicate of                *)
(* week1/duplicate.py, and archive/2025-002-fall/week3/solutions/cp.c.     *)
(*                                                                         *)
(* A file system is a function from paths to what is there.  The user is   *)
(* not root.  The destination may lie inside the directory that is copied. *)
(***************************************************************************)
EXTENDS Integers, SequencesExt, FiniteSetsExt

CONSTANTS Programs,       \* "copytree" and "cp"
          Systems,        \* file systems to start from
          Source, Targets,\* inpath, and the outpaths tried
          BLOCK,          \* block_size
          MaxDepth,       \* bound: length of a path (PATH_MAX)
          MaxFds,         \* RLIMIT_NOFILE
          MaxShort        \* bound: short writes

VARIABLES program, dry_run, copy_permissions, target,
          before, fs,     \* the file system at first and now
          stack,          \* calls of copytree or cp_dir, the innermost first
          file,           \* the file that is being copied, <<>> if none
          bytes_copied, fds, outcome, short

options == <<program, dry_run, copy_permissions, target, before>>
vars == <<options, fs, stack, file, bytes_copied, fds, outcome, short>>

Dir(ro) == [kind |-> "dir", ro |-> ro, data |-> <<>>]
Names(path, tree) == { Last(p) : p \in { q \in DOMAIN tree : q # <<>> /\ Front(q) = path } }
\* the file system with a node at a path
With(path, node) == [p \in DOMAIN fs \cup {path} |-> IF p = path THEN node ELSE fs[p]]

\* mkdir() and open(O_CREAT | O_EXCL): the name is new, and its parent a writable directory
MayCreate(path) ==
  /\ path \notin DOMAIN fs /\ Front(path) \in DOMAIN fs
  /\ fs[Front(path)].kind = "dir" /\ ~ fs[Front(path)].ro

Frame(ip, op) == [ip |-> ip, op |-> op, entered |-> FALSE, left |-> {}]

Init ==
  /\ program \in Programs /\ dry_run \in BOOLEAN /\ copy_permissions \in BOOLEAN
  /\ program = "cp" => ~ dry_run /\ ~ copy_permissions
  /\ target \in Targets /\ before \in Systems
  /\ fs = before
  /\ program = "cp" => target \in DOMAIN fs /\ fs[target].kind = "dir"
  /\ stack = << Frame(Source, target) >>
  /\ file = <<>> /\ bytes_copied = 0 /\ fds = 2 /\ short = 0
  /\ outcome = "running"

Running == outcome = "running"
Busy == Running /\ file = <<>> /\ stack # <<>>
Top == Head(stack)

Fail == outcome' = "failed" /\ UNCHANGED <<options, fs, stack, file, bytes_copied, fds, short>>

-----------------------------------------------------------------------------
(* The beginning of a call.                                                *)

\* mkdir, chmod and scandir
EnterMkdir ==
  /\ Busy /\ ~ Top.entered /\ program = "copytree" /\ ~ dry_run
  /\ MayCreate(Top.op) /\ Len(Top.op) <= MaxDepth
  /\ fs' = With(Top.op, Dir(copy_permissions /\ fs[Top.ip].ro))
  /\ stack' = <<[Top EXCEPT !.entered = TRUE, !.left = Names(Top.ip, fs')]>> \o Tail(stack)
  /\ UNCHANGED <<options, file, bytes_copied, fds, outcome, short>>

EnterFails ==
  /\ Busy /\ ~ Top.entered /\ program = "copytree" /\ ~ dry_run
  /\ ~ MayCreate(Top.op) \/ Len(Top.op) > MaxDepth
  /\ Fail

\* scandir of a dry run; getdents64 of a directory that cp_dir has opened
EnterScan ==
  /\ Busy /\ ~ Top.entered /\ (program = "cp" \/ dry_run)
  /\ stack' = <<[Top EXCEPT !.entered = TRUE, !.left = Names(Top.ip, fs)]>> \o Tail(stack)
  /\ UNCHANGED <<options, fs, file, bytes_copied, fds, outcome, short>>

-----------------------------------------------------------------------------
(* One entry of the directory.                                             *)

In(name) == Append(Top.ip, name)
Out(name) == Append(Top.op, name)
Kind(name) == fs[In(name)].kind
Took(name) == [Top EXCEPT !.left = @ \ {name}]
Pick(name) == Busy /\ Top.entered /\ name \in Top.left

SubTree(name) ==
  /\ Pick(name) /\ Kind(name) = "dir" /\ program = "copytree"
  /\ stack' = <<Frame(In(name), Out(name)), Took(name)>> \o Tail(stack)
  /\ UNCHANGED <<options, fs, file, bytes_copied, fds, outcome, short>>

\* mkdirat and two openat, whose descriptors are never closed
SubDir(name) ==
  /\ Pick(name) /\ Kind(name) = "dir" /\ program = "cp" /\ MayCreate(Out(name))
  /\ fs' = With(Out(name), Dir(FALSE))
  /\ IF fds + 2 <= MaxFds
       THEN /\ fds' = fds + 2
            /\ stack' = <<Frame(In(name), Out(name)), Took(name)>> \o Tail(stack)
            /\ UNCHANGED outcome
       ELSE outcome' = "failed" /\ UNCHANGED <<fds, stack>>
  /\ UNCHANGED <<options, file, bytes_copied, short>>

SubDirFails(name) ==
  /\ Pick(name) /\ Kind(name) = "dir" /\ program = "cp" /\ ~ MayCreate(Out(name))
  /\ Fail

\* mutant: cp_dir does not move on from a link
LinkAgain(name) ==
  /\ Pick(name) /\ Kind(name) = "lnk" /\ program = "cp"
  /\ UNCHANGED vars

\* readlink and symlink; cp.c leaves links out
Link(name) ==
  /\ Pick(name) /\ Kind(name) = "lnk"
  /\ IF program = "cp" \/ dry_run \/ MayCreate(Out(name))
       THEN /\ fs' = IF program = "cp" \/ dry_run THEN fs
                     ELSE With(Out(name), fs[In(name)])
            /\ stack' = <<Took(name)>> \o Tail(stack)
            /\ UNCHANGED <<options, file, bytes_copied, fds, outcome, short>>
       ELSE Fail

\* a warning, or an error in cp.c
Special(name) ==
  /\ Pick(name) /\ Kind(name) = "fifo"
  /\ IF program = "cp" THEN Fail
     ELSE /\ stack' = <<Took(name)>> \o Tail(stack)
          /\ UNCHANGED <<options, fs, file, bytes_copied, fds, outcome, short>>

\* the size is added before, by copytree, and the copy opened with O_EXCL; cp.c has two
\* descriptors open while it copies
Regular(name) ==
  /\ Pick(name) /\ Kind(name) = "reg"
  /\ IF dry_run \/ (MayCreate(Out(name)) /\ (program = "cp" => fds + 2 <= MaxFds))
       THEN /\ stack' = <<Took(name)>> \o Tail(stack)
            /\ bytes_copied' = IF program = "cp" THEN bytes_copied
                               ELSE bytes_copied + Len(fs[In(name)].data)
            /\ IF dry_run THEN UNCHANGED <<fs, file>>
               ELSE /\ fs' = With(Out(name), [kind |-> "reg", ro |-> FALSE, data |-> <<>>])
                    /\ file' = <<[ip |-> In(name), op |-> Out(name), pos |-> 0]>>
            /\ UNCHANGED <<options, fds, outcome, short>>
       ELSE Fail

-----------------------------------------------------------------------------
(* The bytes of a file.                                                    *)

Data == fs[file[1].ip].data
Block == SubSeq(Data, file[1].pos + 1, Len(Data))

Transfer(read, written) ==
  /\ file' = <<[file[1] EXCEPT !.pos = @ + read]>>
  /\ fs' = [fs EXCEPT ![file[1].op].data = @ \o SubSeq(Block, 1, written)]
  /\ UNCHANGED <<options, stack, bytes_copied, fds, outcome>>

\* os.read and os.write, whose count is not looked at
duplicate ==
  /\ Running /\ file # <<>> /\ program = "copytree" /\ Block # <<>>
  /\ \E written \in 0 .. Min({BLOCK, Len(Block)}) :
       /\ Transfer(Min({BLOCK, Len(Block)}), written)
       /\ IF written = Min({BLOCK, Len(Block)}) THEN UNCHANGED short
          ELSE short < MaxShort /\ short' = short + 1

\* sendfile moves the offset by what it has written
cp_file ==
  /\ Running /\ file # <<>> /\ program = "cp" /\ Block # <<>>
  /\ \E sent \in 1 .. Len(Block) : Transfer(sent, sent)
  /\ UNCHANGED short

\* mutant: the end of a block is taken for the end of the file
FileEndEarly ==
  /\ Running /\ file # <<>> /\ file[1].pos > 0
  /\ fs' = [fs EXCEPT ![file[1].op].ro = copy_permissions /\ fs[file[1].ip].ro]
  /\ file' = <<>>
  /\ UNCHANGED <<options, stack, bytes_copied, fds, outcome, short>>

\* end of file; chmod
FileEnd ==
  /\ Running /\ file # <<>> /\ Block = <<>>
  /\ fs' = [fs EXCEPT ![file[1].op].ro = copy_permissions /\ fs[file[1].ip].ro]
  /\ file' = <<>>
  /\ UNCHANGED <<options, stack, bytes_copied, fds, outcome, short>>

Return ==
  /\ Busy /\ Top.entered /\ Top.left = {}
  /\ stack' = Tail(stack)
  /\ outcome' = IF Len(stack) = 1 THEN "done" ELSE outcome
  /\ UNCHANGED <<options, fs, file, bytes_copied, fds, short>>

-----------------------------------------------------------------------------
AllNames == UNION { Range(p) : p \in DOMAIN fs }

copytree == EnterMkdir \/ EnterFails \/ \E name \in AllNames : SubTree(name) \/ Link(name)
cp_dir == EnterScan \/ \E name \in AllNames : SubDir(name) \/ SubDirFails(name) \/ Special(name) \/ Regular(name)

Next == copytree \/ cp_dir \/ duplicate \/ cp_file \/ FileEnd \/ Return

Spec == Init /\ [][Next]_vars /\ WF_vars(Next)

-----------------------------------------------------------------------------
(* Properties.                                                             *)

Below(root, tree) == { p \in DOMAIN tree : IsPrefix(root, p) }
Of(kind) == { p \in Below(Source, before) : before[p].kind = kind }

\* Where an entry goes.  The comment at cp.c:32 has the copy of foo at bar/foo/; main passes
\* foo and bar to cp_dir, and says (cp.c:94) what happens: the contents go to bar itself.
Moved(p) == target \o SubSeq(p, Len(Source) + 1, Len(p))
Copied(p) == before[p].kind \in (IF program = "cp" THEN {"dir", "reg"} ELSE {"dir", "reg", "lnk"})
Inside == IsPrefix(Source, target)

\* A copy that ends normally holds every directory and file of the source, and every
\* link unless cp.c made it, with the same bytes unless a write was short, with the
\* same modes if they were asked for, and nothing else but what was there before; a
\* dry run creates nothing.  copytree returns the bytes of all regular files.
CopiesAll ==
  outcome = "done" =>
    /\ program = "copytree" =>
         bytes_copied = MapThenSumSet(LAMBDA p : Len(before[p].data), Of("reg"))
    /\ IF dry_run THEN fs = before
       ELSE LET want == { p \in Below(Source, before) : Copied(p) }
            IN /\ DOMAIN fs = DOMAIN before \cup { Moved(p) : p \in want }
               /\ \A p \in want \ {Source} :
                    /\ fs[Moved(p)].kind = before[p].kind
                    /\ short = 0 => fs[Moved(p)].data = before[p].data
                    /\ copy_permissions => fs[Moved(p)].ro = before[p].ro

\* Nothing that was there before is changed, whether the copy succeeds or fails.
KeepsExisting == \A p \in DOMAIN before : p \in DOMAIN fs /\ fs[p] = before[p]

\* what a copy makes: cp.c has its destination already
Made == { p \in Below(Source, before) : Copied(p) /\ (program = "cp" => p # Source) }

\* cp.c holds two descriptors for each directory it has entered, and two for a file
NeedsFds == 2 * Cardinality(Of("dir")) + (IF Of("reg") = {} THEN 0 ELSE 2)

\* A copy to a new place inside the source never ends well, as it finds itself among
\* the entries it copies; it stops when the paths or the descriptors run out.  Any
\* other fails only if something is where it would put an entry, if it is not allowed
\* to create one in a directory whose mode it has copied, and cp.c for a pipe or for
\* more directories than it has descriptors, which it never closes.
EndsWithCause ==
  <>( \/ outcome = "done" /\ (Inside => dry_run)
      \/ /\ outcome = "failed" /\ ~ dry_run
         /\ \/ Inside
            \/ \E p \in Made : Moved(p) \in DOMAIN before
            \/ copy_permissions /\ \E p \in Made \ {Source} : before[Front(p)].ro
            \/ program = "cp" /\ (Of("fifo") # {} \/ NeedsFds > MaxFds) )

\* copytree copies the permission bits of directories too (its docstring): a new place
\* outside the source is all that it needs.
CopiesReadOnly ==
  program = "copytree" /\ outcome = "failed" =>
    Inside \/ \E p \in DOMAIN before : IsPrefix(target, p)
=============================================================================
