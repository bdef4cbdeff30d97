----------------------------- MODULE TreeRemove -----------------------------
(***************************************************************************)
(* Removing a directory: rmtree_v1_dangerous ("v1"), rmtree_v2_dangerous   *)
(* ("v2") and rmtree_v3_safe ("v3") of week2, and rmrf.c ("rmrf").  All    *)
(* but v3 name what they remove by a path from the root, resolved again by *)
(* every call; v3 holds open directories and names the entries in them,    *)
(* but for its argument, which it opens and in the end removes by its path.*)
(* Meanwhile another process may change the tree and what is above it.     *)
(***************************************************************************)
EXTENDS Naturals, Sequences

CONSTANTS Programs,
          Trees,            \* directory |-> name |-> [kind, id], to start from
          Root, Outside,    \* "/", and directories neither above nor below the argument
          Path,             \* the argument, below Root
          None,
          MaxChanges        \* bound: of the other process

VARIABLES program, before, tree,
          stack,            \* calls, innermost first; listed is what scandir saw
          outcome, changes,
          opened            \* history: the directory the argument led to when it was opened

vars == <<program, before, tree, stack, outcome, changes, opened>>

EntryOf(T, dir, name) ==
  IF dir # None /\ name \in DOMAIN T[dir] THEN T[dir][name] ELSE [kind |-> "none", id |-> None]
Entry(dir, name) == EntryOf(tree, dir, name)

\* the last name of a path, and the path without it
Basename(path) == path[Len(path)]
Dirname(path) == SubSeq(path, 1, Len(path) - 1)

\* the directory that a path leads to, links followed; None if there is none
ResolveIn(T, path) ==
  LET walk[k \in 0 .. Len(path)] == IF k = 0 THEN Root ELSE EntryOf(T, walk[k - 1], path[k]).id
  IN  walk[Len(path)]
Resolve(path) == ResolveIn(tree, path)

Frame(path, fd) == [path |-> path, fd |-> fd, listed |-> <<>>, scanned |-> FALSE]

Init ==
  /\ program \in Programs /\ before \in Trees /\ tree = before
  /\ stack = << Frame(Path, None) >>
  /\ outcome = "running" /\ changes = 0 /\ opened = None

Top == Head(stack)
\* the directory in which a call of the current frame finds its entries
Base == IF program = "v3" THEN Top.fd ELSE Resolve(Top.path)

Become(frame) == stack' = <<frame>> \o Tail(stack) /\ UNCHANGED <<program, before, outcome, changes>>
Fail == outcome' = "failed" /\ UNCHANGED <<program, before, tree, stack, changes, opened>>
Without(dir, name) == tree' = [tree EXCEPT ![dir] = [x \in DOMAIN @ \ {name} |-> @[x]]]

Scanning == outcome = "running" /\ ~ Top.scanned

ArgumentIn(T) == EntryOf(T, ResolveIn(T, Dirname(Path)), Basename(Path))
Argument == ArgumentIn(tree)
Plain == program = "rmrf" /\ Len(stack) = 1 /\ Argument.id = None

\* stat of the argument of rmrf does not lead to a directory
Stat ==
  /\ Scanning /\ Plain
  /\ IF Argument.kind = "reg"
       THEN /\ Without(Resolve(Dirname(Path)), Basename(Path))
            /\ outcome' = "done" /\ UNCHANGED <<program, before, stack, changes, opened>>
       ELSE Fail

\* scandir or opendir; v3 opens its argument with O_NOFOLLOW, which does not keep it from
\* following links above
Scan ==
  /\ Scanning /\ ~ Plain
  /\ LET dir == IF program # "v3" THEN Base
                ELSE IF Top.fd # None THEN Top.fd
                ELSE IF Argument.kind = "dir" THEN Argument.id ELSE None
     IN IF dir = None THEN Fail
        ELSE Become([Top EXCEPT !.fd = dir, !.listed = tree[dir], !.scanned = TRUE])
             /\ opened' = (IF opened = None THEN dir ELSE opened)
             /\ UNCHANGED tree

\* is_dir, by what scandir saw; v1 looks where a link leads
IsDir(name) ==
  \/ Top.listed[name].kind = "dir"
  \/ program = "v1" /\ Top.listed[name].kind = "lnk" /\ Resolve(Append(Top.path, name)) # None

Pick(name) == outcome = "running" /\ Top.scanned /\ name \in DOMAIN Top.listed
Took(name) == [Top EXCEPT !.listed = [x \in DOMAIN @ \ {name} |-> @[x]]]

Unlink(name) ==
  IF Entry(Base, name).kind \in {"none", "dir"} THEN Fail
  ELSE Without(Base, name) /\ Become(Took(name)) /\ UNCHANGED opened

\* mutant: the open of v3 follows links
RemoveDirFollows(name) ==
  /\ Pick(name) /\ IsDir(name)
  /\ IF program = "v3" /\ Entry(Base, name).id = None THEN Unlink(name)
     ELSE /\ stack' = <<Frame(Append(Top.path, name),
                              IF program = "v3" THEN Entry(Base, name).id ELSE None),
                        Took(name)>> \o Tail(stack)
          /\ UNCHANGED <<program, before, tree, outcome, changes, opened>>

\* the open of v3 fails unless the entry is a directory still
RemoveDir(name) ==
  /\ Pick(name) /\ IsDir(name)
  /\ IF program = "v3" /\ Entry(Base, name).kind # "dir" THEN Unlink(name)
     ELSE /\ stack' = <<Frame(Append(Top.path, name),
                              IF program = "v3" THEN Entry(Base, name).id ELSE None),
                        Took(name)>> \o Tail(stack)
          /\ UNCHANGED <<program, before, tree, outcome, changes, opened>>

RemoveFile(name) ==
  /\ Pick(name) /\ ~ IsDir(name)
  /\ IF program = "rmrf" /\ Top.listed[name].kind = "fifo" THEN Fail ELSE Unlink(name)

\* rmdir follows no link in the last component; that of v3's argument resolves the path again
Rmdir ==
  /\ outcome = "running" /\ Top.scanned /\ DOMAIN Top.listed = {}
  /\ LET dir == IF program = "v3" /\ Len(stack) > 1 THEN stack[2].fd ELSE Resolve(Dirname(Top.path))
         name == Basename(Top.path)
         entry == Entry(dir, name)
     IN IF entry.kind = "dir" /\ DOMAIN tree[entry.id] = {}
          THEN /\ Without(dir, name)
               /\ stack' = Tail(stack)
               /\ outcome' = IF Len(stack) = 1 THEN "done" ELSE outcome
               /\ UNCHANGED <<program, before, changes, opened>>
          ELSE Fail

-----------------------------------------------------------------------------
(* Another process puts a file or a link that leads outside into a         *)
(* directory of the tree or above it, in the place of what was there.      *)
Planted == {[kind |-> "reg", id |-> None]} \cup [kind : {"lnk"}, id : Outside]

Change(dir, name, entry) ==
  /\ outcome = "running" /\ changes < MaxChanges /\ changes' = changes + 1
  /\ tree' = [tree EXCEPT ![dir] =
                [x \in {name} \cup DOMAIN @ |-> IF x = name THEN entry ELSE @[x]]]
  /\ UNCHANGED <<program, before, stack, outcome, opened>>

AllNames == UNION { DOMAIN tree[dir] : dir \in DOMAIN tree }

remove_file_or_dir == Stat \/ Scan
remove_dir == Rmdir \/ \E name \in AllNames \cup DOMAIN Top.listed : RemoveDir(name) \/ RemoveFile(name)

Step == remove_file_or_dir \/ (outcome = "running" /\ remove_dir)

Next ==
  \/ Step
  \/ \E dir \in DOMAIN tree \ Outside, name \in AllNames, entry \in Planted :
       Change(dir, name, entry)

Spec == Init /\ [][Next]_vars /\ WF_vars(Step)

-----------------------------------------------------------------------------
(* Properties.                                                             *)

Holds(kind) == \E dir \in DOMAIN before \ {Root} : \E name \in DOMAIN before[dir] :
                 before[dir][name].kind = kind
\* the argument, or a directory above it, is a link
ByLink == \E k \in 1 .. Len(Path) :
            EntryOf(before, ResolveIn(before, SubSeq(Path, 1, k - 1)), Path[k]).kind = "lnk"

Intact == \A dir \in Outside : tree[dir] = before[dir]

\* one directory has lost an empty one that has the last name of the argument
EmptyLost ==
  \E dir \in Outside :
    LET name == Basename(Path)
        entry == EntryOf(before, dir, name)
    IN /\ entry.kind = "dir" /\ DOMAIN before[entry.id] = {}
       /\ tree[dir] = [x \in DOMAIN before[dir] \ {name} |-> before[dir][x]]
       /\ \A other \in Outside \ {dir} : tree[other] = before[other]

\* Nothing outside the tree is removed if no other process does anything and no link is
\* followed: the argument is none and is reached by none, and for v1 there is none in
\* the tree either.  Whatever another process does, v3 removes at most one empty
\* directory outside, by its last rmdir and no earlier, unless a link above the
\* argument has led it outside at once, when it opened its argument.
KeepsOutside ==
  /\ changes = 0 /\ ~ ByLink /\ (program = "v1" => ~ Holds("lnk")) => Intact
  /\ program = "v3" /\ opened \notin Outside => Intact \/ (outcome = "done" /\ EmptyLost)

\* The removal ends; it is complete when it ends well, and it ends well unless another
\* process interferes, the argument is a link or missing, or there is something the program
\* does not remove: a pipe for rmrf, a link to a directory for v1, which empties
\* the directory first; only rmrf removes a single file.
EndsRemoved ==
  <>( \/ outcome = "done" /\ (changes = 0 => Argument.kind = "none")
      \/ outcome = "failed" /\
           ( \/ changes > 0
             \/ ArgumentIn(before).kind # "dir"
             \/ program = "v1" /\ Holds("lnk")
             \/ program = "rmrf" /\ Holds("fifo") ) )
=============================================================================
