------------------------------- MODULE MCFiles -------------------------------
(* The programs that work on files one after the other, one of which runs:   *)
(* printing files through io_uring, the two line readers, the list of the    *)
(* largest files, copying a tree and removing a tree.                        *)
EXTENDS IoUringCat, SequencesExt, Functions

CONSTANTS capacity, TopSizes, Garbage, MaxFiles,                     \* of TopFiles
          Contents, chunk_size, READSZ,                              \* of the line readers
          Trees, Path, Outside, MaxChanges,                          \* of TreeRemove
          Systems, Source, Targets, BLOCK, MaxDepth, MaxFds, MaxShort \* of TreeCopy

ASSUME ListAssumption == capacity \in Nat \ {0} /\ TopSizes \subseteq Nat

ASSUME ReadersAssumption ==
  /\ \A f \in Contents : f \in Seq(Range(f))
  /\ chunk_size \in Nat \ {0} /\ READSZ \in Nat \ {0}

\* In a tree to remove, an entry that is a directory leads from one of the tree to one of the
\* tree, and not back to the root, and from one outside to one outside; a link leads to some
\* directory or nowhere, and a file nowhere.
ASSUME TreesAssumption ==
  /\ Path \in Seq(STRING) /\ Path # <<>> /\ "root" \notin Outside /\ MaxChanges \in Nat
  /\ \A T \in Trees :
       /\ {"root"} \cup Outside \subseteq DOMAIN T /\ "None" \notin DOMAIN T
       /\ \A dir \in DOMAIN T : \A name \in DOMAIN T[dir] :
            /\ T[dir][name].kind = "dir" =>
                 T[dir][name].id \in IF dir \in Outside THEN Outside
                                     ELSE DOMAIN T \ (Outside \cup {"root"})
            /\ T[dir][name].id \in {"None"} \cup DOMAIN T
            /\ T[dir][name].kind \notin {"dir", "lnk"} => T[dir][name].id = "None"

\* In a file system, the nodes above a node are directories; what is copied is a directory.
ASSUME SystemsAssumption ==
  /\ Source \in Seq(STRING) /\ Targets \subseteq Seq(STRING)
  /\ BLOCK \in Nat \ {0} /\ {MaxDepth, MaxFds, MaxShort} \subseteq Nat
  /\ \A T \in Systems :
       /\ IsFiniteSet(DOMAIN T) /\ Source \in DOMAIN T /\ T[Source].kind = "dir"
       /\ \A p \in DOMAIN T :
            /\ p \in Seq(STRING)
            /\ T[p] \in [kind : {"dir", "reg", "lnk", "fifo"}, ro : BOOLEAN, data : Seq(Nat)]
            /\ T[p].kind # "reg" => T[p].data = <<>>
            /\ \A n \in 0 .. Len(p) - 1 :
                 SubSeq(p, 1, n) \in DOMAIN T /\ T[SubSeq(p, 1, n)].kind = "dir"

VARIABLES running,
          entries, len, met, inserted,                               \* bigfiles_naive.c
          unread, buffer, eof, pyPc, pyLines,                        \* line_by_line.py
          lineFile, offset, s, cPc, lseek_offset, cLines,            \* line-by-line.c
          program, dry_run, copy_permissions, target, before, fs,    \* copytree.py, cp.c
          stack, copied, bytes_copied, fds, outcome, short,
          remover, existed, tree, calls, result, changes, opened     \* rmtree, rmrf.c

topVars == <<entries, len, met, inserted>>
pyVars == <<unread, buffer, eof, pyPc, pyLines>>
cVars == <<lineFile, offset, s, cPc, lseek_offset, cLines>>
copyVars == <<program, dry_run, copy_permissions, target, before, fs,
              stack, copied, bytes_copied, fds, outcome, short>>
removeVars == <<remover, existed, tree, calls, result, changes, opened>>

-----------------------------------------------------------------------------
(* Every file of at most five bytes, of which only newlines are told apart.  *)

SmallContents == SeqOf({"c", "nl"}, 5)

Top == INSTANCE TopFiles WITH Sizes <- TopSizes
Py == INSTANCE LineReader WITH NL <- "nl", pc <- pyPc, lines <- pyLines
C == INSTANCE LineSeek WITH NL <- "nl", file <- lineFile, pc <- cPc, lines <- cLines

-----------------------------------------------------------------------------
(* A directory with a file, and one below it with a file and a link or pipe; *)
(* copied to a new place, over an old one, and into itself.                  *)

Node(kind, ro, data) == [kind |-> kind, ro |-> ro, data |-> data]
Folder(ro) == Node("dir", ro, <<>>)

CopyTree(ro, special) ==
  (<<>> :> Folder(FALSE)) @@ (<<"old">> :> Folder(FALSE))
  @@ (<<"in">> :> Folder(FALSE)) @@ (<<"in", "a">> :> Node("reg", TRUE, <<1, 2, 3>>))
  @@ (<<"in", "d">> :> Folder(ro)) @@ (<<"in", "d", "b">> :> Node("reg", FALSE, <<4>>))
  @@ (<<"in", "d", "l">> :> Node(special, FALSE, <<>>))

OldFile == CopyTree(FALSE, "lnk") @@ (<<"old", "a">> :> Node("reg", FALSE, <<9>>))

\* more directories than cp.c has descriptors for, if it comes to the file last
Wide ==
  (<<>> :> Folder(FALSE)) @@ (<<"old">> :> Folder(FALSE)) @@ (<<"in">> :> Folder(FALSE))
  @@ (<<"in", "a">> :> Node("reg", FALSE, <<1>>))
  @@ [p \in { <<"in", name>> : name \in {"d", "e", "f"} } |-> Folder(FALSE)]

SmallSystems ==
  { CopyTree(ro, special) : ro \in BOOLEAN, special \in {"lnk", "fifo"} } \cup {OldFile, Wide}
SmallSource == <<"in">>
SmallTargets == { <<"out">>, <<"old">>, <<"in", "d">>, <<"in", "new">> }

Cp == INSTANCE TreeCopy WITH Programs <- {"copytree", "cp"}, file <- copied

CopyIdle == program = "cp" /\ target = <<"old">> /\ before = OldFile

-----------------------------------------------------------------------------
(* The argument p/t may be a directory, a file or a link; its entry a may be *)
(* a directory or a link that leads outside, to a directory with a t as well. *)

It(kind, id) == [kind |-> kind, id |-> id]

RemovedTree(argument, a, b, other) ==
  ("root" :> ("p" :> It("dir", "p"))) @@ ("p" :> ("t" :> argument))
  @@ ("t" :> (("a" :> a) @@ ("b" :> b))) @@ ("d" :> ("b" :> It("reg", "None")))
  @@ ("keep" :> (("a" :> It("reg", "None")) @@ ("t" :> It("dir", "e")))) @@ ("e" :> other)

SmallTrees ==
  { RemovedTree(It("dir", "t"), a, b, <<>>) :
             a \in {It("dir", "d"), It("lnk", "keep")},
             b \in {It("fifo", "None"), It("reg", "None")} }
  \cup { RemovedTree(argument, It("dir", "d"), It("reg", "None"), <<>>) :
             argument \in {It("reg", "None"), It("lnk", "keep")} }
  \cup { RemovedTree(It("dir", "t"), It("dir", "d"), It("reg", "None"), "b" :> It("reg", "None")) }
SmallPath == <<"p", "t">>

Rm == INSTANCE TreeRemove WITH
            Programs <- {"v1", "v2", "v3", "rmrf"}, Root <- "root", None <- "None",
            program <- remover, before <- existed, stack <- calls, outcome <- result

RemoveIdle ==
  remover = "v3" /\ existed = RemovedTree(It("dir", "t"), It("dir", "d"), It("reg", "None"), <<>>)

-----------------------------------------------------------------------------
MCInit ==
  /\ running \in {"uring", "top", "py", "c", "copy", "remove"}
  /\ Init /\ (running # "uring" => liburing)
  /\ Top!Init
  /\ Py!Init /\ (running \notin {"py", "c"} => unread = <<>>)
  /\ lineFile = unread /\ C!Init
  /\ Cp!Init /\ (running # "copy" => CopyIdle)
  /\ Rm!Init /\ (running # "remove" => RemoveIdle)

MCNext ==
  /\ UNCHANGED running
  /\ \/ running = "uring" /\ Next
        /\ UNCHANGED <<topVars, pyVars, cVars, copyVars, removeVars>>
     \/ running = "top" /\ Top!Next
        /\ UNCHANGED <<vars, pyVars, cVars, copyVars, removeVars>>
     \/ running = "py" /\ Py!Next
        /\ UNCHANGED <<vars, topVars, cVars, copyVars, removeVars>>
     \/ running = "c" /\ C!Next
        /\ UNCHANGED <<vars, topVars, pyVars, copyVars, removeVars>>
     \/ running = "copy" /\ Cp!Next
        /\ UNCHANGED <<vars, topVars, pyVars, cVars, removeVars>>
     \/ running = "remove" /\ Rm!Next
        /\ UNCHANGED <<vars, topVars, pyVars, cVars, copyVars>>

MCVars == <<running, vars, topVars, pyVars, cVars, copyVars, removeVars>>

\* each program is a process that nothing holds up, and the kernel completes every request
MCSpec ==
  /\ MCInit /\ [][MCNext]_MCVars
  /\ WF_MCVars(MCNext /\ running # "remove")
  /\ WF_MCVars(/\ running = "remove" /\ Rm!Step
               /\ UNCHANGED <<running, vars, topVars, pyVars, cVars, copyVars>>)
  /\ WF_MCVars(/\ running = "uring" /\ Complete
               /\ UNCHANGED <<running, topVars, pyVars, cVars, copyVars, removeVars>>)

-----------------------------------------------------------------------------
\* The list of bigfiles_naive holds the largest of the files inserted, in order.
KeepsLargest == Top!KeepsLargest

\* Both line readers return the lines of the file, complete and in order.
LinesOfFile == Py!IsLines /\ C!IsLines

\* A copy that ends normally is complete, short writes aside.
CopiesAll == Cp!CopiesAll

\* The tools for trees leave alone what is not theirs: a copy what was there before, a
\* removal what is outside its argument, under the conditions of KeepsOutside.
KeepsOthers == Cp!KeepsExisting /\ Rm!KeepsOutside

\* The line readers get to the end of the file; copies and removals end, and fail only for
\* a cause.
ToolsEnd ==
  /\ running = "py" => Py!EndsWithAll
  /\ running = "c" => C!EndsWithAll
  /\ running = "copy" => Cp!EndsWithCause
  /\ running = "remove" => Rm!EndsRemoved

\* "If copy_permissions is true, then the permission bits of the source files and
\* directories are copied to the destination": a new place is all copytree needs.
CopiesReadOnly == Cp!CopiesReadOnly

\* Files come out of the io_uring programs in order, and all of them.
FilesPrinted == running = "uring" => AllPrinted
=============================================================================
