------------------------------ MODULE TopFiles ------------------------------
(***************************************************************************)
(* The list of the largest files of archive/2025-002-fall/lib/             *)
(* cs644_topfiles.c as week9/bigfiles_naive.c fills it: a sorted array of  *)
(* bounded length.  A file is inserted if it is larger than what           *)
(* topfiles_list_max_size returns; that function reads the entry behind    *)
(* the last one, which was never written or is outside the array, so that  *)
(* its result may be anything unless the list is empty.                    *)
(***************************************************************************)
EXTENDS Integers

CONSTANTS capacity,     \* at least 1: bigfiles_naive passes 10
          Sizes,        \* sizes a file may have
          Garbage,      \* what memory that was never written may hold
          MaxFiles      \* bound: regular files met

VARIABLES entries, len,
          met,          \* files met so far, which are numbered in this order
          inserted      \* history: the files topfiles_list_insert_sorted was given

vars == <<entries, len, met, inserted>>

Slots == 0 .. capacity - 1

\* topfiles_list_create
Init ==
  /\ entries \in { [j \in Slots |-> [name |-> 0, size |-> 0]] }
  /\ len = 0
  /\ met = 0
  /\ inserted = {}

Place(size) ==
  CHOOSE j \in 0 .. len : /\ j < len => entries[j].size < size
                          /\ \A k \in 0 .. j - 1 : entries[k].size >= size

\* the entries from j on move one place up, the last one of a full array out of it
Overwritten(j, entry) ==                        \* mutant: nothing moves
  [k \in Slots |-> IF k = j THEN entry ELSE entries[k]]
Shifted(j, entry) ==
  [k \in Slots |-> IF k < j \/ k > len THEN entries[k]
                   ELSE IF k = j THEN entry ELSE entries[k - 1]]

\* topfiles_list_max_size: an entry behind the last one holds anything
MaxSize == IF len = 0 THEN {0} ELSE Garbage

\* topfiles_list_insert_sorted: an empty list, one with room, a full one
InsertSorted(entry) ==
  /\ inserted' = inserted \cup {entry}
  /\ IF len < capacity
     THEN /\ entries' = Shifted(Place(entry.size), entry)
          /\ len' = len + 1
     ELSE /\ entries' = IF entry.size > entries[len - 1].size
                        THEN Shifted(Place(entry.size), entry) ELSE entries
          /\ UNCHANGED len

\* searchdir meets a regular file
MeetFile ==
  /\ met < MaxFiles
  /\ met' = met + 1
  /\ \E size \in Sizes, max \in MaxSize :
       IF size > max
       THEN InsertSorted([name |-> met', size |-> size])
       ELSE UNCHANGED <<entries, len, inserted>>

Next == MeetFile

Spec == Init /\ [][Next]_vars

-----------------------------------------------------------------------------
Listed == { entries[k] : k \in 0 .. len - 1 }

\* largest first, files of one size in the order they were met
Sorted ==
  \A j, k \in 0 .. len - 1 : j < k =>
    \/ entries[j].size > entries[k].size
    \/ entries[j].size = entries[k].size /\ entries[j].name < entries[k].name

\* The list that bigfiles_naive prints is sorted, and no file is in it twice.  What it
\* holds was inserted; and what was inserted and is not there any more (or never was)
\* was put out by a full list of files at least as large, whatever maximum its
\* insertion was tested against.
KeepsLargest ==
  /\ len <= capacity
  /\ Sorted
  /\ Listed \subseteq inserted
  /\ \A e \in inserted \ Listed :
       len = capacity /\ \A k \in 0 .. len - 1 : entries[k].size >= e.size
=============================================================================
