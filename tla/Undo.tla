-------------------------------- MODULE Undo --------------------------------
(***************************************************************************)
(* The page undo list of gschem: gschem/src/o_undo.c on top of the list     *)
(* helpers of libgeda/src/s_undo.c.                                        *)
(*                                                                         *)
(* Every page keeps a doubly linked list of UNDO nodes from undo_bottom to  *)
(* undo_tos, and a pointer undo_current into it.  o_undo_savestate pushes a *)
(* node above undo_current; o_undo_callback moves undo_current one node     *)
(* down (undo) or up (redo) and restores the page from the node.  A node    *)
(* of type UNDO_ALL carries a snapshot of the page, in a numbered temporary *)
(* file (undo_type UNDO_DISK) or as a copy of the object list (UNDO_MEMORY);*)
(* a node of type UNDO_VIEWPORT_ONLY, pushed by pan and zoom when           *)
(* undo_panzoom is set, carries none and relies on the nodes below it.      *)
(* The number of the next file, undo_file_index, is global: all pages of    *)
(* the process share it, and it decides when a list is trimmed.             *)
(*                                                                         *)
(* The interactive action in progress (moving objects, placing objects) is  *)
(* part of the state because undo and redo delete the page's place list.    *)
(***************************************************************************)
EXTENDS Integers, Sequences, FiniteSets

CONSTANTS
  Pages,          \* the pages the editor can have open
  Contents,       \* what the object list of a page can be
  EMPTY,          \* the object list without objects, a NULL GList
  Missing,        \* what an undo file that does not exist holds
  UndoTypes,      \* the undo-type settings explored: "DISK", "MEMORY"
  PanZooms,       \* the undo-panzoom settings explored
  UndoLevels,     \* the undo-levels setting
  UndoPadding,    \* UNDO_PADDING
  CheckEvery,     \* the history is checked when undo_file_index % 10 is 0
  MaxSaves,       \* bound: full snapshots saved in a behaviour
  MaxNodes,       \* bound: length of a list when a viewport node is pushed
  MaxFailures     \* bound: undo files that could not be written

ASSUME ContentsAssumption == EMPTY \in Contents /\ Missing \notin Contents
ASSUME ConfigAssumption == /\ UndoTypes \subseteq {"DISK", "MEMORY"}
                           /\ PanZooms \subseteq BOOLEAN
ASSUME LevelsAssumption == /\ UndoLevels \in Nat \ {0}
                           /\ UndoPadding \in Nat \ {0}
                           /\ CheckEvery \in Nat \ {0}
ASSUME BoundsAssumption == /\ MaxSaves \in Nat
                           /\ MaxNodes \in Nat
                           /\ MaxFailures \in Nat

VARIABLES
  undo_type,        \* "DISK" or "MEMORY", set by the rc file
  undo_panzoom,     \* whether pan and zoom push nodes, set by the rc file
  open,             \* the pages in toplevel->pages
  page_current,     \* the page shown in the window
  objects,          \* [Pages -> Contents], the object list of a page
  CHANGED,          \* [Pages -> BOOLEAN], the page's CHANGED flag
  undo_list,        \* [Pages -> Seq(Node)], from undo_bottom to undo_tos
  undo_current,     \* [Pages -> Nat], position in undo_list, 0 for NULL
  undo_file_index,  \* number of the next undo file
  undo_file,        \* undo_file[i] is what gschem.save<pid>_i.sch holds
  unwritten,        \* the undo files whose o_save failed
  action,           \* the interactive action in progress, see below
  freed_twice       \* an object that was already freed has been freed again

config  == <<undo_type, undo_panzoom>>
pagevars == <<open, page_current>>
docvars == <<objects, CHANGED>>
listvars == <<undo_list, undo_current>>
filevars == <<undo_file_index, undo_file, unwritten>>
vars == <<config, pagevars, docvars, listvars, filevars, action, freed_twice>>

NoFile == -1

Node == [type        : {"ALL", "VIEWPORT_ONLY"},
         filename    : Nat \cup {NoFile},
         object_list : Contents,
         CHANGED     : BOOLEAN]

(* inside_action, event_state and place_list of the current page together:
     "none"   no action
     "move"   MOVEMODE; place_list holds objects that are also on the page
     "place"  placing a component, text or paste; place_list owns its objects
     "stale"  still inside_action, but place_list was deleted by a redo      *)
Actions == {"none", "move", "place", "stale"}

TypeOK ==
  /\ undo_type \in UndoTypes
  /\ undo_panzoom \in PanZooms
  /\ open \in SUBSET Pages
  /\ page_current \in open
  /\ objects \in [Pages -> Contents]
  /\ CHANGED \in [Pages -> BOOLEAN]
  /\ undo_list \in [Pages -> Seq(Node)]
  /\ undo_current \in [Pages -> Nat]
  /\ undo_file_index \in Nat
  /\ undo_file \in [0 .. undo_file_index - 1 -> Contents \cup {Missing}]
  /\ unwritten \in SUBSET (0 .. undo_file_index - 1)
  /\ action \in Actions
  /\ freed_twice \in BOOLEAN

-----------------------------------------------------------------------------
(* Nodes and lists *)

(* s_undo_levels counts the nodes with a filename or an object list. *)
HasData(n) == n.filename # NoFile \/ n.object_list # EMPTY

s_undo_levels(l) == Cardinality({i \in DOMAIN l : HasData(l[i])})

Files(l) == {l[i].filename : i \in DOMAIN l} \ {NoFile}

(* The content that a node with data restores: the file is read back, or
   the page ends up empty when the file is not there.                       *)
Restored(n) ==
  IF n.filename = NoFile THEN n.object_list
  ELSE IF undo_file[n.filename] = Missing THEN EMPTY
  ELSE undo_file[n.filename]

(* o_undo_find_prev_filename, o_undo_find_prev_object_head: the position
   nearest below i of a node with data, in a set that is empty without one.
   FindOldest, like the other operators that nothing here uses (TrimAll,
   TrimOneMore, TrimLate, PushedOnTop, SourceOwnOnly, ClosePageOnly), is a
   faulty variant of the operator after it: some property must tell the two
   apart.                                                                   *)
FindOldest(l, i) ==
  {j \in 1 .. i - 1 : HasData(l[j]) /\ \A k \in 1 .. j - 1 : ~HasData(l[k])}

o_undo_find_prev(l, i) ==
  {j \in 1 .. i - 1 : HasData(l[j]) /\ \A k \in j + 1 .. i - 1 : ~HasData(l[k])}

(* The trimming at the end of o_undo_savestate: how many nodes are removed
   from the bottom of list l when undo_file_index is idx.                   *)
TrimAll(l, idx) ==
  IF idx % CheckEvery = 0 /\ s_undo_levels(l) >= UndoLevels + UndoPadding
  THEN s_undo_levels(l) ELSE 0

TrimOneMore(l, idx) ==
  IF idx % CheckEvery = 0 /\ s_undo_levels(l) >= UndoLevels + UndoPadding
  THEN s_undo_levels(l) - UndoLevels + 1 ELSE 0

TrimLate(l, idx) ==
  IF idx % CheckEvery = 0 /\ s_undo_levels(l) > UndoLevels + UndoPadding
  THEN s_undo_levels(l) - UndoLevels ELSE 0

Trim(l, idx) ==
  IF idx % CheckEvery = 0 /\ s_undo_levels(l) >= UndoLevels + UndoPadding
  THEN s_undo_levels(l) - UndoLevels
  ELSE 0

(* "Clear Anything above current": the nodes up to undo_current remain, and
   s_undo_add puts node n on top of them.                                   *)
PushedOnTop(l, cur, n) == Append(l, n)

Pushed(l, cur, n) == Append(SubSeq(l, 1, cur), n)

Unlinked(files, gone) ==
  [i \in DOMAIN files |-> IF i \in gone THEN Missing ELSE files[i]]

-----------------------------------------------------------------------------
(* o_undo_savestate on a page whose list is l0 with undo_current at cur0, for
   an object list c and CHANGED flag chg that are already in place.  The
   result of o_save is not looked at, so the node is pushed either way.     *)
o_undo_savestate(p, l0, cur0, flag, c, chg) ==
  LET disk  == flag = "ALL" /\ undo_type = "DISK"
      idx   == IF disk THEN undo_file_index + 1 ELSE undo_file_index
      node  == [type        |-> flag,
                filename    |-> IF disk THEN undo_file_index ELSE NoFile,
                object_list |-> IF flag = "ALL" /\ ~disk THEN c ELSE EMPTY,
                CHANGED     |-> chg]
      l     == Pushed(l0, cur0, node)
      k     == Trim(l, idx)
      gone  == Files(SubSeq(l0, cur0 + 1, Len(l0))) \cup Files(SubSeq(l, 1, k))
  IN \E ok \in BOOLEAN :
       /\ IF disk THEN undo_file_index < MaxSaves ELSE ok /\ cur0 < MaxNodes
       /\ ~ok => Cardinality(unwritten) < MaxFailures
       /\ undo_list' = [undo_list EXCEPT ![p] = SubSeq(l, k + 1, Len(l))]
       /\ undo_current' = [undo_current EXCEPT ![p] = Len(l) - k]
       /\ undo_file_index' = idx
       /\ undo_file' =
            Unlinked([i \in 0 .. idx - 1 |->
                        IF i < undo_file_index THEN undo_file[i]
                        ELSE IF ok THEN c ELSE Missing], gone)
       /\ unwritten' = IF ok THEN unwritten ELSE unwritten \cup {undo_file_index}

SourceOwnOnly(l, cur, t) == IF HasData(l[t]) THEN {t} ELSE {}

(* The position whose data o_undo_callback restores when it moves to node t
   of list l from node cur; the empty set if it restores nothing.           *)
Source(l, cur, t) ==
  IF l[cur].type = "ALL" /\ l[t].type = "VIEWPORT_ONLY" THEN o_undo_find_prev(l, t)
  ELSE IF HasData(l[t]) THEN {t}
  ELSE {}

(* o_undo_callback: undo when to is undo_current - 1, redo when it is
   undo_current + 1.  With data to restore, the objects of the page and the
   place list are deleted first; during a move both hold the same objects.  *)
o_undo_callback(p, to) ==
  LET l    == undo_list[p]
      from == Source(l, undo_current[p], to)
  IN /\ undo_current[p] # 0
     /\ to \in DOMAIN l
     /\ objects' = IF from = {} THEN objects
                   ELSE [objects EXCEPT ![p] =
                           Restored(l[CHOOSE j \in from : TRUE])]
     /\ CHANGED' = [CHANGED EXCEPT ![p] = l[to].CHANGED]
     /\ undo_current' = [undo_current EXCEPT ![p] = to]
     /\ action' = IF from # {} /\ action # "none" THEN "stale" ELSE action
     /\ freed_twice' = (freed_twice \/ (from # {} /\ action = "move"))
     /\ UNCHANGED <<config, pagevars, undo_list, filevars>>

-----------------------------------------------------------------------------
(* The user's operations on the current page *)

(* edit_undo: inside an action, undo only cancels the action (i_cancel). *)
EditUndo ==
  \/ /\ action # "none"
     /\ action' = "none"
     /\ UNCHANGED <<config, pagevars, docvars, listvars, filevars, freed_twice>>
  \/ /\ action = "none"
     /\ o_undo_callback(page_current, undo_current[page_current] - 1)

(* edit_redo has no such test. *)
EditRedo == o_undo_callback(page_current, undo_current[page_current] + 1)

(* A command that modifies the page, marks it changed
   (gschem_toplevel_page_content_changed) and saves the state (handle_undo and
   the callers of o_undo_savestate with UNDO_ALL).                          *)
Modify(c, next) ==
  LET p == page_current
  IN /\ objects' = [objects EXCEPT ![p] = c]
     /\ CHANGED' = [CHANGED EXCEPT ![p] = TRUE]
     /\ o_undo_savestate(p, undo_list[p], undo_current[p], "ALL", c, TRUE)
     /\ action' = next
     /\ UNCHANGED <<config, pagevars, freed_twice>>

Edit == action = "none" /\ \E c \in Contents : Modify(c, "none")

MoveStart ==
  /\ action = "none"
  /\ objects[page_current] # EMPTY
  /\ action' = "move"
  /\ UNCHANGED <<config, pagevars, docvars, listvars, filevars, freed_twice>>

MoveEnd == action = "move" /\ \E c \in Contents \ {EMPTY} : Modify(c, "none")

PlaceStart ==
  /\ action = "none"
  /\ action' = "place"
  /\ UNCHANGED <<config, pagevars, docvars, listvars, filevars, freed_twice>>

(* o_place_end, once or with continue_placing set *)
PlaceEnd ==
  /\ action = "place"
  /\ \E c \in Contents \ {EMPTY}, next \in {"none", "place"} : Modify(c, next)

(* The zoom and pan commands, which may come in the middle of an action. *)
Zoom ==
  /\ undo_panzoom
  /\ LET p == page_current
     IN o_undo_savestate(p, undo_list[p], undo_current[p], "VIEWPORT_ONLY",
                         objects[p], CHANGED[p])
  /\ UNCHANGED <<config, pagevars, docvars, action, freed_twice>>

(* x_lowlevel_save_page, when the file could be written: the nodes keep the
   CHANGED flags they were saved with.                                      *)
SavePage(p) ==
  /\ p \in open
  /\ CHANGED' = [CHANGED EXCEPT ![p] = FALSE]
  /\ UNCHANGED <<config, pagevars, objects, listvars, filevars, action, freed_twice>>

-----------------------------------------------------------------------------
(* Pages *)

(* x_window_set_current_page cancels the action in progress
   (o_redraw_cleanstates).                                                  *)
SwitchPage(p) ==
  /\ p \in open \ {page_current}
  /\ page_current' = p
  /\ action' = "none"
  /\ UNCHANGED <<config, open, docvars, listvars, filevars, freed_twice>>

(* s_page_new and f_open or the new-page hook, then the root node; CHANGED
   is set if an autosave backup was loaded.                                 *)
NewRoot(p) ==
  \E c \in Contents, chg \in BOOLEAN :
    /\ objects' = [objects EXCEPT ![p] = c]
    /\ CHANGED' = [CHANGED EXCEPT ![p] = chg]
    /\ o_undo_savestate(p, <<>>, 0, "ALL", c, chg)

OpenPage(p) ==
  /\ p \notin open
  /\ open' = open \cup {p}
  /\ page_current' = p
  /\ NewRoot(p)
  /\ action' = "none"
  /\ UNCHANGED <<config, freed_twice>>

ClosePageOnly(p) ==
  /\ p \in open
  /\ open # {p}
  /\ open' = open \ {p}
  /\ objects' = [objects EXCEPT ![p] = EMPTY]
  /\ CHANGED' = [CHANGED EXCEPT ![p] = FALSE]
  /\ undo_list' = [undo_list EXCEPT ![p] = <<>>]
  /\ undo_current' = [undo_current EXCEPT ![p] = 0]
  /\ action' = "none"
  /\ UNCHANGED <<config, page_current, filevars, freed_twice>>

(* x_lowlevel_close_page: the action is cancelled, s_page_delete frees the
   objects and the undo list (s_undo_free_all) and leaves the undo files.
   The current page is replaced by another one.                             *)
ClosePage(p) ==
  /\ p \in open
  /\ open # {p}
  /\ open' = open \ {p}
  /\ page_current' \in IF p = page_current THEN open \ {p} ELSE {page_current}
  /\ objects' = [objects EXCEPT ![p] = EMPTY]
  /\ CHANGED' = [CHANGED EXCEPT ![p] = FALSE]
  /\ undo_list' = [undo_list EXCEPT ![p] = <<>>]
  /\ undo_current' = [undo_current EXCEPT ![p] = 0]
  /\ action' = "none"
  /\ UNCHANGED <<config, filevars, freed_twice>>

(* Closing the only page makes a new one, and x_lowlevel_revert_page re-opens
   the page it has deleted: a fresh page takes its place.                   *)
ReplacePage(p) ==
  /\ p \in open
  /\ NewRoot(p)
  /\ action' = "none"
  /\ UNCHANGED <<config, pagevars, freed_twice>>

-----------------------------------------------------------------------------
Init ==
  /\ undo_type \in UndoTypes
  /\ undo_panzoom \in PanZooms
  /\ \E p \in Pages, c \in Contents :
       /\ open = {p}
       /\ page_current = p
       /\ objects = [q \in Pages |-> IF q = p THEN c ELSE EMPTY]
       /\ LET node == [type        |-> "ALL",
                       filename    |-> IF undo_type = "DISK" THEN 0 ELSE NoFile,
                       object_list |-> IF undo_type = "DISK" THEN EMPTY ELSE c,
                       CHANGED     |-> FALSE]
          IN undo_list = [q \in Pages |-> IF q = p THEN <<node>> ELSE <<>>]
       /\ undo_current = [q \in Pages |-> IF q = p THEN 1 ELSE 0]
       /\ undo_file_index = IF undo_type = "DISK" THEN 1 ELSE 0
       /\ undo_file = [i \in 0 .. undo_file_index - 1 |-> c]
  /\ CHANGED = [q \in Pages |-> FALSE]
  /\ unwritten = {}
  /\ action = "none"
  /\ freed_twice = FALSE

(* What the process does after a double free is anything at all, so nothing
   is said about it.                                                        *)
Next ==
  /\ ~freed_twice
  /\ \/ EditUndo
     \/ EditRedo
     \/ Edit
     \/ MoveStart
     \/ MoveEnd
     \/ PlaceStart
     \/ PlaceEnd
     \/ Zoom
     \/ \E p \in Pages : \/ SavePage(p)
                         \/ SwitchPage(p)
                         \/ OpenPage(p)
                         \/ ClosePage(p)
                         \/ ReplacePage(p)

Spec == Init /\ [][Next]_vars

-----------------------------------------------------------------------------
(* Properties *)

(* undo_current of an open page points into its list, and a closed page has
   none: o_undo.c relies on it after trimming and after removing the rest.  *)
CurrentInList ==
  \A p \in Pages : IF p \in open THEN undo_current[p] \in DOMAIN undo_list[p]
                                 ELSE undo_list[p] = <<>> /\ undo_current[p] = 0

(* No two nodes, of one page or of several, name the same undo file, and the
   file of a node is there as long as the node is, unless it could never be
   written: unlinking the files of trimmed and of overwritten nodes
   (o_undo.c:228, s_undo.c:271) never takes the snapshot of another node.   *)
UndoFilesKept ==
  /\ \A p, q \in Pages : \A i \in DOMAIN undo_list[p], j \in DOMAIN undo_list[q] :
       /\ undo_list[p][i].filename # NoFile
       /\ undo_list[p][i].filename = undo_list[q][j].filename
       => p = q /\ i = j
  /\ \A p \in Pages : \A i \in DOMAIN undo_list[p] :
       LET f == undo_list[p][i].filename
       IN f # NoFile => /\ f < undo_file_index
                        /\ f \in unwritten \/ undo_file[f] # Missing

(* The snapshot at or below position i: its position, if there is one. *)
SnapshotAt(l, i) ==
  {j \in 1 .. i : HasData(l[j]) /\ \A k \in j + 1 .. i : ~HasData(l[k])}

(* After any operation the page shows what the nearest snapshot at or below
   undo_current recorded: undo and redo never leave a page with the content
   of some other point of its history.  (In the memory mode a snapshot of an
   empty page is a NULL list, which the code takes for no snapshot at all:
   the statement is about undo files and about lists without such nodes.)   *)
SnapshotShown ==
  \A p \in open :
    LET l == undo_list[p]
    IN (\A i \in DOMAIN l : l[i].type = "ALL" => HasData(l[i])) =>
         \A j \in SnapshotAt(l, undo_current[p]) :
           l[j].filename \notin unwritten => objects[p] = Restored(l[j])

(* Trimming, which counts the nodes with data but removes nodes of any kind,
   never leaves a page with fewer snapshots than undo-levels.  (A list whose
   bottom changes has been trimmed, or it belongs to a page just opened.)   *)
TrimKeepsLevels ==
  [][\A p \in open \cap open' :
       Head(undo_list'[p]) # Head(undo_list[p]) =>
         \/ s_undo_levels(undo_list'[p]) >= UndoLevels
         \/ undo_list'[p] = <<undo_list'[p][1]>>]_vars

(* "free/remove some undo levels so we stay within the limits" (o_undo.c:194):
   a page never has more snapshots than undo-levels, the padding and the
   savestates between two checks allow.                                     *)
LevelsBounded ==
  \A p \in Pages :
    s_undo_levels(undo_list[p]) <= UndoLevels + UndoPadding + CheckEvery - 2

(* So it is as long as no other page moves undo_file_index on and the list
   has no nodes without data: trimming removes those in the place of
   snapshots, and in the memory mode the empty page is such a node, too.    *)
LevelsBoundedAlone ==
  (\A p, q \in Pages : p = q) /\ undo_type = "DISK" /\ ~undo_panzoom => LevelsBounded

(* "Since they are also contained in the schematic page, a crash occurs when
   the page objects are free'd" (actions.c:340), which edit_undo avoids by
   cancelling the action: undo and redo never free an object twice.         *)
NoDoubleFree == ~freed_twice

-----------------------------------------------------------------------------
(* Undo implements History: an entry shows the snapshot at or below its node,
   or is lost where there is none.                                          *)
EntryOf(l, i) ==
  LET src == SnapshotAt(l, i)
  IN [content  |-> IF src = {} THEN Missing
                   ELSE Restored(l[CHOOSE j \in src : TRUE]),
      modified |-> l[i].CHANGED]

Entries ==
  [p \in Pages |-> [i \in DOMAIN undo_list[p] |-> EntryOf(undo_list[p], i)]]

H == INSTANCE History WITH
       NoContent <- EMPTY, LOST <- Missing, opened <- open, shown <- objects,
       modified <- CHANGED, entries <- Entries, at <- undo_current

ImplementsHistory == H!HSpec
=============================================================================
