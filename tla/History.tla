------------------------------ MODULE History ------------------------------
(***************************************************************************)
(* What a user may expect of undo and redo, with no mention of nodes,       *)
(* snapshots or files: every open page has a line of entries and a place in *)
(* it.  Recording an operation forgets the entries above that place, adds   *)
(* one on top and may forget entries at the far end; undo and redo go one   *)
(* entry down or up and show exactly what was recorded there.               *)
(*                                                                         *)
(* The one weakness the specification concedes is that forgetting at the    *)
(* far end may leave entries there that are still steps of the line but     *)
(* whose content is lost: going to one of them shows what was shown before. *)
(* Module Undo implements this specification.                              *)
(***************************************************************************)
EXTENDS Integers, Sequences

CONSTANTS Pages,     \* the pages
          Contents,  \* what a page can show
          NoContent, \* what a closed page shows
          LOST       \* the content of an entry that has been lost, no Contents

VARIABLES opened,    \* the open pages
          shown,     \* [Pages -> Contents], what a page shows
          modified,  \* [Pages -> BOOLEAN], whether it counts as modified
          entries,   \* [Pages -> Seq(Entry)], oldest first
          at         \* [Pages -> Nat], the place in entries, 0 if closed

hvars == <<opened, shown, modified, entries, at>>

Entry == [content : Contents \cup {LOST}, modified : BOOLEAN]

Blank(c, d) == [content |-> c, modified |-> d]

HInit ==
  \E p \in Pages, c \in Contents :
    /\ opened = {p}
    /\ shown = [q \in Pages |-> IF q = p THEN c ELSE NoContent]
    /\ modified = [q \in Pages |-> FALSE]
    /\ entries = [q \in Pages |-> IF q = p THEN <<Blank(c, FALSE)>> ELSE <<>>]
    /\ at = [q \in Pages |-> IF q = p THEN 1 ELSE 0]

(* Page p becomes a page without history that shows c. *)
Start(p, c, d) ==
  /\ opened' = opened \cup {p}
  /\ shown' = [shown EXCEPT ![p] = c]
  /\ modified' = [modified EXCEPT ![p] = d]
  /\ entries' = [entries EXCEPT ![p] = <<Blank(c, d)>>]
  /\ at' = [at EXCEPT ![p] = 1]

Close(p) ==
  /\ p \in opened
  /\ opened' = opened \ {p}
  /\ shown' = [shown EXCEPT ![p] = NoContent]
  /\ modified' = [modified EXCEPT ![p] = FALSE]
  /\ entries' = [entries EXCEPT ![p] = <<>>]
  /\ at' = [at EXCEPT ![p] = 0]

(* An operation has left page p showing c.  The drop oldest entries are
   forgotten, and the content of the lost oldest ones that remain.  An entry
   that only repeats a lost one (a change of the viewport) is lost, too.    *)
Record(p, c, d) ==
  /\ p \in opened
  /\ shown' = [shown EXCEPT ![p] = c]
  /\ modified' = [modified EXCEPT ![p] = d]
  /\ \E drop \in 0 .. at[p], lost \in 0 .. at[p], s \in {c, LOST} :
       LET line == Append(SubSeq(entries[p], 1, at[p]), Blank(s, d))
           kept == SubSeq(line, drop + 1, Len(line))
       IN /\ s = LOST => entries[p][at[p]].content = LOST /\ c = shown[p]
          /\ lost < Len(kept)
          /\ entries' = [entries EXCEPT ![p] =
                           [i \in DOMAIN kept |->
                              IF i <= lost THEN Blank(LOST, kept[i].modified)
                                           ELSE kept[i]]]
          /\ at' = [at EXCEPT ![p] = Len(kept)]
  /\ UNCHANGED opened

(* Undo and redo: to is the entry below or above the current one. *)
GoTo(p, to) ==
  /\ p \in opened
  /\ to \in DOMAIN entries[p]
  /\ at' = [at EXCEPT ![p] = to]
  /\ shown' = [shown EXCEPT ![p] = IF entries[p][to].content = LOST THEN @
                                   ELSE entries[p][to].content]
  /\ modified' = [modified EXCEPT ![p] = entries[p][to].modified]
  /\ UNCHANGED <<opened, entries>>

(* Saving the page to its file is not an entry. *)
Saved(p) ==
  /\ p \in opened
  /\ modified' = [modified EXCEPT ![p] = FALSE]
  /\ UNCHANGED <<opened, shown, entries, at>>

HNext ==
  \E p \in Pages :
    \/ \E c \in Contents, d \in BOOLEAN : Start(p, c, d) \/ Record(p, c, d)
    \/ Close(p)
    \/ \E to \in {at[p] - 1, at[p] + 1} : GoTo(p, to)
    \/ Saved(p)

HSpec == HInit /\ [][HNext]_hvars
=============================================================================
