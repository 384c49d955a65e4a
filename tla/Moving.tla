------------------------------- MODULE Moving -------------------------------
(***************************************************************************)
(* Editing the nets of a page in gschem: drawing nets, selecting, moving   *)
(* with rubber-banding, turning, deleting and locking, and what giving a   *)
(* move up leaves behind.                                                  *)
(*                                                                         *)
(* While a move is in progress the moved objects stay on the page:         *)
(* place_list refers to the same objects as the selection, while in other  *)
(* modes place_list owns objects that are on no page yet.  stretch_list    *)
(* refers to the nets that are to follow, each with the end that does.     *)
(* Nothing but inside_action and event_state tells what these lists hold,  *)
(* and most menu actions are available in the middle of a move.            *)
(*                                                                         *)
(* Grips, and placing new components, are left out; what undo restores is  *)
(* in module Undo.  The operators marked as faulty variants are not used.  *)
(***************************************************************************)
EXTENDS Wiring

CONSTANTS
  Points,       \* where things can be; moves that lead out of it are left out
  Files,        \* sequences of objects: the schematics that may be opened
  Routes,       \* <<p, q, r>>: where a net may be drawn
  Deltas,       \* how far a move may go
  Centers,      \* around what things are turned
  DuringMove,   \* which of "turn", "lock" and "toggle" are done during a move
  MaxObjects,   \* bound on the objects of the page
  MaxSelected,  \* bound on the length of the selection
  MaxEdits      \* bound on the changes made to the page

(* What is on a page, with all its points in P *)
Things(P) ==
  [kind : {"net"}, ends : [1 .. 2 -> P], selectable : BOOLEAN]
    \cup [kind : {"component"}, ends : [1 .. 1 -> P], selectable : BOOLEAN]

Plane == Int \X Int

ASSUME PointsAssumption ==
  /\ Points \subseteq Plane
  /\ \A p, q \in Points : <<p[1], q[2]>> \in Points
  /\ Files \subseteq Seq(Things(Points))
  /\ Routes \subseteq Plane \X Plane \X Plane
  /\ Deltas \subseteq Plane /\ Centers \subseteq Plane

ASSUME BoundsAssumption ==
  /\ DuringMove \subseteq {"turn", "lock", "toggle"}
  /\ {MaxObjects, MaxSelected, MaxEdits} \subseteq Nat

VARIABLES
  drawing,        \* the page, its connections and the selection: see Wiring
  place,          \* page->place_list
  stretch,        \* w_current->stretch_list: the object, and its moved end
  event_state,    \* "SELECT", "NET" or "MOVE"
  inside_action,  \* whether an action is in progress
  rubber,         \* the option net_rubber_band_mode
  turned,         \* history: the objects turned where they are during a move
  edits           \* the number of changes made

vars == <<drawing, place, stretch, event_state, inside_action, rubber, turned, edits>>

Selection == drawing.selection

Within(d) == /\ Len(d.page) <= MaxObjects
             /\ \A a \in Live(d) : ToSet(d.ob[a].ends) \subseteq Points

Edit == edits < MaxEdits /\ edits' = edits + 1

-----------------------------------------------------------------------------
(* Opening a page: its objects are appended, and the first undo state is
   saved, which consolidates the nets.                                      *)
savestate(d) == o_net_consolidate(d)

Init ==
  /\ drawing \in {savestate(FoldLeft(s_page_append, Blank, f)) : f \in Files}
  /\ place = <<>> /\ stretch = <<>>
  /\ event_state = "SELECT" /\ inside_action = FALSE
  /\ rubber = TRUE
  /\ turned = {}
  /\ edits = 0

-----------------------------------------------------------------------------
(* Leaving an action *)

(* The objects of a list are deleted from the last to the first.  What is no
   longer there is left out: freeing it again is undefined.  See ListsAlive. *)
s_delete_object_glist(d, list) ==
  FoldLeft(LAMBDA x, a : IF a \in Live(x) THEN s_delete_object(x, a) ELSE x, d, Reverse(list))

(* o_redraw_cleanstates: what the drawing and the lists become.  o_move_cancel
   forgets the lists of a move, and undoes nothing.                          *)
Cleaned ==
  IF ~inside_action THEN [d |-> drawing, place |-> place, stretch |-> stretch]
  ELSE IF event_state = "MOVE" THEN [d |-> drawing, place |-> <<>>, stretch |-> <<>>]
  ELSE [d |-> s_delete_object_glist(drawing, place), place |-> <<>>, stretch |-> stretch]

Leave(state) ==
  /\ place' = Cleaned.place /\ stretch' = Cleaned.stretch
  /\ event_state' = state /\ inside_action' = FALSE

(* faulty variant: the place list is kept when an action is left *)
EscapeKeepingPlace ==
  /\ drawing' = s_delete_object_glist(drawing, place)
  /\ place' = <<>>
  /\ stretch' = IF inside_action THEN <<>> ELSE stretch
  /\ event_state' = "SELECT" /\ inside_action' = FALSE
  /\ UNCHANGED <<rubber, turned, edits>>

(* i_cancel: the Escape key, and undo while an action is in progress *)
Escape ==
  /\ event_state # "SELECT" \/ place # <<>>
  /\ drawing' = IF inside_action THEN drawing ELSE s_delete_object_glist(drawing, place)
  /\ place' = <<>>
  /\ stretch' = IF inside_action THEN <<>> ELSE stretch
  /\ event_state' = "SELECT" /\ inside_action' = FALSE
  /\ UNCHANGED <<rubber, turned, edits>>

-----------------------------------------------------------------------------
(* Selecting *)

Idle == event_state = "SELECT" /\ ~inside_action

(* A click on an object selects it alone; o_find_object passes by locked ones. *)
Click(a) ==
  /\ Idle /\ drawing.ob[a].selectable
  /\ drawing' = [drawing EXCEPT !.selection = <<a>>]
  /\ UNCHANGED <<place, stretch, event_state, inside_action, rubber, turned, edits>>

(* A selection box that catches one more object, with the Shift key held *)
SelectAlso(a) ==
  /\ Idle /\ ~Selected(drawing, a) /\ Len(Selection) < MaxSelected
  /\ drawing' = o_selection_add(drawing, a)
  /\ UNCHANGED <<place, stretch, event_state, inside_action, rubber, turned, edits>>

(* A click with the Control key held *)
Deselect(a) ==
  /\ Idle /\ Selected(drawing, a) /\ drawing.ob[a].selectable
  /\ drawing' = o_selection_remove(drawing, a)
  /\ UNCHANGED <<place, stretch, event_state, inside_action, rubber, turned, edits>>

edit_deselect ==
  /\ drawing' = [Cleaned.d EXCEPT !.selection = <<>>]
  /\ Leave("SELECT")
  /\ UNCHANGED <<rubber, turned, edits>>

edit_select_all ==
  LET d == Cleaned.d
      all == Filtered(d.page, {a \in Live(d) : d.ob[a].selectable})
  IN /\ Len(all) <= MaxSelected
     /\ drawing' = [d EXCEPT !.selection = all]
     /\ Leave("SELECT")
     /\ UNCHANGED <<rubber, turned, edits>>

-----------------------------------------------------------------------------
(* Drawing nets *)

add_net ==
  /\ drawing' = Cleaned.d
  /\ place' = Cleaned.place /\ stretch' = Cleaned.stretch
  /\ event_state' = "NET" /\ inside_action' = TRUE
  /\ UNCHANGED <<rubber, turned, edits>>

(* Something is connected to end k of a: the route need not go on from there. *)
s_conn_net_search(d, a, k) ==
  \E i \in DOMAIN d.conns[a] : d.conns[a][i].mine = k /\ d.conns[a][i].at = d.ob[a].ends[k]

(* The net or nets of a route from p over q to r *)
WithRoute(d, p, q, r) ==
  LET primary == IF p = q THEN d ELSE s_page_append(d, Net(p, q))
  IN IF q = r \/ (p # q /\ s_conn_net_search(primary, Last(primary.page), 2)) THEN primary
     ELSE s_page_append(primary, Net(q, r))

(* o_net_end: the next net may begin right away *)
NetEnd(p, q, r) ==
  /\ event_state = "NET" /\ inside_action /\ place = <<>>
  /\ p # q \/ q # r
  /\ Edit
  /\ LET d == WithRoute(drawing, p, q, r)
     IN Within(d) /\ drawing' = savestate(d)
  /\ turned' = turned \cap Live(drawing')
  /\ UNCHANGED <<place, stretch, event_state, inside_action, rubber>>

-----------------------------------------------------------------------------
(* Moving *)

s_stretch_add(list, a, k) ==
  IF \E i \in DOMAIN list : list[i].object = a THEN list
  ELSE Append(list, [object |-> a, whichone |-> k])

(* faulty variant: the second end of a net is never found *)
FirstWhichone(o, p) == IF o.ends[1] = p THEN 1 ELSE 0

(* The end of net o at p, 0 if there is none *)
o_move_return_whichone(o, p) ==
  IF o.ends[1] = p THEN 1 ELSE IF o.ends[2] = p THEN 2 ELSE 0

(* The connections of a moved object that should follow it: to the end, or the
   pin, of an object that is not moved itself.                              *)
Follows(d, c) ==
  /\ ~Selected(d, c.other)
  /\ c.type = "ENDPOINT" \/ c.theirs # 0

(* Where two pins meet, a net of length zero is inserted.  It appears in the
   connections of the moved pin while they are walked through.              *)
WithZeroLengthNets(d, a) ==
  FoldLeft(LAMBDA x, c : IF Follows(d, c) /\ ~IsNet(d.ob[a]) /\ ~IsNet(d.ob[c.other])
                         THEN s_page_append(x, Net(c.at, c.at)) ELSE x,
           d, d.conns[a])

(* The list, and the nets that are to follow a *)
WithFollowing(list, d, a) ==
  LET add(l, c) ==
        LET k == o_move_return_whichone(d.ob[c.other], c.at)
        IN IF Follows(d, c) /\ IsNet(d.ob[c.other]) /\ k # 0
           THEN s_stretch_add(l, c.other, k) ELSE l
  IN FoldLeft(add, list, d.conns[a])

(* m has the drawing and the stretch list *)
o_move_check_endpoint(m, a) ==
  LET d == WithZeroLengthNets(m.d, a)
  IN [d |-> d, stretch |-> WithFollowing(m.stretch, d, a)]

o_move_prep_rubberband(d) ==
  FoldLeft(o_move_check_endpoint, [d |-> d, stretch |-> <<>>], d.selection)

(* edit_move, or dragging.  What is left of an earlier place list is deleted. *)
MoveStart ==
  /\ Selection # <<>>
  /\ event_state' = "MOVE"
  /\ IF Cleaned.stretch # <<>>
     THEN /\ drawing' = Cleaned.d
          /\ place' = Cleaned.place /\ stretch' = Cleaned.stretch
          /\ inside_action' = FALSE
     ELSE LET m == IF rubber THEN o_move_prep_rubberband(Cleaned.d)
                   ELSE [d |-> Cleaned.d, stretch |-> <<>>]
          IN /\ Within(m.d)
             /\ drawing' = s_delete_object_glist(m.d, Cleaned.place)
             /\ place' = Selection
             /\ stretch' = m.stretch
             /\ inside_action' = TRUE
  /\ UNCHANGED <<rubber, turned, edits>>

Shifted(p, delta) == <<p[1] + delta[1], p[2] + delta[2]>>

(* One end of a net follows; a net that vanishes in the pins is deleted. *)
Stretched(d, s, delta) ==
  LET r == s_conn_remove_object_connections(d, s.object)
      e == ReplaceAt(d.ob[s.object].ends, s.whichone,
                     Shifted(d.ob[s.object].ends[s.whichone], delta))
      x == WithEnds(r, s.object, e)
  IN IF e[1] = e[2] THEN o_delete(x, s.object) ELSE s_conn_update_object(x, s.object)

o_move_end_lowlevel(d, a, delta) ==
  LET r == s_conn_remove_object_connections(d, a)
      shifted == [k \in DOMAIN d.ob[a].ends |-> Shifted(d.ob[a].ends[k], delta)]
  IN s_conn_update_object(WithEnds(r, a, shifted), a)

WithStretched(d, list, delta) ==
  FoldLeft(LAMBDA x, s : Stretched(x, s, delta), d, list)

WithMoved(d, list, delta) ==
  FoldLeft(LAMBDA x, a : o_move_end_lowlevel(x, a, delta), d, list)

Moved(delta) ==
  LET followed == IF rubber THEN WithStretched(drawing, stretch, delta) ELSE drawing
  IN WithMoved(followed, Selection, delta)

ListedObjects ==
  ToSet(Selection) \cup ToSet(place) \cup {stretch[i].object : i \in DOMAIN stretch}

Moving == event_state = "MOVE" /\ inside_action /\ place # <<>>

(* With nothing selected any more only the mode is left: "actually this is an
   error condition hack".  Nothing is said of a list with objects that are gone,
   which ListsAlive excludes.                                               *)
MoveEnd(delta) ==
  /\ Moving /\ ListedObjects \subseteq Live(drawing)
  /\ event_state' = "SELECT" /\ inside_action' = FALSE
  /\ UNCHANGED rubber
  /\ IF Selection = <<>>
     THEN UNCHANGED <<drawing, place, stretch, turned, edits>>
     ELSE /\ Edit
          /\ Within(Moved(delta))
          /\ drawing' = savestate(Moved(delta))
          /\ place' = <<>> /\ stretch' = <<>>
          /\ turned' = (turned \ ToSet(Selection)) \cap Live(drawing')

-----------------------------------------------------------------------------
(* Turning *)

Turn(p, center, how) ==
  LET x == p[1] - center[1]
      y == p[2] - center[2]
  IN IF how = "mirror" THEN <<center[1] - x, p[2]>> ELSE <<center[1] - y, center[2] + x>>

TurnedObject(o, center, how) ==
  [o EXCEPT !.ends = [k \in DOMAIN o.ends |-> Turn(o.ends[k], center, how)]]

Turned(d, list, center, how) ==
  [d EXCEPT !.ob = [a \in DOMAIN @ |->
     IF a \in ToSet(list) THEN TurnedObject(@[a], center, how) ELSE @[a]]]

(* o_place_rotate, o_place_mirror: the objects that are being moved are turned
   on the page, and their connections stay as they are.                     *)
TurnPlace(center, how) ==
  /\ inside_action /\ place # <<>> /\ "turn" \in DuringMove
  /\ Edit
  /\ drawing' = Turned(drawing, place, center, how)
  /\ Within(drawing')
  /\ turned' = turned \cup ToSet(place)
  /\ UNCHANGED <<place, stretch, event_state, inside_action, rubber>>

(* o_rotate_world_update, o_mirror_world_update *)
TurnSelection(center, how) ==
  /\ ~(inside_action /\ place # <<>>) /\ Selection # <<>>
  /\ Edit
  /\ LET apart == FoldLeft(s_conn_remove_object_connections, Cleaned.d, Selection)
         there == Turned(apart, Selection, center, how)
     IN /\ Within(there)
        /\ drawing' = savestate(FoldLeft(s_conn_update_object, there, Selection))
  /\ turned' = (turned \ ToSet(Selection)) \cap Live(drawing')
  /\ place' = Cleaned.place /\ stretch' = Cleaned.stretch
  /\ event_state' = IF inside_action THEN "SELECT" ELSE event_state
  /\ inside_action' = FALSE
  /\ UNCHANGED rubber

-----------------------------------------------------------------------------
(* Deleting, locking, options *)

(* With locked objects in the selection the user may delete all of it, leave
   the locked objects out, or think better of it.                           *)
edit_delete ==
  LET d == Cleaned.d
      unlocked == Filtered(d.selection, {a \in Live(d) : d.ob[a].selectable})
  IN /\ Selection # <<>>
     /\ Edit
     /\ \/ drawing' = savestate(FoldLeft(o_delete, d, d.selection))
        \/ drawing' = savestate(FoldLeft(o_delete, d, unlocked))
        \/ unlocked # d.selection /\ drawing' = d
     /\ turned' = turned \cap Live(drawing')
     /\ Leave("SELECT")
     /\ UNCHANGED rubber

LockAllowed == "lock" \in DuringMove \/ ~(inside_action /\ event_state = "MOVE")

SetSelectable(d, value) ==
  [d EXCEPT !.ob = [a \in DOMAIN @ |->
     IF Selected(d, a) /\ ~IsNet(@[a]) THEN [@[a] EXCEPT !.selectable = value] ELSE @[a]]]

(* Neither asks whether an action is in progress.  The selection is kept only if
   the Shift key is held.  Nothing is saved if nothing changed.             *)
edit_lock(shift) ==
  LET d == SetSelectable(drawing, FALSE)
      u == IF shift THEN d ELSE [d EXCEPT !.selection = <<>>]
  IN /\ Selection # <<>> /\ LockAllowed
     /\ Edit
     /\ drawing' = IF d = drawing THEN u ELSE savestate(u)
     /\ turned' = turned \cap Live(drawing')
     /\ UNCHANGED <<place, stretch, event_state, inside_action, rubber>>

edit_unlock ==
  LET d == SetSelectable(drawing, TRUE)
  IN /\ d # drawing /\ LockAllowed
     /\ Edit
     /\ drawing' = savestate(d)
     /\ turned' = turned \cap Live(drawing')
     /\ UNCHANGED <<place, stretch, event_state, inside_action, rubber>>

options_rubberband ==
  /\ "toggle" \in DuringMove \/ ~(inside_action /\ event_state = "MOVE")
  /\ Edit
  /\ rubber' = ~rubber
  /\ UNCHANGED <<drawing, place, stretch, event_state, inside_action, turned>>

Next ==
  \/ Escape
  \/ \E a \in Live(drawing) : Click(a)
  \/ \E a \in Live(drawing) : SelectAlso(a)
  \/ \E a \in Live(drawing) : Deselect(a)
  \/ edit_deselect
  \/ edit_select_all
  \/ add_net
  \/ \E route \in Routes : NetEnd(route[1], route[2], route[3])
  \/ MoveStart
  \/ \E delta \in Deltas : MoveEnd(delta)
  \/ \E center \in Centers, how \in {"rotate", "mirror"} : TurnPlace(center, how)
  \/ \E center \in Centers, how \in {"rotate", "mirror"} : TurnSelection(center, how)
  \/ edit_delete
  \/ \E shift \in BOOLEAN : edit_lock(shift)
  \/ edit_unlock
  \/ options_rubberband

Spec == Init /\ [][Next]_vars

-----------------------------------------------------------------------------
(* Properties *)

(* TypeOK: the values of the variables; ids are unique in the lists. *)
TypeOK ==
  LET conn == [other : Live(drawing), type : {"ENDPOINT", "MIDPOINT"}, at : Points,
               mine : 0 .. 2, theirs : 0 .. 2]
  IN /\ IsInjective(drawing.page) /\ ToSet(drawing.page) = Live(drawing)
     /\ DOMAIN drawing.conns = Live(drawing)
     /\ \A a \in Live(drawing) :
          /\ ToSet(drawing.conns[a]) \subseteq conn
          /\ ToSet(drawing.ob[a].ends) \subseteq Points
          /\ Len(drawing.ob[a].ends) = IF IsNet(drawing.ob[a]) THEN 2 ELSE 1
     /\ IsInjective(Selection) /\ IsInjective(place)
     /\ \A i \in DOMAIN stretch : stretch[i].whichone \in {1, 2}
     /\ event_state \in {"SELECT", "NET", "MOVE"}
     /\ inside_action \in BOOLEAN /\ rubber \in BOOLEAN
     /\ turned \subseteq Live(drawing) /\ edits \in 0 .. MaxEdits

(* ListsAlive: the selection, the place list and the stretch list name objects
   of the page only.  Outside of a move there is no place list and no stretch
   list, and in the middle of one the place list is the selection.  These are
   plain pointers, and the lists are kept in other files than the objects.  *)
ListsAlive ==
  LET moving == inside_action /\ event_state = "MOVE"
  IN /\ ListedObjects \subseteq Live(drawing)
     /\ moving => place = Selection
     /\ ~moving => place = <<>> /\ stretch = <<>>

(* p is on net o, or is the pin o *)
On(o, p) == p \in ToSet(o.ends) \/ (IsNet(o) /\ s_conn_check_midpoint(o, p))

(* ConnectionsKnown: whatever was drawn, merged, moved and deleted, the lists of
   two objects name each other for every contact there is between them, and no
   list names a point that is not on both.  Objects turned in the middle of a
   move are excepted.  Everyone who walks the lists of s_conn.c relies on it:
   the cues, rubber-banding, consolidation.                                 *)
ConnectionsKnown ==
  LET d == drawing
      steady == Live(d) \ turned
      told(a, b, p, t) == \E i \in DOMAIN d.conns[a] :
        d.conns[a][i].other = b /\ d.conns[a][i].at = p /\ d.conns[a][i].type = t
  IN /\ \A a \in steady : \A b \in steady \ {a} : \A jk \in ToSet(Contacts(d.ob[a], d.ob[b])) :
          told(a, b, PointOf(d.ob[a], d.ob[b], jk), TypeOf(jk))
     /\ \A a \in Live(d) : \A c \in ToSet(d.conns[a]) :
          /\ told(c.other, a, c.at, c.type)
          /\ a \in steady /\ c.other \in steady => On(d.ob[a], c.at) /\ On(d.ob[c.other], c.at)

(* What is joined on a drawing, by geometry alone: the groups of objects. *)
Groups(d) ==
  LET join(a, P) ==
        LET met == {V \in P : \E b \in V : Contacts(d.ob[a], d.ob[b]) # <<>>}
        IN (P \ met) \cup {{a} \cup UNION met}
  IN FoldSet(join, {}, Live(d))

(* The components that are joined with each other: what the netlist shows *)
Joined(d) ==
  UNION {V \X V : V \in {{a \in W : ~IsNet(d.ob[a])} : W \in Groups(d)}}

(* Two nets that lie on each other over some length *)
Overlapping(d) ==
  \E a, b \in Live(d) :
     /\ a # b /\ IsNet(d.ob[a]) /\ IsNet(d.ob[b])
     /\ Cardinality({p \in Points : On(d.ob[a], p) /\ On(d.ob[b], p)}) > 1

Drawn(d) == {p \in Points : \E a \in Live(d) : IsNet(d.ob[a]) /\ On(d.ob[a], p)}

(* ConsolidationKeeps: drawing a net, and the consolidation after it, takes no
   point from what was drawn, and joins just the components that the drawing
   with the new net joins - as long as no two nets lie on each other and nothing
   has been turned in the middle of a move.  (The selection makes no difference
   to it; only the states without one are looked at.)                       *)
ConsolidationKeeps ==
  event_state = "NET" /\ turned = {} /\ Selection = <<>> =>
    \A route \in Routes :
      LET d == WithRoute(drawing, route[1], route[2], route[3])
          s == savestate(d)
      IN Within(d) /\ ~Overlapping(d) => Drawn(s) = Drawn(d) /\ Joined(s) = Joined(d)

(* Components alone are being moved, with their nets. *)
MovingComponents ==
  Moving /\ rubber /\ turned = {} /\ \A a \in ToSet(Selection) : ~IsNet(drawing.ob[a])

MovedPins == {drawing.ob[a].ends[1] : a \in ToSet(Selection)}

(* A moved component that is on the middle of a net, or a net on whose end it is
   and on whose middle something else is: there is no end that could follow. *)
MiddleContacts ==
  \E a, b \in Live(drawing) : \E p \in ToSet(drawing.ob[b].ends) :
     /\ IsNet(drawing.ob[a]) /\ s_conn_check_midpoint(drawing.ob[a], p)
     /\ ({p} \cup ToSet(drawing.ob[a].ends)) \cap MovedPins # {}

(* A net that leads from one moved component to another *)
NetsBetween ==
  \E a \in Live(drawing) :
     LET e == drawing.ob[a].ends
     IN IsNet(drawing.ob[a]) /\ e[1] # e[2] /\ ToSet(e) \subseteq MovedPins

StayJoined(delta) ==
  LET d == Moved(delta)
  IN Within(d) /\ ~Overlapping(d) => Joined(drawing) \subseteq Joined(savestate(d))

(* RubberKeepsPins: components that are moved stay joined with all they were
   joined with, wherever the move ends: unless a net leads from one of them to
   another (only one end of it follows), the middle of a net is involved, or
   nets come to lie on each other.                                          *)
RubberKeepsPins ==
  MovingComponents /\ ~MiddleContacts /\ ~NetsBetween => \A delta \in Deltas : StayJoined(delta)

(* EscapeKeepsPage: giving an action up takes no object from the page.  (i_basic.c:
   if a move was cancelled the place list "would already have been cleared in
   o_move_cancel(), so this is OK".)                                        *)
EscapeKeepsPage == [][Escape => drawing'.page = drawing.page]_vars

(* NothingVanishes: drawing a net takes no point from what was drawn before.
   (o_basic.c: leaving a move is to "re-wind the page contents back to their
   state before we started"; and o_net_basic.c consolidates a net "with any other
   object that is connected to the current object", whose points it keeps.)  *)
NothingVanishes ==
  [][event_state = "NET" /\ event_state' = "NET" => Drawn(drawing) \subseteq Drawn(drawing')]_vars
=============================================================================
