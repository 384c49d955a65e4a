------------------------------- MODULE Wiring -------------------------------
(***************************************************************************)
(* The nets and pins of a page in gschem, the connections the editor keeps *)
(* between them, and the consolidation of nets: libgeda's s_conn.c,        *)
(* o_net_basic.c, and what they need of s_page.c, s_basic.c and            *)
(* o_selection.c.                                                          *)
(*                                                                         *)
(* A drawing is a record of                                                *)
(*   page       the page's objects, in the order of _object_list, which is *)
(*              that of connectible_list too                               *)
(*   ob         for each object: kind, "net" or "component"; ends, its two *)
(*              end points, or the one active end of a component's pin;    *)
(*              selectable, FALSE for a locked component                   *)
(*   conns      for each object its conn_list; that of a component is the  *)
(*              list of its pin.  An entry has the other object, the type, *)
(*              the point, and which end of each of the two it is (0 for   *)
(*              the code's -1, 1 and 2 for its 0 and 1)                    *)
(*   selection  the selection list                                         *)
(* Buses, and components with several pins, are left out.                  *)
(*                                                                         *)
(* Operators marked as faulty variants are not used: each is a plausible   *)
(* bug, there to show that a property would notice it.                     *)
(***************************************************************************)
EXTENDS Lists, FiniteSetsExt, Functions

IsNet(o) == o.kind = "net"

Net(p, q)    == [kind |-> "net", ends |-> <<p, q>>, selectable |-> TRUE]
Component(p) == [kind |-> "component", ends |-> <<p>>, selectable |-> TRUE]

Blank == [page |-> <<>>, ob |-> [a \in {} |-> {}], conns |-> [a \in {} |-> <<>>],
          selection |-> <<>>]

Live(d) == DOMAIN d.ob

Put(f, a, v) == [x \in DOMAIN f \cup {a} |-> IF x = a THEN v ELSE f[x]]

(* The object of d if it is none yet: the smallest unused sid. *)
NewSid(d) == CHOOSE n \in 1 .. Cardinality(Live(d)) + 1 : n \notin Live(d)

WithEnds(d, a, ends) == [d EXCEPT !.ob = Put(@, a, [@[a] EXCEPT !.ends = ends])]

-----------------------------------------------------------------------------
(* Contacts *)

Between(v, v0, v1) == (v0 < v /\ v < v1) \/ (v1 < v /\ v < v0)

(* p is on the horizontal or vertical line o, but is no end of it *)
s_conn_check_midpoint(o, p) ==
  LET e == o.ends
  IN \/ e[1][1] = p[1] /\ e[2][1] = p[1] /\ Between(p[2], e[1][2], e[2][2])
     \/ e[1][2] = p[2] /\ e[2][2] = p[2] /\ Between(p[1], e[1][1], e[2][1])

(* End j of x meets end k of y; 0 stands for the middle.  Pins have one end,
   and nothing connects to their middle.                                    *)
Meets(x, y, j, k) ==
  /\ j = 0 \/ j \in DOMAIN x.ends
  /\ k = 0 \/ k \in DOMAIN y.ends
  /\ \/ j # 0 /\ k # 0 /\ x.ends[j] = y.ends[k]
     \/ k = 0 /\ IsNet(y) /\ s_conn_check_midpoint(y, x.ends[j])
     \/ j = 0 /\ IsNet(x) /\ s_conn_check_midpoint(x, y.ends[k])

(* The order in which s_conn_update_line_object compares the ends of two
   objects.                                                                 *)
Comparisons ==
  <<<<1, 1>>, <<2, 1>>, <<1, 2>>, <<2, 2>>, <<1, 0>>, <<2, 0>>, <<0, 1>>, <<0, 2>>>>

Contacts(x, y) ==
  Filtered(Comparisons, {jk \in ToSet(Comparisons) : Meets(x, y, jk[1], jk[2])})

PointOf(x, y, jk) == IF jk[1] # 0 THEN x.ends[jk[1]] ELSE y.ends[jk[2]]
TypeOf(jk)        == IF 0 \in {jk[1], jk[2]} THEN "MIDPOINT" ELSE "ENDPOINT"

-----------------------------------------------------------------------------
(* Connection lists *)

s_conn_uniq(list, c) ==
  \A i \in DOMAIN list :
     <<list[i].other, list[i].at, list[i].type>> # <<c.other, c.at, c.type>>

add_connection(conns, a, c) ==
  IF s_conn_uniq(conns[a], c) THEN [conns EXCEPT ![a] = Append(@, c)] ELSE conns

(* faulty variant: the other object is not told *)
OneSided(conns, a, b, x, y, jk) ==
  add_connection(conns, a, [other |-> b, type |-> TypeOf(jk), at |-> PointOf(x, y, jk),
                            mine |-> jk[1], theirs |-> jk[2]])

BothSides(conns, a, b, x, y, jk) ==
  LET c == [other |-> b, type |-> TypeOf(jk), at |-> PointOf(x, y, jk),
            mine |-> jk[1], theirs |-> jk[2]]
  IN add_connection(add_connection(conns, a, c), b,
                    [c EXCEPT !.other = a, !.mine = jk[2], !.theirs = jk[1]])

AllContacts(conns, a, b, x, y) ==
  FoldLeft(LAMBDA cs, jk : BothSides(cs, a, b, x, y, jk), conns, Contacts(x, y))

s_conn_update_object(d, a) ==
  LET with(conns, b) == AllContacts(conns, a, b, d.ob[a], d.ob[b])
  IN [d EXCEPT !.conns = FoldLeft(with, @, Removing(d.page, a))]

(* faulty variant: the entries for an object stay in the lists of the others *)
ForgetOwnList(d, a) == [d EXCEPT !.conns = Put(@, a, <<>>)]

(* The entries for an object are looked for in the lists of those objects only
   that its own list names.                                                 *)
s_conn_remove_object_connections(d, a) ==
  LET others == {d.conns[a][i].other : i \in DOMAIN d.conns[a]}
  IN [d EXCEPT !.conns = [b \in DOMAIN @ |->
        IF b = a THEN <<>>
        ELSE IF b \in others THEN Filtered(@[b], {c \in ToSet(@[b]) : c.other # a})
        ELSE @[b]]]

s_page_append(d, o) ==
  LET a == NewSid(d)
  IN s_conn_update_object([d EXCEPT !.page = Append(@, a), !.ob = Put(@, a, o),
                                    !.conns = Put(@, a, <<>>)], a)

(* Takes an object off its page, and frees it. *)
s_delete_object(d, a) ==
  LET r == s_conn_remove_object_connections(d, a)
  IN [r EXCEPT !.page = Removing(@, a), !.ob = Restrict(@, Live(d) \ {a}),
               !.conns = Restrict(@, Live(d) \ {a})]

-----------------------------------------------------------------------------
(* Selection *)

Selected(d, a) == Contains(d.selection, a)

o_selection_add(d, a) ==
  IF Selected(d, a) THEN d ELSE [d EXCEPT !.selection = Append(@, a)]

o_selection_remove(d, a) == [d EXCEPT !.selection = Removing(@, a)]

o_delete(d, a) == s_delete_object(o_selection_remove(d, a), a)

-----------------------------------------------------------------------------
(* Consolidation *)

(* faulty variant: what is not horizontal is taken to be vertical *)
WithoutDiagonals(o) ==
  IF o.ends[1][2] = o.ends[2][2] THEN "HORIZONTAL" ELSE "VERTICAL"

(* A net of length zero counts as horizontal. *)
o_net_orientation(o) ==
  IF o.ends[1][2] = o.ends[2][2] THEN "HORIZONTAL"
  ELSE IF o.ends[1][1] = o.ends[2][1] THEN "VERTICAL" ELSE "NEITHER"

(* Only the list of the object to extend is searched. *)
o_net_consolidate_nomidpoint(d, a, p) ==
  \A i \in DOMAIN d.conns[a] : ~(d.conns[a][i].at = p /\ d.conns[a][i].type = "MIDPOINT")

(* The indices of the connections of net a to nets that go on in its direction *)
Continuations(d, a) ==
  {i \in DOMAIN d.conns[a] :
     LET c == d.conns[a][i]
     IN /\ c.type = "ENDPOINT"
        /\ o_net_consolidate_nomidpoint(d, a, c.at)
        /\ IsNet(d.ob[c.other])
        /\ o_net_orientation(d.ob[a]) = o_net_orientation(d.ob[c.other])
        /\ o_net_orientation(d.ob[a]) # "NEITHER"}

(* The ends of net x, extended to the length of both nets: only one coordinate
   changes.                                                                 *)
o_net_consolidate_lowlevel(x, y) ==
  LET k == IF o_net_orientation(y) = "HORIZONTAL" THEN 1 ELSE 2
      all == {x.ends[1][k], x.ends[2][k], y.ends[1][k], y.ends[2][k]}
  IN <<[x.ends[1] EXCEPT ![k] = Min(all)], [x.ends[2] EXCEPT ![k] = Max(all)]>>

(* Net a takes net b over.  The connections a has are kept as they are. *)
Merge(d, a, b) ==
  LET longer == WithEnds(d, a, o_net_consolidate_lowlevel(d.ob[a], d.ob[b]))
      chosen == IF Selected(d, b) THEN o_selection_add(o_selection_remove(longer, b), a)
                ELSE longer
  IN s_conn_update_object(s_delete_object(chosen, b), a)

(* The first merge there is to do; the code begins again after each. *)
o_net_consolidate_segments(d) ==
  LET nets == Filtered(d.page, {a \in Live(d) : IsNet(d.ob[a]) /\ Continuations(d, a) # {}})
  IN IF nets = <<>> THEN d
     ELSE LET a == nets[1]
          IN Merge(d, a, d.conns[a][Min(Continuations(d, a))].other)

(* Each merge removes an object, so there are fewer of them than objects. *)
o_net_consolidate(d) ==
  FoldLeft(LAMBDA x, a : o_net_consolidate_segments(x), d, d.page)
=============================================================================
