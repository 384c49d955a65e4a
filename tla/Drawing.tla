------------------------------- MODULE Drawing -------------------------------
(***************************************************************************)
(* What is drawn on one schematic page, and which net segments and pins    *)
(* the netlister takes to be connected: gaf/netlist/conn.py, and the parts *)
(* of gaf/netlist/blueprint.py that group them into nets.                  *)
(*                                                                         *)
(* A page is a sequence of objects: net segments with two end points, and  *)
(* components that show a symbol at a place, turned and mirrored.  The     *)
(* connectable things on a page are its net instances: <<i, 0>> is the net *)
(* segment page[i], and <<i, k>> is pin k of the symbol of component       *)
(* page[i].  Two components of one library symbol share the pin objects;   *)
(* only the path that leads to a pin, here the i, tells instances apart.   *)
(***************************************************************************)
EXTENDS Integers, Sequences, FiniteSetsExt

(* An object of a page, with what the netlister looks at:
     segment:   kind, ends (two points), is_bus, is_pin, names (its
                netname= and label= attributes)
     component: kind, origin, angle, mirror, symbol, and attributes
   A symbol is a record of its name and its pins; a pin has the point of its
   active end, is_bus, a number and a label.                                *)

IsSegment(page, i)   == page[i].kind = "segment"
IsComponent(page, i) == page[i].kind = "component"

Pins(page, i) == DOMAIN page[i].symbol.pins

Instances(page) ==
  {<<i, 0>> : i \in {j \in DOMAIN page : IsSegment(page, j)}}
    \cup UNION {{<<i, k>> : k \in Pins(page, i)} :
                  i \in {j \in DOMAIN page : IsComponent(page, j)}}

InSymbol(a) == a[2] # 0

(* The object of an instance: its identity, and its data. *)
ObjectOf(page, a) == IF InSymbol(a) THEN <<page[a[1]].symbol.name, a[2]>> ELSE <<"", a[1]>>
DataOf(page, a)   == IF InSymbol(a) THEN page[a[1]].symbol.pins[a[2]] ELSE page[a[1]]

IsPin(page, a) == InSymbol(a) \/ DataOf(page, a).is_pin
IsBus(page, a) == DataOf(page, a).is_bus

-----------------------------------------------------------------------------
(* Coordinates *)

Mirrored(p, mirror) == IF mirror THEN <<-p[1], p[2]>> ELSE p

Turned(p, angle) ==
  CASE angle = 0   -> p
    [] angle = 90  -> <<-p[2], p[1]>>
    [] angle = 180 -> <<-p[1], -p[2]>>
    [] angle = 270 -> <<p[2], -p[1]>>

(* Where a point of a symbol is on the page. *)
Placed(p, c) ==
  LET q == Turned(Mirrored(p, c.mirror), c.angle)
  IN <<q[1] + c.origin[1], q[2] + c.origin[2]>>

(* The end points that can connect: of a pin, only the active one. *)
Ends(page, a) ==
  IF InSymbol(a) THEN {Placed(DataOf(page, a).end, page[a[1]])}
  ELSE IF IsPin(page, a) THEN {page[a[1]].ends[1]}
  ELSE {page[a[1]].ends[1], page[a[1]].ends[2]}

Between(v, v0, v1) == (v0 < v /\ v < v1) \/ (v1 < v /\ v < v0)

(* Operators marked as faulty variants are not used: each is a plausible bug
   in the operator that follows it, and some property tells the two apart.  *)

(* faulty variant: vertical lines are forgotten *)
MidpointHorizontal(e, p) ==
  e[1][2] = p[2] /\ e[2][2] = p[2] /\ Between(p[1], e[1][1], e[2][1])

(* s_conn_check_midpoint: p is on the horizontal or vertical line from e[1]
   to e[2], but is neither.                                                 *)
s_conn_check_midpoint(e, p) ==
  \/ e[1][1] = p[1] /\ e[2][1] = p[1] /\ Between(p[2], e[1][2], e[2][2])
  \/ e[1][2] = p[2] /\ e[2][2] = p[2] /\ Between(p[1], e[1][1], e[2][1])

-----------------------------------------------------------------------------
(* Connections *)

(* Objects inside symbols connect to the outside, and to other symbols, only
   if they are pins; the condition for two objects in symbols is the code's. *)
can_connect(page, a, b) ==
  IF InSymbol(a) /\ InSymbol(b)
  THEN ~((a[1] # b[1] /\ ~IsPin(page, a)) \/ ~IsPin(page, b))
  ELSE (InSymbol(a) => IsPin(page, a)) /\ (InSymbol(b) => IsPin(page, b))

(* Whether a point p of a that is an end point, or a midpoint, of b too, makes
   a connection.  A net may end in the middle of a bus.                     *)
AtEnd(page, a, b) == IsBus(page, a) = IsBus(page, b)

AtMiddle(page, a, b, p) ==
  /\ ~IsPin(page, b)
  /\ s_conn_check_midpoint(DataOf(page, b).ends, p)
  /\ \/ ~IsPin(page, a) /\ ~IsBus(page, a) /\ IsBus(page, b)
     \/ IsBus(page, a) = IsBus(page, b)

(* The pairs <<a, b>> where s_conn_update_line_object for instance a finds b.
   The test that is to leave out a itself compares the objects without the
   paths to them.                                                           *)
Connections(page) ==
  LET at == UNION {{<<a, p>> : p \in Ends(page, a)} : a \in Instances(page)}
      lines == {a \in Instances(page) : ~InSymbol(a)}
      ends == {<<z[1][1], z[2][1]>> : z \in {xy \in at \X at :
                 xy[1][2] = xy[2][2] /\ AtEnd(page, xy[1][1], xy[2][1])}}
      middles == {<<z[1][1], z[2]>> : z \in {xb \in at \X lines :
                 AtMiddle(page, xb[1][1], xb[2], xb[1][2])}}
  IN {ab \in ends \cup middles :
        /\ ObjectOf(page, ab[1]) # ObjectOf(page, ab[2])
        /\ can_connect(page, ab[1], ab[2])}

(* S in the smallest groups that keep the elements of each pair together. *)
Grouped(S, pairs) ==
  LET together(ab, P) == LET met == {V \in P : ab[1] \in V \/ ab[2] \in V}
                         IN (P \ met) \cup {UNION met}
  IN FoldSet(together, {{a} : a \in S}, pairs)

(* traverse_net from each instance that is in no net yet: the nets.  A
   connection that was found from one side is recorded for both.            *)
Nets(page) == Grouped(Instances(page), Connections(page))

(* blueprint.Net: all instances of a net are buses, or none is (an assertion
   of the code).                                                            *)
Uniform(page, V) == \A a, b \in V : IsBus(page, a) = IsBus(page, b)
=============================================================================
