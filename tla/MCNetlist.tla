------------------------------ MODULE MCNetlist ------------------------------
(* The netlister on small designs: single pages with all drawings of a few
   lines around a component, and hierarchies of a page with two instances of
   a subsheet.                                                              *)
EXTENDS Netlist

N == <<"n", 1>>                  \* a name the user gives
U1 == <<"unnamed_net", 1>>       \* one that looks like the netlister's own

-----------------------------------------------------------------------------
(* Things to draw *)

Line(p, q, is_bus, l) ==
  [kind |-> "segment", ends |-> <<p, q>>, is_bus |-> is_bus, is_pin |-> FALSE, names |-> l]

Wire(p, q) == Line(p, q, FALSE, <<>>)
Named(p, q, name) == Line(p, q, FALSE, <<name>>)

Pin(p, number, label) == [end |-> p, is_bus |-> FALSE, number |-> number, label |-> label]
BusPin(p) == [Pin(p, 9, None) EXCEPT !.is_bus = TRUE]

OnePin  == [name |-> "one", pins |-> <<Pin(<<0, 0>>, 0, None)>>]
TwoPins == [name |-> "two", pins |-> <<Pin(<<0, 0>>, 1, None), Pin(<<1, 0>>, 2, None)>>]
Block(a, b) == [name |-> "block", pins |-> <<Pin(<<0, 0>>, 1, a), Pin(<<4, 0>>, 2, b)>>]

Put(symbol, p) ==
  [kind |-> "component", origin |-> p, angle |-> 0, mirror |-> FALSE, symbol |-> symbol,
   refdes |-> None, portname |-> None, netname |-> NoName, graphical |-> FALSE,
   source |-> <<>>, net |-> <<>>]

Part(refdes, p)     == [Put(TwoPins, p) EXCEPT !.refdes = refdes]
Port(label, p)      == [Put(OnePin, p) EXCEPT !.portname = label]
OldPort(label, p)   == [Put([OnePin EXCEPT !.pins[1].number = 1], p) EXCEPT !.refdes = label]
Power(name, p)      == [Put(OnePin, p) EXCEPT !.netname = name]
Picture(p)          == [Put(TwoPins, p) EXCEPT !.graphical = TRUE]

-----------------------------------------------------------------------------
(* Single pages *)

Flat(from_netname, from_netattrib) ==
  [from \in BOOLEAN |-> IF from THEN from_netattrib ELSE from_netname]

OnePage(page) ==
  [top |-> <<"a">>, pages |-> [f \in {"a"} |-> page], traverse |-> FALSE,
   flat |-> Flat(FALSE, FALSE), flat_package |-> FALSE, prefer |-> FALSE]

Grid == (0 .. 2) \X (0 .. 2)

Orthogonal == {pq \in Grid \X Grid : /\ pq[1] # pq[2]
                                     /\ pq[1][1] = pq[2][1] \/ pq[1][2] = pq[2][2]
                                     /\ \A k \in 1 .. 2 : pq[1][k] <= pq[2][k]}

Wires == {Wire(pq[1], pq[2]) : pq \in Orthogonal} \cup {Wire(<<0, 2>>, <<2, 0>>)}
Buses == {Line(pq[1], pq[2], TRUE, <<>>) : pq \in Orthogonal}

TurnedParts == {[Part("R", <<1, 1>>) EXCEPT !.angle = a, !.mirror = m] :
                  a \in {0, 90, 180, 270}, m \in BOOLEAN}

Drawings ==
  {OnePage(<<r, x, y, Part("Q", <<1, 2>>)>>) :
     r \in TurnedParts, x \in Wires, y \in Wires \cup Buses}

\* Parts set against each other pin to pin, and against a bus, which a net=
\* attribute may name.
Abutted ==
  {OnePage(<<Part("R", <<0, 0>>), [Part("Q", p) EXCEPT !.mirror = m],
             [Put([name |-> "bus", pins |-> <<BusPin(<<0, 0>>), Pin(<<0, 1>>, 1, None)>>], q)
                EXCEPT !.refdes = "B", !.net = a],
             Line(<<2, 0>>, <<2, 1>>, TRUE, l)>>) :
     p \in {<<0, 0>>, <<1, 0>>, <<2, 0>>}, q \in {<<0, 1>>, <<2, 0>>, <<2, 1>>},
     l \in {<<>>, <<N>>}, a \in {<<>>, <<<<<<"g", 1>>, 9>>>>}, m \in BOOLEAN}

-----------------------------------------------------------------------------
(* Hierarchies *)

Top(v, a, b, wires) ==
  <<[Put(Block("A", "B"), <<0, 0>>) EXCEPT !.refdes = "U", !.source = <<"sub">>]>>
    \o v \o <<a, b>> \o wires

Instances2 ==
  {<<>>,
   <<[Put(Block("A", "B"), <<0, 8>>) EXCEPT !.refdes = "V", !.source = <<"sub">>]>>,
   <<[Put(Block("A", "B"), <<0, 8>>) EXCEPT !.refdes = "V", !.source = <<"sub", "more">>]>>}

\* between the blocks, from a block to a part, and around the block
TopWires ==
  LET a == Wire(<<0, 0>>, <<0, 8>>)
      b == Wire(<<4, 0>>, <<6, 0>>)
      c == Named(<<7, 0>>, <<7, 8>>, N)
      d == Named(<<4, 8>>, <<7, 8>>, U1)
      e == Wire(<<0, 0>>, <<4, 0>>)
  IN {<<>>, <<a>>, <<c, d>>, <<a, b, c, d>>, <<e, b, d>>}

SubPage(a, b, q, wires) == <<a, b, q>> \o wires

SubWires ==
  LET a == Wire(<<0, 0>>, <<0, 2>>)
      b == Named(<<4, 0>>, <<4, 2>>, N)
      c == Wire(<<1, 2>>, <<4, 2>>)
      d == Wire(<<0, 0>>, <<4, 0>>)
  IN {<<>>, <<b>>, <<a, b>>, <<a, b, c>>, <<d>>}

Parts == {Part("Q", <<0, 2>>),
          [Part("Q", <<0, 2>>) EXCEPT !.net = <<<<N, 2>>, <<<<"g", 1>>, 3>>>>]}

Ports == {<<Port("A", <<0, 0>>), Port("B", <<4, 0>>)>>,
          <<Port("A", <<0, 0>>), OldPort("B", <<4, 0>>)>>,
          <<Port("A", <<0, 0>>), Port("A", <<4, 0>>)>>,
          <<OldPort("A", <<0, 0>>), OldPort("A", <<4, 0>>)>>}

Options ==
  {[traverse |-> TRUE, flat |-> fl, flat_package |-> FALSE, prefer |-> fl[FALSE]] :
     fl \in {Flat(FALSE, FALSE), Flat(TRUE, FALSE), Flat(FALSE, TRUE)}}
  \cup {[traverse |-> FALSE, flat |-> Flat(FALSE, FALSE), flat_package |-> TRUE, prefer |-> FALSE]}

Hierarchy(o, top, sub, more) ==
  [top |-> <<"top">>, traverse |-> o.traverse, flat |-> o.flat,
   flat_package |-> o.flat_package, prefer |-> o.prefer,
   pages |-> [f \in {"top", "sub", "more"} |->
                CASE f = "top" -> top [] f = "sub" -> sub [] f = "more" -> more]]

More == <<Port("A", <<0, 0>>), Part("M", <<0, 0>>), Picture(<<0, 0>>), Power(<<"g", 1>>, <<1, 0>>)>>

Hierarchies ==
  {Hierarchy(o, Top(v, Part("R", <<6, 0>>), Power(<<"g", 1>>, <<0, 8>>), w),
             SubPage(p[1], p[2], q, x), More) :
     o \in Options, v \in Instances2, w \in TopWires, p \in Ports, q \in Parts, x \in SubWires}

-----------------------------------------------------------------------------
(* Mistakes: the netlister reports an error and may fail afterwards *)

Mistakes ==
  LET u(symbol) == [Put(symbol, <<0, 0>>) EXCEPT !.refdes = "U", !.source = <<"sub">>]
      subs == {<<Port("A", <<0, 0>>), Part("Q", <<0, 0>>)>>,
               <<[Port("A", <<0, 0>>) EXCEPT !.refdes = "A"], Part("Q", <<0, 0>>)>>,
               <<[Port("A", <<0, 0>>) EXCEPT !.symbol = TwoPins], Part("Q", <<1, 0>>)>>,
               <<[Port("A", <<0, 0>>) EXCEPT !.symbol.pins = <<>>], Part("Q", <<1, 0>>)>>,
               <<[Port("A", <<0, 0>>) EXCEPT !.symbol.pins[1].is_bus = TRUE], Part("Q", <<1, 0>>)>>,
               <<[Part("A", <<0, 0>>) EXCEPT !.source = <<"more">>], Part("A", <<1, 0>>)>>,
               <<[OldPort("A", <<0, 0>>) EXCEPT !.source = <<"more">>], Part("Q", <<0, 0>>)>>,
               <<[OldPort("A", <<0, 0>>) EXCEPT !.graphical = TRUE], Port("C", <<0, 0>>)>>,
               <<Port("B", <<0, 0>>), Part("Q", <<0, 0>>)>>}
      blocks == {Block("A", "A"), Block("A", None), Block("A", "B")}
  IN {Hierarchy([traverse |-> t, flat |-> Flat(FALSE, FALSE), flat_package |-> TRUE, prefer |-> FALSE],
                <<u(b), Part("Q", <<4, 0>>)>>, s, <<Part("Z", <<0, 0>>)>>) :
        t \in BOOLEAN, b \in blocks, s \in subs}

SmallDesigns == Drawings \cup Abutted \cup Hierarchies \cup Mistakes
=============================================================================
