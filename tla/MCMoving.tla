------------------------------ MODULE MCMoving ------------------------------
(* Pages with two components on a small grid, and nets among them. *)
EXTENDS Moving

Grid == (0 .. 2) \X (0 .. 1)

(* Two components that touch each other, or are two steps apart *)
TwoComponents == {<<Component(<<0, 0>>), Component(p)>> : p \in {<<0, 0>>, <<2, 0>>}}

(* Two components, and a net that leads from one to below the other *)
Wired == {<<Component(<<0, 0>>), Component(<<1, 1>>), Net(<<0, 0>>, <<1, 0>>)>>}

(* The same net with a corner, and a component far from it *)
Cornered == {<<Component(<<0, 0>>), Component(<<2, 0>>), Net(<<0, 0>>, <<1, 0>>),
               Net(<<1, 0>>, <<1, 1>>)>>}

Pages == TwoComponents \cup Wired

(* From the left or from below *)
Straight == {<<z[1], z[2], z[2]>> : z \in {pq \in Grid \X Grid :
               \/ pq[1][1] = pq[2][1] /\ pq[1][2] < pq[2][2]
               \/ pq[1][2] = pq[2][2] /\ pq[1][1] < pq[2][1]}}

(* From the right; a corner; a diagonal line *)
Others == {<<<<2, 0>>, <<0, 0>>, <<0, 0>>>>, <<<<0, 1>>, <<1, 1>>, <<1, 0>>>>,
           <<<<0, 0>>, <<1, 1>>, <<1, 1>>>>}

Drawable == Straight \cup Others

Middle == {<<1, 0>>}
Corner == {<<0, 0>>}

Steps == {<<1, 0>>, <<0, 1>>, <<0, 0>>}
=============================================================================
