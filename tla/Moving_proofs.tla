---------------------------- MODULE Moving_proofs ----------------------------
(***************************************************************************)
(* What holds of a page whose nets are drawn, selected, moved, turned,      *)
(* deleted and locked, in any order: the selection, the place list and the *)
(* stretch list name objects of the page, the connection lists of s_conn.c *)
(* name all the contacts there are, on both sides, and giving an action up *)
(* takes nothing from the page.                                            *)
(*                                                                         *)
(* The heart of it is Sane(d, C, S): the connections of drawing d are       *)
(* mutual, complete but for the objects of C, and right but for those of S. *)
(* An object that is disconnected enters C and leaves S; updating it takes *)
(* it out of C; turning it where it is puts it into both.  Every operator  *)
(* of Wiring is shown to keep or to repair it, and the loops over lists to *)
(* do so one element after the other.  Inv adds what the lists hold in each *)
(* mode: in a move the place list is the selection, and the stretch list   *)
(* names nets that are not selected, each once.                            *)
(***************************************************************************)
EXTENDS Moving, Lists_proofs

-----------------------------------------------------------------------------
(* Walks over lists.  What FoldLeft computes is the last of a sequence of    *)
(* values, each made from the one before and the next element of the list.   *)

(* The steps of all walks of Wiring and Moving, by name, with what a walk    *)
(* does not change in p; so that walks have to be shown to exist just once.  *)
Step(k, p, x, y) ==
  CASE k = "contact"     -> BothSides(x, p.a, p.b, p.x, p.y, y)
    [] k = "object"      -> AllContacts(x, p.a, y, p.d.ob[p.a], p.d.ob[y])
    [] k = "consolidate" -> o_net_consolidate_segments(x)
    [] k = "append"      -> s_page_append(x, y)
    [] k = "pins"        -> IF Follows(p.d, y) /\ ~IsNet(p.d.ob[p.a]) /\ ~IsNet(p.d.ob[y.other])
                            THEN s_page_append(x, Net(y.at, y.at)) ELSE x
    [] k = "ends"        -> LET j == o_move_return_whichone(p.ob[y.other], y.at)
                            IN IF Follows(p, y) /\ IsNet(p.ob[y.other]) /\ j # 0
                               THEN s_stretch_add(x, y.other, j) ELSE x
    [] k = "endpoint"    -> o_move_check_endpoint(x, y)
    [] k = "stretch"     -> Stretched(x, y, p)
    [] k = "move"        -> o_move_end_lowlevel(x, y, p)
    [] k = "apart"       -> s_conn_remove_object_connections(x, y)
    [] k = "join"        -> s_conn_update_object(x, y)
    [] OTHER             -> o_delete(x, y)

WalkFrom(k, p, base, s, it) ==
  [S \in SUBSET DOMAIN s |->
     IF S = {} THEN base ELSE Step(k, p, it[S \ {Max(S)}], s[Max(S)])]

\* The values g[0], g[1], ... of a walk over s.
IsWalk(g, k, p, base, s) ==
  /\ g[0] = base
  /\ \A n \in 1 .. Len(s) : g[n] = Step(k, p, g[n - 1], s[n])

\* The greatest number of a set up to n that has n.
LEMMA MaxIs ==
  ASSUME NEW n \in Nat, NEW S \in SUBSET (1 .. n), n \in S
  PROVE  Max(S) = n
<1>1. n \in S /\ \A y \in S : n >= y
  OBVIOUS
<1>2. \A x \in S : (\A y \in S : x >= y) => x = n
  OBVIOUS
<1> QED BY <1>1, <1>2 DEF Max

\* The recursive function by which a walk is defined exists.
LEMMA WalkExists ==
  ASSUME NEW T, NEW s \in Seq(T), NEW k, NEW p, NEW base
  PROVE  \E it : it = WalkFrom(k, p, base, s, it)
<1> DEFINE upto(n, it) == [S \in SUBSET (1 .. n) |->
             IF S = {} THEN base ELSE Step(k, p, it[S \ {Max(S)}], s[Max(S)])]
           G == {n \in Nat : \E it : it = upto(n, it)}
<1>1. DOMAIN s = 1 .. Len(s) /\ Len(s) \in Nat
  BY LenProperties
<1>2. 0 \in G
  <2> DEFINE h == [S \in SUBSET (1 .. 0) |-> base]
  <2>1. h = upto(0, h)
    <3>1. \A S \in SUBSET (1 .. 0) : S = {}
      OBVIOUS
    <3> QED BY <3>1
  <2> HIDE DEF h, upto
  <2> QED BY <2>1
<1>3. ASSUME NEW n \in 0 .. Len(s) - 1, n \in G PROVE n + 1 \in G
  <2>1. PICK f : f = upto(n, f)
    BY <1>3
  <2> DEFINE m == n + 1
             h == [S \in SUBSET (1 .. m) |->
                     IF m \in S THEN Step(k, p, f[S \ {m}], s[m]) ELSE f[S]]
             u == upto(m, h)
  <2>2. \A S \in SUBSET (1 .. n) :
          f[S] = IF S = {} THEN base ELSE Step(k, p, f[S \ {Max(S)}], s[Max(S)])
    BY <2>1
  <2>3. m \in Nat /\ 1 .. n \in SUBSET (1 .. m) /\ m \in 1 .. m
    BY <1>1
  <2>4. ASSUME NEW S \in SUBSET (1 .. m), m \in S PROVE h[S] = u[S]
    <3>1. Max(S) = m
      BY <2>3, <2>4, MaxIs
    <3>2. h[S \ {m}] = f[S \ {m}]
      <4>1. S \ {m} \in SUBSET (1 .. m) /\ m \notin S \ {m}
        OBVIOUS
      <4> HIDE DEF m, u
      <4> QED BY <4>1
    <3>3. h[S] = Step(k, p, f[S \ {m}], s[m])
      <4> HIDE DEF m, u
      <4> QED BY <2>4
    <3>4. u[S] = Step(k, p, h[S \ {m}], s[m])
      <4> HIDE DEF m, h
      <4> QED BY <2>4, <3>1
    <3> QED BY <3>2, <3>3, <3>4
  <2>5. ASSUME NEW S \in SUBSET (1 .. m), m \notin S PROVE h[S] = u[S]
    <3>1. S \in SUBSET (1 .. n)
      BY <2>3, <2>5
    <3>2. h[S] = f[S]
      <4> HIDE DEF m, u
      <4> QED BY <2>5
    <3>3. CASE S = {}
      <4>1. f[S] = base
        BY <2>2, <3>1, <3>3
      <4>2. u[S] = base
        <5> HIDE DEF m, h
        <5> QED BY <3>3
      <4> QED BY <3>2, <4>1, <4>2
    <3>4. CASE S # {}
      <4> DEFINE R == S \ {Max(S)}
      <4>1. R \in SUBSET (1 .. m) /\ m \notin R
        BY <2>5
      <4>2. h[R] = f[R]
        <5> HIDE DEF m, u, R
        <5> QED BY <4>1
      <4>3. u[S] = Step(k, p, h[R], s[Max(S)])
        <5> HIDE DEF m, h
        <5> QED BY <3>4
      <4>4. f[S] = Step(k, p, f[R], s[Max(S)])
        BY <2>2, <3>1, <3>4
      <4> QED BY <3>2, <4>2, <4>3, <4>4
    <3> QED BY <3>3, <3>4
  <2>6. h = [S \in SUBSET (1 .. m) |-> h[S]] /\ u = [S \in SUBSET (1 .. m) |-> u[S]]
    <3>1. h = [S \in SUBSET (1 .. m) |-> h[S]]
      <4> HIDE DEF m, u
      <4> QED OBVIOUS
    <3>2. u = [S \in SUBSET (1 .. m) |-> u[S]]
      <4> HIDE DEF m, h
      <4> QED OBVIOUS
    <3> QED BY <3>1, <3>2
  <2> HIDE DEF h, u
  <2>7. h = u
    <3> HIDE DEF m
    <3> QED BY <2>4, <2>5, <2>6
  <2>8. h = upto(m, h)
    BY <2>7 DEF u
  <2> HIDE DEF upto
  <2> QED BY <2>3, <2>8
<1> HIDE DEF G
<1>4. Len(s) \in G
  <2>1. \A n \in 0 .. Len(s) : n \in G
    BY <1>1, <1>2, <1>3, UpTo
  <2> QED BY <1>1, <2>1
<1> QED BY <1>1, <1>4 DEF G, WalkFrom

\* It goes along the list.
LEMMA WalkSteps ==
  ASSUME NEW T, NEW s \in Seq(T), NEW k, NEW p, NEW base, NEW it,
         it = WalkFrom(k, p, base, s, it)
  PROVE  \E g : IsWalk(g, k, p, base, s) /\ it[DOMAIN s] = g[Len(s)]
<1> DEFINE g == [n \in 0 .. Len(s) |-> it[1 .. n]]
<1>1. DOMAIN s = 1 .. Len(s) /\ Len(s) \in Nat
  BY LenProperties
<1>2. \A S \in SUBSET (1 .. Len(s)) :
        it[S] = IF S = {} THEN base ELSE Step(k, p, it[S \ {Max(S)}], s[Max(S)])
  BY <1>1 DEF WalkFrom
<1>3. g[0] = base
  <2>1. 0 \in 0 .. Len(s) /\ 1 .. 0 = {}
    BY <1>1
  <2>2. g[0] = it[{}]
    BY <2>1
  <2> HIDE DEF g
  <2> QED BY <1>2, <2>2
<1>4. ASSUME NEW n \in 1 .. Len(s) PROVE g[n] = Step(k, p, g[n - 1], s[n])
  <2>1. /\ n \in Nat /\ 1 .. n \in SUBSET (1 .. Len(s)) /\ n \in 1 .. n
        /\ (1 .. n) \ {n} = 1 .. n - 1 /\ n \in 0 .. Len(s) /\ n - 1 \in 0 .. Len(s)
    <3>1. n \in Nat /\ n \in 0 .. Len(s) /\ n - 1 \in 0 .. Len(s) /\ n \in 1 .. n
      BY <1>1
    <3>2. (1 .. n) \ {n} = 1 .. n - 1
      BY <3>1
    <3>3. 1 .. n \in SUBSET (1 .. Len(s))
      BY <1>1
    <3> QED BY <3>1, <3>2, <3>3
  <2>2. Max(1 .. n) = n
    BY <2>1, MaxIs
  <2>3. it[1 .. n] = Step(k, p, it[1 .. n - 1], s[n])
    BY <1>2, <2>1, <2>2
  <2>4. g[n] = it[1 .. n] /\ g[n - 1] = it[1 .. n - 1]
    BY <2>1
  <2> HIDE DEF g
  <2> QED BY <2>3, <2>4
<1>5. g[Len(s)] = it[DOMAIN s]
  BY <1>1
<1> HIDE DEF g
<1> QED BY <1>3, <1>4, <1>5 DEF IsWalk

\* All contacts of two objects are recorded one after the other.
LEMMA ContactsWalk ==
  ASSUME NEW cs, NEW a, NEW b, NEW x, NEW y, NEW T, Contacts(x, y) \in Seq(T)
  PROVE  \E g : /\ IsWalk(g, "contact", [a |-> a, b |-> b, x |-> x, y |-> y], cs, Contacts(x, y))
                /\ AllContacts(cs, a, b, x, y) = g[Len(Contacts(x, y))]
<1> DEFINE F(it) == [S \in SUBSET DOMAIN Contacts(x, y) |-> IF S = {} THEN cs
                       ELSE BothSides(it[S \ {Max(S)}], a, b, x, y, Contacts(x, y)[Max(S)])]
           c == CHOOSE it : it = F(it)
<1>1. AllContacts(cs, a, b, x, y) = c[DOMAIN Contacts(x, y)]
  BY DEF AllContacts, FoldLeft, MapThenFoldSet
<1>2. \A it : F(it) = WalkFrom("contact", [a |-> a, b |-> b, x |-> x, y |-> y], cs, Contacts(x, y), it)
  BY DEF WalkFrom, Step
<1> HIDE DEF F
<1>3. \E it : it = F(it)
  BY <1>2, WalkExists
<1>4. c = WalkFrom("contact", [a |-> a, b |-> b, x |-> x, y |-> y], cs, Contacts(x, y), c)
  BY <1>2, <1>3
<1> HIDE DEF c
<1>5. \E g : IsWalk(g, "contact", [a |-> a, b |-> b, x |-> x, y |-> y], cs, Contacts(x, y)) /\ c[DOMAIN Contacts(x, y)] = g[Len(Contacts(x, y))]
  BY <1>4, WalkSteps
<1> QED BY <1>1, <1>5

\* An object is compared with all others on its page.
LEMMA ObjectsWalk ==
  ASSUME NEW d, NEW a, NEW T, Removing(d.page, a) \in Seq(T)
  PROVE  \E g : /\ IsWalk(g, "object", [a |-> a, d |-> d], d.conns, Removing(d.page, a))
                /\ s_conn_update_object(d, a) = [d EXCEPT !.conns = g[Len(Removing(d.page, a))]]
<1> DEFINE F(it) == [S \in SUBSET DOMAIN Removing(d.page, a) |-> IF S = {} THEN d.conns
                       ELSE AllContacts(it[S \ {Max(S)}], a, Removing(d.page, a)[Max(S)], d.ob[a], d.ob[Removing(d.page, a)[Max(S)]])]
           c == CHOOSE it : it = F(it)
<1>1. s_conn_update_object(d, a) = [d EXCEPT !.conns = c[DOMAIN Removing(d.page, a)]]
  BY DEF s_conn_update_object, FoldLeft, MapThenFoldSet
<1>2. \A it : F(it) = WalkFrom("object", [a |-> a, d |-> d], d.conns, Removing(d.page, a), it)
  BY DEF WalkFrom, Step
<1> HIDE DEF F
<1>3. \E it : it = F(it)
  BY <1>2, WalkExists
<1>4. c = WalkFrom("object", [a |-> a, d |-> d], d.conns, Removing(d.page, a), c)
  BY <1>2, <1>3
<1> HIDE DEF c
<1>5. \E g : IsWalk(g, "object", [a |-> a, d |-> d], d.conns, Removing(d.page, a)) /\ c[DOMAIN Removing(d.page, a)] = g[Len(Removing(d.page, a))]
  BY <1>4, WalkSteps
<1> QED BY <1>1, <1>5

\* Nets are merged until there is nothing left to merge.
LEMMA ConsolidateWalk ==
  ASSUME NEW d, NEW T, d.page \in Seq(T)
  PROVE  \E g : /\ IsWalk(g, "consolidate", <<>>, d, d.page)
                /\ o_net_consolidate(d) = g[Len(d.page)]
<1> DEFINE F(it) == [S \in SUBSET DOMAIN d.page |-> IF S = {} THEN d
                       ELSE o_net_consolidate_segments(it[S \ {Max(S)}])]
           c == CHOOSE it : it = F(it)
<1>1. o_net_consolidate(d) = c[DOMAIN d.page]
  BY DEF o_net_consolidate, FoldLeft, MapThenFoldSet
<1>2. \A it : F(it) = WalkFrom("consolidate", <<>>, d, d.page, it)
  BY DEF WalkFrom, Step
<1> HIDE DEF F
<1>3. \E it : it = F(it)
  BY <1>2, WalkExists
<1>4. c = WalkFrom("consolidate", <<>>, d, d.page, c)
  BY <1>2, <1>3
<1> HIDE DEF c
<1>5. \E g : IsWalk(g, "consolidate", <<>>, d, d.page) /\ c[DOMAIN d.page] = g[Len(d.page)]
  BY <1>4, WalkSteps
<1> QED BY <1>1, <1>5

\* The nets of length zero are inserted one after the other.
LEMMA PinsWalk ==
  ASSUME NEW d, NEW a, NEW T, d.conns[a] \in Seq(T)
  PROVE  \E g : /\ IsWalk(g, "pins", [a |-> a, d |-> d], d, d.conns[a])
                /\ WithZeroLengthNets(d, a) = g[Len(d.conns[a])]
<1> DEFINE F(it) == [S \in SUBSET DOMAIN d.conns[a] |-> IF S = {} THEN d
                       ELSE (IF Follows(d, d.conns[a][Max(S)]) /\ ~IsNet(d.ob[a]) /\ ~IsNet(d.ob[d.conns[a][Max(S)].other])
                        THEN s_page_append(it[S \ {Max(S)}], Net(d.conns[a][Max(S)].at, d.conns[a][Max(S)].at)) ELSE it[S \ {Max(S)}])]
           c == CHOOSE it : it = F(it)
<1>1. WithZeroLengthNets(d, a) = c[DOMAIN d.conns[a]]
  BY DEF WithZeroLengthNets, FoldLeft, MapThenFoldSet
<1>2. \A it : F(it) = WalkFrom("pins", [a |-> a, d |-> d], d, d.conns[a], it)
  BY DEF WalkFrom, Step
<1> HIDE DEF F
<1>3. \E it : it = F(it)
  BY <1>2, WalkExists
<1>4. c = WalkFrom("pins", [a |-> a, d |-> d], d, d.conns[a], c)
  BY <1>2, <1>3
<1> HIDE DEF c
<1>5. \E g : IsWalk(g, "pins", [a |-> a, d |-> d], d, d.conns[a]) /\ c[DOMAIN d.conns[a]] = g[Len(d.conns[a])]
  BY <1>4, WalkSteps
<1> QED BY <1>1, <1>5

EndsWalked(l, d, a) ==
  \E g : /\ IsWalk(g, "ends", d, l, d.conns[a])
         /\ WithFollowing(l, d, a) = g[Len(d.conns[a])]

\* The nets that follow an object are listed one after the other.
LEMMA EndsWalk ==
  ASSUME NEW l, NEW d, NEW a, NEW T, d.conns[a] \in Seq(T)
  PROVE  EndsWalked(l, d, a)
<1> DEFINE F(it) == [S \in SUBSET DOMAIN d.conns[a] |-> IF S = {} THEN l
                       ELSE (LET c == d.conns[a][Max(S)]
                            k == o_move_return_whichone(d.ob[c.other], c.at)
                        IN IF Follows(d, c) /\ IsNet(d.ob[c.other]) /\ k # 0
                           THEN s_stretch_add(it[S \ {Max(S)}], c.other, k) ELSE it[S \ {Max(S)}])]
           c == CHOOSE it : it = F(it)
<1>1. WithFollowing(l, d, a) = c[DOMAIN d.conns[a]]
  BY DEF WithFollowing, FoldLeft, MapThenFoldSet
<1>2. \A it : F(it) = WalkFrom("ends", d, l, d.conns[a], it)
  BY DEF WalkFrom, Step
<1> HIDE DEF F
<1>3. \E it : it = F(it)
  BY <1>2, WalkExists
<1>4. c = WalkFrom("ends", d, l, d.conns[a], c)
  BY <1>2, <1>3
<1> HIDE DEF c
<1>5. \E g : IsWalk(g, "ends", d, l, d.conns[a]) /\ c[DOMAIN d.conns[a]] = g[Len(d.conns[a])]
  BY <1>4, WalkSteps
<1> QED BY <1>1, <1>5 DEF EndsWalked

\* The nets are stretched one after the other.
LEMMA StretchWalk ==
  ASSUME NEW d, NEW delta, NEW l, NEW T, l \in Seq(T)
  PROVE  \E g : /\ IsWalk(g, "stretch", delta, d, l)
                /\ WithStretched(d, l, delta) = g[Len(l)]
<1> DEFINE F(it) == [S \in SUBSET DOMAIN l |-> IF S = {} THEN d
                       ELSE Stretched(it[S \ {Max(S)}], l[Max(S)], delta)]
           c == CHOOSE it : it = F(it)
<1>1. WithStretched(d, l, delta) = c[DOMAIN l]
  BY DEF WithStretched, FoldLeft, MapThenFoldSet
<1>2. \A it : F(it) = WalkFrom("stretch", delta, d, l, it)
  BY DEF WalkFrom, Step
<1> HIDE DEF F
<1>3. \E it : it = F(it)
  BY <1>2, WalkExists
<1>4. c = WalkFrom("stretch", delta, d, l, c)
  BY <1>2, <1>3
<1> HIDE DEF c
<1>5. \E g : IsWalk(g, "stretch", delta, d, l) /\ c[DOMAIN l] = g[Len(l)]
  BY <1>4, WalkSteps
<1> QED BY <1>1, <1>5

\* The objects are moved one after the other.
LEMMA MoveWalk ==
  ASSUME NEW d, NEW delta, NEW l, NEW T, l \in Seq(T)
  PROVE  \E g : /\ IsWalk(g, "move", delta, d, l)
                /\ WithMoved(d, l, delta) = g[Len(l)]
<1> DEFINE F(it) == [S \in SUBSET DOMAIN l |-> IF S = {} THEN d
                       ELSE o_move_end_lowlevel(it[S \ {Max(S)}], l[Max(S)], delta)]
           c == CHOOSE it : it = F(it)
<1>1. WithMoved(d, l, delta) = c[DOMAIN l]
  BY DEF WithMoved, FoldLeft, MapThenFoldSet
<1>2. \A it : F(it) = WalkFrom("move", delta, d, l, it)
  BY DEF WalkFrom, Step
<1> HIDE DEF F
<1>3. \E it : it = F(it)
  BY <1>2, WalkExists
<1>4. c = WalkFrom("move", delta, d, l, c)
  BY <1>2, <1>3
<1> HIDE DEF c
<1>5. \E g : IsWalk(g, "move", delta, d, l) /\ c[DOMAIN l] = g[Len(l)]
  BY <1>4, WalkSteps
<1> QED BY <1>1, <1>5

\* Objects are appended to a page one after the other.
LEMMA AppendWalk ==
  ASSUME NEW d, NEW l, NEW T, l \in Seq(T)
  PROVE  \E g : /\ IsWalk(g, "append", <<>>, d, l)
                /\ FoldLeft(s_page_append, d, l) = g[Len(l)]
<1> DEFINE F(it) == [S \in SUBSET DOMAIN l |-> IF S = {} THEN d
                       ELSE s_page_append(it[S \ {Max(S)}], l[Max(S)])]
           c == CHOOSE it : it = F(it)
<1>1. FoldLeft(s_page_append, d, l) = c[DOMAIN l]
  BY DEF FoldLeft, MapThenFoldSet
<1>2. \A it : F(it) = WalkFrom("append", <<>>, d, l, it)
  BY DEF WalkFrom, Step
<1> HIDE DEF F
<1>3. \E it : it = F(it)
  BY <1>2, WalkExists
<1>4. c = WalkFrom("append", <<>>, d, l, c)
  BY <1>2, <1>3
<1> HIDE DEF c
<1>5. \E g : IsWalk(g, "append", <<>>, d, l) /\ c[DOMAIN l] = g[Len(l)]
  BY <1>4, WalkSteps
<1> QED BY <1>1, <1>5

\* Objects are connected one after the other.
LEMMA JoinWalk ==
  ASSUME NEW d, NEW l, NEW T, l \in Seq(T)
  PROVE  \E g : /\ IsWalk(g, "join", <<>>, d, l)
                /\ FoldLeft(s_conn_update_object, d, l) = g[Len(l)]
<1> DEFINE F(it) == [S \in SUBSET DOMAIN l |-> IF S = {} THEN d
                       ELSE s_conn_update_object(it[S \ {Max(S)}], l[Max(S)])]
           c == CHOOSE it : it = F(it)
<1>1. FoldLeft(s_conn_update_object, d, l) = c[DOMAIN l]
  BY DEF FoldLeft, MapThenFoldSet
<1>2. \A it : F(it) = WalkFrom("join", <<>>, d, l, it)
  BY DEF WalkFrom, Step
<1> HIDE DEF F
<1>3. \E it : it = F(it)
  BY <1>2, WalkExists
<1>4. c = WalkFrom("join", <<>>, d, l, c)
  BY <1>2, <1>3
<1> HIDE DEF c
<1>5. \E g : IsWalk(g, "join", <<>>, d, l) /\ c[DOMAIN l] = g[Len(l)]
  BY <1>4, WalkSteps
<1> QED BY <1>1, <1>5

\* Objects are disconnected one after the other.
LEMMA ApartWalk ==
  ASSUME NEW d, NEW l, NEW T, l \in Seq(T)
  PROVE  \E g : /\ IsWalk(g, "apart", <<>>, d, l)
                /\ FoldLeft(s_conn_remove_object_connections, d, l) = g[Len(l)]
<1> DEFINE F(it) == [S \in SUBSET DOMAIN l |-> IF S = {} THEN d
                       ELSE s_conn_remove_object_connections(it[S \ {Max(S)}], l[Max(S)])]
           c == CHOOSE it : it = F(it)
<1>1. FoldLeft(s_conn_remove_object_connections, d, l) = c[DOMAIN l]
  BY DEF FoldLeft, MapThenFoldSet
<1>2. \A it : F(it) = WalkFrom("apart", <<>>, d, l, it)
  BY DEF WalkFrom, Step
<1> HIDE DEF F
<1>3. \E it : it = F(it)
  BY <1>2, WalkExists
<1>4. c = WalkFrom("apart", <<>>, d, l, c)
  BY <1>2, <1>3
<1> HIDE DEF c
<1>5. \E g : IsWalk(g, "apart", <<>>, d, l) /\ c[DOMAIN l] = g[Len(l)]
  BY <1>4, WalkSteps
<1> QED BY <1>1, <1>5

\* Objects are deleted one after the other.
LEMMA DeleteWalk ==
  ASSUME NEW d, NEW l, NEW T, l \in Seq(T)
  PROVE  \E g : /\ IsWalk(g, "delete", <<>>, d, l)
                /\ FoldLeft(o_delete, d, l) = g[Len(l)]
<1> DEFINE F(it) == [S \in SUBSET DOMAIN l |-> IF S = {} THEN d
                       ELSE o_delete(it[S \ {Max(S)}], l[Max(S)])]
           c == CHOOSE it : it = F(it)
<1>1. FoldLeft(o_delete, d, l) = c[DOMAIN l]
  BY DEF FoldLeft, MapThenFoldSet
<1>2. \A it : F(it) = WalkFrom("delete", <<>>, d, l, it)
  BY DEF WalkFrom, Step
<1> HIDE DEF F
<1>3. \E it : it = F(it)
  BY <1>2, WalkExists
<1>4. c = WalkFrom("delete", <<>>, d, l, c)
  BY <1>2, <1>3
<1> HIDE DEF c
<1>5. \E g : IsWalk(g, "delete", <<>>, d, l) /\ c[DOMAIN l] = g[Len(l)]
  BY <1>4, WalkSteps
<1> QED BY <1>1, <1>5

\* What follows the selected objects is looked for one after the other.
LEMMA EndpointWalk ==
  ASSUME NEW m, NEW l, NEW T, l \in Seq(T)
  PROVE  \E g : /\ IsWalk(g, "endpoint", <<>>, m, l)
                /\ FoldLeft(o_move_check_endpoint, m, l) = g[Len(l)]
<1> DEFINE F(it) == [S \in SUBSET DOMAIN l |-> IF S = {} THEN m
                       ELSE o_move_check_endpoint(it[S \ {Max(S)}], l[Max(S)])]
           c == CHOOSE it : it = F(it)
<1>1. FoldLeft(o_move_check_endpoint, m, l) = c[DOMAIN l]
  BY DEF FoldLeft, MapThenFoldSet
<1>2. \A it : F(it) = WalkFrom("endpoint", <<>>, m, l, it)
  BY DEF WalkFrom, Step
<1> HIDE DEF F
<1>3. \E it : it = F(it)
  BY <1>2, WalkExists
<1>4. c = WalkFrom("endpoint", <<>>, m, l, c)
  BY <1>2, <1>3
<1> HIDE DEF c
<1>5. \E g : IsWalk(g, "endpoint", <<>>, m, l) /\ c[DOMAIN l] = g[Len(l)]
  BY <1>4, WalkSteps
<1> QED BY <1>1, <1>5

-----------------------------------------------------------------------------
(* Contacts and connections *)

Pairs == (0 .. 2) \X (0 .. 2)
Types == {"ENDPOINT", "MIDPOINT"}

\* x and y have a contact of type t at p.
Touch(x, y, p, t) ==
  \E jk \in ToSet(Comparisons) :
    Meets(x, y, jk[1], jk[2]) /\ p = PointOf(x, y, jk) /\ t = TypeOf(jk)

Entry(L) == [other : L, type : Types, at : Plane, mine : 0 .. 2, theirs : 0 .. 2]

\* The list of x in cs has an entry for y.
Told(cs, x, y, p, t) ==
  \E i \in DOMAIN cs[x] : cs[x][i].other = y /\ cs[x][i].at = p /\ cs[x][i].type = t

IsConns(cs, L) ==
  /\ cs \in [L -> Seq(Entry(L))]
  /\ \A x \in L : \A i \in DOMAIN cs[x] : cs[x][i].other # x

Pair(x, y, a, b) == (x = a /\ y = b) \/ (x = b /\ y = a)

\* The ends two objects may meet with.
LEMMA ComparisonsAre ==
  /\ Comparisons \in Seq(Pairs)
  /\ ToSet(Comparisons) = {<<1, 1>>, <<2, 1>>, <<1, 2>>, <<2, 2>>,
                           <<1, 0>>, <<2, 0>>, <<0, 1>>, <<0, 2>>}
<1>1. Comparisons \in Seq(Pairs)
  BY DEF Comparisons, Pairs
<1>2. DOMAIN Comparisons = 1 .. 8
  BY DEF Comparisons
<1>3. ToSet(Comparisons) = {Comparisons[i] : i \in 1 .. 8}
  BY <1>2 DEF ToSet
<1>4. {Comparisons[i] : i \in 1 .. 8} =
        {Comparisons[1], Comparisons[2], Comparisons[3], Comparisons[4],
         Comparisons[5], Comparisons[6], Comparisons[7], Comparisons[8]}
  <2>1. 1 .. 8 = {1, 2, 3, 4, 5, 6, 7, 8}
    OBVIOUS
  <2> QED BY <2>1
<1> QED BY <1>1, <1>3, <1>4 DEF Comparisons

\* The contacts of two objects are the comparisons in which they meet.
LEMMA ContactsListed ==
  ASSUME NEW x, NEW y
  PROVE  /\ Contacts(x, y) \in Seq(Pairs)
         /\ ToSet(Contacts(x, y)) = {jk \in ToSet(Comparisons) : Meets(x, y, jk[1], jk[2])}
<1> DEFINE S == {jk \in ToSet(Comparisons) : Meets(x, y, jk[1], jk[2])}
<1> HIDE DEF S
<1>1. Filtered(Comparisons, S) \in Seq(Pairs) /\ ToSet(Filtered(Comparisons, S)) = ToSet(Comparisons) \cap S
  BY ComparisonsAre, FilteredListed
<1>2. ToSet(Comparisons) \cap S = S
  BY DEF S
<1> QED BY <1>1, <1>2 DEF Contacts, S

\* Touch says of a contact what Contacts lists.
LEMMA TouchListed ==
  ASSUME NEW x, NEW y, NEW p, NEW t
  PROVE  Touch(x, y, p, t) <=>
           \E jk \in ToSet(Contacts(x, y)) : p = PointOf(x, y, jk) /\ t = TypeOf(jk)
<1>1. ToSet(Contacts(x, y)) = {jk \in ToSet(Comparisons) : Meets(x, y, jk[1], jk[2])}
  BY ContactsListed
<1> QED BY <1>1 DEF Touch

\* Nets have two ends and components one, all of them points.
LEMMA ThingsAre ==
  ASSUME NEW P, NEW x \in Things(P)
  PROVE  /\ DOMAIN x.ends = IF IsNet(x) THEN 1 .. 2 ELSE 1 .. 1
         /\ \A k \in DOMAIN x.ends : x.ends[k] \in P
         /\ ToSet(x.ends) = {x.ends[k] : k \in DOMAIN x.ends}
         /\ x = [kind |-> x.kind, ends |-> x.ends, selectable |-> x.selectable]
BY DEF Things, IsNet, ToSet

\* The contacts of y with x are those of x with y.
LEMMA TouchSymmetric ==
  ASSUME NEW x, NEW y, NEW p, NEW t, Touch(x, y, p, t)
  PROVE  Touch(y, x, p, t)
<1>1. PICK jk \in ToSet(Comparisons) :
        Meets(x, y, jk[1], jk[2]) /\ p = PointOf(x, y, jk) /\ t = TypeOf(jk)
  BY DEF Touch
<1> DEFINE kj == <<jk[2], jk[1]>>
<1>2. kj \in ToSet(Comparisons) /\ kj[1] = jk[2] /\ kj[2] = jk[1]
  BY ComparisonsAre
<1> HIDE DEF kj
<1>3. Meets(y, x, kj[1], kj[2])
  BY <1>1, <1>2 DEF Meets
<1>4. PointOf(y, x, kj) = p
  BY <1>1, <1>2, ComparisonsAre DEF Meets, PointOf
<1>5. TypeOf(kj) = t
  BY <1>1, <1>2 DEF TypeOf
<1> QED BY <1>2, <1>3, <1>4, <1>5 DEF Touch

\* A contact is on both, and at an end of one of them.
LEMMA TouchOn ==
  ASSUME NEW x \in Things(Plane), NEW y \in Things(Plane), NEW p, NEW t, Touch(x, y, p, t)
  PROVE  /\ On(x, p) /\ On(y, p)
         /\ p \in ToSet(x.ends) \cup ToSet(y.ends)
         /\ p \in Plane /\ t \in Types
<1>1. PICK jk \in ToSet(Comparisons) :
        Meets(x, y, jk[1], jk[2]) /\ p = PointOf(x, y, jk) /\ t = TypeOf(jk)
  BY DEF Touch
<1>2. jk \in {<<1, 1>>, <<2, 1>>, <<1, 2>>, <<2, 2>>, <<1, 0>>, <<2, 0>>, <<0, 1>>, <<0, 2>>}
  BY <1>1, ComparisonsAre
<1>3. t \in Types
  BY <1>1 DEF TypeOf, Types
<1>4. ToSet(x.ends) = {x.ends[k] : k \in DOMAIN x.ends} /\ ToSet(y.ends) = {y.ends[k] : k \in DOMAIN y.ends}
  BY ThingsAre
<1>5. ToSet(x.ends) \subseteq Plane /\ ToSet(y.ends) \subseteq Plane
  BY <1>4, ThingsAre
<1>6. CASE jk[1] # 0 /\ jk[2] # 0
  <2>1. p = x.ends[jk[1]] /\ jk[1] \in DOMAIN x.ends /\ jk[2] \in DOMAIN y.ends
    BY <1>1, <1>6 DEF Meets, PointOf
  <2>2. p = y.ends[jk[2]]
    BY <1>1, <1>6 DEF Meets, PointOf
  <2>3. p \in ToSet(x.ends) /\ p \in ToSet(y.ends)
    BY <2>1, <2>2, <1>4
  <2> QED BY <1>3, <1>5, <2>3 DEF On
<1>7. CASE jk[2] = 0
  <2>1. jk[1] # 0
    BY <1>2, <1>7
  <2>2. p = x.ends[jk[1]] /\ jk[1] \in DOMAIN x.ends
    BY <1>1, <1>7, <2>1 DEF Meets, PointOf
  <2>3. IsNet(y) /\ s_conn_check_midpoint(y, p)
    BY <1>1, <1>7, <2>1, <2>2 DEF Meets
  <2>4. p \in ToSet(x.ends)
    BY <2>2, <1>4
  <2> QED BY <1>3, <1>5, <2>3, <2>4 DEF On
<1>8. CASE jk[1] = 0
  <2>1. jk[2] # 0
    BY <1>2, <1>8
  <2>2. p = y.ends[jk[2]] /\ jk[2] \in DOMAIN y.ends
    BY <1>1, <1>8, <2>1 DEF Meets, PointOf
  <2>3. IsNet(x) /\ s_conn_check_midpoint(x, p)
    BY <1>1, <1>8, <2>1, <2>2 DEF Meets
  <2>4. p \in ToSet(y.ends)
    BY <2>2, <1>4
  <2> QED BY <1>3, <1>5, <2>3, <2>4 DEF On
<1> QED BY <1>6, <1>7, <1>8

\* What add_connection adds to the lists.
LEMMA ConnectionAdded ==
  ASSUME NEW L, NEW cs, IsConns(cs, L), NEW a \in L, NEW c \in Entry(L), c.other # a
  PROVE  /\ IsConns(add_connection(cs, a, c), L)
         /\ \A x \in L : \A y, p, t :
              Told(add_connection(cs, a, c), x, y, p, t) <=>
                Told(cs, x, y, p, t) \/ (x = a /\ y = c.other /\ p = c.at /\ t = c.type)
<1> DEFINE new == add_connection(cs, a, c)
<1>1. /\ cs \in [L -> Seq(Entry(L))]
      /\ \A x \in L : \A i \in DOMAIN cs[x] : cs[x][i].other # x
      /\ cs[a] \in Seq(Entry(L))
  BY DEF IsConns
<1>2. CASE ~s_conn_uniq(cs[a], c)
  <2>1. new = cs
    BY <1>2 DEF add_connection
  <2>2. Told(cs, a, c.other, c.at, c.type)
    BY <1>2 DEF s_conn_uniq, Told
  <2> HIDE DEF new
  <2>3. IsConns(new, L) /\ \A x \in L : \A y, p, t :
              Told(new, x, y, p, t) <=>
                Told(cs, x, y, p, t) \/ (x = a /\ y = c.other /\ p = c.at /\ t = c.type)
    BY <2>1, <2>2
  <2> QED BY <2>3 DEF new
<1>3. CASE s_conn_uniq(cs[a], c)
  <2> DEFINE l == Append(cs[a], c)
  <2>1. new = [cs EXCEPT ![a] = l]
    BY <1>3 DEF add_connection
  <2>2. /\ l \in Seq(Entry(L)) /\ DOMAIN l = DOMAIN cs[a] \cup {Len(cs[a]) + 1}
        /\ l[Len(cs[a]) + 1] = c /\ \A i \in DOMAIN cs[a] : l[i] = cs[a][i]
    BY <1>1, AppendProperties
  <2> HIDE DEF l, new
  <2>3. new \in [L -> Seq(Entry(L))] /\ new[a] = l /\ \A x \in L \ {a} : new[x] = cs[x]
    BY <1>1, <2>1, <2>2
  <2>4. IsConns(new, L)
    <3>1. ASSUME NEW x \in L, NEW i \in DOMAIN new[x] PROVE new[x][i].other # x
      <4>1. CASE x = a /\ i = Len(cs[a]) + 1
        BY <2>2, <2>3, <4>1
      <4>2. CASE x = a /\ i # Len(cs[a]) + 1
        BY <1>1, <2>2, <2>3, <4>2
      <4>3. CASE x # a
        BY <1>1, <2>3, <4>3
      <4> QED BY <4>1, <4>2, <4>3
    <3> QED BY <2>3, <3>1 DEF IsConns
  <2>5. ASSUME NEW x \in L, NEW y, NEW p, NEW t
        PROVE Told(new, x, y, p, t) <=>
                Told(cs, x, y, p, t) \/ (x = a /\ y = c.other /\ p = c.at /\ t = c.type)
    <3>1. CASE x # a
      BY <2>3, <3>1 DEF Told
    <3>2. CASE x = a
      <4>1. Told(new, x, y, p, t) <=> \E i \in DOMAIN l : l[i].other = y /\ l[i].at = p /\ l[i].type = t
        BY <2>3, <3>2 DEF Told
      <4>2. Told(cs, x, y, p, t) <=>
              \E i \in DOMAIN cs[a] : l[i].other = y /\ l[i].at = p /\ l[i].type = t
        BY <2>2, <3>2 DEF Told
      <4> QED BY <2>2, <3>2, <4>1, <4>2
    <3> QED BY <3>1, <3>2
  <2> QED BY <2>4, <2>5 DEF new
<1> QED BY <1>2, <1>3

\* Each of two objects is told of a contact.
LEMMA BothTold ==
  ASSUME NEW L, NEW cs, IsConns(cs, L), NEW a \in L, NEW b \in L, a # b,
         NEW x, NEW y, NEW jk \in Pairs, PointOf(x, y, jk) \in Plane
  PROVE  /\ IsConns(BothSides(cs, a, b, x, y, jk), L)
         /\ \A u \in L : \A v, p, t :
              Told(BothSides(cs, a, b, x, y, jk), u, v, p, t) <=>
                \/ Told(cs, u, v, p, t)
                \/ Pair(u, v, a, b) /\ p = PointOf(x, y, jk) /\ t = TypeOf(jk)
<1> DEFINE c == [other |-> b, type |-> TypeOf(jk), at |-> PointOf(x, y, jk),
                 mine |-> jk[1], theirs |-> jk[2]]
           e == [c EXCEPT !.other = a, !.mine = jk[2], !.theirs = jk[1]]
           one == add_connection(cs, a, c)
           two == add_connection(one, b, e)
<1>1. TypeOf(jk) \in Types /\ jk[1] \in 0 .. 2 /\ jk[2] \in 0 .. 2
  BY DEF TypeOf, Types, Pairs
<1>2. c \in Entry(L) /\ c.other = b /\ c.at = PointOf(x, y, jk) /\ c.type = TypeOf(jk)
  BY <1>1 DEF Entry
<1>3. e \in Entry(L) /\ e.other = a /\ e.at = PointOf(x, y, jk) /\ e.type = TypeOf(jk)
  BY <1>1 DEF Entry
<1>4. BothSides(cs, a, b, x, y, jk) = two
  BY DEF BothSides
<1> HIDE DEF c, e
<1>5. /\ IsConns(one, L)
      /\ \A u \in L : \A v, p, t : Told(one, u, v, p, t) <=>
           Told(cs, u, v, p, t) \/ (u = a /\ v = c.other /\ p = c.at /\ t = c.type)
  BY <1>2, ConnectionAdded
<1> HIDE DEF one
<1>6. /\ IsConns(two, L)
      /\ \A u \in L : \A v, p, t : Told(two, u, v, p, t) <=>
           Told(one, u, v, p, t) \/ (u = b /\ v = e.other /\ p = e.at /\ t = e.type)
  BY <1>3, <1>5, ConnectionAdded
<1> HIDE DEF two
<1> QED BY <1>2, <1>3, <1>4, <1>5, <1>6 DEF Pair

\* Two objects are told of all contacts between them.
LEMMA AllTold ==
  ASSUME NEW L, NEW cs, IsConns(cs, L), NEW a \in L, NEW b \in L, a # b,
         NEW x \in Things(Plane), NEW y \in Things(Plane)
  PROVE  /\ IsConns(AllContacts(cs, a, b, x, y), L)
         /\ \A u \in L : \A v, p, t :
              Told(AllContacts(cs, a, b, x, y), u, v, p, t) <=>
                Told(cs, u, v, p, t) \/ (Pair(u, v, a, b) /\ Touch(x, y, p, t))
<1> DEFINE s == Contacts(x, y)
           par == [a |-> a, b |-> b, x |-> x, y |-> y]
           N == Len(s)
<1>1. s \in Seq(Pairs)
  BY ContactsListed
<1>2. \A p, t : Touch(x, y, p, t) <=> \E jk \in ToSet(s) : p = PointOf(x, y, jk) /\ t = TypeOf(jk)
  BY TouchListed
<1> HIDE DEF s, par
<1>3. N \in Nat /\ DOMAIN s = 1 .. N /\ ToSet(s) = {s[i] : i \in 1 .. N} /\ \A i \in 1 .. N : s[i] \in Pairs
  <2> QED BY <1>1, Listed
<1> USE DEF s, par
<1>4. \E g : IsWalk(g, "contact", par, cs, s) /\ AllContacts(cs, a, b, x, y) = g[N]
  BY <1>1, ContactsWalk
<1>5. PICK g : IsWalk(g, "contact", par, cs, s) /\ AllContacts(cs, a, b, x, y) = g[N]
  BY <1>4
<1>6. g[0] = cs /\ \A n \in 1 .. N : g[n] = BothSides(g[n - 1], a, b, x, y, s[n])
  BY <1>5 DEF IsWalk, Step
<1> HIDE DEF s, par, N
<1>7. \A n \in 1 .. N : PointOf(x, y, s[n]) \in Plane
  <2> SUFFICES ASSUME NEW n \in 1 .. N PROVE PointOf(x, y, s[n]) \in Plane
    OBVIOUS
  <2>1. s[n] \in ToSet(s)
    BY <1>3
  <2>2. Touch(x, y, PointOf(x, y, s[n]), TypeOf(s[n]))
    BY <1>2, <2>1
  <2> QED BY <2>2, TouchOn
<1> DEFINE Is(n) == /\ IsConns(g[n], L)
                    /\ \A u \in L : \A v, p, t : Told(g[n], u, v, p, t) <=>
                         \/ Told(cs, u, v, p, t)
                         \/ Pair(u, v, a, b) /\ \E i \in 1 .. n : p = PointOf(x, y, s[i]) /\ t = TypeOf(s[i])
           G == {n \in Nat : Is(n)}
<1>8. Is(0)
  BY <1>6
<1>9. ASSUME NEW n \in 0 .. N - 1, Is(n) PROVE Is(n + 1)
  <2>1. n + 1 \in 1 .. N /\ n \in Nat /\ (n + 1) - 1 = n /\ 1 .. n + 1 = (1 .. n) \cup {n + 1}
    BY <1>3
  <2>2. g[n + 1] = BothSides(g[n], a, b, x, y, s[n + 1])
    BY <1>6, <2>1
  <2>3. s[n + 1] \in Pairs /\ PointOf(x, y, s[n + 1]) \in Plane
    BY <1>3, <1>7, <2>1
  <2>4. IsConns(g[n], L) /\ \A u \in L : \A v, p, t : Told(g[n], u, v, p, t) <=>
                         \/ Told(cs, u, v, p, t)
                         \/ Pair(u, v, a, b) /\ \E i \in 1 .. n : p = PointOf(x, y, s[i]) /\ t = TypeOf(s[i])
    BY <1>9
  <2> HIDE DEF Is
  <2>5. /\ IsConns(BothSides(g[n], a, b, x, y, s[n + 1]), L)
        /\ \A u \in L : \A v, p, t :
              Told(BothSides(g[n], a, b, x, y, s[n + 1]), u, v, p, t) <=>
                \/ Told(g[n], u, v, p, t)
                \/ Pair(u, v, a, b) /\ p = PointOf(x, y, s[n + 1]) /\ t = TypeOf(s[n + 1])
    BY <2>3, <2>4, BothTold
  <2>6. IsConns(g[n + 1], L)
    BY <2>2, <2>5
  <2>7. ASSUME NEW u \in L, NEW v, NEW p, NEW t
        PROVE Told(g[n + 1], u, v, p, t) <=>
                \/ Told(cs, u, v, p, t)
                \/ Pair(u, v, a, b) /\ \E i \in 1 .. n + 1 : p = PointOf(x, y, s[i]) /\ t = TypeOf(s[i])
    <3>1. Told(g[n + 1], u, v, p, t) <=>
                \/ Told(g[n], u, v, p, t)
                \/ Pair(u, v, a, b) /\ p = PointOf(x, y, s[n + 1]) /\ t = TypeOf(s[n + 1])
      BY <2>2, <2>5
    <3>2. Told(g[n], u, v, p, t) <=>
                         \/ Told(cs, u, v, p, t)
                         \/ Pair(u, v, a, b) /\ \E i \in 1 .. n : p = PointOf(x, y, s[i]) /\ t = TypeOf(s[i])
      BY <2>4
    <3>3. (\E i \in 1 .. n + 1 : p = PointOf(x, y, s[i]) /\ t = TypeOf(s[i])) <=>
            \/ \E i \in 1 .. n : p = PointOf(x, y, s[i]) /\ t = TypeOf(s[i])
            \/ p = PointOf(x, y, s[n + 1]) /\ t = TypeOf(s[n + 1])
      BY <2>1
    <3> QED BY <3>1, <3>2, <3>3
  <2> QED BY <2>6, <2>7 DEF Is
<1>10. Is(N)
  <2> HIDE DEF Is
  <2>1. 0 \in G /\ \A n \in 0 .. N - 1 : n \in G => n + 1 \in G
    BY <1>3, <1>8, <1>9
  <2> HIDE DEF G
  <2>2. \A n \in 0 .. N : n \in G
    BY <1>3, <2>1, UpTo
  <2>3. N \in G
    BY <1>3, <2>2
  <2> QED BY <2>3 DEF G
<1>11. \A p, t : Touch(x, y, p, t) <=> \E i \in 1 .. N : p = PointOf(x, y, s[i]) /\ t = TypeOf(s[i])
  BY <1>2, <1>3
<1>12. IsConns(g[N], L) /\ \A u \in L : \A v, p, t : Told(g[N], u, v, p, t) <=>
                         \/ Told(cs, u, v, p, t)
                         \/ Pair(u, v, a, b) /\ \E i \in 1 .. N : p = PointOf(x, y, s[i]) /\ t = TypeOf(s[i])
  BY <1>10
<1> HIDE DEF Is
<1> QED BY <1>5, <1>11, <1>12

-----------------------------------------------------------------------------
(* Drawings *)

Parts(d) == d = [page |-> d.page, ob |-> d.ob, conns |-> d.conns, selection |-> d.selection]

\* The types of a drawing's parts.
Good(d) ==
  /\ Parts(d)
  /\ d.page \in Seq(Nat) /\ IsInjective(d.page) /\ ToSet(d.page) = Live(d)
  /\ d.ob \in [Live(d) -> Things(Plane)]
  /\ IsConns(d.conns, Live(d))
  /\ d.selection \in Seq(Nat) /\ IsInjective(d.selection) /\ ToSet(d.selection) \subseteq Live(d)

\* What s_conn_update_object does to the lists.
LEMMA UpdateTold ==
  ASSUME NEW d, Good(d), NEW a \in Live(d)
  PROVE  LET e == s_conn_update_object(d, a)
         IN /\ Parts(e) /\ e.page = d.page /\ e.ob = d.ob /\ e.selection = d.selection
            /\ IsConns(e.conns, Live(d))
            /\ \A u \in Live(d) : \A v, p, t : Told(e.conns, u, v, p, t) <=>
                 \/ Told(d.conns, u, v, p, t)
                 \/ /\ u # v /\ v \in Live(d) /\ a \in {u, v}
                    /\ Touch(d.ob[u], d.ob[v], p, t)
<1> DEFINE L == Live(d)
           s == Removing(d.page, a)
           par == [a |-> a, d |-> d]
           N == Len(s)
           e == s_conn_update_object(d, a)
<1>1. /\ Parts(d) /\ d.page \in Seq(Nat) /\ ToSet(d.page) = L /\ IsConns(d.conns, L)
      /\ \A b \in L : d.ob[b] \in Things(Plane)
  BY DEF Good
<1>2. s \in Seq(Nat) /\ ToSet(s) = L \ {a}
  <2> HIDE DEF L
  <2>1. Removing(d.page, a) \in Seq(Nat) /\ ToSet(Removing(d.page, a)) = ToSet(d.page) \ {a}
    BY <1>1, RemovingListed
  <2> QED BY <1>1, <2>1
<1>3. N \in Nat /\ DOMAIN s = 1 .. N /\ ToSet(s) = {s[i] : i \in 1 .. N}
  <2> HIDE DEF s
  <2> QED BY <1>2, Listed
<1>4. \E g : IsWalk(g, "object", par, d.conns, s) /\ e = [d EXCEPT !.conns = g[N]]
  BY <1>2, ObjectsWalk
<1>5. PICK g : IsWalk(g, "object", par, d.conns, s) /\ e = [d EXCEPT !.conns = g[N]]
  BY <1>4
<1>6. g[0] = d.conns /\ \A n \in 1 .. N : g[n] = AllContacts(g[n - 1], a, s[n], d.ob[a], d.ob[s[n]])
  BY <1>5 DEF IsWalk, Step
<1>7. Parts(e) /\ e.page = d.page /\ e.ob = d.ob /\ e.selection = d.selection /\ e.conns = g[N]
  <2> HIDE DEF e
  <2> QED BY <1>1, <1>5 DEF Parts
<1>8. a \in L /\ \A n \in 1 .. N : s[n] \in L /\ s[n] # a
  BY <1>2, <1>3
<1> HIDE DEF e, s, par, N, L
<1> DEFINE Met(n, u, v, p, t) == \E i \in 1 .. n : Pair(u, v, a, s[i]) /\ Touch(d.ob[a], d.ob[s[i]], p, t)
           Is(n) == /\ IsConns(g[n], L)
                    /\ \A u \in L : \A v, p, t : Told(g[n], u, v, p, t) <=>
                         Told(d.conns, u, v, p, t) \/ Met(n, u, v, p, t)
           G == {n \in Nat : Is(n)}
<1>9. Is(0)
  BY <1>1, <1>6
<1>10. ASSUME NEW n \in 0 .. N - 1, Is(n) PROVE Is(n + 1)
  <2>1. n + 1 \in 1 .. N /\ n \in Nat /\ (n + 1) - 1 = n /\ 1 .. n + 1 = (1 .. n) \cup {n + 1}
    BY <1>3
  <2>2. g[n + 1] = AllContacts(g[n], a, s[n + 1], d.ob[a], d.ob[s[n + 1]])
    BY <1>6, <2>1
  <2>3. s[n + 1] \in L /\ s[n + 1] # a /\ d.ob[a] \in Things(Plane) /\ d.ob[s[n + 1]] \in Things(Plane)
    BY <1>1, <1>8, <2>1
  <2>4. IsConns(g[n], L) /\ \A u \in L : \A v, p, t : Told(g[n], u, v, p, t) <=>
                         Told(d.conns, u, v, p, t) \/ Met(n, u, v, p, t)
    BY <1>10
  <2>5. \A u, v, p, t : Met(n + 1, u, v, p, t) <=>
          Met(n, u, v, p, t) \/ (Pair(u, v, a, s[n + 1]) /\ Touch(d.ob[a], d.ob[s[n + 1]], p, t))
    BY <2>1
  <2> HIDE DEF Is, Met
  <2>6. /\ IsConns(AllContacts(g[n], a, s[n + 1], d.ob[a], d.ob[s[n + 1]]), L)
        /\ \A u \in L : \A v, p, t :
              Told(AllContacts(g[n], a, s[n + 1], d.ob[a], d.ob[s[n + 1]]), u, v, p, t) <=>
                Told(g[n], u, v, p, t) \/ (Pair(u, v, a, s[n + 1]) /\ Touch(d.ob[a], d.ob[s[n + 1]], p, t))
    BY <1>8, <2>3, <2>4, AllTold
  <2>7. IsConns(g[n + 1], L) /\ \A u \in L : \A v, p, t : Told(g[n + 1], u, v, p, t) <=>
                         Told(d.conns, u, v, p, t) \/ Met(n + 1, u, v, p, t)
    BY <2>2, <2>4, <2>5, <2>6
  <2> QED BY <2>7 DEF Is
<1>11. Is(N)
  <2> HIDE DEF Is
  <2>1. 0 \in G /\ \A n \in 0 .. N - 1 : n \in G => n + 1 \in G
    BY <1>3, <1>9, <1>10
  <2> HIDE DEF G
  <2>2. \A n \in 0 .. N : n \in G
    BY <1>3, <2>1, UpTo
  <2>3. N \in G
    BY <1>3, <2>2
  <2> QED BY <2>3 DEF G
<1>12. IsConns(e.conns, L) /\ \A u \in L : \A v, p, t : Told(e.conns, u, v, p, t) <=>
                         Told(d.conns, u, v, p, t) \/ Met(N, u, v, p, t)
  BY <1>7, <1>11
<1>13. ASSUME NEW u \in L, NEW v, NEW p, NEW t
       PROVE Met(N, u, v, p, t) <=>
               u # v /\ v \in L /\ a \in {u, v} /\ Touch(d.ob[u], d.ob[v], p, t)
  <2>1. ASSUME Met(N, u, v, p, t)
        PROVE u # v /\ v \in L /\ a \in {u, v} /\ Touch(d.ob[u], d.ob[v], p, t)
    <3>1. PICK i \in 1 .. N : Pair(u, v, a, s[i]) /\ Touch(d.ob[a], d.ob[s[i]], p, t)
      BY <2>1
    <3>2. Touch(d.ob[s[i]], d.ob[a], p, t)
      BY <3>1, TouchSymmetric
    <3> QED BY <1>8, <3>1, <3>2 DEF Pair
  <2>2. ASSUME u # v, v \in L, a \in {u, v}, Touch(d.ob[u], d.ob[v], p, t)
        PROVE Met(N, u, v, p, t)
    <3>1. Touch(d.ob[v], d.ob[u], p, t)
      BY <2>2, TouchSymmetric
    <3>2. PICK b \in {u, v} : b # a /\ Pair(u, v, a, b)
      BY <2>2 DEF Pair
    <3>3. b \in ToSet(s)
      BY <1>2, <2>2, <3>2 DEF s, L
    <3>4. PICK i \in 1 .. N : s[i] = b
      BY <1>3, <3>3
    <3>5. Touch(d.ob[a], d.ob[b], p, t)
      BY <2>2, <3>1, <3>2 DEF Pair
    <3> QED BY <3>2, <3>4, <3>5
  <2> QED BY <2>1, <2>2
<1> HIDE DEF Met, Is
<1>14. /\ Parts(e) /\ e.page = d.page /\ e.ob = d.ob /\ e.selection = d.selection
       /\ IsConns(e.conns, L)
       /\ \A u \in L : \A v, p, t : Told(e.conns, u, v, p, t) <=>
                 \/ Told(d.conns, u, v, p, t)
                 \/ /\ u # v /\ v \in L /\ a \in {u, v}
                    /\ Touch(d.ob[u], d.ob[v], p, t)
  BY <1>7, <1>12, <1>13
<1> QED BY <1>14 DEF e, L

\* All connections are at points of the page, or at an end of one of the two.
Anchored(d) ==
  \A u \in Live(d) : \A v, p, t : Told(d.conns, u, v, p, t) =>
    p \in Points \cup ToSet(d.ob[u].ends) \cup ToSet(d.ob[v].ends)

AtPoints(d) == \A u \in Live(d) : \A v, p, t : Told(d.conns, u, v, p, t) => p \in Points

Mutual(d) ==
  \A u \in Live(d) : \A v, p, t : Told(d.conns, u, v, p, t) => Told(d.conns, v, u, p, t)

\* Objects that are not in C are told of all their contacts with each other.
Complete(d, C) ==
  \A u, v \in Live(d) \ C : \A p, t :
    u # v /\ Touch(d.ob[u], d.ob[v], p, t) => Told(d.conns, u, v, p, t)

\* Objects that are not in S are told of no other contacts with each other.
Sound(d, S) ==
  \A u, v \in Live(d) \ S : \A p, t :
    Told(d.conns, u, v, p, t) => On(d.ob[u], p) /\ On(d.ob[v], p)

Sane(d, C, S) == Good(d) /\ Anchored(d) /\ Mutual(d) /\ Complete(d, C) /\ Sound(d, S)

\* Nobody is told of a contact with a.
Alone(d, a) ==
  \A u \in Live(d) : \A v, p, t : Told(d.conns, u, v, p, t) => u # a /\ v # a

EndsIn(d) == \A u \in Live(d) : ToSet(d.ob[u].ends) \subseteq Points

SameShape(x, y) == x.kind = y.kind /\ x.ends = y.ends

\* Lists have entries for other objects of the page only.
LEMMA ToldTyped ==
  ASSUME NEW L, NEW cs, IsConns(cs, L), NEW u \in L, NEW v, NEW p, NEW t, Told(cs, u, v, p, t)
  PROVE  v \in L /\ v # u /\ p \in Plane /\ t \in Types
<1>1. PICK i \in DOMAIN cs[u] : cs[u][i].other = v /\ cs[u][i].at = p /\ cs[u][i].type = t
  BY DEF Told
<1>2. cs[u] \in Seq(Entry(L)) /\ cs[u][i].other # u
  BY DEF IsConns
<1>3. cs[u][i] \in Entry(L)
  BY <1>2
<1> QED BY <1>1, <1>2, <1>3 DEF Entry

\* It does no harm to except more objects.
LEMMA SaneLooser ==
  ASSUME NEW d, NEW C, NEW S, Sane(d, C, S), NEW C2, NEW S2,
         \A x \in Live(d) : (x \in C => x \in C2) /\ (x \in S => x \in S2)
  PROVE  Sane(d, C2, S2)
<1>1. Complete(d, C2)
  BY DEF Complete, Sane
<1>2. Sound(d, S2)
  BY DEF Sound, Sane
<1> QED BY <1>1, <1>2 DEF Sane

\* Only the kind and the ends of objects matter for their contacts.
LEMMA ShapeMatters ==
  ASSUME NEW x, NEW y, SameShape(x, y)
  PROVE  /\ \A p : On(x, p) <=> On(y, p)
         /\ \A z, p, t : Touch(x, z, p, t) <=> Touch(y, z, p, t)
<1>1. IsNet(x) = IsNet(y) /\ x.ends = y.ends
  BY DEF SameShape, IsNet
<1>2. \A p : On(x, p) <=> On(y, p)
  BY <1>1 DEF On, s_conn_check_midpoint
<1>3. \A z, j, k : Meets(x, z, j, k) <=> Meets(y, z, j, k)
  BY <1>1 DEF Meets, s_conn_check_midpoint
<1>4. \A z, jk : PointOf(x, z, jk) = PointOf(y, z, jk)
  BY <1>1 DEF PointOf
<1>5. \A z, p, t : Touch(x, z, p, t) <=> Touch(y, z, p, t)
  BY <1>3, <1>4 DEF Touch
<1> QED BY <1>2, <1>5

\* Recording the contacts of a: now nothing is missing of them.
LEMMA Updated ==
  ASSUME NEW d, NEW C, NEW S, Sane(d, C, S), NEW a \in Live(d)
  PROVE  LET e == s_conn_update_object(d, a)
         IN /\ Sane(e, C \ {a}, S)
            /\ e.page = d.page /\ e.ob = d.ob /\ e.selection = d.selection
<1> DEFINE e == s_conn_update_object(d, a)
<1>1. Good(d) /\ Anchored(d) /\ Mutual(d) /\ Complete(d, C) /\ Sound(d, S)
  BY DEF Sane
<1>2. /\ Parts(e) /\ e.page = d.page /\ e.ob = d.ob /\ e.selection = d.selection
      /\ IsConns(e.conns, Live(d))
      /\ \A u \in Live(d) : \A v, p, t : Told(e.conns, u, v, p, t) <=>
           \/ Told(d.conns, u, v, p, t)
           \/ /\ u # v /\ v \in Live(d) /\ a \in {u, v}
              /\ Touch(d.ob[u], d.ob[v], p, t)
  BY <1>1, UpdateTold
<1> HIDE DEF e
<1>3. Live(e) = Live(d) /\ \A u \in Live(d) : d.ob[u] \in Things(Plane)
  BY <1>1, <1>2 DEF Live, Good
<1>4. Good(e)
  BY <1>1, <1>2, <1>3 DEF Good
<1>5. Anchored(e)
  <2> SUFFICES ASSUME NEW u \in Live(d), NEW v, NEW p, NEW t, Told(e.conns, u, v, p, t)
               PROVE p \in Points \cup ToSet(d.ob[u].ends) \cup ToSet(d.ob[v].ends)
    BY <1>2, <1>3 DEF Anchored
  <2>1. CASE Told(d.conns, u, v, p, t)
    BY <1>1, <2>1 DEF Anchored
  <2>2. CASE v \in Live(d) /\ Touch(d.ob[u], d.ob[v], p, t)
    <3>1. p \in ToSet(d.ob[u].ends) \cup ToSet(d.ob[v].ends)
      BY <1>3, <2>2, TouchOn
    <3> QED BY <3>1
  <2> QED BY <1>2, <2>1, <2>2
<1>6. Mutual(e)
  <2> SUFFICES ASSUME NEW u \in Live(d), NEW v, NEW p, NEW t, Told(e.conns, u, v, p, t)
               PROVE Told(e.conns, v, u, p, t)
    BY <1>3 DEF Mutual
  <2>1. v \in Live(d)
    BY <1>2, ToldTyped
  <2>2. CASE Told(d.conns, u, v, p, t)
    BY <1>1, <1>2, <2>1, <2>2 DEF Mutual
  <2>3. CASE u # v /\ a \in {u, v} /\ Touch(d.ob[u], d.ob[v], p, t)
    <3>1. Touch(d.ob[v], d.ob[u], p, t)
      BY <2>3, TouchSymmetric
    <3> QED BY <1>2, <2>1, <2>3, <3>1
  <2> QED BY <1>2, <2>2, <2>3
<1>7. Complete(e, C \ {a})
  <2> SUFFICES ASSUME NEW u \in Live(d) \ (C \ {a}), NEW v \in Live(d) \ (C \ {a}), NEW p, NEW t,
                      u # v, Touch(d.ob[u], d.ob[v], p, t)
               PROVE Told(e.conns, u, v, p, t)
    BY <1>2, <1>3 DEF Complete
  <2>1. CASE a \in {u, v}
    BY <1>2, <2>1
  <2>2. CASE a \notin {u, v}
    <3>1. u \in Live(d) \ C /\ v \in Live(d) \ C
      BY <2>2
    <3> QED BY <1>1, <1>2, <3>1 DEF Complete
  <2> QED BY <2>1, <2>2
<1>8. Sound(e, S)
  <2> SUFFICES ASSUME NEW u \in Live(d) \ S, NEW v \in Live(d) \ S, NEW p, NEW t,
                      Told(e.conns, u, v, p, t)
               PROVE On(d.ob[u], p) /\ On(d.ob[v], p)
    BY <1>2, <1>3 DEF Sound
  <2>1. CASE Told(d.conns, u, v, p, t)
    BY <1>1, <2>1 DEF Sound
  <2>2. CASE Touch(d.ob[u], d.ob[v], p, t)
    BY <1>3, <2>2, TouchOn
  <2> QED BY <1>2, <2>1, <2>2
<1>9. Sane(e, C \ {a}, S) /\ e.page = d.page /\ e.ob = d.ob /\ e.selection = d.selection
  BY <1>2, <1>4, <1>5, <1>6, <1>7, <1>8 DEF Sane
<1> QED BY <1>9 DEF e

\* What s_conn_remove_object_connections does to the lists.
LEMMA RemoveTold ==
  ASSUME NEW d, Good(d), Mutual(d), NEW a \in Live(d)
  PROVE  LET e == s_conn_remove_object_connections(d, a)
         IN /\ Parts(e) /\ e.page = d.page /\ e.ob = d.ob /\ e.selection = d.selection
            /\ IsConns(e.conns, Live(d)) /\ e.conns[a] = <<>>
            /\ \A u \in Live(d) : \A v, p, t : Told(e.conns, u, v, p, t) <=>
                 Told(d.conns, u, v, p, t) /\ u # a /\ v # a
<1> DEFINE L == Live(d)
           others == {d.conns[a][i].other : i \in DOMAIN d.conns[a]}
           K(b) == Filtered(d.conns[b], {c \in ToSet(d.conns[b]) : c.other # a})
           cs == [b \in DOMAIN d.conns |-> IF b = a THEN <<>>
                                           ELSE IF b \in others THEN K(b) ELSE d.conns[b]]
           e == s_conn_remove_object_connections(d, a)
<1>1. Parts(d) /\ IsConns(d.conns, L) /\ DOMAIN d.conns = L
      /\ \A b \in L : d.conns[b] \in Seq(Entry(L))
  BY DEF Good, IsConns
<1>2. e = [d EXCEPT !.conns = cs]
  BY DEF s_conn_remove_object_connections
<1> HIDE DEF e
<1>3. Parts(e) /\ e.page = d.page /\ e.ob = d.ob /\ e.selection = d.selection /\ e.conns = cs
  <2> HIDE DEF cs
  <2> QED BY <1>1, <1>2 DEF Parts
<1>4. ASSUME NEW b \in L
      PROVE K(b) \in Seq(Entry(L)) /\ ToSet(K(b)) = {c \in ToSet(d.conns[b]) : c.other # a}
  <2> DEFINE T == {c \in ToSet(d.conns[b]) : c.other # a}
  <2>1. T \subseteq ToSet(d.conns[b])
    OBVIOUS
  <2> HIDE DEF T
  <2>2. /\ Filtered(d.conns[b], T) \in Seq(Entry(L))
        /\ ToSet(Filtered(d.conns[b], T)) = ToSet(d.conns[b]) \cap T
    BY <1>1, FilteredListed
  <2>3. Filtered(d.conns[b], T) \in Seq(Entry(L)) /\ ToSet(Filtered(d.conns[b], T)) = T
    BY <2>1, <2>2
  <2> QED BY <2>3 DEF T
<1> HIDE DEF K
<1>5. \A b \in L : cs[b] = IF b = a THEN <<>> ELSE IF b \in others THEN K(b) ELSE d.conns[b]
  BY <1>1
<1>6. cs \in [L -> Seq(Entry(L))]
  BY <1>1, <1>4
<1> HIDE DEF cs
<1>7. ASSUME NEW u \in L, u # a
      PROVE \A c : c \in ToSet(cs[u]) <=> c \in ToSet(d.conns[u]) /\ c.other # a
  <2>1. CASE u \in others
    BY <1>4, <1>5, <1>7, <2>1
  <2>2. CASE u \notin others
    <3>1. cs[u] = d.conns[u]
      BY <1>5, <1>7, <2>2
    <3>2. ASSUME NEW c \in ToSet(d.conns[u]), c.other = a PROVE FALSE
      <4>1. PICK i \in DOMAIN d.conns[u] : d.conns[u][i] = c
        BY DEF ToSet
      <4>2. Told(d.conns, u, a, c.at, c.type)
        BY <3>2, <4>1 DEF Told
      <4>3. Told(d.conns, a, u, c.at, c.type)
        BY <4>2 DEF Mutual
      <4>4. u \in others
        BY <4>3 DEF Told
      <4> QED BY <2>2, <4>4
    <3> QED BY <3>1, <3>2
  <2> QED BY <2>1, <2>2
<1>8. \A f : \A u, v, p, t : Told(f, u, v, p, t) <=>
        \E c \in ToSet(f[u]) : c.other = v /\ c.at = p /\ c.type = t
  BY DEF Told, ToSet
<1>9. cs[a] = <<>>
  BY <1>5
<1>10. ASSUME NEW u \in L, NEW v, NEW p, NEW t
       PROVE Told(cs, u, v, p, t) <=> Told(d.conns, u, v, p, t) /\ u # a /\ v # a
  <2>1. CASE u = a
    BY <1>9, <2>1 DEF Told
  <2>2. CASE u # a
    BY <1>7, <1>8, <2>2
  <2> QED BY <2>1, <2>2
<1>11. IsConns(cs, L)
  <2> SUFFICES ASSUME NEW u \in L, NEW i \in DOMAIN cs[u] PROVE cs[u][i].other # u
    BY <1>6 DEF IsConns
  <2>1. Told(cs, u, cs[u][i].other, cs[u][i].at, cs[u][i].type)
    BY DEF Told
  <2>2. Told(d.conns, u, cs[u][i].other, cs[u][i].at, cs[u][i].type)
    BY <1>10, <2>1
  <2> QED BY <1>1, <2>2, ToldTyped
<1>12. /\ Parts(e) /\ e.page = d.page /\ e.ob = d.ob /\ e.selection = d.selection
       /\ IsConns(e.conns, L) /\ e.conns[a] = <<>>
       /\ \A u \in L : \A v, p, t : Told(e.conns, u, v, p, t) <=>
                 Told(d.conns, u, v, p, t) /\ u # a /\ v # a
  BY <1>3, <1>9, <1>10, <1>11
<1> QED BY <1>12 DEF e, L

\* Forgetting the contacts of a: now they are missing, but none is wrong.
LEMMA Disconnected ==
  ASSUME NEW d, NEW C, NEW S, Sane(d, C, S), NEW a \in Live(d)
  PROVE  LET e == s_conn_remove_object_connections(d, a)
         IN /\ Sane(e, C \cup {a}, S \ {a})
            /\ e.page = d.page /\ e.ob = d.ob /\ e.selection = d.selection
            /\ Alone(e, a) /\ \A b : Alone(d, b) => Alone(e, b)
<1> DEFINE e == s_conn_remove_object_connections(d, a)
<1>1. Good(d) /\ Anchored(d) /\ Mutual(d) /\ Complete(d, C) /\ Sound(d, S)
  BY DEF Sane
<1>2. /\ Parts(e) /\ e.page = d.page /\ e.ob = d.ob /\ e.selection = d.selection
      /\ IsConns(e.conns, Live(d)) /\ e.conns[a] = <<>>
      /\ \A u \in Live(d) : \A v, p, t : Told(e.conns, u, v, p, t) <=>
           Told(d.conns, u, v, p, t) /\ u # a /\ v # a
  BY <1>1, RemoveTold
<1> HIDE DEF e
<1>3. Live(e) = Live(d)
  BY <1>2 DEF Live
<1>4. Good(e)
  BY <1>1, <1>2, <1>3 DEF Good
<1>5. Anchored(e)
  BY <1>1, <1>2, <1>3 DEF Anchored
<1>6. Mutual(e)
  <2> SUFFICES ASSUME NEW u \in Live(d), NEW v, NEW p, NEW t, Told(e.conns, u, v, p, t)
               PROVE Told(e.conns, v, u, p, t)
    BY <1>3 DEF Mutual
  <2>1. v \in Live(d)
    BY <1>2, ToldTyped
  <2> QED BY <1>1, <1>2, <2>1 DEF Mutual
<1>7. Complete(e, C \cup {a})
  BY <1>1, <1>2, <1>3 DEF Complete
<1>8. Sound(e, S \ {a})
  BY <1>1, <1>2, <1>3 DEF Sound
<1>9. Alone(e, a) /\ \A b : Alone(d, b) => Alone(e, b)
  BY <1>2, <1>3 DEF Alone
<1>10. /\ Sane(e, C \cup {a}, S \ {a})
       /\ e.page = d.page /\ e.ob = d.ob /\ e.selection = d.selection
       /\ Alone(e, a) /\ \A b : Alone(d, b) => Alone(e, b)
  BY <1>2, <1>4, <1>5, <1>6, <1>7, <1>8, <1>9 DEF Sane
<1> QED BY <1>10 DEF e

\* Changing objects leaves the lists as they are.  What changes its contacts
\* must be excepted from their completeness, and what loses some of them be
\* connected with nothing, or be excepted too.
LEMMA Reshaped ==
  ASSUME NEW d, NEW C, NEW S, Sane(d, C, S), NEW ob \in [Live(d) -> Things(Plane)],
         \A a \in Live(d) : SameShape(ob[a], d.ob[a]) \/ a \in C,
         \A a \in Live(d) : \/ a \in S \/ Alone(d, a)
                            \/ \A p \in Plane : On(d.ob[a], p) => On(ob[a], p),
         \/ AtPoints(d)
         \/ \A a \in Live(d) : SameShape(ob[a], d.ob[a]) \/ Alone(d, a)
  PROVE  LET e == [d EXCEPT !.ob = ob]
         IN /\ Sane(e, C, S)
            /\ Live(e) = Live(d) /\ e.ob = ob
            /\ e.page = d.page /\ e.conns = d.conns /\ e.selection = d.selection
<1> DEFINE e == [d EXCEPT !.ob = ob]
<1>1. Good(d) /\ Anchored(d) /\ Mutual(d) /\ Complete(d, C) /\ Sound(d, S) /\ Parts(d)
  BY DEF Sane, Good
<1>2. /\ Parts(e) /\ e.page = d.page /\ e.ob = ob /\ e.selection = d.selection
      /\ e.conns = d.conns
  BY <1>1 DEF Parts
<1> HIDE DEF e
<1>3. Live(e) = Live(d)
  BY <1>2 DEF Live
<1>4. Good(e)
  BY <1>1, <1>2, <1>3 DEF Good
<1>5. \A a \in Live(d) : SameShape(ob[a], d.ob[a]) =>
        /\ \A p : On(ob[a], p) <=> On(d.ob[a], p)
        /\ \A z, p, t : Touch(ob[a], z, p, t) <=> Touch(d.ob[a], z, p, t)
  BY ShapeMatters
<1>6. Anchored(e)
  <2> SUFFICES ASSUME NEW u \in Live(d), NEW v, NEW p, NEW t, Told(d.conns, u, v, p, t)
               PROVE p \in Points \cup ToSet(ob[u].ends) \cup ToSet(ob[v].ends)
    BY <1>2, <1>3 DEF Anchored
  <2>1. v \in Live(d)
    BY <1>1, ToldTyped DEF Good
  <2>2. CASE AtPoints(d)
    BY <2>2 DEF AtPoints
  <2>3. CASE \A a \in Live(d) : SameShape(ob[a], d.ob[a]) \/ Alone(d, a)
    <3>1. ~Alone(d, u) /\ ~Alone(d, v)
      BY DEF Alone
    <3>2. ob[u].ends = d.ob[u].ends /\ ob[v].ends = d.ob[v].ends
      BY <2>1, <2>3, <3>1 DEF SameShape
    <3>3. p \in Points \cup ToSet(d.ob[u].ends) \cup ToSet(d.ob[v].ends)
      BY <1>1 DEF Anchored
    <3> QED BY <3>2, <3>3
  <2> QED BY <2>2, <2>3
<1>7. Mutual(e)
  BY <1>1, <1>2, <1>3 DEF Mutual
<1>8. Complete(e, C)
  <2> SUFFICES ASSUME NEW u \in Live(d) \ C, NEW v \in Live(d) \ C, NEW p, NEW t,
                      u # v, Touch(ob[u], ob[v], p, t)
               PROVE Told(d.conns, u, v, p, t)
    BY <1>2, <1>3 DEF Complete
  <2>1. SameShape(ob[u], d.ob[u]) /\ SameShape(ob[v], d.ob[v])
    OBVIOUS
  <2>2. Touch(d.ob[u], ob[v], p, t)
    BY <1>5, <2>1
  <2>3. Touch(ob[v], d.ob[u], p, t)
    BY <2>2, TouchSymmetric
  <2>4. Touch(d.ob[v], d.ob[u], p, t)
    BY <1>5, <2>1, <2>3
  <2>5. Touch(d.ob[u], d.ob[v], p, t)
    BY <2>4, TouchSymmetric
  <2> QED BY <1>1, <2>5 DEF Complete
<1>9. Sound(e, S)
  <2> SUFFICES ASSUME NEW u \in Live(d) \ S, NEW v \in Live(d) \ S, NEW p, NEW t,
                      Told(d.conns, u, v, p, t)
               PROVE On(ob[u], p) /\ On(ob[v], p)
    BY <1>2, <1>3 DEF Sound
  <2>1. On(d.ob[u], p) /\ On(d.ob[v], p)
    BY <1>1 DEF Sound
  <2>2. ~Alone(d, u) /\ ~Alone(d, v)
    BY DEF Alone
  <2>3. /\ \A q \in Plane : On(d.ob[u], q) => On(ob[u], q)
        /\ \A q \in Plane : On(d.ob[v], q) => On(ob[v], q)
    BY <2>2
  <2>4. p \in Plane
    BY <1>1, ToldTyped DEF Good
  <2> QED BY <2>1, <2>3, <2>4
<1>10. /\ Sane(e, C, S)
       /\ Live(e) = Live(d) /\ e.ob = ob
       /\ e.page = d.page /\ e.conns = d.conns /\ e.selection = d.selection
  BY <1>2, <1>3, <1>4, <1>6, <1>7, <1>8, <1>9 DEF Sane
<1> QED BY <1>10 DEF e

\* Another selection changes nothing else.
LEMMA Reselected ==
  ASSUME NEW d, NEW C, NEW S, Sane(d, C, S), NEW s \in Seq(Nat), IsInjective(s),
         ToSet(s) \subseteq Live(d)
  PROVE  LET e == [d EXCEPT !.selection = s]
         IN /\ Sane(e, C, S)
            /\ Live(e) = Live(d) /\ e.ob = d.ob
            /\ e.page = d.page /\ e.conns = d.conns /\ e.selection = s
<1> DEFINE e == [d EXCEPT !.selection = s]
<1>1. Good(d) /\ Anchored(d) /\ Mutual(d) /\ Complete(d, C) /\ Sound(d, S) /\ Parts(d)
  BY DEF Sane, Good
<1>2. /\ Parts(e) /\ e.page = d.page /\ e.ob = d.ob /\ e.selection = s
      /\ e.conns = d.conns
  BY <1>1 DEF Parts
<1> HIDE DEF e
<1>3. Live(e) = Live(d)
  BY <1>2 DEF Live
<1>4. Good(e)
  BY <1>1, <1>2, <1>3 DEF Good
<1>5. Anchored(e) /\ Mutual(e)
  BY <1>1, <1>2, <1>3 DEF Anchored, Mutual
<1>6. Complete(e, C) /\ Sound(e, S)
  BY <1>1, <1>2, <1>3 DEF Complete, Sound
<1>7. /\ Sane(e, C, S)
      /\ Live(e) = Live(d) /\ e.ob = d.ob
      /\ e.page = d.page /\ e.conns = d.conns /\ e.selection = s
  BY <1>2, <1>3, <1>4, <1>5, <1>6 DEF Sane
<1> QED BY <1>7 DEF e

\* Objects enter the selection, and leave it.
LEMMA SelectionAdded ==
  ASSUME NEW d, NEW C, NEW S, Sane(d, C, S), NEW a \in Live(d)
  PROVE  LET e == o_selection_add(d, a)
         IN /\ Sane(e, C, S)
            /\ Live(e) = Live(d) /\ e.ob = d.ob /\ e.page = d.page /\ e.conns = d.conns
            /\ ToSet(e.selection) = ToSet(d.selection) \cup {a}
<1>1. /\ d.selection \in Seq(Nat) /\ IsInjective(d.selection)
      /\ ToSet(d.selection) \subseteq Live(d) /\ a \in Nat
  <2>1. a \in ToSet(d.page) /\ d.page \in Seq(Nat)
    BY DEF Sane, Good
  <2>2. a \in Nat
    BY <2>1, Listed
  <2> QED BY <2>2 DEF Sane, Good
<1>2. a \in ToSet(d.selection) <=> Selected(d, a)
  BY <1>1 DEF Selected, Contains, ToSet
<1>3. CASE Selected(d, a)
  BY <1>2, <1>3 DEF o_selection_add
<1>4. CASE ~Selected(d, a)
  <2> DEFINE s == Append(d.selection, a)
             e == [d EXCEPT !.selection = s]
  <2>1. s \in Seq(Nat) /\ ToSet(s) = ToSet(d.selection) \cup {a} /\ IsInjective(s)
    BY <1>1, <1>2, <1>4, AppendListed
  <2>2. o_selection_add(d, a) = e
    BY <1>4 DEF o_selection_add
  <2> HIDE DEF s
  <2>3. /\ Sane(e, C, S)
        /\ Live(e) = Live(d) /\ e.ob = d.ob
        /\ e.page = d.page /\ e.conns = d.conns /\ e.selection = s
    BY <1>1, <2>1, Reselected
  <2> HIDE DEF e
  <2> QED BY <2>1, <2>2, <2>3
<1> QED BY <1>3, <1>4

\* Taking an object out of the selection changes nothing else.
LEMMA SelectionRemoved ==
  ASSUME NEW d, NEW C, NEW S, Sane(d, C, S), NEW a
  PROVE  LET e == o_selection_remove(d, a)
         IN /\ Sane(e, C, S)
            /\ Live(e) = Live(d) /\ e.ob = d.ob /\ e.page = d.page /\ e.conns = d.conns
            /\ ToSet(e.selection) = ToSet(d.selection) \ {a}
<1> DEFINE s == Removing(d.selection, a)
           e == [d EXCEPT !.selection = s]
<1>1. /\ d.selection \in Seq(Nat) /\ IsInjective(d.selection)
      /\ ToSet(d.selection) \subseteq Live(d)
  BY DEF Sane, Good
<1>2. s \in Seq(Nat) /\ ToSet(s) = ToSet(d.selection) \ {a} /\ IsInjective(s)
  BY <1>1, RemovingListed
<1>3. o_selection_remove(d, a) = e
  BY DEF o_selection_remove
<1> HIDE DEF s
<1>4. /\ Sane(e, C, S)
      /\ Live(e) = Live(d) /\ e.ob = d.ob
      /\ e.page = d.page /\ e.conns = d.conns /\ e.selection = s
  BY <1>1, <1>2, Reselected
<1> HIDE DEF e
<1> QED BY <1>2, <1>3, <1>4

\* Taking an object off the page that is not selected.
LEMMA Deleted ==
  ASSUME NEW d, NEW C, NEW S, Sane(d, C, S), NEW a \in Live(d), a \notin ToSet(d.selection)
  PROVE  LET e == s_delete_object(d, a)
         IN /\ Sane(e, C, S)
            /\ Live(e) = Live(d) \ {a} /\ \A u \in Live(e) : e.ob[u] = d.ob[u]
            /\ e.selection = d.selection
<1> DEFINE L == Live(d) \ {a}
           r == s_conn_remove_object_connections(d, a)
           page == Removing(r.page, a)
           e == s_delete_object(d, a)
<1>1. /\ Good(d) /\ Good(r) /\ Anchored(r) /\ Mutual(r) /\ Complete(r, C \cup {a}) /\ Sound(r, S \ {a})
      /\ Parts(r) /\ r.page = d.page /\ r.ob = d.ob /\ r.selection = d.selection /\ Alone(r, a)
  <2>1. /\ Sane(r, C \cup {a}, S \ {a})
        /\ r.page = d.page /\ r.ob = d.ob /\ r.selection = d.selection
        /\ Alone(r, a) /\ \A b : Alone(d, b) => Alone(r, b)
    BY Disconnected
  <2> HIDE DEF r
  <2> QED BY <2>1 DEF Sane, Good
<1>2. e = [r EXCEPT !.page = page, !.ob = Restrict(@, L), !.conns = Restrict(@, L)]
  BY DEF s_delete_object
<1> HIDE DEF r, e
<1>3. page \in Seq(Nat) /\ ToSet(page) = ToSet(d.page) \ {a} /\ IsInjective(page)
  BY <1>1, RemovingListed DEF Good
<1> HIDE DEF page
<1>4. /\ Parts(e) /\ e.page = page /\ e.selection = d.selection
      /\ e.ob = Restrict(d.ob, L) /\ e.conns = Restrict(r.conns, L)
  BY <1>1, <1>2 DEF Parts
<1>5. Live(r) = Live(d) /\ L \subseteq Live(d)
  BY <1>1 DEF Live
<1>6. /\ Live(e) = L /\ \A u \in L : e.ob[u] = d.ob[u] /\ e.conns[u] = r.conns[u]
      /\ e.ob \in [L -> Things(Plane)]
  <2>1. d.ob \in [Live(d) -> Things(Plane)]
    BY <1>1 DEF Good
  <2> QED BY <1>4, <1>5, <2>1 DEF Live, Restrict
<1>7. \A u \in L : \A v, p, t : Told(e.conns, u, v, p, t) <=> Told(r.conns, u, v, p, t)
  BY <1>6 DEF Told
<1>8. \A u \in L : \A v, p, t : Told(e.conns, u, v, p, t) => v \in L
  <2> SUFFICES ASSUME NEW u \in L, NEW v, NEW p, NEW t, Told(r.conns, u, v, p, t) PROVE v \in L
    BY <1>7
  <2>1. u \in Live(d) /\ IsConns(r.conns, Live(d))
    BY <1>1, <1>5 DEF Good
  <2>2. v \in Live(d)
    BY <2>1, ToldTyped
  <2>3. v # a
    BY <1>1, <1>5, <2>1 DEF Alone
  <2> QED BY <2>2, <2>3
<1>9. IsConns(e.conns, L)
  <2>1. r.conns \in [Live(d) -> Seq(Entry(Live(d)))] /\ \A u \in Live(d) : \A i \in DOMAIN r.conns[u] : r.conns[u][i].other # u
    BY <1>1, <1>5 DEF Good, IsConns
  <2>2. ASSUME NEW u \in L PROVE e.conns[u] \in Seq(Entry(L))
    <3>1. e.conns[u] \in Seq(Entry(Live(d)))
      BY <1>5, <1>6, <2>1
    <3>2. ASSUME NEW i \in DOMAIN e.conns[u] PROVE e.conns[u][i] \in Entry(L)
      <4>1. e.conns[u][i] \in Entry(Live(d))
        BY <3>1
      <4>2. Told(e.conns, u, e.conns[u][i].other, e.conns[u][i].at, e.conns[u][i].type)
        BY DEF Told
      <4>3. e.conns[u][i].other \in L
        BY <1>8, <4>2
      <4> HIDE DEF L
      <4> QED BY <4>1, <4>3 DEF Entry
    <3> HIDE DEF L
    <3> QED BY <3>1, <3>2
  <2>3. DOMAIN e.conns = L /\ e.conns = [u \in L |-> e.conns[u]]
    BY <1>4 DEF Restrict
  <2>4. e.conns \in [L -> Seq(Entry(L))]
    <3> HIDE DEF L
    <3> QED BY <2>2, <2>3
  <2> QED BY <1>6, <2>1, <2>4 DEF IsConns
<1>10. Good(e)
  <2>1. ToSet(page) = L /\ ToSet(d.selection) \subseteq L /\ d.selection \in Seq(Nat) /\ IsInjective(d.selection)
    BY <1>1, <1>3 DEF Good
  <2> HIDE DEF L
  <2> QED BY <1>3, <1>4, <1>6, <1>9, <2>1 DEF Good
<1>11. Anchored(e)
  <2> SUFFICES ASSUME NEW u \in L, NEW v, NEW p, NEW t, Told(e.conns, u, v, p, t)
               PROVE p \in Points \cup ToSet(e.ob[u].ends) \cup ToSet(e.ob[v].ends)
    BY <1>6 DEF Anchored
  <2>1. v \in L /\ Told(r.conns, u, v, p, t)
    BY <1>7, <1>8
  <2>2. p \in Points \cup ToSet(d.ob[u].ends) \cup ToSet(d.ob[v].ends)
    BY <1>1, <1>5, <2>1 DEF Anchored
  <2> QED BY <1>6, <2>1, <2>2
<1>12. Mutual(e)
  BY <1>1, <1>5, <1>6, <1>7, <1>8 DEF Mutual
<1>13. Complete(e, C)
  <2> SUFFICES ASSUME NEW u \in L \ C, NEW v \in L \ C, NEW p, NEW t,
                      u # v, Touch(e.ob[u], e.ob[v], p, t)
               PROVE Told(e.conns, u, v, p, t)
    BY <1>6 DEF Complete
  <2>1. u \in Live(r) \ (C \cup {a}) /\ v \in Live(r) \ (C \cup {a})
    BY <1>5
  <2>2. Touch(r.ob[u], r.ob[v], p, t)
    BY <1>1, <1>6
  <2> QED BY <1>1, <1>7, <2>1, <2>2 DEF Complete
<1>14. Sound(e, S)
  <2> SUFFICES ASSUME NEW u \in L \ S, NEW v \in L \ S, NEW p, NEW t, Told(e.conns, u, v, p, t)
               PROVE On(e.ob[u], p) /\ On(e.ob[v], p)
    BY <1>6 DEF Sound
  <2>1. u \in Live(r) \ (S \ {a}) /\ v \in Live(r) \ (S \ {a})
    BY <1>5
  <2>2. On(r.ob[u], p) /\ On(r.ob[v], p)
    BY <1>1, <1>7, <2>1 DEF Sound
  <2> QED BY <1>1, <1>6, <2>2
<1>15. /\ Sane(e, C, S)
       /\ Live(e) = L /\ \A u \in Live(e) : e.ob[u] = d.ob[u]
       /\ e.selection = d.selection
  BY <1>4, <1>6, <1>10, <1>11, <1>12, <1>13, <1>14 DEF Sane
<1> QED BY <1>15 DEF e

\* There always is an unused sid.
LEMMA NewSidIs ==
  ASSUME NEW d, Good(d)
  PROVE  NewSid(d) \in Nat /\ NewSid(d) \notin Live(d)
<1> DEFINE L == Live(d)
           n == Cardinality(L) + 1
<1>1. d.page \in Seq(Nat) /\ ToSet(d.page) = L
  BY DEF Good
<1>2. /\ Len(d.page) \in Nat /\ DOMAIN d.page = 1 .. Len(d.page)
      /\ ToSet(d.page) = {d.page[i] : i \in 1 .. Len(d.page)}
  BY <1>1, Listed
<1> HIDE DEF L
<1>3. d.page \in Surjection(1 .. Len(d.page), L)
  <2>1. d.page \in [1 .. Len(d.page) -> L]
    BY <1>1, <1>2
  <2> QED BY <1>1, <1>2, <2>1 DEF Surjection
<1>4. IsFiniteSet(1 .. Len(d.page))
  BY <1>2, FS_Interval
<1>5. IsFiniteSet(L)
  BY <1>3, <1>4, FS_Surjection
<1>6. Cardinality(L) \in Nat
  BY <1>5, FS_CardinalityType
<1>7. \E m \in 1 .. n : m \notin L
  <2> SUFFICES ASSUME 1 .. n \in SUBSET L PROVE FALSE
    OBVIOUS
  <2>1. Cardinality(1 .. n) <= Cardinality(L)
    BY <1>5, FS_Subset
  <2>2. Cardinality(1 .. n) = n
    <3>1. n \in Int /\ ~(1 > n) /\ n - 1 + 1 = n
      BY <1>6
    <3> HIDE DEF n
    <3> QED BY <3>1, FS_Interval
  <2> QED BY <1>6, <2>1, <2>2
<1>8. NewSid(d) = CHOOSE m \in 1 .. n : m \notin L
  BY DEF NewSid, L
<1>9. (CHOOSE m \in 1 .. n : m \notin L) \in 1 .. n /\ (CHOOSE m \in 1 .. n : m \notin L) \notin L
  <2> HIDE DEF n
  <2> QED BY <1>7
<1>10. \A m \in 1 .. n : m \in Nat
  BY <1>6
<1> HIDE DEF n
<1> QED BY <1>8, <1>9, <1>10 DEF L

\* Appending an object to the page.
LEMMA Appended ==
  ASSUME NEW d, NEW C, NEW S, Sane(d, C, S), NEW o \in Things(Plane)
  PROVE  LET e == s_page_append(d, o)
         IN /\ Sane(e, C, S)
            /\ e.page = Append(d.page, NewSid(d)) /\ e.selection = d.selection
            /\ NewSid(d) \notin Live(d) /\ Live(e) = Live(d) \cup {NewSid(d)}
            /\ e.ob[NewSid(d)] = o /\ \A u \in Live(d) : e.ob[u] = d.ob[u]
<1> DEFINE a == NewSid(d)
           L == Live(d) \cup {a}
           ob == Put(d.ob, a, o)
           conns == Put(d.conns, a, <<>>)
           page == Append(d.page, a)
           b == [d EXCEPT !.page = page, !.ob = ob, !.conns = conns]
           e == s_page_append(d, o)
<1>1. /\ Good(d) /\ Anchored(d) /\ Mutual(d) /\ Complete(d, C) /\ Sound(d, S) /\ Parts(d)
      /\ d.page \in Seq(Nat) /\ IsInjective(d.page) /\ ToSet(d.page) = Live(d)
      /\ d.ob \in [Live(d) -> Things(Plane)]
      /\ d.conns \in [Live(d) -> Seq(Entry(Live(d)))]
      /\ \A u \in Live(d) : \A i \in DOMAIN d.conns[u] : d.conns[u][i].other # u
  BY DEF Sane, Good, IsConns
<1>2. a \in Nat /\ a \notin Live(d)
  BY <1>1, NewSidIs
<1>3. e = s_conn_update_object(b, a)
  BY DEF s_page_append
<1> HIDE DEF a, e
<1>4. page \in Seq(Nat) /\ ToSet(page) = L /\ IsInjective(page)
  BY <1>1, <1>2, AppendListed
<1>5. /\ ob \in [L -> Things(Plane)] /\ ob[a] = o /\ \A u \in Live(d) : ob[u] = d.ob[u]
  BY <1>1, <1>2 DEF Put
<1>6. /\ conns \in [L -> Seq(Entry(L))] /\ conns[a] = <<>> /\ \A u \in Live(d) : conns[u] = d.conns[u]
  <2>1. /\ DOMAIN conns = L /\ conns = [u \in L |-> conns[u]] /\ conns[a] = <<>>
        /\ \A u \in Live(d) : conns[u] = d.conns[u]
    BY <1>1, <1>2 DEF Put
  <2> HIDE DEF conns
  <2>2. Entry(Live(d)) \subseteq Entry(L)
    BY DEF Entry
  <2>3. \A u \in Live(d) : d.conns[u] \in Seq(Entry(Live(d)))
    BY <1>1
  <2> HIDE DEF L
  <2>4. ASSUME NEW u \in Live(d) PROVE d.conns[u] \in Seq(Entry(L))
    BY <2>2, <2>3
  <2>5. <<>> \in Seq(Entry(L))
    OBVIOUS
  <2>6. \A u \in L : conns[u] \in Seq(Entry(L))
    BY <2>1, <2>4, <2>5 DEF L
  <2> QED BY <2>1, <2>6
<1> HIDE DEF page, ob, conns
<1>7. Parts(b) /\ b.page = page /\ b.ob = ob /\ b.conns = conns /\ b.selection = d.selection
  <2>1. b = [d EXCEPT !.page = page, !.ob = ob, !.conns = conns]
    OBVIOUS
  <2> HIDE DEF b
  <2> QED BY <1>1, <2>1 DEF Parts
<1> HIDE DEF b
<1>8. Live(b) = L
  BY <1>5, <1>7 DEF Live
<1>9. \A v, p, t : /\ ~Told(conns, a, v, p, t)
                   /\ \A u \in Live(d) : Told(conns, u, v, p, t) <=> Told(d.conns, u, v, p, t)
  BY <1>6 DEF Told
<1>10. \A u \in L : \A v, p, t : Told(conns, u, v, p, t) =>
         u \in Live(d) /\ v \in Live(d) /\ Told(d.conns, u, v, p, t)
  <2> SUFFICES ASSUME NEW u \in L, NEW v, NEW p, NEW t, Told(conns, u, v, p, t)
               PROVE u \in Live(d) /\ v \in Live(d) /\ Told(d.conns, u, v, p, t)
    OBVIOUS
  <2>1. u \in Live(d) /\ Told(d.conns, u, v, p, t)
    BY <1>9
  <2>2. IsConns(d.conns, Live(d))
    BY <1>1 DEF Good
  <2>3. v \in Live(d)
    BY <2>1, <2>2, ToldTyped
  <2> QED BY <2>1, <2>3
<1>11. Sane(b, C \cup {a}, S)
  <2>1. Good(b)
    <3>1. IsConns(conns, L)
      <4> SUFFICES ASSUME NEW u \in L, NEW i \in DOMAIN conns[u] PROVE conns[u][i].other # u
        BY <1>6 DEF IsConns
      <4>1. Told(conns, u, conns[u][i].other, conns[u][i].at, conns[u][i].type)
        BY DEF Told
      <4>2. u \in Live(d) /\ IsConns(d.conns, Live(d)) /\ Told(d.conns, u, conns[u][i].other, conns[u][i].at, conns[u][i].type)
        BY <1>1, <1>10, <4>1 DEF Good
      <4> QED BY <4>2, ToldTyped
    <3>2. d.selection \in Seq(Nat) /\ IsInjective(d.selection) /\ ToSet(d.selection) \subseteq L
      BY <1>1 DEF Good
    <3> HIDE DEF L
    <3> QED BY <1>4, <1>5, <1>7, <1>8, <3>1, <3>2 DEF Good
  <2>2. Anchored(b)
    <3> SUFFICES ASSUME NEW u \in L, NEW v, NEW p, NEW t, Told(conns, u, v, p, t)
                 PROVE p \in Points \cup ToSet(ob[u].ends) \cup ToSet(ob[v].ends)
      BY <1>7, <1>8 DEF Anchored
    <3>1. u \in Live(d) /\ v \in Live(d) /\ Told(d.conns, u, v, p, t)
      BY <1>10
    <3>2. p \in Points \cup ToSet(d.ob[u].ends) \cup ToSet(d.ob[v].ends)
      BY <1>1, <3>1 DEF Anchored
    <3> QED BY <1>5, <3>1, <3>2
  <2>3. Mutual(b)
    BY <1>1, <1>7, <1>8, <1>9, <1>10 DEF Mutual
  <2>4. Complete(b, C \cup {a})
    <3> SUFFICES ASSUME NEW u \in L \ (C \cup {a}), NEW v \in L \ (C \cup {a}), NEW p, NEW t,
                        u # v, Touch(ob[u], ob[v], p, t)
                 PROVE Told(conns, u, v, p, t)
      BY <1>7, <1>8 DEF Complete
    <3>1. u \in Live(d) \ C /\ v \in Live(d) \ C /\ Touch(d.ob[u], d.ob[v], p, t)
      BY <1>5
    <3>2. Told(d.conns, u, v, p, t)
      BY <1>1, <3>1 DEF Complete
    <3> QED BY <1>9, <3>1, <3>2
  <2>5. Sound(b, S)
    <3> SUFFICES ASSUME NEW u \in L \ S, NEW v \in L \ S, NEW p, NEW t, Told(conns, u, v, p, t)
                 PROVE On(ob[u], p) /\ On(ob[v], p)
      BY <1>7, <1>8 DEF Sound
    <3>1. u \in Live(d) \ S /\ v \in Live(d) \ S /\ Told(d.conns, u, v, p, t)
      BY <1>10
    <3>2. On(d.ob[u], p) /\ On(d.ob[v], p)
      BY <1>1, <3>1 DEF Sound
    <3> QED BY <1>5, <3>1, <3>2
  <2> QED BY <2>1, <2>2, <2>3, <2>4, <2>5 DEF Sane
<1>12. a \in Live(b)
  BY <1>8
<1>13. LET z == s_conn_update_object(b, a)
       IN Sane(z, (C \cup {a}) \ {a}, S) /\ z.page = b.page /\ z.ob = b.ob /\ z.selection = b.selection
  BY <1>11, <1>12, Updated
<1>14. Sane(e, (C \cup {a}) \ {a}, S) /\ e.page = page /\ e.ob = ob /\ e.selection = d.selection
  BY <1>3, <1>7, <1>13
<1>15. Live(e) = L
  BY <1>5, <1>14 DEF Live
<1>16. Sane(e, C, S)
  <2>1. \A x \in Live(e) : (x \in (C \cup {a}) \ {a} => x \in C) /\ (x \in S => x \in S)
    OBVIOUS
  <2> QED BY <1>14, <2>1, SaneLooser
<1>17. /\ Sane(e, C, S)
       /\ e.page = Append(d.page, a) /\ e.selection = d.selection
       /\ a \notin Live(d) /\ Live(e) = Live(d) \cup {a}
       /\ e.ob[a] = o /\ \A u \in Live(d) : e.ob[u] = d.ob[u]
  BY <1>2, <1>5, <1>14, <1>15, <1>16 DEF page
<1> QED BY <1>17 DEF e, a

-----------------------------------------------------------------------------
(* Consolidation *)

\* A list of numbers has a least one.
LEMMA MinIs ==
  ASSUME NEW n \in Nat, NEW S \in SUBSET (1 .. n), S # {}
  PROVE  Min(S) \in S
<1> DEFINE G == {m \in Nat : S \cap (1 .. m) # {} => \E x \in S : \A y \in S : x <= y}
<1>1. 0 \in G
  OBVIOUS
<1>2. ASSUME NEW m \in 0 .. n - 1, m \in G PROVE m + 1 \in G
  <2>1. m \in Nat /\ m + 1 \in Nat /\ (S \cap (1 .. m) # {} => \E x \in S : \A y \in S : x <= y)
    BY <1>2
  <2>2. CASE S \cap (1 .. m) # {}
    BY <2>1, <2>2
  <2>3. CASE S \cap (1 .. m) = {}
    <3>1. ASSUME m + 1 \in S PROVE \A y \in S : m + 1 <= y
      <4> SUFFICES ASSUME NEW y \in S, ~(m + 1 <= y) PROVE FALSE
        OBVIOUS
      <4>1. y \in 1 .. m
        BY <2>1
      <4> QED BY <2>3, <4>1
    <3>2. CASE m + 1 \in S
      <4>1. \E x \in S : \A y \in S : x <= y
        BY <3>1, <3>2
      <4> QED BY <2>1, <4>1
    <3>3. CASE m + 1 \notin S
      <4>1. S \cap (1 .. m + 1) = {}
        <5>1. \A y \in 1 .. m + 1 : y \in 1 .. m \/ y = m + 1
          BY <2>1
        <5> QED BY <2>3, <3>3, <5>1
      <4> QED BY <2>1, <4>1
    <3> QED BY <3>2, <3>3
  <2> QED BY <2>2, <2>3
<1> HIDE DEF G
<1>3. \A m \in 0 .. n : m \in G
  BY <1>1, <1>2, UpTo
<1>4. n \in G
  BY <1>3
<1>5. S \cap (1 .. n) # {}
  OBVIOUS
<1>6. \E x \in S : \A y \in S : x <= y
  BY <1>4, <1>5 DEF G
<1> QED BY <1>6 DEF Min

\* The least and the greatest of four coordinates.
LEMMA FourInts ==
  ASSUME NEW p \in Int, NEW q \in Int, NEW r \in Int, NEW s \in Int
  PROVE  /\ Min({p, q, r, s}) \in {p, q, r, s} /\ Max({p, q, r, s}) \in {p, q, r, s}
         /\ \A x \in {p, q, r, s} : Min({p, q, r, s}) <= x /\ x <= Max({p, q, r, s})
<1> DEFINE S == {p, q, r, s}
<1>1. \E x \in S : \A y \in S : x <= y
  OBVIOUS
<1>2. \E x \in S : \A y \in S : x >= y
  OBVIOUS
<1>3. \A x \in S : x \in Int
  OBVIOUS
<1> HIDE DEF S
<1>4. Min(S) \in S /\ \A y \in S : Min(S) <= y
  BY <1>1 DEF Min
<1>5. Max(S) \in S /\ \A y \in S : Max(S) >= y
  BY <1>2 DEF Max
<1>6. /\ Min(S) \in S /\ Max(S) \in S
      /\ \A x \in S : Min(S) <= x /\ x <= Max(S)
  BY <1>3, <1>4, <1>5
<1> QED BY <1>6 DEF S

\* A point is a pair of coordinates.
LEMMA PlaneIs ==
  ASSUME NEW p \in Plane
  PROVE  /\ p = <<p[1], p[2]>> /\ p[1] \in Int /\ p[2] \in Int
         /\ \A v : [p EXCEPT ![1] = v] = <<v, p[2]>> /\ [p EXCEPT ![2] = v] = <<p[1], v>>
BY DEF Plane

\* A net that is extended in its own direction keeps its points.
LEMMA Longer ==
  ASSUME NEW x \in Things(Plane), NEW y \in Things(Plane), IsNet(x), IsNet(y),
         o_net_orientation(x) = o_net_orientation(y), o_net_orientation(x) # "NEITHER"
  PROVE  LET z == [x EXCEPT !.ends = o_net_consolidate_lowlevel(x, y)]
         IN /\ z \in Things(Plane)
            /\ \A p \in Plane : On(x, p) => On(z, p)
            /\ ToSet(x.ends) \subseteq Points /\ ToSet(y.ends) \subseteq Points
                 => ToSet(z.ends) \subseteq Points
<1> DEFINE e == x.ends
           f == y.ends
           k == IF o_net_orientation(y) = "HORIZONTAL" THEN 1 ELSE 2
           all == {e[1][k], e[2][k], f[1][k], f[2][k]}
           g == o_net_consolidate_lowlevel(x, y)
           z == [x EXCEPT !.ends = g]
<1>1. /\ DOMAIN e = 1 .. 2 /\ DOMAIN f = 1 .. 2
      /\ e[1] \in Plane /\ e[2] \in Plane /\ f[1] \in Plane /\ f[2] \in Plane
      /\ ToSet(e) = {e[1], e[2]} /\ ToSet(f) = {f[1], f[2]}
  <2>1. /\ DOMAIN e = 1 .. 2 /\ DOMAIN f = 1 .. 2
        /\ \A j \in DOMAIN e : e[j] \in Plane
        /\ \A j \in DOMAIN f : f[j] \in Plane
    BY ThingsAre
  <2>2. 1 .. 2 = {1, 2}
    OBVIOUS
  <2> HIDE DEF e, f
  <2> QED BY <2>1, <2>2 DEF ToSet
<1>2. g = <<[e[1] EXCEPT ![k] = Min(all)], [e[2] EXCEPT ![k] = Max(all)]>>
  BY DEF o_net_consolidate_lowlevel
<1>3. x = [kind |-> x.kind, ends |-> e, selectable |-> x.selectable] /\ x.kind = "net" /\ x.selectable \in BOOLEAN
  <2>1. x.selectable \in BOOLEAN
    BY DEF Things
  <2> QED BY <2>1, ThingsAre DEF IsNet
<1>4. z = [kind |-> "net", ends |-> g, selectable |-> x.selectable]
  <2> HIDE DEF g, e
  <2> QED BY <1>3
<1>5. (k = 1 /\ e[1][2] = e[2][2]) \/ (k = 2 /\ e[1][1] = e[2][1])
  BY DEF o_net_orientation
<1>6. /\ e[1][k] \in Int /\ e[2][k] \in Int /\ f[1][k] \in Int /\ f[2][k] \in Int
  BY <1>1, PlaneIs
<1> HIDE DEF e, f, g, z, k
<1>7. /\ Min(all) \in all /\ Max(all) \in all
      /\ \A v \in all : Min(all) <= v /\ v <= Max(all)
  BY <1>6, FourInts
<1> DEFINE lo == Min(all)
           hi == Max(all)
<1>8. /\ lo \in Int /\ hi \in Int
      /\ lo <= e[1][k] /\ e[1][k] <= hi /\ lo <= e[2][k] /\ e[2][k] <= hi
  BY <1>6, <1>7
<1>9. g = <<[e[1] EXCEPT ![k] = lo], [e[2] EXCEPT ![k] = hi]>>
  BY <1>2
<1>10. lo \in {e[1][k], e[2][k], f[1][k], f[2][k]} /\ hi \in {e[1][k], e[2][k], f[1][k], f[2][k]}
  BY <1>7
<1> HIDE DEF lo, hi, all
<1>11. \/ /\ k = 1 /\ e[1][2] = e[2][2]
          /\ g = <<<<lo, e[1][2]>>, <<hi, e[1][2]>>>>
       \/ /\ k = 2 /\ e[1][1] = e[2][1]
          /\ g = <<<<e[1][1], lo>>, <<e[1][1], hi>>>>
  BY <1>1, <1>5, <1>9, PlaneIs
<1>12. e[1][1] \in Int /\ e[1][2] \in Int /\ e[2][1] \in Int /\ e[2][2] \in Int
  BY <1>1, PlaneIs
<1>13. /\ g \in [1 .. 2 -> Plane] /\ ToSet(g) = {g[1], g[2]} /\ DOMAIN g = 1 .. 2
  <2>1. \E p, q \in Plane : g = <<p, q>>
    BY <1>8, <1>11, <1>12 DEF Plane
  <2>2. PICK p \in Plane, q \in Plane : g = <<p, q>>
    BY <2>1
  <2>3. 1 .. 2 = {1, 2}
    OBVIOUS
  <2>4. DOMAIN g = 1 .. 2 /\ g[1] = p /\ g[2] = q
    BY <2>2
  <2>5. g \in [1 .. 2 -> Plane]
    BY <2>2, <2>3
  <2>6. ToSet(g) = {g[1], g[2]}
    BY <2>3, <2>4 DEF ToSet
  <2> QED BY <2>4, <2>5, <2>6
<1>14. z \in Things(Plane) /\ z.ends = g /\ IsNet(z)
  BY <1>3, <1>4, <1>13 DEF Things, IsNet
<1>15. ASSUME NEW p \in Plane, On(x, p) PROVE On(z, p)
  <2>1. p = <<p[1], p[2]>> /\ p[1] \in Int /\ p[2] \in Int
    BY PlaneIs
  <2>2. \/ p = e[1] \/ p = e[2]
        \/ e[1][1] = p[1] /\ e[2][1] = p[1] /\ Between(p[2], e[1][2], e[2][2])
        \/ e[1][2] = p[2] /\ e[2][2] = p[2] /\ Between(p[1], e[1][1], e[2][1])
    BY <1>1, <1>15 DEF On, s_conn_check_midpoint, e
  <2>3. CASE k = 1 /\ e[1][2] = e[2][2] /\ g = <<<<lo, e[1][2]>>, <<hi, e[1][2]>>>>
    <3>1. p[2] = e[1][2] /\ lo <= p[1] /\ p[1] <= hi
      BY <1>8, <1>12, <2>1, <2>2, <2>3 DEF Between
    <3>2. CASE p[1] = lo \/ p[1] = hi
      <4>1. p \in {g[1], g[2]}
        BY <2>1, <2>3, <3>1, <3>2
      <4> QED BY <1>13, <1>14, <4>1 DEF On
    <3>3. CASE p[1] # lo /\ p[1] # hi
      <4>1. Between(p[1], lo, hi)
        BY <1>8, <2>1, <3>1, <3>3 DEF Between
      <4>2. g[1][1] = lo /\ g[2][1] = hi /\ g[1][2] = p[2] /\ g[2][2] = p[2]
        BY <2>3, <3>1
      <4>3. s_conn_check_midpoint(z, p)
        BY <1>14, <4>1, <4>2 DEF s_conn_check_midpoint
      <4> QED BY <1>14, <4>3 DEF On
    <3> QED BY <3>2, <3>3
  <2>4. CASE k = 2 /\ e[1][1] = e[2][1] /\ g = <<<<e[1][1], lo>>, <<e[1][1], hi>>>>
    <3>1. p[1] = e[1][1] /\ lo <= p[2] /\ p[2] <= hi
      BY <1>8, <1>12, <2>1, <2>2, <2>4 DEF Between
    <3>2. CASE p[2] = lo \/ p[2] = hi
      <4>1. p \in {g[1], g[2]}
        BY <2>1, <2>4, <3>1, <3>2
      <4> QED BY <1>13, <1>14, <4>1 DEF On
    <3>3. CASE p[2] # lo /\ p[2] # hi
      <4>1. Between(p[2], lo, hi)
        BY <1>8, <2>1, <3>1, <3>3 DEF Between
      <4>2. g[1][2] = lo /\ g[2][2] = hi /\ g[1][1] = p[1] /\ g[2][1] = p[1]
        BY <2>4, <3>1
      <4>3. s_conn_check_midpoint(z, p)
        BY <1>14, <4>1, <4>2 DEF s_conn_check_midpoint
      <4> QED BY <1>14, <4>3 DEF On
    <3> QED BY <3>2, <3>3
  <2> QED BY <1>11, <2>3, <2>4
<1>16. ASSUME ToSet(e) \subseteq Points, ToSet(f) \subseteq Points PROVE ToSet(g) \subseteq Points
  <2>1. \A p, q \in Points : <<p[1], q[2]>> \in Points
    BY PointsAssumption
  <2>2. e[1] \in Points /\ e[2] \in Points /\ f[1] \in Points /\ f[2] \in Points
    BY <1>1, <1>16
  <2>3. CASE k = 1 /\ g = <<<<lo, e[1][2]>>, <<hi, e[1][2]>>>>
    <3>1. \E p \in Points : lo = p[1]
      BY <1>10, <2>2, <2>3
    <3>2. \E p \in Points : hi = p[1]
      BY <1>10, <2>2, <2>3
    <3>3. <<lo, e[1][2]>> \in Points /\ <<hi, e[1][2]>> \in Points
      BY <2>1, <2>2, <3>1, <3>2
    <3> QED BY <1>13, <2>3, <3>3
  <2>4. CASE k = 2 /\ g = <<<<e[1][1], lo>>, <<e[1][1], hi>>>>
    <3>1. \E p \in Points : lo = p[2]
      BY <1>10, <2>2, <2>4
    <3>2. \E p \in Points : hi = p[2]
      BY <1>10, <2>2, <2>4
    <3>3. <<e[1][1], lo>> \in Points /\ <<e[1][1], hi>> \in Points
      BY <2>1, <2>2, <3>1, <3>2
    <3> QED BY <1>13, <2>4, <3>3
  <2> QED BY <1>11, <2>3, <2>4
<1>17. /\ z \in Things(Plane)
       /\ \A p \in Plane : On(x, p) => On(z, p)
       /\ ToSet(e) \subseteq Points /\ ToSet(f) \subseteq Points => ToSet(z.ends) \subseteq Points
  BY <1>14, <1>15, <1>16
<1> QED BY <1>17 DEF z, e, f, g

\* The place of a selected net is taken by the net that takes it over.
LEMMA SelectionPassed ==
  ASSUME NEW d, NEW C, NEW S, Sane(d, C, S), NEW a \in Live(d), NEW b \in Live(d), a # b
  PROVE  LET e == IF Selected(d, b) THEN o_selection_add(o_selection_remove(d, b), a) ELSE d
         IN /\ Sane(e, C, S)
            /\ Live(e) = Live(d) /\ e.ob = d.ob
            /\ b \notin ToSet(e.selection)
<1> DEFINE e == IF Selected(d, b) THEN o_selection_add(o_selection_remove(d, b), a) ELSE d
<1>1. CASE Selected(d, b)
  <2> DEFINE r == o_selection_remove(d, b)
             z == o_selection_add(r, a)
  <2>1. /\ Sane(r, C, S)
        /\ Live(r) = Live(d) /\ r.ob = d.ob /\ r.page = d.page /\ r.conns = d.conns
        /\ ToSet(r.selection) = ToSet(d.selection) \ {b}
    BY SelectionRemoved
  <2> HIDE DEF r
  <2>2. a \in Live(r)
    BY <2>1
  <2>3. /\ Sane(z, C, S)
        /\ Live(z) = Live(r) /\ z.ob = r.ob /\ z.page = r.page /\ z.conns = r.conns
        /\ ToSet(z.selection) = ToSet(r.selection) \cup {a}
    BY <2>1, <2>2, SelectionAdded
  <2>4. e = z
    BY <1>1 DEF r
  <2> HIDE DEF z, e
  <2>5. Sane(e, C, S) /\ Live(e) = Live(d) /\ e.ob = d.ob /\ b \notin ToSet(e.selection)
    BY <2>1, <2>3, <2>4
  <2> QED BY <2>5 DEF e
<1>2. CASE ~Selected(d, b)
  <2>1. b \notin ToSet(d.selection)
    <3>1. d.selection \in Seq(Nat)
      BY DEF Sane, Good
    <3> QED BY <1>2, <3>1 DEF Selected, Contains, ToSet
  <2> QED BY <1>2, <2>1
<1> QED BY <1>1, <1>2

\* Merging two nets.
LEMMA Merged ==
  ASSUME NEW d, NEW C, NEW S, Sane(d, C, S), EndsIn(d), NEW a \in Live(d), IsNet(d.ob[a]),
         NEW i \in Continuations(d, a)
  PROVE  LET e == Merge(d, a, d.conns[a][i].other)
         IN Sane(e, C, S) /\ EndsIn(e) /\ Live(e) \subseteq Live(d)
<1> DEFINE b == d.conns[a][i].other
           x == d.ob[a]
           y == d.ob[b]
           z == [x EXCEPT !.ends = o_net_consolidate_lowlevel(x, y)]
           ob == Put(d.ob, a, z)
           longer == [d EXCEPT !.ob = ob]
           chosen == IF Selected(longer, b) THEN o_selection_add(o_selection_remove(longer, b), a)
                     ELSE longer
           less == s_delete_object(chosen, b)
           e == s_conn_update_object(less, a)
<1>1. Merge(d, a, b) = e
  <2>1. WithEnds(d, a, o_net_consolidate_lowlevel(d.ob[a], d.ob[b])) = longer
    BY DEF WithEnds
  <2>2. Selected(longer, b) = Selected(d, b)
    <3>1. longer.selection = d.selection
      <4>1. Parts(d)
        BY DEF Sane, Good
      <4> HIDE DEF ob
      <4> QED BY <4>1 DEF Parts
    <3> HIDE DEF longer
    <3> QED BY <3>1 DEF Selected
  <2> HIDE DEF longer, b
  <2>3. Merge(d, a, b) = s_conn_update_object(s_delete_object(chosen, b), a)
    BY <2>1, <2>2 DEF Merge
  <2> HIDE DEF chosen
  <2> QED BY <2>3
<1>2. /\ Good(d) /\ Anchored(d) /\ d.ob \in [Live(d) -> Things(Plane)] /\ IsConns(d.conns, Live(d))
  BY DEF Sane, Good
<1>3. /\ IsNet(y) /\ o_net_orientation(x) = o_net_orientation(y) /\ o_net_orientation(x) # "NEITHER"
      /\ i \in DOMAIN d.conns[a]
  BY DEF Continuations
<1>4. b \in Live(d) /\ b # a
  <2>1. Told(d.conns, a, b, d.conns[a][i].at, d.conns[a][i].type)
    BY <1>3 DEF Told
  <2> HIDE DEF b
  <2> QED BY <1>2, <2>1, ToldTyped
<1> HIDE DEF b
<1>5. x \in Things(Plane) /\ y \in Things(Plane) /\ ToSet(x.ends) \subseteq Points /\ ToSet(y.ends) \subseteq Points
  BY <1>2, <1>4 DEF EndsIn
<1> HIDE DEF x, y
<1>6. /\ z \in Things(Plane)
      /\ \A p \in Plane : On(x, p) => On(z, p)
      /\ ToSet(x.ends) \subseteq Points /\ ToSet(y.ends) \subseteq Points
           => ToSet(z.ends) \subseteq Points
  BY <1>3, <1>5, Longer DEF x
<1> HIDE DEF z
<1>7. ob \in [Live(d) -> Things(Plane)] /\ ob[a] = z /\ \A u \in Live(d) : u # a => ob[u] = d.ob[u]
  BY <1>2, <1>6 DEF Put, Live
<1> HIDE DEF ob
<1>8. AtPoints(d)
  <2> SUFFICES ASSUME NEW u \in Live(d), NEW v, NEW p, NEW t, Told(d.conns, u, v, p, t)
               PROVE p \in Points
    BY DEF AtPoints
  <2>1. v \in Live(d)
    BY <1>2, ToldTyped
  <2>2. p \in Points \cup ToSet(d.ob[u].ends) \cup ToSet(d.ob[v].ends)
    BY <1>2 DEF Anchored
  <2> QED BY <2>1, <2>2 DEF EndsIn
<1>9. Sane(d, C \cup {a}, S)
  <2>1. \A u \in Live(d) : (u \in C => u \in C \cup {a}) /\ (u \in S => u \in S)
    OBVIOUS
  <2> QED BY <2>1, SaneLooser
<1>10. /\ Sane(longer, C \cup {a}, S)
       /\ Live(longer) = Live(d) /\ longer.ob = ob
       /\ longer.page = d.page /\ longer.conns = d.conns /\ longer.selection = d.selection
  <2>1. \A u \in Live(d) : SameShape(ob[u], d.ob[u]) \/ u \in C \cup {a}
    BY <1>7 DEF SameShape
  <2>2. \A u \in Live(d) : \/ u \in S \/ Alone(d, u)
                           \/ \A p \in Plane : On(d.ob[u], p) => On(ob[u], p)
    BY <1>6, <1>7 DEF x
  <2> HIDE DEF longer
  <2>3. LET n == [d EXCEPT !.ob = ob]
        IN /\ Sane(n, C \cup {a}, S)
           /\ Live(n) = Live(d) /\ n.ob = ob
           /\ n.page = d.page /\ n.conns = d.conns /\ n.selection = d.selection
    BY <1>7, <1>8, <1>9, <2>1, <2>2, Reshaped
  <2> QED BY <2>3 DEF longer
<1> HIDE DEF longer
<1>11. /\ Sane(chosen, C \cup {a}, S) /\ Live(chosen) = Live(longer) /\ chosen.ob = longer.ob
       /\ b \notin ToSet(chosen.selection)
  <2>1. a \in Live(longer) /\ b \in Live(longer) /\ a # b
    BY <1>4, <1>10
  <2> QED BY <1>10, <2>1, SelectionPassed
<1> HIDE DEF chosen
<1>12. /\ Sane(less, C \cup {a}, S)
       /\ Live(less) = Live(chosen) \ {b} /\ \A u \in Live(less) : less.ob[u] = chosen.ob[u]
       /\ less.selection = chosen.selection
  <2>1. b \in Live(chosen)
    BY <1>4, <1>10, <1>11
  <2> QED BY <1>11, <2>1, Deleted
<1> HIDE DEF less
<1>13. /\ Sane(e, (C \cup {a}) \ {a}, S)
       /\ e.page = less.page /\ e.ob = less.ob /\ e.selection = less.selection
  <2>1. a \in Live(less)
    BY <1>4, <1>10, <1>11, <1>12
  <2> QED BY <1>12, <2>1, Updated
<1> HIDE DEF e
<1>14. Sane(e, C, S)
  <2>1. \A u \in Live(e) : (u \in (C \cup {a}) \ {a} => u \in C) /\ (u \in S => u \in S)
    OBVIOUS
  <2> QED BY <1>13, <2>1, SaneLooser
<1>15. Live(e) = Live(d) \ {b}
  BY <1>10, <1>11, <1>12, <1>13 DEF Live
<1>16. EndsIn(e)
  <2>1. \A u \in Live(e) : u \in Live(d) /\ u \in Live(less) /\ e.ob[u] = ob[u]
    BY <1>10, <1>11, <1>12, <1>13, <1>15
  <2> QED BY <1>5, <1>6, <1>7, <2>1 DEF EndsIn
<1>17. Sane(e, C, S) /\ EndsIn(e) /\ Live(e) \subseteq Live(d)
  BY <1>14, <1>15, <1>16
<1> QED BY <1>1, <1>17 DEF b

\* What consolidation keeps.
Tidy(e, d, C, S) == Sane(e, C, S) /\ EndsIn(e) /\ Live(e) \subseteq Live(d)

\* One merge leaves a sane drawing sane, and adds nothing to it.
LEMMA SegmentsConsolidated ==
  ASSUME NEW d, NEW C, NEW S, Sane(d, C, S), EndsIn(d)
  PROVE  Tidy(o_net_consolidate_segments(d), d, C, S)
<1> DEFINE T == {a \in Live(d) : IsNet(d.ob[a]) /\ Continuations(d, a) # {}}
           nets == Filtered(d.page, T)
           e == o_net_consolidate_segments(d)
<1>1. /\ d.page \in Seq(Nat) /\ d.conns \in [Live(d) -> Seq(Entry(Live(d)))]
  BY DEF Sane, Good, IsConns
<1>2. nets \in Seq(Nat) /\ ToSet(nets) \subseteq T
  <2> HIDE DEF T
  <2>1. Filtered(d.page, T) \in Seq(Nat) /\ ToSet(Filtered(d.page, T)) = ToSet(d.page) \cap T
    BY <1>1, FilteredListed
  <2> QED BY <2>1
<1>3. CASE nets = <<>>
  <2>1. e = d
    BY <1>3 DEF o_net_consolidate_segments
  <2> QED BY <2>1 DEF Tidy
<1>4. CASE nets # <<>>
  <2> DEFINE a == nets[1]
             i == Min(Continuations(d, a))
  <2>1. e = Merge(d, a, d.conns[a][i].other)
    BY <1>4 DEF o_net_consolidate_segments
  <2>2. a \in T
    <3> HIDE DEF nets
    <3>1. Len(nets) \in Nat /\ Len(nets) # 0 /\ ToSet(nets) = {nets[j] : j \in 1 .. Len(nets)}
      BY <1>2, <1>4, Listed, EmptySeq
    <3>2. 1 \in 1 .. Len(nets)
      BY <3>1
    <3> QED BY <1>2, <3>1, <3>2
  <2>3. a \in Live(d) /\ IsNet(d.ob[a]) /\ Continuations(d, a) # {}
    BY <2>2
  <2> HIDE DEF a, e
  <2>4. d.conns[a] \in Seq(Entry(Live(d)))
    BY <1>1, <2>3
  <2>5. Len(d.conns[a]) \in Nat /\ Continuations(d, a) \in SUBSET (1 .. Len(d.conns[a]))
    BY <2>4 DEF Continuations
  <2>6. i \in Continuations(d, a)
    BY <2>3, <2>5, MinIs
  <2> HIDE DEF i
  <2>7. LET m == Merge(d, a, d.conns[a][i].other)
        IN Sane(m, C, S) /\ EndsIn(m) /\ Live(m) \subseteq Live(d)
    BY <2>3, <2>6, Merged
  <2>8. Tidy(e, d, C, S)
    BY <2>1, <2>7 DEF Tidy
  <2> QED BY <2>8 DEF e
<1> QED BY <1>3, <1>4

\* So does the consolidation that goes before saving an undo state.
LEMMA Consolidated ==
  ASSUME NEW d, NEW C, NEW S, Sane(d, C, S), EndsIn(d)
  PROVE  Tidy(savestate(d), d, C, S)
<1> DEFINE s == d.page
           N == Len(s)
<1>1. s \in Seq(Nat)
  BY DEF Sane, Good
<1>2. N \in Nat /\ DOMAIN s = 1 .. N
  BY <1>1, Listed
<1>3. \E g : IsWalk(g, "consolidate", <<>>, d, s) /\ o_net_consolidate(d) = g[N]
  BY <1>1, ConsolidateWalk
<1>4. PICK g : IsWalk(g, "consolidate", <<>>, d, s) /\ o_net_consolidate(d) = g[N]
  BY <1>3
<1>5. g[0] = d /\ \A n \in 1 .. N : g[n] = o_net_consolidate_segments(g[n - 1])
  BY <1>4 DEF IsWalk, Step
<1> HIDE DEF s, N
<1> DEFINE G == {n \in Nat : Tidy(g[n], d, C, S)}
<1>6. 0 \in G
  BY <1>5 DEF Tidy
<1>7. ASSUME NEW n \in 0 .. N - 1, n \in G PROVE n + 1 \in G
  <2>1. n + 1 \in 1 .. N /\ n \in Nat /\ n + 1 \in Nat /\ (n + 1) - 1 = n
    BY <1>2
  <2>2. g[n + 1] = o_net_consolidate_segments(g[n])
    BY <1>5, <2>1
  <2>3. Sane(g[n], C, S) /\ EndsIn(g[n]) /\ Live(g[n]) \subseteq Live(d)
    BY <1>7 DEF Tidy
  <2>4. Tidy(o_net_consolidate_segments(g[n]), g[n], C, S)
    BY <2>3, SegmentsConsolidated
  <2>5. Tidy(g[n + 1], d, C, S)
    BY <2>2, <2>3, <2>4 DEF Tidy
  <2> QED BY <2>1, <2>5
<1> HIDE DEF G
<1>8. \A n \in 0 .. N : n \in G
  BY <1>2, <1>6, <1>7, UpTo
<1>9. N \in G
  BY <1>2, <1>8
<1> QED BY <1>4, <1>9 DEF G, savestate

-----------------------------------------------------------------------------
(* Moving and turning *)

\* An object with other ends.
LEMMA OtherEnds ==
  ASSUME NEW x \in Things(Plane), NEW ends \in [DOMAIN x.ends -> Plane]
  PROVE  LET z == [x EXCEPT !.ends = ends]
         IN z \in Things(Plane) /\ z.kind = x.kind /\ z.ends = ends
<1>1. /\ x = [kind |-> x.kind, ends |-> x.ends, selectable |-> x.selectable]
      /\ DOMAIN x.ends = IF IsNet(x) THEN 1 .. 2 ELSE 1 .. 1
  BY ThingsAre
<1>2. x.selectable \in BOOLEAN /\ x.kind \in {"net", "component"}
  BY DEF Things
<1> DEFINE z == [x EXCEPT !.ends = ends]
<1>3. z = [kind |-> x.kind, ends |-> ends, selectable |-> x.selectable]
  BY <1>1
<1>4. ends \in [1 .. 2 -> Plane] \/ ends \in [1 .. 1 -> Plane]
  BY <1>1
<1>5. CASE IsNet(x)
  <2>1. x.kind = "net" /\ ends \in [1 .. 2 -> Plane]
    BY <1>1, <1>5 DEF IsNet
  <2> HIDE DEF z
  <2> QED BY <1>2, <1>3, <2>1 DEF Things
<1>6. CASE ~IsNet(x)
  <2>1. x.kind = "component" /\ ends \in [1 .. 1 -> Plane]
    BY <1>1, <1>2, <1>6 DEF IsNet
  <2> HIDE DEF z
  <2> QED BY <1>2, <1>3, <2>1 DEF Things
<1> QED BY <1>5, <1>6

\* An object on the page that is connected with nothing gets other ends.
LEMMA EndsReplaced ==
  ASSUME NEW d, NEW C, NEW S, Sane(d, C, S), NEW a \in Live(d), a \in C, Alone(d, a),
         NEW ends \in [DOMAIN d.ob[a].ends -> Plane]
  PROVE  LET e == WithEnds(d, a, ends)
         IN /\ Sane(e, C, S) /\ Live(e) = Live(d)
            /\ e.page = d.page /\ e.selection = d.selection
            /\ \A u \in Live(d) : IsNet(e.ob[u]) = IsNet(d.ob[u])
<1> DEFINE z == [d.ob[a] EXCEPT !.ends = ends]
           ob == Put(d.ob, a, z)
           e == WithEnds(d, a, ends)
<1>1. e = [d EXCEPT !.ob = ob]
  BY DEF WithEnds
<1> HIDE DEF e
<1>2. d.ob \in [Live(d) -> Things(Plane)] /\ d.ob[a] \in Things(Plane)
  BY DEF Sane, Good
<1>3. z \in Things(Plane) /\ z.kind = d.ob[a].kind
  BY <1>2, OtherEnds
<1> HIDE DEF z
<1>4. ob \in [Live(d) -> Things(Plane)] /\ ob[a] = z /\ \A u \in Live(d) : u # a => ob[u] = d.ob[u]
  BY <1>2, <1>3 DEF Put, Live
<1> HIDE DEF ob
<1>5. \A u \in Live(d) : u # a => SameShape(ob[u], d.ob[u]) /\ (\A p \in Plane : On(d.ob[u], p) => On(ob[u], p))
  BY <1>4 DEF SameShape
<1>6. LET n == [d EXCEPT !.ob = ob]
      IN /\ Sane(n, C, S)
         /\ Live(n) = Live(d) /\ n.ob = ob
         /\ n.page = d.page /\ n.conns = d.conns /\ n.selection = d.selection
  <2>1. \A u \in Live(d) : SameShape(ob[u], d.ob[u]) \/ u \in C
    BY <1>5
  <2>2. \A u \in Live(d) : \/ u \in S \/ Alone(d, u)
                           \/ \A p \in Plane : On(d.ob[u], p) => On(ob[u], p)
    BY <1>5
  <2>3. \A u \in Live(d) : SameShape(ob[u], d.ob[u]) \/ Alone(d, u)
    BY <1>5
  <2> QED BY <1>4, <2>1, <2>2, <2>3, Reshaped
<1>7. /\ Sane(e, C, S) /\ Live(e) = Live(d)
      /\ e.page = d.page /\ e.selection = d.selection
      /\ \A u \in Live(d) : IsNet(e.ob[u]) = IsNet(d.ob[u])
  BY <1>1, <1>3, <1>4, <1>6 DEF IsNet
<1> QED BY <1>7 DEF e

\* Moving an object: now nothing is missing of its contacts, and none is wrong.
LEMMA ObjectMoved ==
  ASSUME NEW d, NEW C, NEW S, Sane(d, C, S), NEW a \in Live(d), NEW delta \in Plane
  PROVE  LET e == o_move_end_lowlevel(d, a, delta)
         IN Sane(e, C \ {a}, S \ {a}) /\ Live(e) = Live(d)
<1> DEFINE r == s_conn_remove_object_connections(d, a)
           ends == [k \in DOMAIN d.ob[a].ends |-> Shifted(d.ob[a].ends[k], delta)]
           x == WithEnds(r, a, ends)
           e == o_move_end_lowlevel(d, a, delta)
<1>1. e = s_conn_update_object(x, a)
  BY DEF o_move_end_lowlevel
<1>2. /\ Sane(r, C \cup {a}, S \ {a})
      /\ r.page = d.page /\ r.ob = d.ob /\ r.selection = d.selection
      /\ Alone(r, a) /\ \A b : Alone(d, b) => Alone(r, b)
  BY Disconnected
<1> HIDE DEF r, e
<1>3. d.ob[a] \in Things(Plane) /\ Live(r) = Live(d) /\ a \in Live(r) /\ r.ob[a] = d.ob[a]
  BY <1>2 DEF Sane, Good, Live
<1>4. ends \in [DOMAIN r.ob[a].ends -> Plane]
  <2>1. \A k \in DOMAIN d.ob[a].ends : d.ob[a].ends[k] \in Plane
    BY <1>3, ThingsAre
  <2>2. \A p \in Plane : Shifted(p, delta) \in Plane
    BY DEF Shifted, Plane
  <2> QED BY <1>3, <2>1, <2>2
<1> HIDE DEF ends
<1>5. /\ Sane(x, C \cup {a}, S \ {a}) /\ Live(x) = Live(r)
      /\ x.page = r.page /\ x.selection = r.selection
      /\ \A u \in Live(r) : IsNet(x.ob[u]) = IsNet(r.ob[u])
  <2>1. a \in C \cup {a}
    OBVIOUS
  <2> QED BY <1>2, <1>3, <1>4, <2>1, EndsReplaced
<1> HIDE DEF x
<1>6. LET z == s_conn_update_object(x, a)
      IN Sane(z, (C \cup {a}) \ {a}, S \ {a}) /\ z.page = x.page /\ z.ob = x.ob /\ z.selection = x.selection
  <2>1. a \in Live(x)
    BY <1>3, <1>5
  <2> QED BY <1>5, <2>1, Updated
<1>7. Sane(e, (C \cup {a}) \ {a}, S \ {a}) /\ Live(e) = Live(d)
  BY <1>1, <1>3, <1>5, <1>6 DEF Live
<1>8. (C \cup {a}) \ {a} = C \ {a}
  OBVIOUS
<1> QED BY <1>7, <1>8 DEF e

\* Deleting an object, selected or not.
LEMMA ObjectDeleted ==
  ASSUME NEW d, NEW C, NEW S, Sane(d, C, S), NEW a \in Live(d)
  PROVE  LET e == o_delete(d, a)
         IN /\ Sane(e, C, S)
            /\ Live(e) = Live(d) \ {a} /\ \A u \in Live(e) : e.ob[u] = d.ob[u]
<1> DEFINE r == o_selection_remove(d, a)
           z == s_delete_object(r, a)
<1>1. o_delete(d, a) = z
  BY DEF o_delete
<1>2. /\ Sane(r, C, S)
      /\ Live(r) = Live(d) /\ r.ob = d.ob /\ r.page = d.page /\ r.conns = d.conns
      /\ ToSet(r.selection) = ToSet(d.selection) \ {a}
  BY SelectionRemoved
<1> HIDE DEF r
<1>3. /\ Sane(z, C, S)
      /\ Live(z) = Live(r) \ {a} /\ \A u \in Live(z) : z.ob[u] = r.ob[u]
      /\ z.selection = r.selection
  BY <1>2, Deleted
<1> HIDE DEF z
<1> QED BY <1>1, <1>2, <1>3

\* A net follows a moved object, or vanishes.
LEMMA NetStretched ==
  ASSUME NEW d, NEW C, NEW S, Sane(d, C, S), NEW s, s.object \in Live(d),
         IsNet(d.ob[s.object]), s.whichone \in {1, 2}, NEW delta \in Plane
  PROVE  LET e == Stretched(d, s, delta)
         IN /\ Sane(e, C, S)
            /\ Live(e) \subseteq Live(d) /\ Live(d) \ {s.object} \subseteq Live(e)
            /\ \A u \in Live(e) : IsNet(e.ob[u]) = IsNet(d.ob[u])
<1> DEFINE a == s.object
           r == s_conn_remove_object_connections(d, a)
           ends == ReplaceAt(d.ob[a].ends, s.whichone, Shifted(d.ob[a].ends[s.whichone], delta))
           x == WithEnds(r, a, ends)
           gone == o_delete(x, a)
           kept == s_conn_update_object(x, a)
           e == Stretched(d, s, delta)
<1>1. e = IF ends[1] = ends[2] THEN gone ELSE kept
  BY DEF Stretched
<1>2. /\ Sane(r, C \cup {a}, S \ {a})
      /\ r.page = d.page /\ r.ob = d.ob /\ r.selection = d.selection
      /\ Alone(r, a) /\ \A b : Alone(d, b) => Alone(r, b)
  BY Disconnected
<1> HIDE DEF r, e
<1>3. /\ d.ob[a] \in Things(Plane) /\ Live(r) = Live(d) /\ a \in Live(r) /\ r.ob[a] = d.ob[a]
      /\ IsNet(d.ob[a]) /\ s.whichone \in {1, 2} /\ a \in Live(d)
  BY <1>2 DEF Sane, Good, Live
<1> HIDE DEF a
<1>4. ends \in [DOMAIN r.ob[a].ends -> Plane]
  <2> DEFINE f == d.ob[a].ends
  <2>1. DOMAIN f = 1 .. 2 /\ \A k \in DOMAIN f : f[k] \in Plane
    BY <1>3, ThingsAre
  <2>2. f \in [1 .. 2 -> Plane]
    <3>1. f = [k \in DOMAIN f |-> f[k]]
      <4>1. d.ob[a] \in Things(Plane)
        BY <1>3
      <4> QED BY <4>1 DEF Things
    <3> HIDE DEF f
    <3> QED BY <2>1, <3>1
  <2>3. s.whichone \in 1 .. 2
    BY <1>3
  <2> HIDE DEF f
  <2>4. Shifted(f[s.whichone], delta) \in Plane
    BY <2>1, <2>3 DEF Shifted, Plane
  <2>5. ReplaceAt(f, s.whichone, Shifted(f[s.whichone], delta)) \in [1 .. 2 -> Plane]
    BY <2>2, <2>4 DEF ReplaceAt
  <2> QED BY <1>3, <2>1, <2>5 DEF f
<1> HIDE DEF ends
<1>5. /\ Sane(x, C \cup {a}, S \ {a}) /\ Live(x) = Live(r)
      /\ x.page = r.page /\ x.selection = r.selection
      /\ \A u \in Live(r) : IsNet(x.ob[u]) = IsNet(r.ob[u])
  <2>1. a \in C \cup {a}
    OBVIOUS
  <2> QED BY <1>2, <1>3, <1>4, <2>1, EndsReplaced
<1> HIDE DEF x
<1>6. a \in Live(x)
  BY <1>3, <1>5
<1>7. CASE ends[1] = ends[2]
  <2>1. /\ Sane(gone, C \cup {a}, S \ {a})
        /\ Live(gone) = Live(x) \ {a} /\ \A u \in Live(gone) : gone.ob[u] = x.ob[u]
    BY <1>5, <1>6, ObjectDeleted
  <2>2. e = gone
    BY <1>1, <1>7
  <2> HIDE DEF gone
  <2>3. Sane(gone, C, S)
    <3>1. \A u \in Live(gone) : (u \in C \cup {a} => u \in C) /\ (u \in S \ {a} => u \in S)
      BY <2>1
    <3> QED BY <2>1, <3>1, SaneLooser
  <2>4. /\ Sane(e, C, S)
        /\ Live(e) \subseteq Live(d) /\ Live(d) \ {a} \subseteq Live(e)
        /\ \A u \in Live(e) : IsNet(e.ob[u]) = IsNet(d.ob[u])
    BY <1>2, <1>3, <1>5, <2>1, <2>2, <2>3
  <2> QED BY <2>4 DEF e, a
<1>8. CASE ends[1] # ends[2]
  <2>1. Sane(kept, (C \cup {a}) \ {a}, S \ {a}) /\ kept.page = x.page /\ kept.ob = x.ob /\ kept.selection = x.selection
    BY <1>5, <1>6, Updated
  <2>2. e = kept
    BY <1>1, <1>8
  <2> HIDE DEF kept
  <2>3. Sane(kept, C, S)
    <3>1. \A u \in Live(kept) : (u \in (C \cup {a}) \ {a} => u \in C) /\ (u \in S \ {a} => u \in S)
      OBVIOUS
    <3> QED BY <2>1, <3>1, SaneLooser
  <2>4. Live(kept) = Live(x)
    BY <2>1 DEF Live
  <2>5. /\ Sane(e, C, S)
        /\ Live(e) \subseteq Live(d) /\ Live(d) \ {a} \subseteq Live(e)
        /\ \A u \in Live(e) : IsNet(e.ob[u]) = IsNet(d.ob[u])
    BY <1>2, <1>3, <1>5, <2>1, <2>2, <2>3, <2>4
  <2> QED BY <2>5 DEF e, a
<1> QED BY <1>7, <1>8

-----------------------------------------------------------------------------
(* Lists of objects *)

\* All objects of a list are moved.
LEMMA AllMoved ==
  ASSUME NEW d, NEW C, NEW S, Sane(d, C, S), NEW l \in Seq(Nat), ToSet(l) \subseteq Live(d),
         NEW delta \in Plane
  PROVE  Sane(WithMoved(d, l, delta), C \ ToSet(l), S \ ToSet(l))
<1> DEFINE N == Len(l)
           Done(n) == {l[i] : i \in 1 .. n}
<1>1. N \in Nat /\ DOMAIN l = 1 .. N /\ ToSet(l) = Done(N)
  BY Listed
<1>2. \E g : IsWalk(g, "move", delta, d, l) /\ WithMoved(d, l, delta) = g[N]
  BY MoveWalk
<1>3. PICK g : IsWalk(g, "move", delta, d, l) /\ WithMoved(d, l, delta) = g[N]
  BY <1>2
<1>4. g[0] = d /\ \A n \in 1 .. N : g[n] = o_move_end_lowlevel(g[n - 1], l[n], delta)
  BY <1>3 DEF IsWalk, Step
<1> DEFINE Is(n) == Sane(g[n], C \ Done(n), S \ Done(n)) /\ Live(g[n]) = Live(d)
           G == {n \in Nat : Is(n)}
<1> HIDE DEF N
<1>5. Is(0)
  <2>1. Done(0) = {}
    OBVIOUS
  <2>2. C \ Done(0) = C /\ S \ Done(0) = S
    BY <2>1
  <2> HIDE DEF Done
  <2> QED BY <1>4, <2>2
<1>6. ASSUME NEW n \in 0 .. N - 1, Is(n) PROVE Is(n + 1)
  <2> DEFINE a == l[n + 1]
             A == C \ Done(n)
             B == S \ Done(n)
  <2>1. n + 1 \in 1 .. N /\ n \in Nat /\ (n + 1) - 1 = n /\ 1 .. n + 1 = (1 .. n) \cup {n + 1}
    BY <1>1
  <2>2. Done(n + 1) = Done(n) \cup {a}
    BY <2>1
  <2>3. g[n + 1] = o_move_end_lowlevel(g[n], a, delta)
    BY <1>4, <2>1
  <2>4. Sane(g[n], A, B) /\ Live(g[n]) = Live(d)
    BY <1>6
  <2>5. a \in Live(g[n])
    <3>1. a \in ToSet(l)
      BY <1>1, <2>1
    <3> QED BY <2>4, <3>1
  <2> HIDE DEF a, A, B
  <2>6. LET e == o_move_end_lowlevel(g[n], a, delta)
        IN Sane(e, A \ {a}, B \ {a}) /\ Live(e) = Live(g[n])
    BY <2>4, <2>5, ObjectMoved
  <2>7. A \ {a} = C \ Done(n + 1) /\ B \ {a} = S \ Done(n + 1)
    <3> HIDE DEF Done
    <3> QED BY <2>2 DEF A, B
  <2> HIDE DEF Done
  <2> QED BY <2>3, <2>4, <2>6, <2>7
<1> HIDE DEF Is
<1>7. 0 \in G /\ \A n \in 0 .. N - 1 : n \in G => n + 1 \in G
  BY <1>1, <1>5, <1>6
<1> HIDE DEF G
<1>8. \A n \in 0 .. N : n \in G
  BY <1>1, <1>7, UpTo
<1>9. N \in G
  BY <1>1, <1>8
<1>10. Sane(g[N], C \ Done(N), S \ Done(N))
  <2> HIDE DEF Done
  <2> QED BY <1>9 DEF G, Is
<1> HIDE DEF Done
<1> QED BY <1>1, <1>3, <1>10

\* What is in a stretch list.
Stretching(l, d) ==
  /\ l \in Seq([object : Nat, whichone : {1, 2}])
  /\ \A i \in DOMAIN l : /\ l[i].object \in Live(d) \ ToSet(d.selection)
                         /\ IsNet(d.ob[l[i].object])
  /\ \A i, j \in DOMAIN l : l[i].object = l[j].object => i = j

\* All nets of a stretch list follow.
LEMMA AllStretched ==
  ASSUME NEW d, NEW C, NEW S, Sane(d, C, S), NEW l, Stretching(l, d), NEW delta \in Plane
  PROVE  LET e == WithStretched(d, l, delta)
         IN Sane(e, C, S) /\ ToSet(d.selection) \subseteq Live(e) /\ Live(e) \subseteq Live(d)
<1> DEFINE N == Len(l)
           T == [object : Nat, whichone : {1, 2}]
<1>1. l \in Seq(T)
  BY DEF Stretching
<1>2. N \in Nat /\ DOMAIN l = 1 .. N /\ \A i \in 1 .. N : l[i] \in T
  <2> HIDE DEF T
  <2> QED BY <1>1, Listed
<1>3. \E g : IsWalk(g, "stretch", delta, d, l) /\ WithStretched(d, l, delta) = g[N]
  <2> HIDE DEF T
  <2> QED BY <1>1, StretchWalk
<1>4. PICK g : IsWalk(g, "stretch", delta, d, l) /\ WithStretched(d, l, delta) = g[N]
  BY <1>3
<1>5. g[0] = d /\ \A n \in 1 .. N : g[n] = Stretched(g[n - 1], l[n], delta)
  BY <1>4 DEF IsWalk, Step
<1>6. \A i \in 1 .. N : /\ l[i].object \in Live(d) \ ToSet(d.selection)
                        /\ IsNet(d.ob[l[i].object]) /\ l[i].whichone \in {1, 2}
                        /\ \A j \in 1 .. N : l[i].object = l[j].object => i = j
  BY <1>2 DEF Stretching
<1>7. ToSet(d.selection) \subseteq Live(d)
  BY DEF Sane, Good
<1> HIDE DEF N, T
<1> DEFINE Is(n) == /\ Sane(g[n], C, S) /\ ToSet(d.selection) \subseteq Live(g[n])
                    /\ Live(g[n]) \subseteq Live(d)
                    /\ \A i \in n + 1 .. N : l[i].object \in Live(g[n])
                    /\ \A u \in Live(g[n]) : IsNet(g[n].ob[u]) = IsNet(d.ob[u])
           G == {n \in Nat : Is(n)}
<1>8. Is(0)
  BY <1>2, <1>5, <1>6, <1>7
<1>9. ASSUME NEW n \in 0 .. N - 1, Is(n) PROVE Is(n + 1)
  <2> DEFINE s == l[n + 1]
             e == Stretched(g[n], s, delta)
  <2>1. n + 1 \in 1 .. N /\ n \in Nat /\ (n + 1) - 1 = n /\ n + 1 \in n + 1 .. N
        /\ \A i \in (n + 1) + 1 .. N : i \in n + 1 .. N /\ i # n + 1 /\ i \in 1 .. N
    BY <1>2
  <2>2. g[n + 1] = e
    BY <1>5, <2>1
  <2>3. Sane(g[n], C, S) /\ s.object \in Live(g[n]) /\ IsNet(g[n].ob[s.object]) /\ s.whichone \in {1, 2}
    BY <1>6, <1>9, <2>1
  <2> HIDE DEF s
  <2>4. /\ Sane(e, C, S)
        /\ Live(e) \subseteq Live(g[n]) /\ Live(g[n]) \ {s.object} \subseteq Live(e)
        /\ \A u \in Live(e) : IsNet(e.ob[u]) = IsNet(g[n].ob[u])
    BY <2>3, NetStretched
  <2> HIDE DEF e
  <2>5. \A i \in (n + 1) + 1 .. N : l[i].object \in Live(g[n]) /\ l[i].object # s.object
    BY <1>6, <1>9, <2>1 DEF s
  <2>6. s.object \notin ToSet(d.selection)
    BY <1>6, <2>1 DEF s
  <2>7. \A i \in (n + 1) + 1 .. N : l[i].object \in Live(e)
    BY <2>4, <2>5
  <2>8. ToSet(d.selection) \subseteq Live(e) /\ Live(e) \subseteq Live(d)
    BY <1>9, <2>4, <2>6
  <2>9. \A u \in Live(e) : IsNet(e.ob[u]) = IsNet(d.ob[u])
    BY <1>9, <2>4
  <2> QED BY <2>2, <2>4, <2>7, <2>8, <2>9
<1> HIDE DEF Is
<1>10. 0 \in G /\ \A n \in 0 .. N - 1 : n \in G => n + 1 \in G
  BY <1>2, <1>8, <1>9
<1> HIDE DEF G
<1>11. \A n \in 0 .. N : n \in G
  BY <1>2, <1>10, UpTo
<1>12. N \in G
  BY <1>2, <1>11
<1>13. Is(N)
  BY <1>12 DEF G
<1> QED BY <1>4, <1>13 DEF Is

\* All objects of a list are disconnected.
LEMMA AllDisconnected ==
  ASSUME NEW d, NEW C, NEW S, Sane(d, C, S), NEW l \in Seq(Nat), ToSet(l) \subseteq Live(d)
  PROVE  LET e == FoldLeft(s_conn_remove_object_connections, d, l)
         IN /\ Sane(e, C \cup ToSet(l), S \ ToSet(l)) /\ \A a \in ToSet(l) : Alone(e, a)
            /\ e.page = d.page /\ e.ob = d.ob /\ e.selection = d.selection
<1> DEFINE N == Len(l)
           Done(n) == {l[i] : i \in 1 .. n}
<1>1. N \in Nat /\ DOMAIN l = 1 .. N /\ ToSet(l) = Done(N)
  BY Listed
<1>2. \E g : IsWalk(g, "apart", <<>>, d, l) /\ FoldLeft(s_conn_remove_object_connections, d, l) = g[N]
  BY ApartWalk
<1>3. PICK g : IsWalk(g, "apart", <<>>, d, l) /\ FoldLeft(s_conn_remove_object_connections, d, l) = g[N]
  BY <1>2
<1>4. g[0] = d /\ \A n \in 1 .. N : g[n] = s_conn_remove_object_connections(g[n - 1], l[n])
  BY <1>3 DEF IsWalk, Step
<1> DEFINE Is(n) == /\ Sane(g[n], C \cup Done(n), S \ Done(n)) /\ \A a \in Done(n) : Alone(g[n], a)
                    /\ g[n].page = d.page /\ g[n].ob = d.ob /\ g[n].selection = d.selection
           G == {n \in Nat : Is(n)}
<1> HIDE DEF N
<1>5. Is(0)
  <2>1. Done(0) = {}
    OBVIOUS
  <2>2. C \cup Done(0) = C /\ S \ Done(0) = S
    BY <2>1
  <2> HIDE DEF Done
  <2> QED BY <1>4, <2>1, <2>2
<1>6. ASSUME NEW n \in 0 .. N - 1, Is(n) PROVE Is(n + 1)
  <2> DEFINE a == l[n + 1]
             A == C \cup Done(n)
             B == S \ Done(n)
  <2>1. n + 1 \in 1 .. N /\ n \in Nat /\ (n + 1) - 1 = n /\ 1 .. n + 1 = (1 .. n) \cup {n + 1}
    BY <1>1
  <2>2. Done(n + 1) = Done(n) \cup {a}
    BY <2>1
  <2>3. g[n + 1] = s_conn_remove_object_connections(g[n], a)
    BY <1>4, <2>1
  <2>4. /\ Sane(g[n], A, B) /\ \A b \in Done(n) : Alone(g[n], b)
        /\ g[n].page = d.page /\ g[n].ob = d.ob /\ g[n].selection = d.selection
    BY <1>6
  <2>5. a \in Live(g[n])
    <3>1. a \in ToSet(l)
      BY <1>1, <2>1
    <3>2. Live(g[n]) = Live(d)
      BY <2>4 DEF Live
    <3> QED BY <3>1, <3>2
  <2> HIDE DEF a, A, B
  <2>6. LET e == s_conn_remove_object_connections(g[n], a)
         IN /\ Sane(e, A \cup {a}, B \ {a})
            /\ e.page = g[n].page /\ e.ob = g[n].ob /\ e.selection = g[n].selection
            /\ Alone(e, a) /\ \A b : Alone(g[n], b) => Alone(e, b)
    BY <2>4, <2>5, Disconnected
  <2>7. A \cup {a} = C \cup Done(n + 1) /\ B \ {a} = S \ Done(n + 1)
    <3> HIDE DEF Done
    <3> QED BY <2>2 DEF A, B
  <2> HIDE DEF Done
  <2> QED BY <2>2, <2>3, <2>4, <2>6, <2>7
<1> HIDE DEF Is
<1>7. 0 \in G /\ \A n \in 0 .. N - 1 : n \in G => n + 1 \in G
  BY <1>1, <1>5, <1>6
<1> HIDE DEF G
<1>8. \A n \in 0 .. N : n \in G
  BY <1>1, <1>7, UpTo
<1>9. N \in G
  BY <1>1, <1>8
<1>10. Is(N)
  BY <1>9 DEF G
<1>11. Sane(g[N], C \cup ToSet(l), S \ ToSet(l)) /\ (\A a \in ToSet(l) : Alone(g[N], a))
       /\ g[N].page = d.page /\ g[N].ob = d.ob /\ g[N].selection = d.selection
  <2> HIDE DEF Done
  <2> QED BY <1>1, <1>10 DEF Is
<1> QED BY <1>3, <1>11

\* All objects of a list are connected.
LEMMA AllUpdated ==
  ASSUME NEW d, NEW C, NEW S, Sane(d, C, S), NEW l \in Seq(Nat), ToSet(l) \subseteq Live(d)
  PROVE  LET e == FoldLeft(s_conn_update_object, d, l)
         IN /\ Sane(e, C \ ToSet(l), S)
            /\ e.page = d.page /\ e.ob = d.ob /\ e.selection = d.selection
<1> DEFINE N == Len(l)
           Done(n) == {l[i] : i \in 1 .. n}
<1>1. N \in Nat /\ DOMAIN l = 1 .. N /\ ToSet(l) = Done(N)
  BY Listed
<1>2. \E g : IsWalk(g, "join", <<>>, d, l) /\ FoldLeft(s_conn_update_object, d, l) = g[N]
  BY JoinWalk
<1>3. PICK g : IsWalk(g, "join", <<>>, d, l) /\ FoldLeft(s_conn_update_object, d, l) = g[N]
  BY <1>2
<1>4. g[0] = d /\ \A n \in 1 .. N : g[n] = s_conn_update_object(g[n - 1], l[n])
  BY <1>3 DEF IsWalk, Step
<1> DEFINE Is(n) == /\ Sane(g[n], C \ Done(n), S)
                    /\ g[n].page = d.page /\ g[n].ob = d.ob /\ g[n].selection = d.selection
           G == {n \in Nat : Is(n)}
<1> HIDE DEF N
<1>5. Is(0)
  <2>1. Done(0) = {}
    OBVIOUS
  <2>2. C \ Done(0) = C
    BY <2>1
  <2> HIDE DEF Done
  <2> QED BY <1>4, <2>2
<1>6. ASSUME NEW n \in 0 .. N - 1, Is(n) PROVE Is(n + 1)
  <2> DEFINE a == l[n + 1]
             A == C \ Done(n)
  <2>1. n + 1 \in 1 .. N /\ n \in Nat /\ (n + 1) - 1 = n /\ 1 .. n + 1 = (1 .. n) \cup {n + 1}
    BY <1>1
  <2>2. Done(n + 1) = Done(n) \cup {a}
    BY <2>1
  <2>3. g[n + 1] = s_conn_update_object(g[n], a)
    BY <1>4, <2>1
  <2>4. /\ Sane(g[n], A, S)
        /\ g[n].page = d.page /\ g[n].ob = d.ob /\ g[n].selection = d.selection
    BY <1>6
  <2>5. a \in Live(g[n])
    <3>1. a \in ToSet(l)
      BY <1>1, <2>1
    <3>2. Live(g[n]) = Live(d)
      BY <2>4 DEF Live
    <3> QED BY <3>1, <3>2
  <2> HIDE DEF a, A
  <2>6. LET e == s_conn_update_object(g[n], a)
         IN /\ Sane(e, A \ {a}, S)
            /\ e.page = g[n].page /\ e.ob = g[n].ob /\ e.selection = g[n].selection
    BY <2>4, <2>5, Updated
  <2>7. A \ {a} = C \ Done(n + 1)
    <3> HIDE DEF Done
    <3> QED BY <2>2 DEF A
  <2> HIDE DEF Done
  <2> QED BY <2>3, <2>4, <2>6, <2>7
<1> HIDE DEF Is
<1>7. 0 \in G /\ \A n \in 0 .. N - 1 : n \in G => n + 1 \in G
  BY <1>1, <1>5, <1>6
<1> HIDE DEF G
<1>8. \A n \in 0 .. N : n \in G
  BY <1>1, <1>7, UpTo
<1>9. N \in G
  BY <1>1, <1>8
<1>10. Is(N)
  BY <1>9 DEF G
<1>11. /\ Sane(g[N], C \ ToSet(l), S)
       /\ g[N].page = d.page /\ g[N].ob = d.ob /\ g[N].selection = d.selection
  <2> HIDE DEF Done
  <2> QED BY <1>1, <1>10 DEF Is
<1> QED BY <1>3, <1>11

\* All objects of a list are deleted.
LEMMA AllDeleted ==
  ASSUME NEW d, NEW C, NEW S, Sane(d, C, S), EndsIn(d), NEW l \in Seq(Nat), IsInjective(l),
         ToSet(l) \subseteq Live(d)
  PROVE  Tidy(FoldLeft(o_delete, d, l), d, C, S)
<1> DEFINE N == Len(l)
<1>1. /\ N \in Nat /\ DOMAIN l = 1 .. N /\ ToSet(l) = {l[i] : i \in 1 .. N}
      /\ \A i, j \in 1 .. N : l[i] = l[j] => i = j
  BY Listed DEF IsInjective
<1>2. \E g : IsWalk(g, "delete", <<>>, d, l) /\ FoldLeft(o_delete, d, l) = g[N]
  BY DeleteWalk
<1>3. PICK g : IsWalk(g, "delete", <<>>, d, l) /\ FoldLeft(o_delete, d, l) = g[N]
  BY <1>2
<1>4. g[0] = d /\ \A n \in 1 .. N : g[n] = o_delete(g[n - 1], l[n])
  BY <1>3 DEF IsWalk, Step
<1> HIDE DEF N
<1> DEFINE Is(n) == Tidy(g[n], d, C, S) /\ \A i \in n + 1 .. N : l[i] \in Live(g[n])
           G == {n \in Nat : Is(n)}
<1>5. Is(0)
  <2>1. \A i \in 0 + 1 .. N : l[i] \in Live(d)
    BY <1>1
  <2> QED BY <1>4, <2>1 DEF Tidy
<1>6. ASSUME NEW n \in 0 .. N - 1, Is(n) PROVE Is(n + 1)
  <2> DEFINE a == l[n + 1]
             e == o_delete(g[n], a)
  <2>1. n + 1 \in 1 .. N /\ n \in Nat /\ (n + 1) - 1 = n /\ n + 1 \in n + 1 .. N
        /\ \A i \in (n + 1) + 1 .. N : i \in n + 1 .. N /\ i # n + 1 /\ i \in 1 .. N
    BY <1>1
  <2>2. g[n + 1] = e
    BY <1>4, <2>1
  <2>3. Sane(g[n], C, S) /\ EndsIn(g[n]) /\ Live(g[n]) \subseteq Live(d) /\ a \in Live(g[n])
    BY <1>6, <2>1 DEF Tidy
  <2> HIDE DEF a
  <2>4. /\ Sane(e, C, S)
        /\ Live(e) = Live(g[n]) \ {a} /\ \A u \in Live(e) : e.ob[u] = g[n].ob[u]
    BY <2>3, ObjectDeleted
  <2> HIDE DEF e
  <2>5. EndsIn(e)
    BY <2>3, <2>4 DEF EndsIn
  <2>6. \A i \in (n + 1) + 1 .. N : l[i] \in Live(e)
    <3>1. \A i \in (n + 1) + 1 .. N : l[i] \in Live(g[n]) /\ l[i] # a
      BY <1>1, <1>6, <2>1 DEF a
    <3> QED BY <2>4, <3>1
  <2>7. Tidy(e, d, C, S)
    BY <2>3, <2>4, <2>5 DEF Tidy
  <2> QED BY <2>2, <2>6, <2>7
<1> HIDE DEF Is
<1>7. 0 \in G /\ \A n \in 0 .. N - 1 : n \in G => n + 1 \in G
  BY <1>1, <1>5, <1>6
<1> HIDE DEF G
<1>8. \A n \in 0 .. N : n \in G
  BY <1>1, <1>7, UpTo
<1>9. N \in G
  BY <1>1, <1>8
<1>10. Tidy(g[N], d, C, S)
  BY <1>9 DEF G, Is
<1> QED BY <1>3, <1>10

\* A page that is opened is sane, its nets not yet consolidated.
LEMMA Opened ==
  ASSUME NEW f \in Seq(Things(Points))
  PROVE  LET d == FoldLeft(s_page_append, Blank, f) IN Sane(d, {}, {}) /\ EndsIn(d)
<1> DEFINE N == Len(f)
<1>1. N \in Nat /\ DOMAIN f = 1 .. N /\ \A i \in 1 .. N : f[i] \in Things(Points)
  BY Listed
<1>2. \E g : IsWalk(g, "append", <<>>, Blank, f) /\ FoldLeft(s_page_append, Blank, f) = g[N]
  BY AppendWalk
<1>3. PICK g : IsWalk(g, "append", <<>>, Blank, f) /\ FoldLeft(s_page_append, Blank, f) = g[N]
  BY <1>2
<1>4. g[0] = Blank /\ \A n \in 1 .. N : g[n] = s_page_append(g[n - 1], f[n])
  BY <1>3 DEF IsWalk, Step
<1> HIDE DEF N
<1> DEFINE Is(n) == Sane(g[n], {}, {}) /\ EndsIn(g[n])
           G == {n \in Nat : Is(n)}
<1>5. Is(0)
  <2> DEFINE d == Blank
  <2>1. /\ d.page = <<>> /\ d.ob = [a \in {} |-> {}] /\ d.conns = [a \in {} |-> <<>>]
        /\ d.selection = <<>> /\ Parts(d) /\ Live(d) = {}
    BY DEF Blank, Parts, Live
  <2> HIDE DEF d
  <2>2. d.page \in Seq(Nat) /\ d.selection \in Seq(Nat)
    BY <2>1
  <2>3. /\ IsInjective(d.page) /\ ToSet(d.page) = {}
        /\ IsInjective(d.selection) /\ ToSet(d.selection) = {}
    BY <2>1, EmptyListed
  <2>4. d.ob \in [Live(d) -> Things(Plane)] /\ IsConns(d.conns, Live(d))
    BY <2>1 DEF IsConns
  <2>5. Good(d)
    BY <2>1, <2>2, <2>3, <2>4 DEF Good
  <2>6. Sane(d, {}, {}) /\ EndsIn(d)
    BY <2>1, <2>5 DEF Sane, Anchored, Mutual, Complete, Sound, EndsIn
  <2> QED BY <1>4, <2>6 DEF d
<1>6. ASSUME NEW n \in 0 .. N - 1, Is(n) PROVE Is(n + 1)
  <2> DEFINE o == f[n + 1]
             e == s_page_append(g[n], o)
  <2>1. n + 1 \in 1 .. N /\ (n + 1) - 1 = n
    BY <1>1
  <2>2. g[n + 1] = e
    BY <1>4, <2>1
  <2>3. o \in Things(Points)
    BY <1>1, <2>1
  <2> HIDE DEF o
  <2>4. o \in Things(Plane) /\ ToSet(o.ends) \subseteq Points
    <3>1. o \in Things(Plane)
      BY <2>3, PointsAssumption DEF Things
    <3>2. ToSet(o.ends) \subseteq Points
      BY <2>3 DEF Things, ToSet
    <3> QED BY <3>1, <3>2
  <2>5. Sane(g[n], {}, {}) /\ EndsIn(g[n])
    BY <1>6
  <2>6. /\ Sane(e, {}, {}) /\ Live(e) = Live(g[n]) \cup {NewSid(g[n])}
        /\ e.ob[NewSid(g[n])] = o /\ \A u \in Live(g[n]) : e.ob[u] = g[n].ob[u]
    BY <2>4, <2>5, Appended
  <2> HIDE DEF e
  <2>7. EndsIn(e)
    BY <2>4, <2>5, <2>6 DEF EndsIn
  <2> QED BY <2>2, <2>6, <2>7
<1> HIDE DEF Is
<1>7. 0 \in G /\ \A n \in 0 .. N - 1 : n \in G => n + 1 \in G
  BY <1>1, <1>5, <1>6
<1> HIDE DEF G
<1>8. \A n \in 0 .. N : n \in G
  BY <1>1, <1>7, UpTo
<1>9. N \in G
  BY <1>1, <1>8
<1>10. Sane(g[N], {}, {}) /\ EndsIn(g[N])
  BY <1>9 DEF G, Is
<1> QED BY <1>3, <1>10

\* What a drawing keeps when nothing is done to it but to add objects.
Keeps(e, d) ==
  /\ e.selection = d.selection /\ Live(d) \subseteq Live(e)
  /\ \A u \in Live(d) : e.ob[u] = d.ob[u]

\* Nets of length zero are inserted between the pins that meet.
LEMMA AllInserted ==
  ASSUME NEW d, NEW C, NEW S, Sane(d, C, S), NEW a \in Live(d)
  PROVE  LET e == WithZeroLengthNets(d, a) IN Sane(e, C, S) /\ Keeps(e, d)
<1> DEFINE l == d.conns[a]
           N == Len(l)
           T == Entry(Live(d))
<1>1. l \in Seq(T)
  BY DEF Sane, Good, IsConns
<1>2. \E g : IsWalk(g, "pins", [a |-> a, d |-> d], d, l) /\ WithZeroLengthNets(d, a) = g[N]
  <2> HIDE DEF T
  <2> QED BY <1>1, PinsWalk
<1>3. PICK g : IsWalk(g, "pins", [a |-> a, d |-> d], d, l) /\ WithZeroLengthNets(d, a) = g[N]
  BY <1>2
<1> HIDE DEF l
<1>4. N \in Nat /\ DOMAIN l = 1 .. N /\ \A i \in 1 .. N : l[i] \in T
  <2> HIDE DEF T
  <2> QED BY <1>1, Listed
<1> HIDE DEF N
<1>5. /\ g[0] = d
      /\ \A n \in 1 .. N : \/ g[n] = s_page_append(g[n - 1], Net(l[n].at, l[n].at))
                           \/ g[n] = g[n - 1]
  BY <1>3 DEF IsWalk, Step, N
<1>6. \A i \in 1 .. N : Net(l[i].at, l[i].at) \in Things(Plane)
  <2>1. \A p \in Plane : Net(p, p) \in Things(Plane)
    BY DEF Net, Things
  <2>2. \A i \in 1 .. N : l[i].at \in Plane
    BY <1>4 DEF Entry
  <2> QED BY <2>1, <2>2
<1> DEFINE Is(n) == Sane(g[n], C, S) /\ Keeps(g[n], d)
           G == {n \in Nat : Is(n)}
<1>7. Is(0)
  BY <1>5 DEF Keeps
<1>8. ASSUME NEW n \in 0 .. N - 1, Is(n) PROVE Is(n + 1)
  <2> DEFINE o == Net(l[n + 1].at, l[n + 1].at)
             e == s_page_append(g[n], o)
  <2>1. n + 1 \in 1 .. N /\ (n + 1) - 1 = n
    BY <1>4
  <2>2. g[n + 1] = e \/ g[n + 1] = g[n]
    BY <1>5, <2>1
  <2>3. o \in Things(Plane)
    BY <1>6, <2>1
  <2> HIDE DEF o
  <2>4. Sane(g[n], C, S) /\ Keeps(g[n], d)
    BY <1>8
  <2>5. /\ Sane(e, C, S) /\ e.selection = g[n].selection
        /\ Live(e) = Live(g[n]) \cup {NewSid(g[n])} /\ \A u \in Live(g[n]) : e.ob[u] = g[n].ob[u]
    BY <2>3, <2>4, Appended
  <2> HIDE DEF e
  <2>6. Keeps(e, d)
    BY <2>4, <2>5 DEF Keeps
  <2> QED BY <2>2, <2>4, <2>5, <2>6
<1> HIDE DEF Is
<1>9. 0 \in G /\ \A n \in 0 .. N - 1 : n \in G => n + 1 \in G
  BY <1>4, <1>7, <1>8
<1> HIDE DEF G
<1>10. \A n \in 0 .. N : n \in G
  BY <1>4, <1>9, UpTo
<1>11. N \in G
  BY <1>4, <1>10
<1>12. Sane(g[N], C, S) /\ Keeps(g[N], d)
  BY <1>11 DEF G, Is
<1> QED BY <1>3, <1>12

\* A stretch list stays one when another net is put on it.
LEMMA StretchAdded ==
  ASSUME NEW d, Good(d), NEW l, Stretching(l, d), NEW b \in Live(d), ~Selected(d, b),
         IsNet(d.ob[b]), NEW k \in {1, 2}
  PROVE  Stretching(s_stretch_add(l, b, k), d)
<1> DEFINE T == [object : Nat, whichone : {1, 2}]
           s == [object |-> b, whichone |-> k]
           m == Append(l, s)
<1>1. /\ l \in Seq(T)
      /\ \A i \in DOMAIN l : l[i].object \in Live(d) \ ToSet(d.selection) /\ IsNet(d.ob[l[i].object])
      /\ \A i, j \in DOMAIN l : l[i].object = l[j].object => i = j
  BY DEF Stretching
<1>2. b \in Nat /\ b \notin ToSet(d.selection)
  <2>1. d.page \in Seq(Nat) /\ ToSet(d.page) = Live(d)
    BY DEF Good
  <2>2. b \in Nat
    BY <2>1, Listed
  <2>3. d.selection \in Seq(Nat)
    BY DEF Good
  <2>4. b \notin ToSet(d.selection)
    BY <2>3, Listed DEF Selected, Contains
  <2> QED BY <2>2, <2>4
<1>3. s \in T /\ s.object = b
  BY <1>2
<1> HIDE DEF s, T
<1>4. CASE \E i \in DOMAIN l : l[i].object = b
  <2>1. s_stretch_add(l, b, k) = l
    BY <1>4 DEF s_stretch_add
  <2> QED BY <2>1
<1>5. CASE ~\E i \in DOMAIN l : l[i].object = b
  <2>1. s_stretch_add(l, b, k) = m
    BY <1>5 DEF s_stretch_add, s
  <2>2. Len(l) \in Nat /\ DOMAIN l = 1 .. Len(l)
    BY <1>1, Listed
  <2>3. /\ m \in Seq(T) /\ DOMAIN m = 1 .. Len(l) + 1
        /\ m[Len(l) + 1] = s /\ \A i \in 1 .. Len(l) : m[i] = l[i]
    BY <1>1, <1>3, <2>2
  <2> HIDE DEF m
  <2>4. \A i \in DOMAIN m : i = Len(l) + 1 \/ i \in DOMAIN l
    BY <2>2, <2>3
  <2>5. \A i \in DOMAIN m : m[i].object \in Live(d) \ ToSet(d.selection) /\ IsNet(d.ob[m[i].object])
    BY <1>1, <1>2, <1>3, <2>2, <2>3, <2>4
  <2>6. \A i, j \in DOMAIN m : m[i].object = m[j].object => i = j
    BY <1>1, <1>3, <1>5, <2>2, <2>3, <2>4
  <2>7. Stretching(m, d)
    BY <2>3, <2>5, <2>6 DEF Stretching, T
  <2> QED BY <2>1, <2>7
<1> QED BY <1>4, <1>5

\* The nets at the ends of an object are put on the stretch list.
LEMMA AllFollowing ==
  ASSUME NEW d, Good(d), NEW a \in Live(d), NEW l, Stretching(l, d)
  PROVE  Stretching(WithFollowing(l, d, a), d)
<1> DEFINE q == d.conns[a]
           N == Len(q)
           T == Entry(Live(d))
<1>1. q \in Seq(T)
  BY DEF Good, IsConns
<1>2. \E g : IsWalk(g, "ends", d, l, q) /\ WithFollowing(l, d, a) = g[N]
  <2>1. d.conns[a] \in Seq(T)
    BY <1>1
  <2> HIDE DEF T
  <2>2. EndsWalked(l, d, a)
    BY <2>1, EndsWalk
  <2> QED BY <2>2 DEF EndsWalked
<1>3. PICK g : IsWalk(g, "ends", d, l, q) /\ WithFollowing(l, d, a) = g[N]
  BY <1>2
<1> HIDE DEF q
<1> DEFINE end(n) == o_move_return_whichone(d.ob[q[n].other], q[n].at)
<1>4. N \in Nat /\ DOMAIN q = 1 .. N /\ \A i \in 1 .. N : q[i] \in T
  <2> HIDE DEF T
  <2> QED BY <1>1, Listed
<1> HIDE DEF N
<1>5. /\ g[0] = l
      /\ \A n \in 1 .. N :
           g[n] = IF Follows(d, q[n]) /\ IsNet(d.ob[q[n].other]) /\ end(n) # 0
                  THEN s_stretch_add(g[n - 1], q[n].other, end(n)) ELSE g[n - 1]
  BY <1>3 DEF IsWalk, Step, N
<1>6. \A n : end(n) # 0 => end(n) \in {1, 2}
  BY DEF o_move_return_whichone
<1> HIDE DEF end
<1> DEFINE Is(n) == Stretching(g[n], d)
           G == {n \in Nat : Is(n)}
<1>7. Is(0)
  BY <1>5
<1>8. ASSUME NEW n \in 0 .. N - 1, Is(n) PROVE Is(n + 1)
  <2> DEFINE m == n + 1
  <2>1. m \in 1 .. N /\ m - 1 = n
    BY <1>4
  <2>2. Stretching(g[n], d)
    BY <1>8
  <2>3. q[m].other \in Live(d)
    BY <1>4, <2>1 DEF Entry
  <2>4. CASE Follows(d, q[m]) /\ IsNet(d.ob[q[m].other]) /\ end(m) # 0
    <3>1. g[m] = s_stretch_add(g[n], q[m].other, end(m))
      BY <1>5, <2>1, <2>4
    <3>2. end(m) \in {1, 2} /\ ~Selected(d, q[m].other)
      BY <1>6, <2>4 DEF Follows
    <3> HIDE DEF m
    <3>3. Stretching(s_stretch_add(g[n], q[m].other, end(m)), d)
      BY <2>2, <2>3, <2>4, <3>2, StretchAdded
    <3> QED BY <3>1, <3>3 DEF m
  <2>5. CASE ~(Follows(d, q[m]) /\ IsNet(d.ob[q[m].other]) /\ end(m) # 0)
    <3>1. g[m] = g[n]
      BY <1>5, <2>1, <2>5
    <3> QED BY <2>2, <3>1
  <2> QED BY <2>4, <2>5
<1> HIDE DEF Is
<1>9. 0 \in G /\ \A n \in 0 .. N - 1 : n \in G => n + 1 \in G
  BY <1>4, <1>7, <1>8
<1> HIDE DEF G
<1>10. \A n \in 0 .. N : n \in G
  BY <1>4, <1>9, UpTo
<1>11. N \in G
  BY <1>4, <1>10
<1>12. Stretching(g[N], d)
  BY <1>11 DEF G, Is
<1> QED BY <1>3, <1>12

\* New objects do not make a stretch list invalid.
LEMMA StretchingKept ==
  ASSUME NEW d, NEW e, Keeps(e, d), NEW l, Stretching(l, d)
  PROVE  Stretching(l, e)
BY DEF Keeps, Stretching

\* A move is prepared for one object.
LEMMA EndpointChecked ==
  ASSUME NEW m, NEW C, NEW S, Sane(m.d, C, S), Stretching(m.stretch, m.d), NEW a \in Live(m.d)
  PROVE  LET n == o_move_check_endpoint(m, a)
         IN Sane(n.d, C, S) /\ Stretching(n.stretch, n.d) /\ Keeps(n.d, m.d)
<1> DEFINE d == WithZeroLengthNets(m.d, a)
           l == WithFollowing(m.stretch, d, a)
<1>1. Sane(d, C, S) /\ Keeps(d, m.d)
  BY AllInserted
<1>2. o_move_check_endpoint(m, a).d = d /\ o_move_check_endpoint(m, a).stretch = l
  BY DEF o_move_check_endpoint
<1> HIDE DEF d
<1>3. Stretching(m.stretch, d)
  BY <1>1, StretchingKept
<1>4. a \in Live(d) /\ Good(d)
  BY <1>1 DEF Keeps, Sane
<1>5. Stretching(l, d)
  BY <1>3, <1>4, AllFollowing
<1> QED BY <1>1, <1>2, <1>5

\* A move with rubber-banding is prepared.
LEMMA Prepared ==
  ASSUME NEW d, NEW C, NEW S, Sane(d, C, S)
  PROVE  LET m == o_move_prep_rubberband(d)
         IN Sane(m.d, C, S) /\ Stretching(m.stretch, m.d) /\ Keeps(m.d, d)
<1> DEFINE l == d.selection
           N == Len(l)
           base == [d |-> d, stretch |-> <<>>]
           m == o_move_prep_rubberband(d)
<1>1. l \in Seq(Nat) /\ ToSet(l) \subseteq Live(d)
  BY DEF Sane, Good
<1>2. m = FoldLeft(o_move_check_endpoint, base, l)
  BY DEF o_move_prep_rubberband
<1>3. base.d = d /\ base.stretch = <<>>
  OBVIOUS
<1> HIDE DEF l, m, base
<1>4. N \in Nat /\ DOMAIN l = 1 .. N /\ ToSet(l) = {l[i] : i \in 1 .. N}
  BY <1>1, Listed
<1>5. \E g : IsWalk(g, "endpoint", <<>>, base, l) /\ FoldLeft(o_move_check_endpoint, base, l) = g[N]
  BY <1>1, EndpointWalk
<1>6. PICK g : IsWalk(g, "endpoint", <<>>, base, l) /\ m = g[N]
  BY <1>2, <1>5
<1> HIDE DEF N
<1>7. g[0] = base /\ \A n \in 1 .. N : g[n] = o_move_check_endpoint(g[n - 1], l[n])
  BY <1>6 DEF IsWalk, Step, N
<1> DEFINE Is(n) == Sane(g[n].d, C, S) /\ Stretching(g[n].stretch, g[n].d) /\ Keeps(g[n].d, d)
           G == {n \in Nat : Is(n)}
<1>8. Is(0)
  <2>1. Stretching(<<>>, d)
    BY DEF Stretching
  <2>2. Keeps(d, d)
    BY DEF Keeps
  <2> QED BY <1>3, <1>7, <2>1, <2>2
<1>9. ASSUME NEW n \in 0 .. N - 1, Is(n) PROVE Is(n + 1)
  <2> DEFINE a == l[n + 1]
             x == g[n]
             e == o_move_check_endpoint(x, a)
  <2>1. n + 1 \in 1 .. N /\ (n + 1) - 1 = n
    BY <1>4
  <2>2. g[n + 1] = e
    BY <1>7, <2>1
  <2>3. Sane(x.d, C, S) /\ Stretching(x.stretch, x.d) /\ Keeps(x.d, d)
    BY <1>9
  <2>4. a \in Live(x.d)
    BY <1>1, <1>4, <2>1, <2>3 DEF Keeps
  <2> HIDE DEF a, x
  <2>5. Sane(e.d, C, S) /\ Stretching(e.stretch, e.d) /\ Keeps(e.d, x.d)
    BY <2>3, <2>4, EndpointChecked
  <2> HIDE DEF e
  <2>6. Keeps(e.d, d)
    BY <2>3, <2>5 DEF Keeps
  <2> QED BY <2>2, <2>5, <2>6
<1> HIDE DEF Is
<1>10. 0 \in G /\ \A n \in 0 .. N - 1 : n \in G => n + 1 \in G
  BY <1>4, <1>8, <1>9
<1> HIDE DEF G
<1>11. \A n \in 0 .. N : n \in G
  BY <1>4, <1>10, UpTo
<1>12. N \in G
  BY <1>4, <1>11
<1>13. Is(N)
  BY <1>12 DEF G
<1> QED BY <1>6, <1>13 DEF Is, m

\* Deleting the objects of an empty list deletes none.
LEMMA NothingDeleted ==
  ASSUME NEW d
  PROVE  s_delete_object_glist(d, <<>>) = d
<1>1. Reverse(<<>>) = <<>>
  BY DEF Reverse
<1> DEFINE F(it) == [S \in SUBSET {} |-> IF S = {} THEN d
                       ELSE IF <<>>[Max(S)] \in Live(it[S \ {Max(S)}])
                            THEN s_delete_object(it[S \ {Max(S)}], <<>>[Max(S)])
                            ELSE it[S \ {Max(S)}]]
           c == CHOOSE it : it = F(it)
<1>2. FoldLeft(LAMBDA x, a : IF a \in Live(x) THEN s_delete_object(x, a) ELSE x, d, <<>>) = c[{}]
  BY DEF FoldLeft, MapThenFoldSet
<1>3. \E it : it = F(it)
  <2> DEFINE h == [S \in SUBSET {} |-> d]
  <2>1. h = F(h)
    <3>1. \A S \in SUBSET {} : S = {}
      OBVIOUS
    <3> QED BY <3>1
  <2> HIDE DEF h, F
  <2> QED BY <2>1
<1>4. c = F(c)
  <2> HIDE DEF F
  <2> QED BY <1>3
<1>5. c[{}] = d
  <2> HIDE DEF c
  <2>1. {} \in SUBSET {}
    OBVIOUS
  <2> QED BY <1>4, <2>1
<1>6. s_delete_object_glist(d, <<>>)
        = FoldLeft(LAMBDA x, a : IF a \in Live(x) THEN s_delete_object(x, a) ELSE x, d, Reverse(<<>>))
  BY DEF s_delete_object_glist
<1> QED BY <1>1, <1>2, <1>5, <1>6

-----------------------------------------------------------------------------
(* Turning, locking, drawing a net *)

\* Objects that are not expected to be connected may be turned.
LEMMA ListTurned ==
  ASSUME NEW d, NEW C, NEW S, Sane(d, C, S), NEW l, ToSet(l) \subseteq C,
         \A a \in ToSet(l) : a \in S \/ Alone(d, a),
         AtPoints(d) \/ \A a \in ToSet(l) : Alone(d, a),
         NEW center \in Plane, NEW how
  PROVE  LET e == Turned(d, l, center, how)
         IN /\ Sane(e, C, S)
            /\ Live(e) = Live(d) /\ e.page = d.page /\ e.selection = d.selection
            /\ \A u \in Live(d) : IsNet(e.ob[u]) = IsNet(d.ob[u])
<1> DEFINE ob == [a \in DOMAIN d.ob |->
                    IF a \in ToSet(l) THEN TurnedObject(d.ob[a], center, how) ELSE d.ob[a]]
           e == [d EXCEPT !.ob = ob]
<1>1. /\ Parts(d) /\ d.ob \in [Live(d) -> Things(Plane)]
  BY DEF Sane, Good
<1>2. Turned(d, l, center, how) = e
  BY DEF Turned
<1>3. \A p \in Plane : Turn(p, center, how) \in Plane
  BY DEF Turn, Plane
<1>4. ASSUME NEW a \in Live(d)
      PROVE  /\ ob[a] \in Things(Plane) /\ IsNet(ob[a]) = IsNet(d.ob[a])
             /\ a \notin ToSet(l) => ob[a] = d.ob[a]
  <2>1. d.ob[a] \in Things(Plane) /\ a \in DOMAIN d.ob
    BY <1>1 DEF Live
  <2>2. CASE a \notin ToSet(l)
    <3>1. ob[a] = d.ob[a]
      BY <2>1, <2>2
    <3> HIDE DEF ob
    <3> QED BY <2>1, <3>1
  <2>3. CASE a \in ToSet(l)
    <3>1. ob[a] = TurnedObject(d.ob[a], center, how)
      BY <2>1, <2>3
    <3> HIDE DEF ob
    <3> DEFINE ends == [k \in DOMAIN d.ob[a].ends |-> Turn(d.ob[a].ends[k], center, how)]
    <3>2. ob[a] = [d.ob[a] EXCEPT !.ends = ends]
      BY <3>1 DEF TurnedObject
    <3>3. ends \in [DOMAIN d.ob[a].ends -> Plane]
      <4>1. \A k \in DOMAIN d.ob[a].ends : d.ob[a].ends[k] \in Plane
        BY <2>1, ThingsAre
      <4> QED BY <1>3, <4>1
    <3> HIDE DEF ends
    <3>4. ob[a] \in Things(Plane) /\ ob[a].kind = d.ob[a].kind
      BY <2>1, <3>2, <3>3, OtherEnds
    <3> QED BY <2>3, <3>4 DEF IsNet
  <2> QED BY <2>2, <2>3
<1>5. ob \in [Live(d) -> Things(Plane)]
  <2>1. ob = [a \in Live(d) |-> ob[a]]
    BY DEF Live
  <2> HIDE DEF ob
  <2> QED BY <1>4, <2>1
<1> HIDE DEF ob
<1>6. \A a \in Live(d) : a \notin ToSet(l) => SameShape(ob[a], d.ob[a]) /\ \A p \in Plane : On(d.ob[a], p) => On(ob[a], p)
  BY <1>4 DEF SameShape
<1>7. \A a \in Live(d) : SameShape(ob[a], d.ob[a]) \/ a \in C
  BY <1>6
<1>8. \A a \in Live(d) : \/ a \in S \/ Alone(d, a)
                         \/ \A p \in Plane : On(d.ob[a], p) => On(ob[a], p)
  BY <1>6
<1>9. \/ AtPoints(d)
      \/ \A a \in Live(d) : SameShape(ob[a], d.ob[a]) \/ Alone(d, a)
  BY <1>6
<1>10. /\ Sane(e, C, S)
       /\ Live(e) = Live(d) /\ e.ob = ob
       /\ e.page = d.page /\ e.conns = d.conns /\ e.selection = d.selection
  BY <1>5, <1>7, <1>8, <1>9, Reshaped
<1> HIDE DEF e
<1> QED BY <1>2, <1>4, <1>10

\* Locking and unlocking changes no shape.
LEMMA LocksSet ==
  ASSUME NEW d, NEW C, NEW S, Sane(d, C, S), NEW value \in BOOLEAN
  PROVE  LET e == SetSelectable(d, value)
         IN /\ Sane(e, C, S)
            /\ Live(e) = Live(d) /\ e.page = d.page /\ e.selection = d.selection
            /\ \A u \in Live(d) : SameShape(e.ob[u], d.ob[u])
<1> DEFINE ob == [a \in DOMAIN d.ob |->
                    IF Selected(d, a) /\ ~IsNet(d.ob[a]) THEN [d.ob[a] EXCEPT !.selectable = value]
                    ELSE d.ob[a]]
           e == [d EXCEPT !.ob = ob]
<1>1. /\ Parts(d) /\ d.ob \in [Live(d) -> Things(Plane)]
  BY DEF Sane, Good
<1>2. SetSelectable(d, value) = e
  <2>1. "ob" \in DOMAIN d
    BY <1>1 DEF Parts
  <2> QED BY <1>1, <2>1 DEF SetSelectable, Parts
<1>3. ASSUME NEW x \in Things(Plane)
      PROVE  LET z == [x EXCEPT !.selectable = value] IN z \in Things(Plane) /\ SameShape(z, x)
  BY DEF Things, SameShape
<1>4. ASSUME NEW a \in Live(d)
      PROVE  ob[a] \in Things(Plane) /\ SameShape(ob[a], d.ob[a])
  <2>1. d.ob[a] \in Things(Plane) /\ a \in DOMAIN d.ob
    BY <1>1 DEF Live
  <2>2. ob[a] = d.ob[a] \/ ob[a] = [d.ob[a] EXCEPT !.selectable = value]
    BY <2>1
  <2> HIDE DEF ob
  <2>3. SameShape(d.ob[a], d.ob[a])
    BY DEF SameShape
  <2> QED BY <1>3, <2>1, <2>2, <2>3
<1>5. ob \in [Live(d) -> Things(Plane)]
  <2>1. ob = [a \in Live(d) |-> ob[a]]
    BY DEF Live
  <2> HIDE DEF ob
  <2> QED BY <1>4, <2>1
<1> HIDE DEF ob
<1>6. \A a \in Live(d) : SameShape(ob[a], d.ob[a]) /\ \A p \in Plane : On(d.ob[a], p) => On(ob[a], p)
  BY <1>4, ShapeMatters
<1>7. /\ Sane(e, C, S)
      /\ Live(e) = Live(d) /\ e.ob = ob
      /\ e.page = d.page /\ e.conns = d.conns /\ e.selection = d.selection
  BY <1>5, <1>6, Reshaped
<1> HIDE DEF e
<1> QED BY <1>2, <1>6, <1>7

\* A net is drawn.
LEMMA Routed ==
  ASSUME NEW d, NEW C, NEW S, Sane(d, C, S), NEW p \in Plane, NEW q \in Plane, NEW r \in Plane
  PROVE  LET e == WithRoute(d, p, q, r) IN Sane(e, C, S) /\ Keeps(e, d)
<1>1. Net(p, q) \in Things(Plane) /\ Net(q, r) \in Things(Plane)
  BY DEF Net, Things
<1>2. ASSUME NEW x, Sane(x, C, S), Keeps(x, d), NEW o \in Things(Plane)
      PROVE  LET y == s_page_append(x, o) IN Sane(y, C, S) /\ Keeps(y, d)
  <2> DEFINE y == s_page_append(x, o)
  <2>1. /\ Sane(y, C, S) /\ y.selection = x.selection
        /\ Live(y) = Live(x) \cup {NewSid(x)} /\ \A u \in Live(x) : y.ob[u] = x.ob[u]
    BY <1>2, Appended
  <2> HIDE DEF y
  <2>2. Keeps(y, d)
    BY <1>2, <2>1 DEF Keeps
  <2> QED BY <2>1, <2>2 DEF y
<1>3. Sane(d, C, S) /\ Keeps(d, d)
  BY DEF Keeps
<1> DEFINE primary == IF p = q THEN d ELSE s_page_append(d, Net(p, q))
<1>4. Sane(primary, C, S) /\ Keeps(primary, d)
  BY <1>1, <1>2, <1>3
<1>5. WithRoute(d, p, q, r) = primary \/ WithRoute(d, p, q, r) = s_page_append(primary, Net(q, r))
  BY DEF WithRoute
<1> HIDE DEF primary
<1> QED BY <1>1, <1>2, <1>4, <1>5

-----------------------------------------------------------------------------
(* The inductive invariant                                                   *)

PageOK(d, T) == Sane(d, T, T) /\ EndsIn(d) /\ T \subseteq Live(d)

\* What the two lists hold, which depends on the mode and the action alone.
ListsOK(d, p, s, event, inside) ==
  IF inside /\ event = "MOVE" THEN p = d.selection /\ Stretching(s, d)
  ELSE p = <<>> /\ s = <<>>

ModesOK ==
  /\ event_state \in {"SELECT", "NET", "MOVE"} /\ inside_action \in BOOLEAN
  /\ rubber \in BOOLEAN /\ edits \in 0 .. MaxEdits

Inv ==
  /\ PageOK(drawing, turned)
  /\ ListsOK(drawing, place, stretch, event_state, inside_action)
  /\ ModesOK

\* What is sane and in reach stays so when an undo state is saved.
LEMMA Saved ==
  ASSUME NEW x, NEW T, Sane(x, T, T), EndsIn(x)
  PROVE  PageOK(savestate(x), T \cap Live(savestate(x)))
<1> DEFINE y == savestate(x)
           U == T \cap Live(y)
<1>1. Tidy(y, x, T, T)
  BY Consolidated
<1> HIDE DEF y
<1>2. Sane(y, T, T) /\ EndsIn(y)
  BY <1>1 DEF Tidy
<1>3. \A a \in Live(y) : a \in T => a \in U
  OBVIOUS
<1> HIDE DEF U
<1>4. Sane(y, U, U)
  BY <1>2, <1>3, SaneLooser
<1> QED BY <1>2, <1>4 DEF PageOK, U, y

\* Leaving an action changes nothing on the page, and empties the lists.
LEMMA CleanedIs ==
  ASSUME Inv
  PROVE  Cleaned = [d |-> drawing, place |-> <<>>, stretch |-> <<>>]
<1>1. CASE ~inside_action
  BY <1>1 DEF Inv, ListsOK, Cleaned
<1>2. CASE inside_action /\ event_state = "MOVE"
  BY <1>2 DEF Cleaned
<1>3. CASE inside_action /\ event_state # "MOVE"
  <2>1. place = <<>> /\ stretch = <<>>
    BY <1>3 DEF Inv, ListsOK
  <2>2. s_delete_object_glist(drawing, <<>>) = drawing
    BY NothingDeleted
  <2> QED BY <1>3, <2>1, <2>2 DEF Cleaned
<1> QED BY <1>1, <1>2, <1>3

\* It holds when a schematic has been opened.
LEMMA InvStarts == Init => Inv
<1> SUFFICES ASSUME Init PROVE Inv
  OBVIOUS
<1>1. PICK f \in Files : drawing = savestate(FoldLeft(s_page_append, Blank, f))
  BY DEF Init
<1> DEFINE d == FoldLeft(s_page_append, Blank, f)
<1>2. f \in Seq(Things(Points))
  BY PointsAssumption
<1>3. Sane(d, {}, {}) /\ EndsIn(d)
  BY <1>2, Opened
<1>4. drawing = savestate(d)
  BY <1>1
<1> HIDE DEF d
<1>5. PageOK(savestate(d), {} \cap Live(savestate(d)))
  BY <1>3, Saved
<1>6. turned = {} /\ turned = {} \cap Live(savestate(d))
  BY DEF Init
<1>7. PageOK(drawing, turned)
  BY <1>4, <1>5, <1>6
<1>8. ListsOK(drawing, place, stretch, event_state, inside_action)
  BY DEF Init, ListsOK
<1>9. ModesOK
  <2>1. edits = 0 /\ 0 \in 0 .. MaxEdits
    BY BoundsAssumption DEF Init
  <2> QED BY <2>1 DEF Init, ModesOK
<1> QED BY <1>7, <1>8, <1>9 DEF Inv

-----------------------------------------------------------------------------
(* Steps                                                                     *)

\* An edit that leaves the modes what they may be.
LEMMA ModesEdited ==
  ASSUME Inv, Edit, event_state' \in {"SELECT", "NET", "MOVE"}, inside_action' \in BOOLEAN,
         rubber' = rubber \/ rubber' = ~rubber
  PROVE  ModesOK'
<1>1. ModesOK /\ MaxEdits \in Nat
  BY BoundsAssumption DEF Inv
<1>2. edits' \in 0 .. MaxEdits
  <2>1. edits \in 0 .. MaxEdits
    BY <1>1 DEF ModesOK
  <2> QED BY <1>1, <2>1 DEF Edit
<1>3. rubber' \in BOOLEAN
  <2>1. rubber \in BOOLEAN
    BY <1>1 DEF ModesOK
  <2> QED BY <2>1
<1> QED BY <1>2, <1>3 DEF ModesOK

\* Giving an action up changes nothing on the page.
LEMMA EscapeStep ==
  ASSUME Inv, Escape
  PROVE  Inv' /\ drawing' = drawing
<1>1. drawing' = drawing
  <2>1. CASE inside_action
    BY <2>1 DEF Escape
  <2>2. CASE ~inside_action
    <3>1. place = <<>>
      BY <2>2 DEF Inv, ListsOK
    <3> QED BY <2>2, <3>1, NothingDeleted DEF Escape
  <2> QED BY <2>1, <2>2
<1>2. stretch' = <<>> /\ place' = <<>>
  BY DEF Inv, ListsOK, Escape
<1>3. event_state' = "SELECT" /\ inside_action' = FALSE /\ rubber' = rubber /\ turned' = turned /\ edits' = edits
  BY DEF Escape
<1>4. PageOK(drawing', turned')
  BY <1>1, <1>3 DEF Inv
<1>5. ListsOK(drawing', place', stretch', event_state', inside_action')
  BY <1>2, <1>3 DEF ListsOK
<1>6. ModesOK'
  BY <1>3 DEF Inv, ModesOK
<1> QED BY <1>1, <1>4, <1>5, <1>6 DEF Inv

\* Outside of a move another selection does not matter.
LEMMA OtherSelection ==
  ASSUME NEW d, NEW T, PageOK(d, T), NEW e, Sane(e, T, T), Live(e) = Live(d), e.ob = d.ob
  PROVE  PageOK(e, T)
BY DEF PageOK, EndsIn

\* A click, and a selection box.
LEMMA SelectStep ==
  ASSUME Inv, NEW a \in Live(drawing), Click(a) \/ SelectAlso(a) \/ Deselect(a)
  PROVE  Inv'
<1>1. Idle /\ UNCHANGED <<place, stretch, event_state, inside_action, rubber, turned, edits>>
  BY DEF Click, SelectAlso, Deselect
<1>2. PageOK(drawing, turned) /\ Sane(drawing, turned, turned)
  BY DEF Inv, PageOK
<1>3. PageOK(drawing', turned)
  <2>1. CASE Click(a)
    <3> DEFINE s == <<a>>
               e == [drawing EXCEPT !.selection = s]
    <3>1. a \in Nat
      <4>1. drawing.page \in Seq(Nat) /\ ToSet(drawing.page) = Live(drawing)
        BY <1>2 DEF Sane, Good
      <4> QED BY <4>1, Listed
    <3>2. s \in Seq(Nat) /\ IsInjective(s) /\ ToSet(s) \subseteq Live(drawing)
      BY <3>1 DEF IsInjective, ToSet
    <3>3. drawing' = e
      BY <2>1 DEF Click
    <3> HIDE DEF s
    <3>4. /\ Sane(e, turned, turned)
          /\ Live(e) = Live(drawing) /\ e.ob = drawing.ob
      BY <1>2, <3>2, Reselected
    <3> HIDE DEF e
    <3> QED BY <1>2, <3>3, <3>4, OtherSelection
  <2>2. CASE SelectAlso(a)
    <3> DEFINE e == o_selection_add(drawing, a)
    <3>1. Sane(e, turned, turned) /\ Live(e) = Live(drawing) /\ e.ob = drawing.ob
      BY <1>2, SelectionAdded
    <3>2. drawing' = e
      BY <2>2 DEF SelectAlso
    <3> HIDE DEF e
    <3> QED BY <1>2, <3>1, <3>2, OtherSelection
  <2>3. CASE Deselect(a)
    <3> DEFINE e == o_selection_remove(drawing, a)
    <3>1. Sane(e, turned, turned) /\ Live(e) = Live(drawing) /\ e.ob = drawing.ob
      BY <1>2, SelectionRemoved
    <3>2. drawing' = e
      BY <2>3 DEF Deselect
    <3> HIDE DEF e
    <3> QED BY <1>2, <3>1, <3>2, OtherSelection
  <2> QED BY <2>1, <2>2, <2>3
<1>4. ListsOK(drawing', place', stretch', event_state', inside_action')
  BY <1>1 DEF Inv, ListsOK, Idle
<1>5. ModesOK'
  BY <1>1 DEF Inv, ModesOK
<1> QED BY <1>1, <1>3, <1>4, <1>5 DEF Inv

\* Leaving for a mode leaves no list behind.
LEMMA LeaveStep ==
  ASSUME Inv, NEW state \in {"SELECT", "NET", "MOVE"}, Leave(state)
  PROVE  /\ \A d : ListsOK(d, place', stretch', event_state', inside_action')
         /\ event_state' \in {"SELECT", "NET", "MOVE"} /\ inside_action' \in BOOLEAN
<1>1. place' = <<>> /\ stretch' = <<>> /\ event_state' = state /\ inside_action' = FALSE
  BY CleanedIs DEF Leave
<1> QED BY <1>1 DEF ListsOK

\* Selecting nothing, and selecting all.
LEMMA SelectAllStep ==
  ASSUME Inv, edit_deselect \/ edit_select_all
  PROVE  Inv'
<1>1. Leave("SELECT") /\ UNCHANGED <<rubber, turned, edits>>
  BY DEF edit_deselect, edit_select_all
<1>2. PageOK(drawing, turned) /\ Sane(drawing, turned, turned) /\ Cleaned.d = drawing
  BY CleanedIs DEF Inv, PageOK
<1>3. ASSUME NEW s \in Seq(Nat), IsInjective(s), ToSet(s) \subseteq Live(drawing),
             drawing' = [drawing EXCEPT !.selection = s]
      PROVE  PageOK(drawing', turned)
  <2> DEFINE e == [drawing EXCEPT !.selection = s]
  <2>1. /\ Sane(e, turned, turned)
        /\ Live(e) = Live(drawing) /\ e.ob = drawing.ob
    BY <1>2, <1>3, Reselected
  <2>2. drawing' = e
    BY <1>3
  <2> HIDE DEF e
  <2> QED BY <1>2, <2>1, <2>2, OtherSelection
<1>4. PageOK(drawing', turned)
  <2>1. CASE edit_deselect
    <3>1. drawing' = [drawing EXCEPT !.selection = <<>>]
      BY <1>2, <2>1 DEF edit_deselect
    <3>2. <<>> \in Seq(Nat) /\ IsInjective(<<>>) /\ ToSet(<<>>) \subseteq Live(drawing)
      BY EmptyListed
    <3> QED BY <1>3, <3>1, <3>2
  <2>2. CASE edit_select_all
    <3> DEFINE X == {a \in Live(drawing) : drawing.ob[a].selectable}
               all == Filtered(drawing.page, X)
    <3>1. drawing' = [drawing EXCEPT !.selection = all]
      BY <1>2, <2>2 DEF edit_select_all
    <3> HIDE DEF X
    <3>2. drawing.page \in Seq(Nat) /\ IsInjective(drawing.page) /\ ToSet(drawing.page) = Live(drawing)
      BY <1>2 DEF Sane, Good
    <3>3. all \in Seq(Nat) /\ ToSet(all) = ToSet(drawing.page) \cap X /\ IsInjective(all)
      BY <3>2, FilteredListed
    <3> HIDE DEF all
    <3> QED BY <1>3, <3>1, <3>2, <3>3
  <2> QED BY <2>1, <2>2
<1>5. /\ ListsOK(drawing', place', stretch', event_state', inside_action')
      /\ event_state' \in {"SELECT", "NET", "MOVE"} /\ inside_action' \in BOOLEAN
  BY <1>1, LeaveStep
<1>6. ModesOK'
  BY <1>1, <1>5 DEF Inv, ModesOK
<1> QED BY <1>1, <1>4, <1>5, <1>6 DEF Inv

\* Beginning to draw a net, and drawing one.
LEMMA NetStep ==
  ASSUME Inv, add_net \/ \E route \in Routes : NetEnd(route[1], route[2], route[3])
  PROVE  Inv'
<1>1. PageOK(drawing, turned) /\ Sane(drawing, turned, turned)
      /\ Cleaned.d = drawing /\ Cleaned.place = <<>> /\ Cleaned.stretch = <<>>
  BY CleanedIs DEF Inv, PageOK
<1>2. CASE add_net
  <2>1. /\ drawing' = drawing /\ place' = <<>> /\ stretch' = <<>>
        /\ event_state' = "NET" /\ inside_action' = TRUE
        /\ UNCHANGED <<rubber, turned, edits>>
    BY <1>1, <1>2 DEF add_net
  <2>2. PageOK(drawing', turned')
    BY <1>1, <2>1
  <2>3. ListsOK(drawing', place', stretch', event_state', inside_action')
    BY <2>1 DEF ListsOK
  <2>4. ModesOK'
    BY <2>1 DEF Inv, ModesOK
  <2> QED BY <2>2, <2>3, <2>4 DEF Inv
<1>3. CASE \E route \in Routes : NetEnd(route[1], route[2], route[3])
  <2>1. PICK route \in Routes : NetEnd(route[1], route[2], route[3])
    BY <1>3
  <2>2. route[1] \in Plane /\ route[2] \in Plane /\ route[3] \in Plane
    BY PointsAssumption
  <2> DEFINE d == WithRoute(drawing, route[1], route[2], route[3])
  <2>3. /\ event_state = "NET" /\ Edit /\ Within(d) /\ drawing' = savestate(d)
        /\ turned' = turned \cap Live(drawing')
        /\ UNCHANGED <<place, stretch, event_state, inside_action, rubber>>
    BY <2>1 DEF NetEnd
  <2>4. Sane(d, turned, turned)
    BY <1>1, <2>2, Routed
  <2> HIDE DEF d
  <2>5. EndsIn(d)
    BY <2>3 DEF Within, EndsIn
  <2>6. PageOK(savestate(d), turned \cap Live(savestate(d)))
    BY <2>4, <2>5, Saved
  <2>7. PageOK(drawing', turned')
    BY <2>3, <2>6
  <2>8. ListsOK(drawing', place', stretch', event_state', inside_action')
    BY <2>3 DEF Inv, ListsOK
  <2>9. ModesOK'
    <3>1. event_state' \in {"SELECT", "NET", "MOVE"} /\ inside_action' \in BOOLEAN
      BY <2>3 DEF Inv, ModesOK
    <3> QED BY <2>3, <3>1, ModesEdited
  <2> QED BY <2>7, <2>8, <2>9 DEF Inv
<1> QED BY <1>2, <1>3

\* A move begins.
LEMMA MoveStartStep ==
  ASSUME Inv, MoveStart
  PROVE  Inv'
<1> DEFINE m == IF rubber THEN o_move_prep_rubberband(drawing)
                ELSE [d |-> drawing, stretch |-> <<>>]
<1>1. PageOK(drawing, turned) /\ Sane(drawing, turned, turned)
  BY DEF Inv, PageOK
<1>2. /\ event_state' = "MOVE" /\ Within(m.d)
      /\ drawing' = s_delete_object_glist(m.d, <<>>)
      /\ place' = Selection /\ stretch' = m.stretch /\ inside_action' = TRUE
      /\ UNCHANGED <<rubber, turned, edits>>
  <2>1. Cleaned.d = drawing /\ Cleaned.place = <<>> /\ Cleaned.stretch = <<>>
    BY CleanedIs
  <2> QED BY <2>1 DEF MoveStart
<1>3. Sane(m.d, turned, turned) /\ Stretching(m.stretch, m.d) /\ Keeps(m.d, drawing)
  <2>1. CASE rubber
    <3> DEFINE n == o_move_prep_rubberband(drawing)
    <3>1. Sane(n.d, turned, turned) /\ Stretching(n.stretch, n.d) /\ Keeps(n.d, drawing)
      BY <1>1, Prepared
    <3>2. m = n
      BY <2>1
    <3> HIDE DEF n, m
    <3> QED BY <3>1, <3>2
  <2>2. CASE ~rubber
    <3>1. m.d = drawing /\ m.stretch = <<>>
      BY <2>2
    <3> HIDE DEF m
    <3>2. Stretching(<<>>, drawing) /\ Keeps(drawing, drawing)
      BY DEF Stretching, Keeps
    <3> QED BY <1>1, <3>1, <3>2
  <2> QED BY <2>1, <2>2
<1> HIDE DEF m
<1>4. drawing' = m.d
  BY <1>2, NothingDeleted
<1>5. EndsIn(m.d) /\ turned \subseteq Live(m.d)
  BY <1>1, <1>2, <1>3 DEF Within, EndsIn, PageOK, Keeps
<1>6. PageOK(m.d, turned)
  BY <1>3, <1>5 DEF PageOK
<1>7. PageOK(drawing', turned')
  BY <1>2, <1>4, <1>6
<1>8. place' = m.d.selection
  BY <1>2, <1>3 DEF Selection, Keeps
<1>9. ListsOK(m.d, place', stretch', event_state', inside_action')
  BY <1>2, <1>3, <1>8 DEF ListsOK
<1>10. ListsOK(drawing', place', stretch', event_state', inside_action')
  BY <1>4, <1>9
<1>11. ModesOK'
  BY <1>2 DEF Inv, ModesOK
<1> QED BY <1>7, <1>10, <1>11 DEF Inv

\* A move ends.
LEMMA MoveEndStep ==
  ASSUME Inv, NEW delta \in Deltas, MoveEnd(delta)
  PROVE  Inv'
<1>1. PageOK(drawing, turned) /\ Sane(drawing, turned, turned)
      /\ place = Selection /\ Stretching(stretch, drawing) /\ place # <<>>
  BY DEF Inv, PageOK, ListsOK, Selection, MoveEnd, Moving
<1>2. /\ event_state' = "SELECT" /\ inside_action' = FALSE
      /\ UNCHANGED rubber /\ Edit /\ Within(Moved(delta))
      /\ drawing' = savestate(Moved(delta))
      /\ place' = <<>> /\ stretch' = <<>>
      /\ turned' = (turned \ ToSet(Selection)) \cap Live(drawing')
  BY <1>1 DEF MoveEnd
<1>3. delta \in Plane
  BY PointsAssumption
<1>4. PICK s : s = Selection
  OBVIOUS
<1>5. s \in Seq(Nat) /\ ToSet(s) \subseteq Live(drawing)
  BY <1>1, <1>4 DEF Sane, Good, Selection
<1> DEFINE f == IF rubber THEN WithStretched(drawing, stretch, delta) ELSE drawing
           T == turned \ ToSet(s)
<1>6. Sane(f, turned, turned) /\ ToSet(s) \subseteq Live(f)
  <2>1. CASE rubber
    <3> DEFINE e == WithStretched(drawing, stretch, delta)
    <3>1. Sane(e, turned, turned) /\ ToSet(drawing.selection) \subseteq Live(e)
          /\ Live(e) \subseteq Live(drawing)
      BY <1>1, <1>3, AllStretched
    <3>2. f = e
      BY <2>1
    <3> HIDE DEF e, f
    <3> QED BY <1>4, <3>1, <3>2 DEF Selection
  <2>2. CASE ~rubber
    <3>1. f = drawing
      BY <2>2
    <3> HIDE DEF f
    <3> QED BY <1>1, <1>5, <3>1
  <2> QED BY <2>1, <2>2
<1>7. Moved(delta) = WithMoved(f, s, delta)
  BY <1>4 DEF Moved
<1> HIDE DEF f
<1>8. Sane(Moved(delta), T, T)
  <2>1. Sane(WithMoved(f, s, delta), turned \ ToSet(s), turned \ ToSet(s))
    BY <1>3, <1>5, <1>6, AllMoved
  <2> QED BY <1>7, <2>1
<1>9. EndsIn(Moved(delta))
  BY <1>2 DEF Within, EndsIn
<1> HIDE DEF T
<1>10. PageOK(savestate(Moved(delta)), T \cap Live(savestate(Moved(delta))))
  BY <1>8, <1>9, Saved
<1>11. turned' = T \cap Live(drawing')
  BY <1>2, <1>4 DEF T
<1>12. PageOK(drawing', turned')
  BY <1>2, <1>10, <1>11
<1>13. ListsOK(drawing', place', stretch', event_state', inside_action')
  BY <1>2 DEF ListsOK
<1>14. ModesOK'
  <2>1. event_state' \in {"SELECT", "NET", "MOVE"} /\ inside_action' \in BOOLEAN
    BY <1>2 DEF Inv, ModesOK
  <2> QED BY <1>2, <2>1, ModesEdited
<1> QED BY <1>12, <1>13, <1>14 DEF Inv

\* The points of all connections are in reach when nothing sticks out.
LEMMA AnchorsIn ==
  ASSUME NEW d, NEW C, NEW S, Sane(d, C, S), EndsIn(d)
  PROVE  AtPoints(d)
<1>1. Good(d) /\ Anchored(d) /\ IsConns(d.conns, Live(d))
  BY DEF Sane, Good
<1>2. ASSUME NEW u \in Live(d), NEW v, NEW p, NEW t, Told(d.conns, u, v, p, t)
      PROVE  p \in Points
  <2>1. v \in Live(d)
    BY <1>1, <1>2, ToldTyped
  <2>2. p \in Points \cup ToSet(d.ob[u].ends) \cup ToSet(d.ob[v].ends)
    BY <1>1, <1>2 DEF Anchored
  <2> QED BY <2>1, <2>2 DEF EndsIn
<1> QED BY <1>2 DEF AtPoints

\* What is being moved is turned.
LEMMA TurnPlaceStep ==
  ASSUME Inv, NEW center \in Centers, NEW how, TurnPlace(center, how)
  PROVE  Inv'
<1>1. /\ PageOK(drawing, turned) /\ Sane(drawing, turned, turned) /\ EndsIn(drawing)
      /\ place = Selection /\ Stretching(stretch, drawing)
      /\ inside_action /\ event_state = "MOVE"
  BY DEF Inv, PageOK, ListsOK, Selection, TurnPlace
<1> DEFINE e == Turned(drawing, place, center, how)
           T == turned \cup ToSet(place)
<1>2. /\ Edit /\ drawing' = e /\ Within(e) /\ turned' = T
      /\ UNCHANGED <<place, stretch, event_state, inside_action, rubber>>
  BY DEF TurnPlace
<1>3. center \in Plane
  BY PointsAssumption
<1>4. AtPoints(drawing)
  BY <1>1, AnchorsIn
<1>5. ToSet(place) \subseteq Live(drawing) /\ T \subseteq Live(drawing) /\ ToSet(place) \subseteq T
  BY <1>1 DEF PageOK, Sane, Good, Selection
<1>6. Sane(drawing, T, T)
  <2>1. \A a \in Live(drawing) : a \in turned => a \in T
    OBVIOUS
  <2> HIDE DEF T
  <2> QED BY <1>1, <2>1, SaneLooser
<1> HIDE DEF T
<1>7. /\ Sane(e, T, T)
      /\ Live(e) = Live(drawing) /\ e.page = drawing.page /\ e.selection = drawing.selection
      /\ \A u \in Live(drawing) : IsNet(e.ob[u]) = IsNet(drawing.ob[u])
  <2>1. \A a \in ToSet(place) : a \in T \/ Alone(drawing, a)
    BY <1>5
  <2> QED BY <1>3, <1>4, <1>5, <1>6, <2>1, ListTurned
<1> HIDE DEF e
<1>8. EndsIn(e)
  BY <1>2 DEF Within, EndsIn
<1>9. PageOK(e, T)
  BY <1>5, <1>7, <1>8 DEF PageOK
<1>10. PageOK(drawing', turned')
  BY <1>2, <1>9
<1>11. Stretching(stretch, e) /\ place = e.selection
  BY <1>1, <1>7 DEF Stretching, Selection
<1>12. ListsOK(e, place, stretch, event_state, inside_action)
  BY <1>1, <1>11 DEF ListsOK
<1>13. ListsOK(drawing', place', stretch', event_state', inside_action')
  BY <1>2, <1>12
<1>14. ModesOK'
  <2>1. event_state' \in {"SELECT", "NET", "MOVE"} /\ inside_action' \in BOOLEAN
    BY <1>2 DEF Inv, ModesOK
  <2> QED BY <1>2, <2>1, ModesEdited
<1> QED BY <1>10, <1>13, <1>14 DEF Inv

\* What is selected is turned.
LEMMA TurnSelectionStep ==
  ASSUME Inv, NEW center \in Centers, NEW how, TurnSelection(center, how)
  PROVE  Inv'
<1>1. /\ PageOK(drawing, turned) /\ Sane(drawing, turned, turned)
      /\ Cleaned.d = drawing /\ Cleaned.place = <<>> /\ Cleaned.stretch = <<>>
  BY CleanedIs DEF Inv, PageOK
<1>2. PICK s : s = Selection
  OBVIOUS
<1>3. s \in Seq(Nat) /\ ToSet(s) \subseteq Live(drawing)
  BY <1>1, <1>2 DEF Sane, Good, Selection
<1> DEFINE apart == FoldLeft(s_conn_remove_object_connections, drawing, s)
           there == Turned(apart, s, center, how)
           e == FoldLeft(s_conn_update_object, there, s)
           T == turned \ ToSet(s)
<1>4. /\ Edit /\ Within(there) /\ drawing' = savestate(e)
      /\ turned' = T \cap Live(drawing')
      /\ place' = <<>> /\ stretch' = <<>>
      /\ event_state' = IF inside_action THEN "SELECT" ELSE event_state
      /\ inside_action' = FALSE /\ rubber' = rubber
  BY <1>1, <1>2 DEF TurnSelection
<1>5. center \in Plane
  BY PointsAssumption
<1> HIDE DEF T
<1>6. /\ Sane(apart, turned \cup ToSet(s), turned \ ToSet(s)) /\ \A a \in ToSet(s) : Alone(apart, a)
      /\ apart.page = drawing.page /\ apart.ob = drawing.ob /\ apart.selection = drawing.selection
  BY <1>1, <1>3, AllDisconnected
<1> HIDE DEF apart
<1>7. Sane(apart, turned \cup ToSet(s), T) /\ Live(apart) = Live(drawing)
  BY <1>6 DEF T, Live
<1>8. /\ Sane(there, turned \cup ToSet(s), T)
      /\ Live(there) = Live(apart)
  <2>1. ToSet(s) \subseteq turned \cup ToSet(s)
    OBVIOUS
  <2>2. \A a \in ToSet(s) : a \in T \/ Alone(apart, a)
    BY <1>6
  <2>3. /\ Sane(there, turned \cup ToSet(s), T)
        /\ Live(there) = Live(apart) /\ there.page = apart.page /\ there.selection = apart.selection
        /\ \A u \in Live(apart) : IsNet(there.ob[u]) = IsNet(apart.ob[u])
    BY <1>5, <1>6, <1>7, <2>1, <2>2, ListTurned
  <2> QED BY <2>3
<1> HIDE DEF there
<1>9. ToSet(s) \subseteq Live(there)
  BY <1>3, <1>7, <1>8
<1>10. /\ Sane(e, (turned \cup ToSet(s)) \ ToSet(s), T)
       /\ e.page = there.page /\ e.ob = there.ob /\ e.selection = there.selection
  BY <1>3, <1>8, <1>9, AllUpdated
<1> HIDE DEF e
<1>11. Sane(e, T, T)
  <2>1. \A a \in Live(e) : a \in (turned \cup ToSet(s)) \ ToSet(s) => a \in T
    BY DEF T
  <2> QED BY <1>10, <2>1, SaneLooser
<1>12. EndsIn(e)
  BY <1>4, <1>10 DEF Within, EndsIn, Live
<1>13. PageOK(savestate(e), T \cap Live(savestate(e)))
  BY <1>11, <1>12, Saved
<1>14. PageOK(drawing', turned')
  BY <1>4, <1>13
<1>15. ListsOK(drawing', place', stretch', event_state', inside_action')
  BY <1>4 DEF ListsOK
<1>16. ModesOK'
  <2>1. event_state' \in {"SELECT", "NET", "MOVE"} /\ inside_action' \in BOOLEAN
    BY <1>4 DEF Inv, ModesOK
  <2> QED BY <1>4, <2>1, ModesEdited
<1> QED BY <1>14, <1>15, <1>16 DEF Inv

\* What is selected is deleted.
LEMMA DeleteStep ==
  ASSUME Inv, edit_delete
  PROVE  Inv'
<1>1. /\ PageOK(drawing, turned) /\ Sane(drawing, turned, turned) /\ EndsIn(drawing)
      /\ Cleaned.d = drawing
  BY CleanedIs DEF Inv, PageOK
<1> DEFINE d == drawing
           X == {a \in Live(d) : d.ob[a].selectable}
           unlocked == Filtered(d.selection, X)
<1>2. /\ Edit /\ Leave("SELECT") /\ rubber' = rubber
      /\ turned' = turned \cap Live(drawing')
      /\ \/ drawing' = savestate(FoldLeft(o_delete, d, d.selection))
         \/ drawing' = savestate(FoldLeft(o_delete, d, unlocked))
         \/ drawing' = d
  BY <1>1 DEF edit_delete
<1> HIDE DEF X
<1>3. d.selection \in Seq(Nat) /\ IsInjective(d.selection) /\ ToSet(d.selection) \subseteq Live(d)
  BY <1>1 DEF Sane, Good
<1>4. unlocked \in Seq(Nat) /\ IsInjective(unlocked) /\ ToSet(unlocked) \subseteq Live(d)
  <2>1. /\ unlocked \in Seq(Nat) /\ ToSet(unlocked) = ToSet(d.selection) \cap X
        /\ IsInjective(d.selection) => IsInjective(unlocked)
    BY <1>3, FilteredListed
  <2> QED BY <1>3, <2>1
<1> HIDE DEF unlocked
<1>5. ASSUME NEW l \in Seq(Nat), IsInjective(l), ToSet(l) \subseteq Live(d)
      PROVE  LET y == savestate(FoldLeft(o_delete, d, l)) IN PageOK(y, turned \cap Live(y))
  <2> DEFINE x == FoldLeft(o_delete, d, l)
  <2>1. Tidy(x, d, turned, turned)
    BY <1>1, <1>5, AllDeleted
  <2> HIDE DEF x
  <2>2. Sane(x, turned, turned) /\ EndsIn(x)
    BY <2>1 DEF Tidy
  <2>3. PageOK(savestate(x), turned \cap Live(savestate(x)))
    BY <2>2, Saved
  <2> QED BY <2>3 DEF x
<1>6. PageOK(drawing', turned')
  <2>1. CASE drawing' = savestate(FoldLeft(o_delete, d, d.selection))
    BY <1>2, <1>3, <1>5, <2>1
  <2>2. CASE drawing' = savestate(FoldLeft(o_delete, d, unlocked))
    BY <1>2, <1>4, <1>5, <2>2
  <2>3. CASE drawing' = d
    <3>1. turned' = turned
      BY <1>1, <1>2, <2>3 DEF PageOK
    <3> QED BY <1>1, <2>3, <3>1
  <2> QED BY <1>2, <2>1, <2>2, <2>3
<1>7. /\ ListsOK(drawing', place', stretch', event_state', inside_action')
      /\ event_state' \in {"SELECT", "NET", "MOVE"} /\ inside_action' \in BOOLEAN
  BY <1>2, LeaveStep
<1>8. ModesOK'
  BY <1>2, <1>7, ModesEdited
<1> QED BY <1>6, <1>7, <1>8 DEF Inv

\* Outside of a move objects are locked and unlocked.
LEMMA LockStep ==
  ASSUME Inv, "lock" \notin DuringMove, edit_unlock \/ \E shift \in BOOLEAN : edit_lock(shift)
  PROVE  Inv'
<1>1. PageOK(drawing, turned) /\ Sane(drawing, turned, turned) /\ EndsIn(drawing)
  BY DEF Inv, PageOK
<1>2. /\ Edit /\ turned' = turned \cap Live(drawing')
      /\ UNCHANGED <<place, stretch, event_state, inside_action, rubber>>
      /\ ~(inside_action /\ event_state = "MOVE")
  BY DEF edit_lock, edit_unlock, LockAllowed
<1> DEFINE locked == SetSelectable(drawing, FALSE)
           unlocked == SetSelectable(drawing, TRUE)
           none == [locked EXCEPT !.selection = <<>>]
<1>3. \E x : /\ x = unlocked \/ x = locked \/ x = none
             /\ drawing' = savestate(x) \/ drawing' = x
  BY DEF edit_lock, edit_unlock
<1>4. PICK x : /\ x = unlocked \/ x = locked \/ x = none
               /\ drawing' = savestate(x) \/ drawing' = x
  BY <1>3
<1>5. /\ Sane(locked, turned, turned) /\ Live(locked) = Live(drawing)
      /\ \A u \in Live(drawing) : SameShape(locked.ob[u], drawing.ob[u])
  <2>1. /\ Sane(locked, turned, turned)
        /\ Live(locked) = Live(drawing) /\ locked.page = drawing.page /\ locked.selection = drawing.selection
        /\ \A u \in Live(drawing) : SameShape(locked.ob[u], drawing.ob[u])
    BY <1>1, LocksSet
  <2> QED BY <2>1
<1>6. /\ Sane(unlocked, turned, turned) /\ Live(unlocked) = Live(drawing)
      /\ \A u \in Live(drawing) : SameShape(unlocked.ob[u], drawing.ob[u])
  <2>1. /\ Sane(unlocked, turned, turned)
        /\ Live(unlocked) = Live(drawing) /\ unlocked.page = drawing.page /\ unlocked.selection = drawing.selection
        /\ \A u \in Live(drawing) : SameShape(unlocked.ob[u], drawing.ob[u])
    BY <1>1, LocksSet
  <2> QED BY <2>1
<1> HIDE DEF locked, unlocked
<1>7. Sane(none, turned, turned) /\ Live(none) = Live(locked) /\ none.ob = locked.ob
  <2>1. <<>> \in Seq(Nat) /\ IsInjective(<<>>) /\ ToSet(<<>>) \subseteq Live(locked)
    BY EmptyListed
  <2>2. /\ Sane(none, turned, turned)
        /\ Live(none) = Live(locked) /\ none.ob = locked.ob
        /\ none.page = locked.page /\ none.conns = locked.conns /\ none.selection = <<>>
    BY <1>5, <2>1, Reselected
  <2> QED BY <2>2
<1> HIDE DEF none
<1>8. /\ Sane(x, turned, turned) /\ Live(x) = Live(drawing)
      /\ \A u \in Live(drawing) : SameShape(x.ob[u], drawing.ob[u])
  BY <1>4, <1>5, <1>6, <1>7
<1>9. EndsIn(x) /\ turned \subseteq Live(x)
  BY <1>1, <1>8 DEF EndsIn, SameShape, PageOK
<1>10. PageOK(drawing', turned')
  <2>1. CASE drawing' = savestate(x)
    <3>1. PageOK(savestate(x), turned \cap Live(savestate(x)))
      BY <1>8, <1>9, Saved
    <3> QED BY <1>2, <2>1, <3>1
  <2>2. CASE drawing' = x
    <3>1. turned' = turned
      BY <1>2, <1>9, <2>2
    <3>2. PageOK(x, turned)
      BY <1>8, <1>9 DEF PageOK
    <3> QED BY <2>2, <3>1, <3>2
  <2> QED BY <1>4, <2>1, <2>2
<1>11. ListsOK(drawing', place', stretch', event_state', inside_action')
  BY <1>2 DEF Inv, ListsOK
<1>12. ModesOK'
  <2>1. event_state' \in {"SELECT", "NET", "MOVE"} /\ inside_action' \in BOOLEAN
    BY <1>2 DEF Inv, ModesOK
  <2> QED BY <1>2, <2>1, ModesEdited
<1> QED BY <1>10, <1>11, <1>12 DEF Inv

\* The option changes nothing else.
LEMMA OptionStep ==
  ASSUME Inv, options_rubberband
  PROVE  Inv'
<1>1. Edit /\ rubber' = ~rubber
      /\ UNCHANGED <<drawing, place, stretch, event_state, inside_action, turned>>
  BY DEF options_rubberband
<1>2. ModesOK'
  <2>1. event_state' \in {"SELECT", "NET", "MOVE"} /\ inside_action' \in BOOLEAN
    BY <1>1 DEF Inv, ModesOK
  <2> QED BY <1>1, <2>1, ModesEdited
<1> QED BY <1>1, <1>2 DEF Inv

\* Every step keeps the invariant, as long as nothing is locked during a move.
LEMMA InvStep ==
  ASSUME "lock" \notin DuringMove
  PROVE  Inv /\ [Next]_vars => Inv'
<1> SUFFICES ASSUME Inv, [Next]_vars PROVE Inv'
  OBVIOUS
<1>1. CASE Escape
  BY <1>1, EscapeStep
<1>2. CASE \E a \in Live(drawing) : Click(a)
  BY <1>2, SelectStep
<1>3. CASE \E a \in Live(drawing) : SelectAlso(a)
  BY <1>3, SelectStep
<1>4. CASE \E a \in Live(drawing) : Deselect(a)
  BY <1>4, SelectStep
<1>5. CASE edit_deselect \/ edit_select_all
  BY <1>5, SelectAllStep
<1>6. CASE add_net \/ \E route \in Routes : NetEnd(route[1], route[2], route[3])
  BY <1>6, NetStep
<1>7. CASE MoveStart
  BY <1>7, MoveStartStep
<1>8. CASE \E delta \in Deltas : MoveEnd(delta)
  BY <1>8, MoveEndStep
<1>9. CASE \E center \in Centers, how \in {"rotate", "mirror"} : TurnPlace(center, how)
  BY <1>9, TurnPlaceStep
<1>10. CASE \E center \in Centers, how \in {"rotate", "mirror"} : TurnSelection(center, how)
  BY <1>10, TurnSelectionStep
<1>11. CASE edit_delete
  BY <1>11, DeleteStep
<1>12. CASE edit_unlock \/ \E shift \in BOOLEAN : edit_lock(shift)
  BY <1>12, LockStep
<1>13. CASE options_rubberband
  BY <1>13, OptionStep
<1>14. CASE UNCHANGED vars
  <2>1. /\ drawing' = drawing /\ place' = place /\ stretch' = stretch /\ event_state' = event_state
        /\ inside_action' = inside_action /\ rubber' = rubber /\ turned' = turned /\ edits' = edits
    BY <1>14 DEF vars
  <2> QED BY <2>1 DEF Inv, ModesOK
<1> QED BY <1>1, <1>2, <1>3, <1>4, <1>5, <1>6, <1>7, <1>8, <1>9, <1>10, <1>11, <1>12, <1>13, <1>14
        DEF Next

-----------------------------------------------------------------------------
(* What the invariant says                                                   *)

\* A list of connections tells just what its entries say.
LEMMA EntriesTold ==
  ASSUME NEW d, Good(d), NEW a \in Live(d), NEW c \in ToSet(d.conns[a])
  PROVE  c \in Entry(Live(d)) /\ Told(d.conns, a, c.other, c.at, c.type)
<1>1. d.conns[a] \in Seq(Entry(Live(d)))
  BY DEF Good, IsConns
<1>2. PICK i \in DOMAIN d.conns[a] : c = d.conns[a][i]
  BY DEF ToSet
<1>3. c \in Entry(Live(d))
  BY <1>1, <1>2, Listed
<1> QED BY <1>2, <1>3 DEF Told

\* The values are what they should be.
LEMMA InvTypeOK == Inv => TypeOK
<1> SUFFICES ASSUME Inv PROVE TypeOK
  OBVIOUS
<1> DEFINE d == drawing
           conn == [other : Live(d), type : {"ENDPOINT", "MIDPOINT"}, at : Points,
                    mine : 0 .. 2, theirs : 0 .. 2]
<1>1. Sane(d, turned, turned) /\ EndsIn(d) /\ turned \subseteq Live(d) /\ Good(d)
  BY DEF Inv, PageOK, Sane
<1>2. AtPoints(d)
  BY <1>1, AnchorsIn
<1>3. IsInjective(d.page) /\ ToSet(d.page) = Live(d) /\ DOMAIN d.conns = Live(d)
      /\ IsInjective(d.selection)
  BY <1>1 DEF Good, IsConns
<1>4. ASSUME NEW a \in Live(d)
      PROVE  /\ ToSet(d.conns[a]) \subseteq conn
             /\ ToSet(d.ob[a].ends) \subseteq Points
             /\ Len(d.ob[a].ends) = IF IsNet(d.ob[a]) THEN 2 ELSE 1
  <2>1. ASSUME NEW c \in ToSet(d.conns[a]) PROVE c \in conn
    <3>1. c \in Entry(Live(d)) /\ Told(d.conns, a, c.other, c.at, c.type)
      BY <1>1, <2>1, EntriesTold
    <3>2. c.at \in Points
      BY <1>2, <3>1 DEF AtPoints
    <3> QED BY <3>1, <3>2 DEF Entry, Types
  <2>2. d.ob[a] \in Things(Plane)
    BY <1>1 DEF Good
  <2>3. Len(d.ob[a].ends) = IF IsNet(d.ob[a]) THEN 2 ELSE 1
    <3> DEFINE e == d.ob[a].ends
    <3>1. e \in [1 .. 2 -> Plane] \/ e \in [1 .. 1 -> Plane]
      BY <2>2 DEF Things
    <3>2. DOMAIN e = IF IsNet(d.ob[a]) THEN 1 .. 2 ELSE 1 .. 1
      BY <2>2, ThingsAre
    <3> HIDE DEF e
    <3>3. e \in Seq(Plane)
      <4>1. CASE e \in [1 .. 2 -> Plane]
        <5>1. e = [k \in 1 .. 2 |-> e[k]] /\ \A k \in 1 .. 2 : e[k] \in Plane
          BY <4>1
        <5>2. [k \in 1 .. 2 |-> e[k]] \in Seq(Plane)
          BY <5>1
        <5> QED BY <5>1, <5>2
      <4>2. CASE e \in [1 .. 1 -> Plane]
        <5>1. e = [k \in 1 .. 1 |-> e[k]] /\ \A k \in 1 .. 1 : e[k] \in Plane
          BY <4>2
        <5>2. [k \in 1 .. 1 |-> e[k]] \in Seq(Plane)
          BY <5>1
        <5> QED BY <5>1, <5>2
      <4> QED BY <3>1, <4>1, <4>2
    <3>4. Len(e) \in Nat /\ DOMAIN e = 1 .. Len(e)
      BY <3>3, LenProperties
    <3>5. CASE IsNet(d.ob[a])
      <4>1. 1 .. Len(e) = 1 .. 2
        BY <3>2, <3>4, <3>5
      <4>2. 2 \in 1 .. Len(e) /\ Len(e) \in 1 .. Len(e)
        BY <3>4, <4>1
      <4>3. Len(e) = 2
        BY <3>4, <4>1, <4>2
      <4> QED BY <3>5, <4>3 DEF e
    <3>6. CASE ~IsNet(d.ob[a])
      <4>1. 1 .. Len(e) = 1 .. 1
        BY <3>2, <3>4, <3>6
      <4>2. 1 \in 1 .. Len(e) /\ Len(e) \in 1 .. Len(e)
        BY <3>4, <4>1
      <4>3. Len(e) = 1
        BY <3>4, <4>1, <4>2
      <4> QED BY <3>6, <4>3 DEF e
    <3> QED BY <3>5, <3>6
  <2> QED BY <1>1, <2>1, <2>3 DEF EndsIn
<1>5. IsInjective(Selection) /\ IsInjective(place) /\ \A i \in DOMAIN stretch : stretch[i].whichone \in {1, 2}
  <2>1. CASE inside_action /\ event_state = "MOVE"
    <3>1. place = d.selection /\ Stretching(stretch, d)
      BY <2>1 DEF Inv, ListsOK
    <3>2. \A i \in DOMAIN stretch : stretch[i].whichone \in {1, 2}
      <4> DEFINE T == [object : Nat, whichone : {1, 2}]
      <4>1. stretch \in Seq(T)
        BY <3>1 DEF Stretching
      <4> HIDE DEF T
      <4>2. DOMAIN stretch = 1 .. Len(stretch) /\ \A i \in 1 .. Len(stretch) : stretch[i] \in T
        BY <4>1, Listed
      <4> QED BY <4>2 DEF T
    <3> QED BY <1>3, <3>1, <3>2 DEF Selection
  <2>2. CASE ~(inside_action /\ event_state = "MOVE")
    <3>1. place = <<>> /\ stretch = <<>>
      BY <2>2 DEF Inv, ListsOK
    <3> QED BY <1>3, <3>1, EmptyListed DEF Selection
  <2> QED BY <2>1, <2>2
<1>6. ModesOK
  BY DEF Inv
<1> QED BY <1>1, <1>3, <1>4, <1>5, <1>6 DEF TypeOK, ModesOK

\* The lists name objects of the page.
LEMMA InvListsAlive == Inv => ListsAlive
<1> SUFFICES ASSUME Inv PROVE ListsAlive
  OBVIOUS
<1>1. ToSet(Selection) \subseteq Live(drawing)
  BY DEF Inv, PageOK, Sane, Good, Selection
<1>2. CASE inside_action /\ event_state = "MOVE"
  <2>1. place = Selection /\ Stretching(stretch, drawing)
    BY <1>2 DEF Inv, ListsOK, Selection
  <2>2. \A i \in DOMAIN stretch : stretch[i].object \in Live(drawing)
    BY <2>1 DEF Stretching
  <2> QED BY <1>1, <1>2, <2>1, <2>2 DEF ListsAlive, ListedObjects
<1>3. CASE ~(inside_action /\ event_state = "MOVE")
  <2>1. place = <<>> /\ stretch = <<>>
    BY <1>3 DEF Inv, ListsOK
  <2> QED BY <1>1, <1>3, <2>1, EmptyListed DEF ListsAlive, ListedObjects
<1> QED BY <1>2, <1>3

\* The connections of what was not turned in the middle of a move are known.
LEMMA InvConnectionsKnown == Inv => ConnectionsKnown
<1> SUFFICES ASSUME Inv PROVE ConnectionsKnown
  OBVIOUS
<1> DEFINE d == drawing
           steady == Live(d) \ turned
<1>1. /\ Sane(d, turned, turned) /\ Good(d) /\ Mutual(d) /\ Complete(d, turned) /\ Sound(d, turned)
  BY DEF Inv, PageOK, Sane
<1>2. ASSUME NEW a \in steady, NEW b \in steady \ {a}, NEW jk \in ToSet(Contacts(d.ob[a], d.ob[b]))
      PROVE  Told(d.conns, a, b, PointOf(d.ob[a], d.ob[b], jk), TypeOf(jk))
  <2>1. Touch(d.ob[a], d.ob[b], PointOf(d.ob[a], d.ob[b], jk), TypeOf(jk))
    BY <1>2, TouchListed
  <2> QED BY <1>1, <2>1 DEF Complete
<1>3. ASSUME NEW a \in Live(d), NEW c \in ToSet(d.conns[a])
      PROVE  /\ Told(d.conns, c.other, a, c.at, c.type)
             /\ a \in steady /\ c.other \in steady => On(d.ob[a], c.at) /\ On(d.ob[c.other], c.at)
  <2>1. c \in Entry(Live(d)) /\ Told(d.conns, a, c.other, c.at, c.type)
    BY <1>1, <1>3, EntriesTold
  <2>2. Told(d.conns, c.other, a, c.at, c.type)
    BY <1>1, <2>1 DEF Mutual
  <2>3. a \in steady /\ c.other \in steady => On(d.ob[a], c.at) /\ On(d.ob[c.other], c.at)
    BY <1>1, <2>1 DEF Sound
  <2> QED BY <2>2, <2>3
<1> HIDE DEF d, steady
<1>4. \A a \in steady : \A b \in steady \ {a} : \A jk \in ToSet(Contacts(d.ob[a], d.ob[b])) :
        Told(d.conns, a, b, PointOf(d.ob[a], d.ob[b], jk), TypeOf(jk))
  BY <1>2
<1>5. \A a \in Live(d) : \A c \in ToSet(d.conns[a]) :
        /\ Told(d.conns, c.other, a, c.at, c.type)
        /\ a \in steady /\ c.other \in steady => On(d.ob[a], c.at) /\ On(d.ob[c.other], c.at)
  BY <1>3
<1> QED BY <1>4, <1>5 DEF ConnectionsKnown, Told, d, steady

-----------------------------------------------------------------------------
(* Theorems.  Locking in the middle of a move is excepted: it empties the    *)
(* selection and merges nets while the lists of the move stay what they are. *)

\* Whatever is drawn, moved, turned and deleted: the values are of their types.
THEOREM TypeAlwaysOK ==
  ASSUME "lock" \notin DuringMove
  PROVE  Spec => []TypeOK
<1>1. Init => Inv
  BY InvStarts
<1>2. Inv /\ [Next]_vars => Inv'
  BY InvStep
<1>3. Inv => TypeOK
  BY InvTypeOK
<1> QED BY <1>1, <1>2, <1>3, PTL DEF Spec

\* The selection, the place list and the stretch list name objects of the page
\* only; outside of a move nothing is left in the lists of a move.
THEOREM ListsAlwaysAlive ==
  ASSUME "lock" \notin DuringMove
  PROVE  Spec => []ListsAlive
<1>1. Init => Inv
  BY InvStarts
<1>2. Inv /\ [Next]_vars => Inv'
  BY InvStep
<1>3. Inv => ListsAlive
  BY InvListsAlive
<1> QED BY <1>1, <1>2, <1>3, PTL DEF Spec

\* The connection lists of s_conn.c name all contacts there are on the page, each
\* on both sides, and no point that is not on both objects.
THEOREM ConnectionsAlwaysKnown ==
  ASSUME "lock" \notin DuringMove
  PROVE  Spec => []ConnectionsKnown
<1>1. Init => Inv
  BY InvStarts
<1>2. Inv /\ [Next]_vars => Inv'
  BY InvStep
<1>3. Inv => ConnectionsKnown
  BY InvConnectionsKnown
<1> QED BY <1>1, <1>2, <1>3, PTL DEF Spec

\* The Escape key takes no object from the page, whatever it gives up.
THEOREM EscapeAlwaysKeepsPage ==
  ASSUME "lock" \notin DuringMove
  PROVE  Spec => EscapeKeepsPage
<1>1. Init => Inv
  BY InvStarts
<1>2. Inv /\ [Next]_vars => Inv'
  BY InvStep
<1>3. Inv => (Escape => drawing'.page = drawing.page)
  BY EscapeStep
<1> QED BY <1>1, <1>2, <1>3, PTL DEF Spec, EscapeKeepsPage
=============================================================================
