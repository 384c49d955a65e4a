------------------------- MODULE NetlistJoined_proofs -------------------------
(***************************************************************************)
(* What the netlister is for: the nets of a page are what its drawing      *)
(* connects (DrawnTogether, at the end), and a netlist without errors      *)
(* joins exactly the pins that the design links, in any design and however *)
(* the merging came about (JoinedExactly).  No connection is lost, because each pair of     *)
(* linked local nets is in one net or still to come: as a name in "todo",  *)
(* or as a pin or port of a composite component in "visit".  There are no  *)
(* shorts, because a set of local nets that is closed under the links has  *)
(* all local nets of a net, or none; so each step only has to be checked   *)
(* for the two nets it makes one.                                          *)
(*                                                                         *)
(* JoinInv says so phase by phase; it is inductive together with RunInv    *)
(* and ResultInv.                                                          *)
(***************************************************************************)
EXTENDS Netlist_proofs

-----------------------------------------------------------------------------
(* Sets of local nets that links keep together *)

\* A set of local nets that is closed under the links has all of M or nothing.
Inseparable(M) ==
  \A T \in SUBSET DOMAIN net_of :
    Respects(T, LinkedNets) => M \subseteq T \/ M \cap T = {}

\* The local nets of a net, and those with a name that leads to it.
OnNet(n) == {ln \in DOMAIN net_of : net_of[ln] = n}

NamedFor(n) == {ln \in DOMAIN net_of : \E k \in KeysOf(ln) \cap DOMAIN net_dict : net_dict[k] = n}

LEMMA PartInseparable ==
  ASSUME NEW M, NEW N, Inseparable(N), M \subseteq N
  PROVE  Inseparable(M)
BY DEF Inseparable

LEMMA SharedInseparable ==
  ASSUME NEW M, NEW N, Inseparable(M), Inseparable(N), NEW a \in M, a \in N
  PROVE  Inseparable(M \cup N)
BY DEF Inseparable

LEMMA LinkedInseparable ==
  ASSUME NEW M, NEW N, Inseparable(M), Inseparable(N),
         NEW a \in M, NEW b \in N, <<a, b>> \in LinkedNets
  PROVE  Inseparable(M \cup N)
<1> SUFFICES ASSUME NEW T \in SUBSET DOMAIN net_of, Respects(T, LinkedNets)
             PROVE  M \cup N \subseteq T \/ (M \cup N) \cap T = {}
  BY DEF Inseparable
<1>1. a \in T <=> b \in T
  BY DEF Respects
<1>2. (M \subseteq T \/ M \cap T = {}) /\ (N \subseteq T \/ N \cap T = {})
  BY DEF Inseparable
<1> QED BY <1>1, <1>2

LEMMA OneInseparable == ASSUME NEW ln PROVE Inseparable({ln})
BY DEF Inseparable

\* What links local nets.
LEMMA LinkedByName ==
  ASSUME NEW a \in DOMAIN net_of, NEW b \in DOMAIN net_of, NEW k \in KeysOf(a), k \in KeysOf(b)
  PROVE  <<a, b>> \in LinkedNets
<1> DEFINE named == UNION {{<<ln, x>> : x \in KeysOf(ln)} : ln \in DOMAIN net_of}
           z == <<<<a, k>>, <<b, k>>>>
           two == {x \in named \X named : x[1][2] = x[2][2]}
<1>1. <<a, k>> \in named /\ <<b, k>> \in named
  OBVIOUS
<1> HIDE DEF named
<1>2. z \in two
  BY <1>1
<1>3. <<z[1][1], z[2][1]>> = <<a, b>>
  OBVIOUS
<1>4. <<a, b>> \in {<<ab[1][1], ab[2][1]>> : ab \in two}
  <2> HIDE DEF two, z
  <2> QED BY <1>2, <1>3
<1> QED BY <1>4 DEF LinkedNets, named

LEMMA LinkedAbove ==
  ASSUME NEW p \in DOMAIN local_net, NEW q \in DOMAIN local_net, Above(p, q)
  PROVE  <<local_net[p], local_net[q]>> \in LinkedNets
<1> DEFINE above == {pq \in (DOMAIN local_net) \X (DOMAIN local_net) : Above(pq[1], pq[2])}
           z == <<p, q>>
<1>1. z \in above /\ z[1] = p /\ z[2] = q
  OBVIOUS
<1>2. <<local_net[p], local_net[q]>> \in {<<local_net[pq[1]], local_net[pq[2]]>> : pq \in above}
  <2> HIDE DEF above, z
  <2> QED BY <1>1
<1> QED BY <1>2 DEF LinkedNets, above

LEMMA LinkedOnly ==
  ASSUME NEW ab \in LinkedNets
  PROVE  \/ /\ ab[1] \in DOMAIN net_of /\ ab[2] \in DOMAIN net_of
            /\ KeysOf(ab[1]) \cap KeysOf(ab[2]) # {}
         \/ \E p, q \in DOMAIN local_net :
              Above(p, q) /\ ab[1] = local_net[p] /\ ab[2] = local_net[q]
<1> DEFINE named == UNION {{<<ln, x>> : x \in KeysOf(ln)} : ln \in DOMAIN net_of}
           two == {x \in named \X named : x[1][2] = x[2][2]}
           above == {pq \in (DOMAIN local_net) \X (DOMAIN local_net) : Above(pq[1], pq[2])}
<1>1. \A x \in named : x[1] \in DOMAIN net_of /\ x[2] \in KeysOf(x[1])
  OBVIOUS
<1>2. \/ \E x \in two : ab = <<x[1][1], x[2][1]>>
      \/ \E pq \in above : ab = <<local_net[pq[1]], local_net[pq[2]]>>
  BY DEF LinkedNets
<1> HIDE DEF named
<1>3. CASE \E x \in two : ab = <<x[1][1], x[2][1]>>
  <2>1. PICK x \in two : ab = <<x[1][1], x[2][1]>>
    BY <1>3
  <2>2. x[1] \in named /\ x[2] \in named /\ x[1][2] = x[2][2] /\ ab[1] = x[1][1] /\ ab[2] = x[2][1]
    BY <2>1
  <2>3. x[1][2] \in KeysOf(ab[1]) \cap KeysOf(ab[2])
    BY <1>1, <2>2
  <2> QED BY <1>1, <2>2, <2>3
<1>4. CASE \E pq \in above : ab = <<local_net[pq[1]], local_net[pq[2]]>>
  <2>1. PICK pq \in above : ab = <<local_net[pq[1]], local_net[pq[2]]>>
    BY <1>4
  <2>2. /\ pq[1] \in DOMAIN local_net /\ pq[2] \in DOMAIN local_net /\ Above(pq[1], pq[2])
        /\ ab[1] = local_net[pq[1]] /\ ab[2] = local_net[pq[2]]
    BY <2>1
  <2> QED BY <2>2
<1> QED BY <1>2, <1>3, <1>4

LEMMA SameLinks ==
  ASSUME UNCHANGED <<design, page_of, local_net>>, DOMAIN net_of' = DOMAIN net_of
  PROVE  /\ \A ln : KeysOf(ln)' = KeysOf(ln)
         /\ \A p, q : Above(p, q)' = Above(p, q)
         /\ LinkedNets' = LinkedNets
         /\ \A M : Inseparable(M)' = Inseparable(M)
<1>1. \A ln : KeysOf(ln)' = KeysOf(ln)
  BY DEF KeysOf, Key, Page
<1>2. \A c : Object(c)' = Object(c)
  BY SameObject
<1>3. \A p, q : Above(p, q)' = Above(p, q)
  BY <1>2 DEF Above
<1>4. LinkedNets' = LinkedNets
  BY <1>1, <1>3 DEF LinkedNets
<1>5. \A M : Inseparable(M)' = Inseparable(M)
  BY <1>4 DEF Inseparable
<1> QED BY <1>1, <1>3, <1>4, <1>5

-----------------------------------------------------------------------------
(* Joining local nets by name *)

\* The names still to be looked at for a local net.
ToCome(ln) == IF ln \in DOMAIN todo THEN {KeyFor(ln, w) : w \in ToSet(todo[ln])} ELSE {}

\* Names looked at lead to the net of each local net that has them, and what
\* is on a net or has a name that leads to it is linked.
NamingInv ==
  /\ \A ln \in DOMAIN net_of : ToCome(ln) \subseteq KeysOf(ln)
  /\ \A ln \in DOMAIN net_of : \A k \in KeysOf(ln) \ ToCome(ln) :
       k \in DOMAIN net_dict /\ net_dict[k] = net_of[ln]
  /\ \A n \in 1 .. Len(net) : Inseparable(OnNet(n) \cup NamedFor(n))

NamedTogether ==
  \A a, b \in DOMAIN net_of :
    KeysOf(a) \cap KeysOf(b) # {} => net_of[a] = net_of[b] /\ net_of[a] # 0

NoShorts == \A n \in 1 .. Len(net) : Inseparable(OnNet(n))

LEMMA NameLocalNetJoin ==
  ASSUME RunInv, NEW ln \in DOMAIN todo, NameLocalNet(ln), NamingInv
  PROVE  NamingInv'
<1> DEFINE key  == KeyFor(ln, Head(todo[ln]))
           Old(n) == OnNet(n) \cup NamedFor(n)
<1>1. PICK b, dst : NameJoins(ln, key, b, dst)
  BY NameLocalNetRun
<1> DEFINE known   == key \in DOMAIN net_dict
           joining == {net_of[ln], b} \ {0}
           Named   == {m \in DOMAIN net_of : key \in KeysOf(m)}
           Big     == (UNION {Old(n) : n \in joining}) \cup Named
<1>2. /\ b = IF known THEN net_dict[key] ELSE Len(net) + 1
      /\ Len(net') = IF known THEN Len(net) ELSE b
      /\ dst \in joining
      /\ net_of' = [m \in DOMAIN net_of |-> IF m = ln \/ net_of[m] \in joining THEN dst ELSE net_of[m]]
      /\ net_dict' = [k \in DOMAIN net_dict \cup {key} |->
                        IF k = key \/ net_dict[k] \in joining THEN dst ELSE net_dict[k]]
  BY <1>1 DEF NameJoins
<1>3. /\ pc = "name" /\ UNCHANGED <<design, page_of, local_net>>
      /\ todo' = IF Len(todo[ln]) = 1 THEN Restrict(todo, DOMAIN todo \ {ln})
                 ELSE [todo EXCEPT ![ln] = Tail(@)]
  BY DEF NameLocalNet, static
<1>4. /\ Len(net) \in Nat /\ ln \in DOMAIN net_of
      /\ \A m \in DOMAIN net_of : net_of[m] \in 0 .. Len(net)
      /\ \A k \in DOMAIN net_dict : net_dict[k] \in 1 .. Len(net)
      /\ IsWanted(todo[ln]) /\ todo[ln] # <<>>
  BY <1>3 DEF RunInv, NetlistInv, NamesInv, Agrees, IsNetList
<1>5. \A m : KeysOf(m)' = KeysOf(m) /\ (Inseparable(m)' = Inseparable(m))
  BY <1>2, <1>3, SameLinks
<1>6. /\ key \in ToCome(ln)
      /\ \A m : ToCome(m)' \subseteq ToCome(m)
      /\ \A m : ToCome(m) \subseteq ToCome(m)' \cup (IF m = ln THEN {key} ELSE {})
  <2> DEFINE t == todo[ln]
  <2>1. /\ Len(t) \in Nat /\ t \in Seq(ToSet(t)) /\ Len(t) # 0
        /\ ToSet(t) = {t[i] : i \in 1 .. Len(t)} /\ Head(t) = t[1]
    BY <1>4 DEF IsWanted, IsList, ToSet
  <2> HIDE DEF t
  <2>2. Head(t) \in ToSet(t)
    BY <2>1
  <2>3. Len(t) # 1 => ToSet(Tail(t)) \subseteq ToSet(t) /\ ToSet(t) \subseteq ToSet(Tail(t)) \cup {Head(t)}
    <3> SUFFICES ASSUME Len(t) # 1
                 PROVE  ToSet(Tail(t)) \subseteq ToSet(t) /\ ToSet(t) \subseteq ToSet(Tail(t)) \cup {Head(t)}
      OBVIOUS
    <3> DEFINE u == Tail(t)
    <3>1. DOMAIN u = 1 .. Len(t) - 1 /\ \A i \in 1 .. Len(t) - 1 : u[i] = t[i + 1]
      BY <2>1
    <3> HIDE DEF u
    <3>2. \A x : x \in ToSet(u) <=> \E i \in 1 .. Len(t) - 1 : x = t[i + 1]
      BY <3>1 DEF ToSet
    <3>3. ASSUME NEW i \in 1 .. Len(t), i # 1 PROVE i - 1 \in 1 .. Len(t) - 1 /\ t[(i - 1) + 1] = t[i]
      BY <2>1, <3>3
    <3>4. ASSUME NEW x \in ToSet(u) PROVE x \in ToSet(t)
      <4>1. PICK i \in 1 .. Len(t) - 1 : x = t[i + 1]
        BY <3>2
      <4>2. i + 1 \in 1 .. Len(t)
        BY <2>1
      <4> QED BY <2>1, <4>1, <4>2
    <3>5. ASSUME NEW x \in ToSet(t), x # Head(t) PROVE x \in ToSet(u)
      <4>1. PICK i \in 1 .. Len(t) : x = t[i]
        BY <2>1
      <4> QED BY <2>1, <3>2, <3>3, <3>5, <4>1
    <3> QED BY <3>4, <3>5 DEF u
  <2>4. Len(t) = 1 => ToSet(t) = {Head(t)}
    BY <2>1
  <2>5. /\ DOMAIN todo' \subseteq DOMAIN todo
        /\ \A m \in DOMAIN todo : m # ln => m \in DOMAIN todo' /\ todo'[m] = todo[m]
        /\ IF Len(t) = 1 THEN ln \notin DOMAIN todo' ELSE ln \in DOMAIN todo' /\ todo'[ln] = Tail(t)
    BY <1>3 DEF Restrict, t
  <2>6. \A m, w : KeyFor(m, w)' = KeyFor(m, w)
    BY <1>3 DEF KeyFor, Key
  <2>7. ToCome(ln) = {KeyFor(ln, w) : w \in ToSet(t)} /\ key = KeyFor(ln, Head(t))
    BY DEF ToCome, t
  <2>8. ToCome(ln)' = IF Len(t) = 1 THEN {} ELSE {KeyFor(ln, w) : w \in ToSet(Tail(t))}
    <3>1. CASE Len(t) = 1
      BY <2>5, <3>1 DEF ToCome
    <3>2. CASE Len(t) # 1
      <4>1. ln \in DOMAIN todo' /\ todo'[ln] = Tail(t)
        BY <2>5, <3>2
      <4> QED BY <2>6, <3>2, <4>1 DEF ToCome
    <3> QED BY <3>1, <3>2
  <2>9. ASSUME NEW m, m # ln PROVE ToCome(m)' = ToCome(m)
    <3>1. m \in DOMAIN todo' <=> m \in DOMAIN todo
      BY <2>5, <2>9
    <3>2. m \in DOMAIN todo => todo'[m] = todo[m]
      BY <2>5, <2>9
    <3>3. CASE m \in DOMAIN todo
      BY <2>6, <3>1, <3>2, <3>3 DEF ToCome
    <3>4. CASE m \notin DOMAIN todo
      BY <3>1, <3>4 DEF ToCome
    <3> QED BY <3>3, <3>4
  <2>10. ToCome(ln)' \subseteq ToCome(ln) /\ ToCome(ln) \subseteq ToCome(ln)' \cup {key}
    <3>1. CASE Len(t) = 1
      BY <2>4, <2>7, <2>8, <3>1
    <3>2. CASE Len(t) # 1
      BY <2>3, <2>7, <2>8, <3>2
    <3> QED BY <3>1, <3>2
  <2> QED BY <2>2, <2>7, <2>9, <2>10
<1> HIDE DEF key
<1>7. \A m \in DOMAIN net_of' : ToCome(m)' \subseteq KeysOf(m)'
  BY <1>2, <1>5, <1>6 DEF NamingInv
<1>8. key \in KeysOf(ln) /\ ln \in Named
  BY <1>4, <1>6 DEF NamingInv
<1>9. ASSUME NEW m \in DOMAIN net_of', NEW k \in KeysOf(m)' \ ToCome(m)'
      PROVE  k \in DOMAIN net_dict' /\ net_dict'[k] = net_of'[m]
  <2>1. m \in DOMAIN net_of /\ k \in KeysOf(m)
    BY <1>2, <1>5
  <2>2. CASE k \in KeysOf(m) \ ToCome(m)
    <3>1. k \in DOMAIN net_dict /\ net_dict[k] = net_of[m]
      BY <2>1, <2>2 DEF NamingInv
    <3>2. k = key => net_of[m] \in joining
      BY <1>2, <1>4, <3>1
    <3>3. m = ln => net_dict[k] \in joining
      BY <1>4, <3>1
    <3> QED BY <1>2, <2>1, <3>1, <3>2, <3>3
  <2>3. CASE k \in ToCome(m)
    <3>1. m = ln /\ k = key
      BY <1>6, <2>3
    <3> QED BY <1>2, <2>1, <3>1
  <2> QED BY <2>1, <2>2, <2>3
<1>10. \A n : n \in 1 .. Len(net) => Inseparable(Old(n))
  BY DEF NamingInv
<1>11. Inseparable(Named)
  <2> SUFFICES ASSUME NEW T \in SUBSET DOMAIN net_of, Respects(T, LinkedNets)
               PROVE  Named \subseteq T \/ Named \cap T = {}
    BY DEF Inseparable
  <2>1. ASSUME NEW x \in Named, NEW y \in Named PROVE x \in T <=> y \in T
    <3>1. <<x, y>> \in LinkedNets
      BY LinkedByName
    <3> QED BY <3>1 DEF Respects
  <2> QED BY <2>1
<1>12. ASSUME NEW n \in joining
       PROVE  Inseparable(Old(n) \cup Named)
  <2>1. CASE n = net_of[ln]
    <3>1. ln \in Old(n) /\ n \in 1 .. Len(net)
      BY <1>4, <2>1 DEF OnNet
    <3>2. Inseparable(Old(n))
      BY <1>10, <3>1
    <3> HIDE DEF Named, Old
    <3> QED BY <1>8, <1>11, <3>1, <3>2, SharedInseparable
  <2>2. CASE n = b /\ known
    <3>1. n \in 1 .. Len(net) /\ Named \subseteq Old(n)
      BY <1>2, <1>4, <2>2 DEF NamedFor
    <3>2. Inseparable(Old(n))
      BY <1>10, <3>1
    <3>3. Old(n) \cup Named = Old(n)
      BY <3>1
    <3> QED BY <3>2, <3>3
  <2>3. CASE n = b /\ ~known
    <3>1. Old(n) = {}
      BY <1>2, <1>4, <2>3 DEF OnNet, NamedFor
    <3> QED BY <1>11, <3>1
  <2> QED BY <2>1, <2>2, <2>3
<1>13. Inseparable(Big)
  <2> SUFFICES ASSUME NEW T \in SUBSET DOMAIN net_of, Respects(T, LinkedNets)
               PROVE  Big \subseteq T \/ Big \cap T = {}
    BY DEF Inseparable
  <2>1. \A n \in joining : Old(n) \cup Named \subseteq T \/ (Old(n) \cup Named) \cap T = {}
    BY <1>12 DEF Inseparable
  <2>2. \A x \in Big : \E n \in joining : x \in Old(n) \cup Named
    BY <1>2
  <2> HIDE DEF Old, joining, Named, Big
  <2>3. CASE ln \in T
    <3>1. \A n \in joining : Old(n) \cup Named \subseteq T
      BY <1>8, <2>1, <2>3
    <3> QED BY <2>2, <3>1
  <2>4. CASE ln \notin T
    <3>1. \A n \in joining : (Old(n) \cup Named) \cap T = {}
      BY <1>8, <2>1, <2>4
    <3> QED BY <2>2, <3>1
  <2> QED BY <2>3, <2>4
<1>14. ASSUME NEW n \in 1 .. Len(net')
       PROVE  Inseparable(OnNet(n)' \cup NamedFor(n)')
  <2>0. ASSUME NEW m \in DOMAIN net_of, net_of[m] \in joining PROVE m \in Big
    <3>1. m \in Old(net_of[m])
      BY DEF OnNet
    <3> QED BY <2>0, <3>1
  <2>1. CASE n = dst
    <3>1. OnNet(n)' \subseteq Big
      <4> HIDE DEF Big, joining
      <4>1. ln \in Big
        BY <1>8 DEF Big
      <4> QED BY <1>2, <2>0, <2>1, <4>1 DEF OnNet
    <3>2. NamedFor(n)' \subseteq Big
      <4> SUFFICES ASSUME NEW m \in DOMAIN net_of', NEW k \in KeysOf(m)' \cap DOMAIN net_dict', net_dict'[k] = n
                   PROVE  m \in Big
        BY DEF NamedFor
      <4>1. m \in DOMAIN net_of /\ k \in KeysOf(m)
        BY <1>2, <1>5
      <4>2. k # key => k \in DOMAIN net_dict /\ net_dict[k] \in joining
        BY <1>2, <2>1
      <4>3. CASE k = key
        BY <4>1, <4>3
      <4>4. CASE k # key
        <5>1. m \in NamedFor(net_dict[k]) /\ net_dict[k] \in joining
          BY <4>1, <4>2, <4>4 DEF NamedFor
        <5> HIDE DEF joining
        <5> QED BY <5>1
      <4> QED BY <4>3, <4>4
    <3> HIDE DEF Big
    <3> QED BY <1>13, <3>1, <3>2, PartInseparable
  <2>2. CASE n # dst
    <3>1. OnNet(n)' \subseteq Old(n) /\ NamedFor(n)' \subseteq Old(n)
      <4>1. OnNet(n)' \subseteq OnNet(n)
        BY <1>2, <2>2 DEF OnNet
      <4>2. NamedFor(n)' \subseteq NamedFor(n)
        <5> SUFFICES ASSUME NEW m \in DOMAIN net_of', NEW k \in KeysOf(m)' \cap DOMAIN net_dict', net_dict'[k] = n
                     PROVE  m \in NamedFor(n)
          BY DEF NamedFor
        <5>1. m \in DOMAIN net_of /\ k \in KeysOf(m)
          BY <1>2, <1>5
        <5>2. k # key /\ k \in DOMAIN net_dict /\ net_dict[k] = n
          BY <1>2, <2>2
        <5> QED BY <5>1, <5>2 DEF NamedFor
      <4> QED BY <4>1, <4>2
    <3>2. n \in 1 .. Len(net) \/ OnNet(n)' \cup NamedFor(n)' = {}
      <4>1. CASE known
        BY <1>2, <4>1
      <4>2. CASE ~known /\ n \notin 1 .. Len(net)
        <5>1. Old(n) = {}
          BY <1>4, <4>2 DEF OnNet, NamedFor
        <5> QED BY <3>1, <5>1
      <4> QED BY <4>1, <4>2
    <3>3. Inseparable({})
      BY DEF Inseparable
    <3> HIDE DEF Old
    <3> QED BY <1>10, <3>1, <3>2, <3>3, PartInseparable
  <2> QED BY <2>1, <2>2
<1>15. \A n \in 1 .. Len(net') : Inseparable(OnNet(n) \cup NamedFor(n))'
  BY <1>5, <1>14
<1> QED BY <1>7, <1>9, <1>15 DEF NamingInv

-----------------------------------------------------------------------------
(* The invariant *)

\* Pins p and q, with p below the component of q, are still to be joined.
Pending(p, q) ==
  /\ q[1] \in ToSet(visit.composites)
  /\ visit.begun /\ q[1] = Composite =>
       q \in ToSet(visit.pins) \/ (p[1] \in ToSet(visit.ports) /\ visit.dest = NetOf(q))

AboveInv(late) ==
  \A p, q \in DOMAIN local_net : Above(p, q) => NetOf(p) = NetOf(q) \/ (~late /\ Pending(p, q))

\* A composite component comes before those below it, so that all components
\* on its sheets are still there when it is begun.
OrderInv ==
  /\ InOrder(visit.composites, Lower(page_of))
  /\ \A c \in visit.removed : IsComposite(c) =>
       \A d \in ToSet(visit.composites) : <<c, d>> \notin Lower(page_of)
  /\ visit.begun => visit.candidates = {c \in ToSet(components) : ComponentAbove(c) = Composite}
  /\ visit.ports # <<>> =>
       \E q \in DOMAIN local_net :
         /\ q[1] = Composite /\ NetOf(q) = visit.dest /\ Label(Object(q[1]), q[2]) # None
         /\ \A c \in ToSet(visit.ports) : PortLabel(Object(c)) = Label(Object(q[1]), q[2])

Named == {"number", "hierarchy", "package", "drop", "done"}

JoinParts ==
  /\ pc = "name" => NamingInv
  /\ pc \in {"name", "number"} => InOrder(components, Lower(page_of))
  /\ pc \in Named => NamedTogether /\ NoShorts
  /\ pc \in Named \ {"number"} => \A p \in DOMAIN local_net : NetOf(p) # 0
  /\ pc = "hierarchy" => OrderInv /\ AboveInv(FALSE)
  /\ pc \in {"package", "drop", "done"} => AboveInv(TRUE)

JoinInv ==
  /\ IsFiniteSet(DOMAIN net_of)
  /\ failed \/ pc \in {"crashed", "read", "instantiate"} \/ JoinParts

\* What depends on nothing but the nets of the local nets.
LEMMA SameNets ==
  ASSUME UNCHANGED <<design, page_of, local_net, net_of>>, Len(net') = Len(net)
  PROVE  /\ NamedTogether => NamedTogether'
         /\ NoShorts => NoShorts'
         /\ \A p : NetOf(p)' = NetOf(p)
         /\ AboveInv(TRUE) => AboveInv(TRUE)'
<1>1. /\ \A ln : KeysOf(ln)' = KeysOf(ln)
      /\ \A p, q : Above(p, q)' = Above(p, q)
      /\ \A M : Inseparable(M)' = Inseparable(M)
  BY SameLinks
<1>2. \A p : NetOf(p)' = NetOf(p)
  BY DEF NetOf
<1>3. NamedTogether => NamedTogether'
  BY <1>1 DEF NamedTogether
<1>4. \A n : OnNet(n)' = OnNet(n)
  BY DEF OnNet
<1>5. NoShorts => NoShorts'
  BY <1>1, <1>4 DEF NoShorts
<1>6. AboveInv(TRUE) => AboveInv(TRUE)'
  BY <1>1, <1>2 DEF AboveInv
<1> QED BY <1>2, <1>3, <1>5, <1>6

LEMMA SameLower ==
  ASSUME UNCHANGED <<design, page_of>>
  PROVE  Lower(page_of)' = Lower(page_of)
BY DEF Lower, AllComponents, ComponentsOn

\* The names of a local net are those yet to be looked at.
LEMMA InstantiateJoin ==
  ASSUME RunInv, Instantiate
  PROVE  IsFiniteSet(DOMAIN net_of') /\ (pc' = "crashed" \/ JoinParts')
<1> DEFINE lns == UNION {{<<s, V>> : V \in PageNets(page_of'[s])} : s \in DOMAIN page_of'}
           wanted(ln) == Wanted(Page(page_of'[ln[1]]), ln[2])
<1>1. /\ pc = "instantiate" /\ pc' \in {"name", "crashed"}
      /\ UNCHANGED <<design, drawn, net>>
      /\ page_of' = Sheets /\ components' = Collected(page_of')
      /\ DOMAIN net_of' = lns
      /\ todo' = [ln \in {m \in lns : wanted(m) # <<>>} |-> wanted(ln)]
  BY DEF Instantiate
<1>2. /\ design \in Designs /\ net = <<>>
      /\ \A f \in Files : drawn[f] = Nets(Page(f))
  BY <1>1 DEF RunInv, NetlistInv, ShapeInv
<1>3. page_of' \in SheetMaps /\ IsFiniteSet(DOMAIN page_of')
  BY <1>1, <1>2, SheetsTyped
<1>4. IsFiniteSet(DOMAIN net_of')
  BY <1>1, <1>2, <1>3, LocalNetsFinite
<1>5. ASSUME NEW ln \in lns PROVE ToCome(ln)' = KeysOf(ln)'
  <2>0. PICK l : l = wanted(ln)
    OBVIOUS
  <2>1. KeysOf(ln)' = {KeyFor(ln, l[n])' : n \in DOMAIN l}
    BY <1>1, <2>0 DEF KeysOf, KeyFor, Key, Page
  <2>2. CASE l # <<>>
    <3>1. ln \in DOMAIN todo' /\ todo'[ln] = l
      BY <1>1, <2>0, <2>2
    <3>2. \A w : w \in ToSet(l) <=> \E n \in DOMAIN l : w = l[n]
      BY DEF ToSet
    <3>3. ToCome(ln)' = {KeyFor(ln, w)' : w \in ToSet(l)}
      BY <3>1 DEF ToCome
    <3> QED BY <2>1, <3>2, <3>3
  <2>3. CASE l = <<>>
    <3>1. ln \notin DOMAIN todo' /\ DOMAIN l = {}
      <4>1. wanted(ln) = <<>>
        BY <2>0, <2>3
      <4>2. DOMAIN l = {}
        BY <2>3
      <4> HIDE DEF wanted, lns
      <4> QED BY <1>1, <4>1, <4>2
    <3> QED BY <2>1, <3>1 DEF ToCome
  <2> QED BY <2>2, <2>3
<1>6. NamingInv'
  <2>1. 1 .. Len(net') = {}
    BY <1>1, <1>2
  <2> HIDE DEF lns
  <2> QED BY <1>1, <1>5, <2>1 DEF NamingInv
<1>7. InOrder(components', Lower(page_of)')
  <2>1. InOrder(Collected(Sheets), Lower(Sheets))
    BY <1>2, CollectedListed
  <2>2. Lower(page_of)' = Lower(page_of')
    BY <1>1 DEF Lower, AllComponents, ComponentsOn
  <2>3. Lower(page_of') = Lower(Sheets) /\ components' = Collected(Sheets)
    BY <1>1
  <2> QED BY <2>1, <2>2, <2>3
<1>8. pc' = "name" => JoinParts'
  BY <1>6, <1>7 DEF JoinParts, Named
<1> QED BY <1>1, <1>4, <1>8

LEMMA NameLocalNetParts ==
  ASSUME RunInv, NEW ln \in DOMAIN todo, NameLocalNet(ln), JoinParts
  PROVE  JoinParts'
<1>1. pc = "name" /\ pc' = "name" /\ UNCHANGED <<design, page_of, components>>
  BY NameLocalNetRun DEF NameLocalNet, static, partvars
<1>2. NamingInv'
  BY <1>1, NameLocalNetJoin DEF JoinParts
<1>3. InOrder(components', Lower(page_of)')
  BY <1>1, SameLower DEF JoinParts
<1> QED BY <1>1, <1>2, <1>3 DEF JoinParts, Named

\* When all names have been looked at, local nets with a name in common are in
\* one net.
LEMMA ChooseNamesJoin ==
  ASSUME RunInv, ChooseNames, JoinParts
  PROVE  JoinParts'
<1>1. /\ pc = "name" /\ pc' = "number" /\ todo = <<>>
      /\ UNCHANGED <<design, page_of, local_net, net_of, components>>
  BY ChooseNamesRun DEF ChooseNames, static, partvars
<1>2. NamingInv /\ Agrees(net, net_of) /\ \A k \in DOMAIN net_dict : net_dict[k] \in 1 .. Len(net)
  BY <1>1 DEF JoinParts, RunInv, NetlistInv
<1>3. \A ln : ToCome(ln) = {}
  BY <1>1 DEF ToCome
<1>4. NamedTogether
  <2> SUFFICES ASSUME NEW a \in DOMAIN net_of, NEW b \in DOMAIN net_of, NEW k \in KeysOf(a) \cap KeysOf(b)
               PROVE  net_of[a] = net_of[b] /\ net_of[a] # 0
    BY DEF NamedTogether
  <2> QED BY <1>2, <1>3 DEF NamingInv
<1>5. NoShorts
  <2>1. \A n \in 1 .. Len(net) : OnNet(n) \subseteq OnNet(n) \cup NamedFor(n)
    OBVIOUS
  <2> QED BY <1>2, <2>1, PartInseparable DEF NamingInv, NoShorts
<1>6. Len(net') = Len(net)
  <2>1. /\ IsNetList(net)
        /\ net' = [i \in DOMAIN net |-> net'[i]]
    BY <1>1, <1>2 DEF ChooseNames, Agrees
  <2>2. Len(net) \in Nat /\ net' = [i \in 1 .. Len(net) |-> net'[i]]
    BY <2>1 DEF IsNetList
  <2> QED BY <2>2, ListLength
<1>7. NamedTogether' /\ NoShorts'
  BY <1>1, <1>4, <1>5, <1>6, SameNets
<1>8. InOrder(components', Lower(page_of)')
  BY <1>1, SameLower DEF JoinParts
<1> QED BY <1>1, <1>7, <1>8 DEF JoinParts, Named

\* A local net that is numbered has no name.
LEMMA NumberNetJoin ==
  ASSUME RunInv, NumberNet, JoinParts
  PROVE  JoinParts' /\ DOMAIN net_of' = DOMAIN net_of
<1>1. /\ pc = "number" /\ pc' = "number"
      /\ UNCHANGED <<design, page_of, cpins, local_net, components>>
  BY DEF NumberNet, static, partvars
<1>2. PICK first \in Unnamed : \E r :
        /\ net' = Append(net, r)
        /\ net_of' = [net_of EXCEPT ![local_net[cpins[first]]] = Len(net) + 1]
  BY DEF NumberNet
<1> DEFINE ln == local_net[cpins[first]]
           b  == Len(net) + 1
<1>3. PICK r : net' = Append(net, r) /\ net_of' = [net_of EXCEPT ![ln] = b]
  BY <1>2
<1>4. Agrees(net, net_of) /\ Len(net) \in Nat /\ \A m \in DOMAIN net_of : net_of[m] \in 0 .. Len(net)
  BY DEF RunInv, NetlistInv, Agrees, IsNetList
<1>5. ln \in DOMAIN net_of /\ net_of[ln] = 0
  BY <1>1 DEF RunInv, NetlistInv, PinsKnown, Unnamed
<1> HIDE DEF ln
<1>6. DOMAIN net_of' = DOMAIN net_of /\ net_of'[ln] = b
      /\ \A m \in DOMAIN net_of : m # ln => net_of'[m] = net_of[m]
  BY <1>3, <1>5
<1>7. Len(net') = b
  <2>1. net = [i \in 1 .. Len(net) |-> net[i]]
    BY <1>4 DEF Agrees, IsNetList
  <2>2. Append(net, r) = [i \in 1 .. b |-> IF i = b THEN r ELSE net[i]]
    BY <1>4, <2>1, AppendedNet
  <2>3. b \in Nat /\ net' = [i \in 1 .. b |-> net'[i]]
    BY <1>3, <1>4, <2>2
  <2> HIDE DEF b
  <2> QED BY <2>3, ListLength
<1>8. /\ \A m : KeysOf(m)' = KeysOf(m)
      /\ \A M : Inseparable(M)' = Inseparable(M)
  BY <1>1, <1>6, SameLinks
<1>9. NamedTogether /\ NoShorts
  BY <1>1 DEF JoinParts, Named
<1>10. NamedTogether'
  <2> SUFFICES ASSUME NEW x \in DOMAIN net_of, NEW y \in DOMAIN net_of, KeysOf(x) \cap KeysOf(y) # {}
               PROVE  net_of'[x] = net_of'[y] /\ net_of'[x] # 0
    BY <1>6, <1>8 DEF NamedTogether
  <2>1. net_of[x] = net_of[y] /\ net_of[x] # 0
    BY <1>9 DEF NamedTogether
  <2> QED BY <1>5, <1>6, <2>1
<1>11. ASSUME NEW n \in 1 .. Len(net') PROVE Inseparable(OnNet(n)')
  <2>1. CASE n = b
    <3>1. OnNet(n)' \subseteq {ln}
      BY <1>4, <1>6, <2>1 DEF OnNet
    <3>2. Inseparable({ln})
      BY OneInseparable
    <3> QED BY <3>1, <3>2, PartInseparable
  <2>2. CASE n # b
    <3>1. OnNet(n)' \subseteq OnNet(n) /\ n \in 1 .. Len(net)
      BY <1>4, <1>6, <1>7, <2>2 DEF OnNet
    <3> QED BY <1>9, <3>1, PartInseparable DEF NoShorts
  <2> QED BY <2>1, <2>2
<1>12. NoShorts'
  BY <1>8, <1>11 DEF NoShorts
<1>13. InOrder(components', Lower(page_of)')
  BY <1>1, SameLower DEF JoinParts
<1> QED BY <1>1, <1>6, <1>10, <1>12, <1>13 DEF JoinParts, Named

\* All pins below composite components are to come.
LEMMA CollectPinsJoin ==
  ASSUME RunInv, ResultParts, CollectPins, NetlistInv', JoinParts
  PROVE  JoinParts'
<1>1. /\ pc = "number" /\ pc' = "hierarchy" /\ Len(net') = Len(net)
      /\ UNCHANGED <<design, page_of, local_net, net_of, components>>
  BY CollectPinsRun DEF CollectPins, static
<1>2. NamedTogether' /\ NoShorts'
  BY <1>1, SameNets DEF JoinParts, Named
<1>3. \A p \in DOMAIN local_net' : NetOf(p)' # 0
  BY <1>1 DEF NetlistInv, HierarchyInv
<1>4. visit = NotBegun /\ PartsInv /\ components \in Seq(ToSet(components))
      /\ DOMAIN local_net = ToSet(cpins)
  <2>1. DOMAIN local_net = {cpins[i] : i \in DOMAIN cpins}
    BY <1>1 DEF RunInv, NetlistInv, PinsKnown
  <2> QED BY <1>1, <2>1, SameLists DEF RunInv, NetlistInv, ResultParts, ToSet
<1>5. visit' = [NotBegun EXCEPT !.composites = Composites]
  <2>1. visit' = [visit EXCEPT !.composites = Composites] \/ pc' = "crashed"
    BY DEF CollectPins
  <2> QED BY <1>1, <1>4, <2>1
<1>6. /\ visit'.composites = Composites /\ visit'.begun = FALSE
      /\ visit'.ports = <<>> /\ visit'.removed = {}
  BY <1>5 DEF NotBegun
<1>7. InOrder(Composites, Lower(page_of)) /\ ToSet(Composites) = {c \in ToSet(components) : IsComposite(c)}
  <2> DEFINE S == {c \in ToSet(components) : composite_sources(Object(c)) # <<>>}
             T == ToSet(components)
             R == Lower(page_of)
  <2>1. InOrder(components, R) /\ Composites = Filtered(components, S) /\ components \in Seq(T)
    BY <1>1, <1>4 DEF JoinParts, Composites
  <2>2. S = {c \in ToSet(components) : IsComposite(c)} /\ S = T \cap S
    BY DEF IsComposite
  <2> HIDE DEF S, T, R
  <2>3. InOrder(Filtered(components, S), R)
    BY <2>1, FilteredInOrder
  <2>4. ToSet(Filtered(components, S)) = ToSet(components) \cap S
    BY <2>1, FilteredListed
  <2> QED BY <2>1, <2>2, <2>3, <2>4 DEF R, T
<1>8. OrderInv'
  BY <1>1, <1>6, <1>7, SameLower DEF OrderInv
<1>9. AboveInv(FALSE)'
  <2> SUFFICES ASSUME NEW p \in DOMAIN local_net, NEW q \in DOMAIN local_net, Above(p, q)
               PROVE  Pending(p, q)'
    <3>1. \A p, q : Above(p, q)' = Above(p, q)
      BY <1>1, SameLinks
    <3> QED BY <1>1, <3>1 DEF AboveInv
  <2>1. q[1] \in ToSet(components)
    BY <1>4 DEF PartsInv
  <2>2. IsComposite(q[1])
    BY DEF Above, IsComposite
  <2> QED BY <1>6, <1>7, <2>1, <2>2 DEF Pending
<1> QED BY <1>1, <1>2, <1>3, <1>8, <1>9 DEF JoinParts, Named

-----------------------------------------------------------------------------
(* Resolving the hierarchy *)

LEMMA HeadFirst ==
  ASSUME NEW s, IsList(s), s # <<>>, NEW R, InOrder(s, R)
  PROVE  InOrder(Tail(s), R) /\ \A d \in ToSet(Tail(s)) : <<Head(s), d>> \notin R
<1> DEFINE t == Tail(s)
<1>1. /\ Len(s) \in Nat /\ Len(s) # 0 /\ DOMAIN s = 1 .. Len(s) /\ Head(s) = s[1]
      /\ DOMAIN t = 1 .. Len(s) - 1 /\ \A i \in 1 .. Len(s) - 1 : t[i] = s[i + 1]
  <2>1. s \in Seq(ToSet(s)) /\ Len(s) \in Nat /\ DOMAIN s = 1 .. Len(s)
    BY Listed DEF IsList
  <2> QED BY <2>1
<1> HIDE DEF t
<1>2. \A i, j \in 1 .. Len(s) : i < j => <<s[i], s[j]>> \notin R
  BY <1>1 DEF InOrder
<1>3. ASSUME NEW i \in 1 .. Len(s) - 1, NEW j \in 1 .. Len(s) - 1, i < j
      PROVE  <<t[i], t[j]>> \notin R
  <2>1. i + 1 \in 1 .. Len(s) /\ j + 1 \in 1 .. Len(s) /\ i + 1 < j + 1
    BY <1>1, <1>3
  <2>2. <<s[i + 1], s[j + 1]>> \notin R
    BY <1>2, <2>1
  <2> QED BY <1>1, <2>2
<1>4. ASSUME NEW d \in ToSet(t) PROVE <<Head(s), d>> \notin R
  <2>1. PICK i \in 1 .. Len(s) - 1 : d = t[i]
    BY <1>1 DEF ToSet
  <2>2. 1 \in 1 .. Len(s) /\ i + 1 \in 1 .. Len(s) /\ 1 < i + 1
    BY <1>1
  <2>3. <<s[1], s[i + 1]>> \notin R
    BY <1>2, <2>2
  <2> QED BY <1>1, <2>1, <2>3
<1>5. InOrder(t, R)
  BY <1>1, <1>3 DEF InOrder
<1> QED BY <1>4, <1>5 DEF t

\* What is on a subsheet of a component is below it.
LEMMA BelowIsLower ==
  ASSUME RunInv, PartsInv, NEW c \in AllComponents(page_of), NEW d \in AllComponents(page_of),
         ComponentAbove(c) = d
  PROVE  <<c, d>> \in Lower(page_of) /\ SheetOf(c) \in SubsheetsOf(d)
<1>1. design \in Designs /\ page_of \in SheetMaps
  BY DEF RunInv, ShapeInv, PartsInv
<1>2. PICK s \in DOMAIN page_of : c \in ComponentsOn(page_of, s)
  BY DEF AllComponents
<1>3. PICK t \in DOMAIN page_of : d \in ComponentsOn(page_of, t)
  BY DEF AllComponents
<1>4. /\ s \in Seq(Nat) /\ c \in Seq(Nat) /\ Len(c) = Len(s) + 1 /\ c = Append(s, Last(c))
      /\ SheetOf(c) = s
  BY <1>1, <1>2, ComponentAt DEF Paths
<1>5. t \in Seq(Nat) /\ d \in Seq(Nat) /\ Len(d) = Len(t) + 1
  BY <1>1, <1>3, ComponentAt DEF Paths
<1>6. d = IF Len(s) = 1 THEN <<>> ELSE Front(s)
  BY <1>4 DEF ComponentAbove, Instantiating
<1>7. Len(s) \in Nat /\ Len(c) \in Nat /\ Len(t) \in Nat /\ Len(d) \in Nat
  BY <1>4, <1>5
<1>8. d # <<>>
  BY <1>5, <1>7
<1>9. Len(s) # 1 /\ d = SubSeq(s, 1, Len(s) - 1)
  BY <1>6, <1>8 DEF Front
<1>10. Len(s) # 0
  <2>1. Len(s) = 0 => SubSeq(s, 1, Len(s) - 1) = <<>>
    BY <1>4
  <2> QED BY <1>8, <1>9, <2>1
<1>11. Len(s) > 1 /\ Len(d) = Len(s) - 1 /\ \A k \in 1 .. Len(d) : d[k] = s[k]
  <2>1. Len(s) > 1
    <3>1. \A n \in Nat : n # 0 /\ n # 1 => n > 1
      OBVIOUS
    <3> QED BY <1>7, <1>9, <1>10, <3>1, Zenon
  <2> DEFINE u == SubSeq(s, 1, Len(s) - 1)
  <2>2. Len(u) = Len(s) - 1 /\ \A k \in 1 .. Len(s) - 1 : u[k] = s[k]
    BY <1>4, <2>1
  <2> QED BY <1>9, <2>1, <2>2
<1>12. \A k \in 1 .. Len(d) : c[k] = s[k]
  <2> DEFINE u == Append(s, Last(c))
  <2>1. \A k \in 1 .. Len(s) : u[k] = s[k]
    BY <1>4
  <2>2. \A k \in 1 .. Len(d) : k \in 1 .. Len(s)
    BY <1>7, <1>11
  <2> HIDE DEF u
  <2> QED BY <1>4, <2>1, <2>2 DEF u
<1>13. Under(c, d)
  BY <1>4, <1>7, <1>11, <1>12 DEF Under
<1>14. SheetOf(c) \in SubsheetsOf(d)
  BY <1>4, <1>6, <1>9, <1>11 DEF SubsheetsOf
<1>15. <<c, d>> \in AllComponents(page_of) \X AllComponents(page_of)
  OBVIOUS
<1> QED BY <1>13, <1>14, <1>15 DEF Lower

\* What JoinParts says while the hierarchy is resolved.
LEMMA JoinFacts ==
  ASSUME RunInv, ResultParts, JoinParts, pc = "hierarchy"
  PROVE  /\ PartsInv /\ VisitInv /\ NetsKept
         /\ IsVisit(visit) /\ DOMAIN local_net = ToSet(cpins)
         /\ ToSet(components) \subseteq AllComponents(page_of)
         /\ on_sheet \subseteq ToSet(components)
         /\ \A p \in DOMAIN local_net : p[1] \in ToSet(components)
         /\ NamedTogether /\ NoShorts /\ OrderInv /\ AboveInv(FALSE)
         /\ \A p \in DOMAIN local_net : NetOf(p) # 0
<1>1. /\ PartsInv /\ VisitInv /\ NetsKept
      /\ IsVisit(visit) /\ DOMAIN local_net = ToSet(cpins)
      /\ on_sheet \subseteq ToSet(components)
  BY HierarchyFacts
<1>2. ToSet(components) \subseteq AllComponents(page_of)
  <2>1. components \in Seq(AllComponents(page_of))
    BY DEF RunInv, ShapeInv
  <2> QED BY <2>1, Listed
<1>3. \A p \in DOMAIN local_net : p[1] \in ToSet(components)
  BY <1>1 DEF PartsInv
<1>4. /\ NamedTogether /\ NoShorts /\ OrderInv /\ AboveInv(FALSE)
      /\ \A p \in DOMAIN local_net : NetOf(p) # 0
  BY DEF JoinParts, Named
<1> QED BY <1>1, <1>2, <1>3, <1>4

\* All components on the sheets below are still there.
LEMMA BeginCompositeJoin ==
  ASSUME RunInv, ResultParts, BeginComposite, JoinParts
  PROVE  JoinParts'
<1>1. /\ pc = "hierarchy" /\ pc' = "hierarchy" /\ visit.composites # <<>> /\ ~visit.begun
      /\ UNCHANGED <<design, page_of, cpins, local_net, components, on_sheet, net, net_of>>
      /\ visit' = [visit EXCEPT
            !.begun = TRUE, !.pins = PinsOfComponent(Composite), !.labels = {},
            !.candidates = {c \in on_sheet : SheetOf(c) \in SubsheetsOf(Composite)}]
  BY DEF BeginComposite, static, netvars
<1>2. /\ PartsInv /\ VisitInv /\ IsVisit(visit) /\ DOMAIN local_net = ToSet(cpins)
      /\ ToSet(components) \subseteq AllComponents(page_of) /\ on_sheet \subseteq ToSet(components)
      /\ NamedTogether /\ NoShorts /\ OrderInv /\ AboveInv(FALSE)
      /\ \A p \in DOMAIN local_net : NetOf(p) # 0
  BY <1>1, JoinFacts
<1>3. /\ visit'.composites = visit.composites /\ visit'.begun = TRUE
      /\ visit'.pins = PinsOfComponent(Composite) /\ visit'.ports = visit.ports
      /\ visit'.removed = visit.removed
      /\ visit'.candidates = {c \in on_sheet : SheetOf(c) \in SubsheetsOf(Composite)}
  BY <1>1, <1>2 DEF IsVisit
<1>4. Composite' = Composite
  BY <1>3 DEF Composite
<1>5. /\ \A c : /\ Object(c)' = Object(c) /\ IsComposite(c)' = IsComposite(c)
                /\ ComponentAbove(c)' = ComponentAbove(c)
      /\ \A p : NetOf(p)' = NetOf(p)
      /\ \A p, q : Above(p, q)' = Above(p, q)
      /\ NamedTogether' /\ NoShorts'
      /\ Lower(page_of)' = Lower(page_of)
  BY <1>1, <1>2, SameObject, SameNets, SameLinks, SameLower
<1>6. Composite \in ToSet(visit.composites) /\ Composite \in on_sheet
  <2>1. IsInjective(visit.composites) /\ IsList(visit.composites)
        /\ ToSet(visit.composites) \subseteq on_sheet
    BY <1>2 DEF VisitInv
  <2>2. Composite \in ToSet(visit.composites)
    BY <1>1, <2>1, HeadTailListed DEF Composite
  <2> QED BY <2>1, <2>2
<1>7. visit.ports = <<>>
  BY <1>1, <1>2 DEF VisitInv
<1>8. visit'.candidates = {c \in ToSet(components) : ComponentAbove(c) = Composite}
  <2>1. BegunInv'
    <3>1. ResultParts'
      BY BeginCompositeResult
    <3> QED BY <1>1, <1>3, <3>1 DEF ResultParts, VisitInv
  <2>2. visit'.candidates \subseteq {c \in ToSet(components) : ComponentAbove(c) = Composite}
    BY <1>1, <1>4, <1>5, <2>1 DEF BegunInv
  <2>3. ASSUME NEW c \in ToSet(components), ComponentAbove(c) = Composite
        PROVE  c \in visit'.candidates
    <3>1. <<c, Composite>> \in Lower(page_of) /\ SheetOf(c) \in SubsheetsOf(Composite)
      BY <1>2, <1>6, <2>3, BelowIsLower
    <3>2. c \notin visit.removed
      <4> SUFFICES ASSUME c \in visit.removed PROVE FALSE
        OBVIOUS
      <4>1. IsComposite(c) \/ Handled(c)
        BY <1>2 DEF VisitInv
      <4>2. ~Handled(c)
        BY <1>1, <1>6, <2>3 DEF Handled
      <4> QED BY <1>2, <1>6, <3>1, <4>1, <4>2 DEF OrderInv
    <3>3. c \in on_sheet
      BY <1>2, <3>2 DEF VisitInv
    <3> QED BY <1>3, <3>1, <3>3
  <2> QED BY <2>2, <2>3
<1>9. OrderInv'
  BY <1>1, <1>2, <1>3, <1>4, <1>5, <1>7, <1>8 DEF OrderInv
<1>10. ASSUME NEW p \in DOMAIN local_net, NEW q \in DOMAIN local_net, Pending(p, q)
       PROVE  Pending(p, q)'
  <2>1. ToSet(visit'.pins) = {x \in ToSet(cpins) : x[1] = Composite}
    BY <1>2, <1>3, PinsOfComponentListed
  <2> QED BY <1>2, <1>3, <1>4, <1>10, <2>1 DEF Pending
<1>11. AboveInv(FALSE)'
  BY <1>1, <1>2, <1>5, <1>10 DEF AboveInv
<1> QED BY <1>1, <1>2, <1>5, <1>9, <1>11 DEF JoinParts, Named

\* Nothing is to come any more for the composite component that goes.
LEMMA EndCompositeJoin ==
  ASSUME RunInv, ResultParts, EndComposite, JoinParts
  PROVE  JoinParts'
<1>1. /\ pc = "hierarchy" /\ visit.begun /\ visit.ports = <<>> /\ visit.pins = <<>>
      /\ UNCHANGED <<design, page_of, cpins, local_net, components, net, net_of>>
      /\ visit' = [NotBegun EXCEPT !.composites = Tail(visit.composites),
                                   !.removed = visit.removed \cup {Composite}]
  BY DEF EndComposite, static, netvars
<1>2. /\ VisitInv
      /\ NamedTogether /\ NoShorts /\ OrderInv /\ AboveInv(FALSE)
      /\ \A p \in DOMAIN local_net : NetOf(p) # 0
  BY <1>1, JoinFacts
<1>3. pc' = "hierarchy"
  <2>1. ResultParts'
    BY EndCompositeResult
  <2>2. pc' \in {"hierarchy", "crashed"}
    BY <1>1 DEF EndComposite
  <2> QED BY <2>1, <2>2 DEF ResultParts
<1>4. /\ visit'.composites = Tail(visit.composites) /\ visit'.begun = FALSE
      /\ visit'.ports = <<>>
      /\ visit'.removed = visit.removed \cup {Composite}
  BY <1>1 DEF NotBegun
<1>5. /\ \A c : /\ Object(c)' = Object(c) /\ IsComposite(c)' = IsComposite(c)
      /\ \A p : NetOf(p)' = NetOf(p)
      /\ \A p, q : Above(p, q)' = Above(p, q)
      /\ NamedTogether' /\ NoShorts'
      /\ Lower(page_of)' = Lower(page_of)
  BY <1>1, <1>2, SameObject, SameNets, SameLinks, SameLower
<1>6. IsInjective(visit.composites) /\ IsList(visit.composites) /\ visit.composites # <<>>
  BY <1>1, <1>2 DEF VisitInv, BegunInv
<1>7. /\ Composite \in ToSet(visit.composites)
      /\ ToSet(Tail(visit.composites)) = ToSet(visit.composites) \ {Composite}
  BY <1>6, HeadTailListed DEF Composite
<1>8. /\ InOrder(Tail(visit.composites), Lower(page_of))
      /\ \A d \in ToSet(Tail(visit.composites)) : <<Composite, d>> \notin Lower(page_of)
  BY <1>2, <1>6, HeadFirst DEF OrderInv, Composite
<1>9. OrderInv'
  <2>1. \A c \in visit'.removed : IsComposite(c) =>
          \A d \in ToSet(Tail(visit.composites)) : <<c, d>> \notin Lower(page_of)
    BY <1>2, <1>4, <1>7, <1>8 DEF OrderInv
  <2> QED BY <1>4, <1>5, <1>8, <2>1 DEF OrderInv
<1>10. ASSUME NEW p, NEW q, Pending(p, q)
       PROVE  Pending(p, q)'
  <2>1. ToSet(visit.pins) = {} /\ ToSet(visit.ports) = {}
    BY <1>1, EmptyListed
  <2>2. q[1] # Composite
    BY <1>1, <1>10, <2>1 DEF Pending
  <2> QED BY <1>4, <1>7, <1>10, <2>2 DEF Pending
<1>11. AboveInv(FALSE)'
  BY <1>1, <1>2, <1>5, <1>10 DEF AboveInv
<1> QED BY <1>1, <1>2, <1>3, <1>5, <1>9, <1>11 DEF JoinParts, Named

LEMMA EndHierarchyJoin ==
  ASSUME RunInv, ResultParts, EndHierarchy, JoinParts
  PROVE  JoinParts'
<1>1. /\ pc = "hierarchy" /\ pc' = "package" /\ visit.composites = <<>>
      /\ UNCHANGED <<design, page_of, local_net, net, net_of>>
  BY DEF EndHierarchy, static, netvars
<1>2. /\ NamedTogether /\ NoShorts /\ AboveInv(FALSE)
      /\ \A p \in DOMAIN local_net : NetOf(p) # 0
  BY <1>1, JoinFacts
<1>3. AboveInv(TRUE)
  <2>1. \A p, q : ~Pending(p, q)
    BY <1>1, EmptyListed DEF Pending
  <2> QED BY <1>2, <2>1 DEF AboveInv
<1>4. /\ NamedTogether' /\ NoShorts' /\ AboveInv(TRUE)'
      /\ \A p : NetOf(p)' = NetOf(p)
  BY <1>1, <1>2, <1>3, SameNets
<1> QED BY <1>1, <1>2, <1>4 DEF JoinParts, Named

LEMMA PackageJoin ==
  ASSUME RunInv, Package \/ DropUnconnected, JoinParts
  PROVE  JoinParts'
<1>1. /\ pc \in {"package", "drop"} /\ pc' \in {"drop", "done", "crashed"}
      /\ UNCHANGED <<design, page_of, local_net, net_of>>
      /\ net' = [n \in DOMAIN net |-> net'[n]]
  BY DEF Package, DropUnconnected, static
<1>2. Len(net') = Len(net)
  <2>1. IsNetList(net)
    BY SameLists
  <2>2. Len(net) \in Nat /\ net' = [i \in 1 .. Len(net) |-> net'[i]]
    BY <1>1, <2>1 DEF IsNetList
  <2> QED BY <2>2, ListLength
<1>3. /\ NamedTogether /\ NoShorts /\ AboveInv(TRUE)
      /\ \A p \in DOMAIN local_net : NetOf(p) # 0
  BY <1>1 DEF JoinParts, Named
<1>4. /\ NamedTogether' /\ NoShorts' /\ AboveInv(TRUE)'
      /\ \A p : NetOf(p)' = NetOf(p)
  BY <1>1, <1>2, <1>3, SameNets
<1> QED BY <1>1, <1>3, <1>4 DEF JoinParts, Named

\* Each component that is a port for the label is on the list.
LEMMA PortsComplete ==
  ASSUME RunInv, ResultParts, JoinParts, pc = "hierarchy", visit.begun, visit.composites # <<>>,
         NEW label, \A c \in ToSet(OldPorts(label)) : ~WrongPort(c),
         NEW c \in ToSet(components), ComponentAbove(c) = Composite, PortLabel(Object(c)) = label
  PROVE  c \in ToSet(PortsFor(label))
<1> DEFINE N == {x \in ToSet(components) : SheetOf(x) \in SubsheetsOf(Composite) /\ Object(x).portname = label}
           O == {x \in visit.candidates : Object(x).refdes = label}
           U == {x \in visit.candidates : Usable(x)}
           T == ToSet(components)
           s == Filtered(components, N)
           o == Filtered(components, O)
           t == Filtered(o, U)
<1>1. /\ PartsInv /\ VisitInv /\ OrderInv /\ ToSet(components) \subseteq AllComponents(page_of)
      /\ on_sheet \subseteq ToSet(components)
  BY JoinFacts
<1>2. components \in Seq(T)
  BY SameLists
<1>3. /\ NewPorts(label) = s /\ OldPorts(label) = o /\ PortsFor(label) = s \o t
  BY DEF NewPorts, OldPorts, PortsFor
<1>4. Composite \in AllComponents(page_of)
  <2>1. IsInjective(visit.composites) /\ IsList(visit.composites)
        /\ ToSet(visit.composites) \subseteq on_sheet
    BY <1>1 DEF VisitInv
  <2>2. Composite \in ToSet(visit.composites)
    BY <2>1, HeadTailListed DEF Composite
  <2> QED BY <1>1, <2>1, <2>2
<1>5. SheetOf(c) \in SubsheetsOf(Composite)
  BY <1>1, <1>4, BelowIsLower
<1>6. c \in visit.candidates
  BY <1>1 DEF OrderInv
<1> HIDE DEF N, O, U, T
<1>7. s \in Seq(T) /\ ToSet(s) = ToSet(components) \cap N /\ o \in Seq(T) /\ ToSet(o) = ToSet(components) \cap O
  BY <1>2, FilteredListed
<1> HIDE DEF s, o
<1>8. t \in Seq(T) /\ ToSet(t) = ToSet(o) \cap U
  BY <1>7, FilteredListed
<1> HIDE DEF t
<1>9. ToSet(s \o t) = ToSet(s) \cup ToSet(t)
  BY <1>7, <1>8, ConcatListed
<1>10. CASE IsPort(Object(c))
  <2>1. c \in N
    BY <1>5, <1>10 DEF PortLabel, N
  <2> QED BY <1>3, <1>7, <1>9, <2>1
<1>11. CASE ~IsPort(Object(c))
  <2>1. c \in O
    BY <1>6, <1>11 DEF PortLabel, O
  <2>2. Usable(c)
    BY <1>3, <1>7, <2>1 DEF WrongPort
  <2>3. c \in U
    BY <1>6, <2>2 DEF U
  <2> QED BY <1>3, <1>7, <1>8, <1>9, <2>1, <2>3
<1> QED BY <1>10, <1>11

\* The ports for a pin of the composite component are to come.
LEMMA ResolvePinJoin ==
  ASSUME RunInv, ResultParts, ResolvePin, ~failed', JoinParts
  PROVE  pc' = "crashed" \/ JoinParts'
<1>0. PICK p, dst, label : p = Head(visit.pins) /\ dst = NetOf(p) /\ label = Label(Object(p[1]), p[2])
  OBVIOUS
<1> SUFFICES ASSUME pc' # "crashed" PROVE JoinParts'
  OBVIOUS
<1>1. /\ pc = "hierarchy" /\ pc' = "hierarchy" /\ visit.begun
      /\ visit.ports = <<>> /\ visit.pins # <<>>
      /\ UNCHANGED <<design, page_of, cpins, local_net, components, net_of>>
      /\ label # None
      /\ net' = WithoutPin(net, dst, p)
      /\ visit' = [visit EXCEPT
            !.pins = Tail(visit.pins), !.dest = dst, !.labels = visit.labels \cup {label},
            !.ports = PortsFor(label)]
      /\ \A c \in ToSet(OldPorts(label)) : ~WrongPort(c)
      /\ label \notin visit.labels
  BY <1>0 DEF ResolvePin, static
<1>2. /\ PartsInv /\ VisitInv /\ IsVisit(visit)
      /\ NamedTogether /\ NoShorts /\ OrderInv /\ AboveInv(FALSE)
      /\ \A x \in DOMAIN local_net : NetOf(x) # 0
      /\ \A x \in DOMAIN local_net : x[1] \in ToSet(components)
  BY <1>1, JoinFacts
<1>3. /\ visit'.composites = visit.composites /\ visit'.begun = visit.begun
      /\ visit'.pins = Tail(visit.pins) /\ visit'.ports = PortsFor(label)
      /\ visit'.dest = dst /\ visit'.removed = visit.removed
      /\ visit'.candidates = visit.candidates
  BY <1>1, <1>2 DEF IsVisit
<1>4. Composite' = Composite
  BY <1>3 DEF Composite
<1>5. Len(net') = Len(net)
  <2>1. Len(net) \in Nat /\ net = [i \in 1 .. Len(net) |-> net[i]]
    BY SameLists DEF IsNetList
  <2>2. net' = [i \in 1 .. Len(net) |-> net'[i]]
    BY <1>1, <2>1 DEF WithoutPin
  <2> QED BY <2>1, <2>2, ListLength
<1>6. /\ \A c : /\ Object(c)' = Object(c) /\ IsComposite(c)' = IsComposite(c)
                /\ ComponentAbove(c)' = ComponentAbove(c)
      /\ \A x : NetOf(x)' = NetOf(x)
      /\ \A x, y : Above(x, y)' = Above(x, y)
      /\ NamedTogether' /\ NoShorts'
      /\ Lower(page_of)' = Lower(page_of)
  BY <1>1, <1>2, <1>5, SameObject, SameNets, SameLinks, SameLower
<1>7. BegunInv /\ visit.composites # <<>>
  BY <1>1, <1>2 DEF VisitInv, BegunInv
<1>8. p \in ToSet(visit.pins) /\ ToSet(Tail(visit.pins)) = ToSet(visit.pins) \ {p}
  BY <1>0, <1>1, <1>7, HeadTailListed DEF BegunInv
<1>9. p \in DOMAIN local_net /\ p[1] = Composite
  BY <1>7, <1>8 DEF BegunInv, RemainingPins
<1>10. \A c \in ToSet(PortsFor(label)) : PortLabel(Object(c)) = label
  BY <1>1, PortsListed
<1>11. OrderInv'
  <2>1. \E q \in DOMAIN local_net' :
          /\ q[1] = Composite' /\ NetOf(q)' = visit'.dest /\ Label(Object(q[1]), q[2])' # None
          /\ \A c \in ToSet(visit'.ports) : PortLabel(Object(c))' = Label(Object(q[1]), q[2])'
    BY <1>0, <1>1, <1>3, <1>4, <1>6, <1>9, <1>10
  <2>2. visit'.begun => visit'.candidates = {c \in ToSet(components') : ComponentAbove(c)' = Composite'}
    BY <1>1, <1>2, <1>3, <1>4, <1>6 DEF OrderInv
  <2>3. /\ InOrder(visit'.composites, Lower(page_of)')
        /\ \A c \in visit'.removed : IsComposite(c)' =>
             \A d \in ToSet(visit'.composites) : <<c, d>> \notin Lower(page_of)'
    BY <1>2, <1>3, <1>6 DEF OrderInv
  <2> QED BY <2>1, <2>2, <2>3 DEF OrderInv
<1>12. ASSUME NEW x \in DOMAIN local_net, NEW q \in DOMAIN local_net, Above(x, q), Pending(x, q)
       PROVE  Pending(x, q)'
  <2>1. ToSet(visit.ports) = {}
    BY <1>1, EmptyListed
  <2>2. q[1] \in ToSet(visit'.composites) /\ (q[1] = Composite => q \in ToSet(visit.pins))
    BY <1>1, <1>3, <1>12, <2>1 DEF Pending
  <2>3. q = p => x[1] \in ToSet(visit'.ports)
    <3> SUFFICES ASSUME q = p PROVE x[1] \in ToSet(PortsFor(label))
      BY <1>3
    <3>1. ComponentAbove(x[1]) = Composite /\ PortLabel(Object(x[1])) = label
      BY <1>0, <1>9, <1>12 DEF Above, ComponentAbove
    <3> QED BY <1>1, <1>2, <1>7, <3>1, PortsComplete
  <2>4. q = p => visit'.dest = NetOf(q)'
    BY <1>0, <1>3, <1>6
  <2> QED BY <1>3, <1>4, <1>8, <2>2, <2>3, <2>4 DEF Pending
<1>13. AboveInv(FALSE)'
  BY <1>1, <1>2, <1>6, <1>12 DEF AboveInv
<1> QED BY <1>1, <1>2, <1>6, <1>11, <1>13 DEF JoinParts, Named

\* The nets of a port and of the pin above it, which are linked, become one.
LEMMA JoinPortJoin ==
  ASSUME RunInv, ResultParts, JoinPort, JoinParts
  PROVE  DOMAIN net_of' = DOMAIN net_of /\ (pc' = "crashed" \/ JoinParts')
<1>0. PICK c, p, src, dst :
        c = Head(visit.ports) /\ p = Head(PinsOfComponent(c)) /\ src = NetOf(p) /\ dst = visit.dest
  OBVIOUS
<1>1. /\ pc = "hierarchy" /\ visit.ports # <<>>
      /\ UNCHANGED <<design, page_of, cpins, local_net, components>>
      /\ \/ /\ PinsOfComponent(c) # <<>> /\ pc' = pc
            /\ net_of' = IF src = dst THEN net_of ELSE Moved(net, src, dst)
            /\ visit' = [visit EXCEPT !.ports = Tail(visit.ports),
                                      !.removed = visit.removed \cup {c}]
         \/ pc' = "crashed" /\ net_of' = net_of
  BY <1>0 DEF JoinPort, static, netvars
<1> SUFFICES ASSUME pc' # "crashed" PROVE DOMAIN net_of' = DOMAIN net_of /\ JoinParts'
  BY <1>1
<1>2. /\ PartsInv /\ VisitInv /\ IsVisit(visit) /\ DOMAIN local_net = ToSet(cpins)
      /\ NamedTogether /\ NoShorts /\ OrderInv /\ AboveInv(FALSE)
      /\ \A x \in DOMAIN local_net : NetOf(x) # 0
      /\ ToSet(nets) \subseteq 1 .. Len(net)
      /\ \A i \in 1 .. Len(net) : net[i].local_nets = {ln \in DOMAIN net_of : net_of[ln] = i}
      /\ local_net \in [DOMAIN local_net -> DOMAIN net_of]
      /\ Len(net) \in Nat /\ \A m \in DOMAIN net_of : net_of[m] \in 0 .. Len(net)
      /\ net_of = [m \in DOMAIN net_of |-> net_of[m]]
  BY <1>1, JoinFacts, HierarchyFacts DEF RunInv, NetlistInv, Agrees, IsNetList
<1>3. /\ pc' = "hierarchy" /\ PinsOfComponent(c) # <<>>
      /\ visit'.composites = visit.composites /\ visit'.begun = visit.begun
      /\ visit'.pins = visit.pins /\ visit'.ports = Tail(visit.ports)
      /\ visit'.dest = visit.dest /\ visit'.removed = visit.removed \cup {c}
      /\ visit'.candidates = visit.candidates
  BY <1>1, <1>2 DEF IsVisit
<1>4. Composite' = Composite
  BY <1>3 DEF Composite
<1>5. visit.begun /\ BegunInv
  BY <1>1, <1>2 DEF VisitInv
<1>6. c \in ToSet(visit.ports) /\ ToSet(Tail(visit.ports)) = ToSet(visit.ports) \ {c}
  BY <1>0, <1>1, <1>5, HeadTailListed DEF BegunInv
<1>7. /\ ComponentAbove(c) = Composite /\ ~IsComposite(c) /\ Fits(c)
      /\ dst \in 1 .. Len(net) /\ dst # 0
  <2>1. dst \in ToSet(nets)
    BY <1>0, <1>1, <1>5 DEF BegunInv
  <2> QED BY <1>2, <1>5, <1>6, <2>1 DEF BegunInv
<1>8. Usable(c) /\ {x \in DOMAIN local_net : x[1] = c} = {p}
  BY <1>0, <1>2, <1>3, <1>7, UsablePin DEF Fits
<1>9. p \in DOMAIN local_net /\ p[1] = c /\ src \in 1 .. Len(net)
  <2>1. p \in DOMAIN local_net /\ p[1] = c
    BY <1>8
  <2>2. NetOf(p) \in 0 .. Len(net) /\ NetOf(p) # 0
    BY <1>2, <2>1 DEF NetOf
  <2> QED BY <1>0, <1>2, <2>1, <2>2
<1>10. net_of' = [m \in DOMAIN net_of |-> IF net_of[m] = src THEN dst ELSE net_of[m]]
  <2>1. CASE src = dst
    BY <1>1, <1>2, <2>1
  <2>2. CASE src # dst
    BY <1>1, <1>2, <1>9, <2>2 DEF Moved
  <2> QED BY <2>1, <2>2
<1>11. DOMAIN net_of' = DOMAIN net_of
  BY <1>10
<1>12. \A x \in DOMAIN local_net : NetOf(x)' = IF NetOf(x) = src THEN dst ELSE NetOf(x)
  BY <1>1, <1>2, <1>10 DEF NetOf
<1>13. /\ \A d : /\ Object(d)' = Object(d) /\ IsComposite(d)' = IsComposite(d)
                 /\ ComponentAbove(d)' = ComponentAbove(d)
       /\ \A ln : KeysOf(ln)' = KeysOf(ln)
       /\ \A x, y : Above(x, y)' = Above(x, y)
       /\ \A M : Inseparable(M)' = Inseparable(M)
       /\ Lower(page_of)' = Lower(page_of)
  BY <1>1, <1>11, SameObject, SameLinks, SameLower
<1>14. NamedTogether'
  <2> SUFFICES ASSUME NEW a \in DOMAIN net_of, NEW b \in DOMAIN net_of, KeysOf(a) \cap KeysOf(b) # {}
               PROVE  net_of'[a] = net_of'[b] /\ net_of'[a] # 0
    BY <1>11, <1>13 DEF NamedTogether
  <2>1. net_of[a] = net_of[b] /\ net_of[a] # 0
    BY <1>2 DEF NamedTogether
  <2> QED BY <1>7, <1>10, <2>1
<1>15. PICK q \in DOMAIN local_net :
         /\ q[1] = Composite /\ NetOf(q) = dst /\ Label(Object(q[1]), q[2]) # None
         /\ \A d \in ToSet(visit.ports) : PortLabel(Object(d)) = Label(Object(q[1]), q[2])
  BY <1>0, <1>1, <1>2 DEF OrderInv
<1>16. <<local_net[p], local_net[q]>> \in LinkedNets
  <2>1. IsComposite(Composite)
    <3>1. IsInjective(visit.composites) /\ IsList(visit.composites) /\ visit.composites # <<>>
      BY <1>2, <1>5 DEF VisitInv, BegunInv
    <3>2. Composite \in ToSet(visit.composites)
      BY <3>1, HeadTailListed DEF Composite
    <3> QED BY <1>2, <3>2 DEF VisitInv
  <2>2. Above(p, q)
    BY <1>6, <1>7, <1>9, <1>15, <2>1 DEF Above, ComponentAbove, IsComposite
  <2> QED BY <1>9, <2>2, LinkedAbove
<1>17. Inseparable(OnNet(src) \cup OnNet(dst))
  <2>1. local_net[p] \in OnNet(src) /\ local_net[q] \in OnNet(dst)
    BY <1>0, <1>2, <1>9, <1>15 DEF OnNet, NetOf
  <2>2. Inseparable(OnNet(src)) /\ Inseparable(OnNet(dst))
    BY <1>2, <1>7, <1>9 DEF NoShorts
  <2> DEFINE M == OnNet(src)  N == OnNet(dst)  a == local_net[p]  b == local_net[q]
  <2>3. Inseparable(M) /\ Inseparable(N) /\ a \in M /\ b \in N /\ <<a, b>> \in LinkedNets
    BY <1>16, <2>1, <2>2
  <2> HIDE DEF M, N, a, b
  <2>4. Inseparable(M \cup N)
    BY <2>3, LinkedInseparable
  <2> QED BY <2>4 DEF M, N
<1>18. ASSUME NEW n \in 1 .. Len(net') PROVE Inseparable(OnNet(n)')
  <2>1. CASE n = dst
    <3>1. OnNet(n)' \subseteq OnNet(src) \cup OnNet(dst)
      BY <1>10, <1>11, <2>1 DEF OnNet
    <3> QED BY <1>17, <3>1, PartInseparable
  <2>2. CASE n # dst /\ n \in 1 .. Len(net)
    <3>1. OnNet(n)' \subseteq OnNet(n)
      BY <1>10, <1>11, <2>2 DEF OnNet
    <3> QED BY <1>2, <2>2, <3>1, PartInseparable DEF NoShorts
  <2>3. CASE n # dst /\ n \notin 1 .. Len(net)
    <3>1. OnNet(n)' \subseteq {}
      BY <1>2, <1>10, <1>11, <2>3 DEF OnNet
    <3> QED BY <3>1 DEF Inseparable
  <2> QED BY <2>1, <2>2, <2>3
<1>19. NoShorts'
  BY <1>13, <1>18 DEF NoShorts
<1>20. \A x \in DOMAIN local_net' : NetOf(x)' # 0
  BY <1>1, <1>2, <1>7, <1>12
<1>21. OrderInv'
  <2>1. NetOf(q)' = dst
    BY <1>12, <1>15
  <2>2. \E x \in DOMAIN local_net' :
          /\ x[1] = Composite' /\ NetOf(x)' = visit'.dest /\ Label(Object(x[1]), x[2])' # None
          /\ \A d \in ToSet(visit'.ports) : PortLabel(Object(d))' = Label(Object(x[1]), x[2])'
    BY <1>0, <1>1, <1>3, <1>4, <1>6, <1>13, <1>15, <2>1
  <2>3. visit'.begun => visit'.candidates = {d \in ToSet(components') : ComponentAbove(d)' = Composite'}
    BY <1>1, <1>2, <1>3, <1>4, <1>13 DEF OrderInv
  <2>4. /\ InOrder(visit'.composites, Lower(page_of)')
        /\ \A x \in visit'.removed : IsComposite(x)' =>
             \A d \in ToSet(visit'.composites) : <<x, d>> \notin Lower(page_of)'
    BY <1>2, <1>3, <1>7, <1>13 DEF OrderInv
  <2> QED BY <2>2, <2>3, <2>4 DEF OrderInv
<1>22. ASSUME NEW x \in DOMAIN local_net, NEW y \in DOMAIN local_net, Above(x, y)
       PROVE  NetOf(x)' = NetOf(y)' \/ Pending(x, y)'
  <2>1. CASE NetOf(x) = NetOf(y)
    BY <1>12, <2>1
  <2>2. CASE Pending(x, y)
    <3>1. CASE x[1] = c /\ x[1] \in ToSet(visit.ports) /\ visit.dest = NetOf(y)
      <4>1. x = p
        BY <1>8, <3>1
      <4> QED BY <1>0, <1>12, <3>1, <4>1
    <3>2. CASE x[1] # c /\ x[1] \in ToSet(visit.ports) /\ visit.dest = NetOf(y)
      <4>1. NetOf(y)' = dst
        BY <1>0, <1>12, <3>2
      <4> QED BY <1>0, <1>3, <1>4, <1>6, <2>2, <3>2, <4>1 DEF Pending
    <3>3. CASE ~(x[1] \in ToSet(visit.ports) /\ visit.dest = NetOf(y))
      BY <1>3, <1>4, <2>2, <3>3 DEF Pending
    <3> QED BY <3>1, <3>2, <3>3
  <2>3. NetOf(x) = NetOf(y) \/ (~FALSE /\ Pending(x, y))
    <3>1. AboveInv(FALSE)
      BY <1>2
    <3> QED BY <1>22, <3>1 DEF AboveInv
  <2> QED BY <2>1, <2>2, <2>3
<1>23. AboveInv(FALSE)'
  BY <1>1, <1>13, <1>22 DEF AboveInv
<1> QED BY <1>3, <1>11, <1>14, <1>19, <1>20, <1>21, <1>23 DEF JoinParts, Named

-----------------------------------------------------------------------------
(* Every step keeps the invariant *)

LEMMA InitJoin == Init => JoinInv
<1> SUFFICES ASSUME Init PROVE JoinInv
  OBVIOUS
<1>1. pc = "read" /\ DOMAIN net_of = {}
  BY DEF Init
<1>2. IsFiniteSet(DOMAIN net_of)
  BY <1>1, FS_EmptySet
<1> QED BY <1>1, <1>2 DEF JoinInv

\* Local nets are made when the sheets are, and never again.
LEMMA SameLocalNets == RunInv /\ Next /\ ~Instantiate => DOMAIN net_of' = DOMAIN net_of
<1> SUFFICES ASSUME RunInv, Next, ~Instantiate PROVE DOMAIN net_of' = DOMAIN net_of
  OBVIOUS
<1>1. CASE Read \/ ChooseNames \/ CollectPins \/ BeginComposite \/ ResolvePin \/ EndComposite
           \/ EndHierarchy \/ Package \/ DropUnconnected \/ Finished
  <2>1. net_of' = net_of
    BY <1>1 DEF Read, ChooseNames, CollectPins, BeginComposite, ResolvePin, EndComposite,
                EndHierarchy, Package, DropUnconnected, Finished, vars, netvars
  <2> QED BY <2>1
<1>2. ASSUME NEW ln \in DOMAIN todo, NameLocalNet(ln) PROVE DOMAIN net_of' = DOMAIN net_of
  <2>1. \E b, dst : NameJoins(ln, KeyFor(ln, Head(todo[ln])), b, dst)
    BY <1>2, NameLocalNetRun
  <2> QED BY <2>1 DEF NameJoins
<1>3. CASE NumberNet
  BY <1>3 DEF NumberNet
<1>4. CASE JoinPort
  BY <1>4 DEF JoinPort, Moved, netvars
<1> QED BY <1>1, <1>2, <1>3, <1>4 DEF Next

LEMMA StepJoin == RunInv /\ ResultInv /\ JoinInv /\ [Next]_vars => JoinInv'
<1> SUFFICES ASSUME RunInv, ResultInv, JoinInv, [Next]_vars PROVE JoinInv'
  OBVIOUS
<1>1. CASE Read
  BY <1>1 DEF Read, netvars, JoinInv
<1>2. CASE UNCHANGED vars
  <2>1. /\ UNCHANGED <<design, page_of, local_net, net_of, net, pc, failed, components, todo, net_dict, visit>>
    BY <1>2 DEF vars, static, namevars, netvars, partvars
  <2>2. /\ NamedTogether => NamedTogether'
        /\ NoShorts => NoShorts'
        /\ \A p : NetOf(p)' = NetOf(p)
        /\ AboveInv(TRUE) => AboveInv(TRUE)'
    BY <2>1, SameNets
  <2>3. /\ Lower(page_of)' = Lower(page_of)
        /\ \A ln : KeysOf(ln)' = KeysOf(ln)
        /\ \A p, q : Above(p, q)' = Above(p, q)
        /\ \A M : Inseparable(M)' = Inseparable(M)
        /\ \A c : Object(c)' = Object(c)
    BY <2>1, SameLower, SameLinks, SameObject
  <2>4. NamingInv => NamingInv'
    <3>1. \A ln : ToCome(ln)' = ToCome(ln)
      BY <2>1 DEF ToCome, KeyFor, Key
    <3>2. \A n : OnNet(n)' = OnNet(n) /\ NamedFor(n)' = NamedFor(n)
      BY <2>1, <2>3 DEF OnNet, NamedFor
    <3> QED BY <2>1, <2>3, <3>1, <3>2 DEF NamingInv
  <2>5. OrderInv => OrderInv'
    BY <2>1, <2>2, <2>3 DEF OrderInv, IsComposite, ComponentAbove, Composite
  <2>6. AboveInv(FALSE) => AboveInv(FALSE)'
    BY <2>1, <2>2, <2>3 DEF AboveInv, Pending, Composite
  <2>7. JoinParts => JoinParts'
    BY <2>1, <2>2, <2>3, <2>4, <2>5, <2>6 DEF JoinParts
  <2> QED BY <2>1, <2>7 DEF JoinInv
<1>3. CASE Next /\ ~Read /\ ~Finished
  <2>1. pc # "crashed" /\ pc' # "read" /\ (failed => failed')
    BY <1>3, Started
  <2>2. RunInv' /\ NetlistInv'
    BY StepRun DEF RunInv
  <2>3. CASE Instantiate
    BY <2>3, InstantiateJoin DEF JoinInv
  <2>4. CASE ~Instantiate
    <3>1. IsFiniteSet(DOMAIN net_of')
      BY <1>3, <2>4, SameLocalNets DEF JoinInv
    <3> SUFFICES ASSUME ~failed' PROVE pc' = "crashed" \/ JoinParts'
      BY <3>1 DEF JoinInv
    <3>2. pc # "instantiate" /\ pc # "read"
      <4>1. ASSUME NEW ln, NameLocalNet(ln) PROVE pc = "name"
        BY <4>1, Zenon DEF NameLocalNet
      <4>2. ChooseNames \/ NumberNet \/ CollectPins => pc \in {"name", "number"}
        BY DEF ChooseNames, NumberNet, CollectPins
      <4>3. BeginComposite \/ ResolvePin \/ JoinPort \/ EndComposite \/ EndHierarchy => pc = "hierarchy"
        BY DEF BeginComposite, ResolvePin, JoinPort, EndComposite, EndHierarchy
      <4>4. Package \/ DropUnconnected => pc \in {"package", "drop"}
        BY DEF Package, DropUnconnected
      <4> QED BY <1>3, <2>4, <4>1, <4>2, <4>3, <4>4 DEF Next
    <3>3. ResultParts /\ JoinParts
      BY <2>1, <3>2 DEF ResultInv, Outcome, JoinInv
    <3>4. ASSUME NEW ln \in DOMAIN todo, NameLocalNet(ln) PROVE JoinParts'
      BY <3>3, <3>4, NameLocalNetParts
    <3>5. CASE ChooseNames
      BY <3>3, <3>5, ChooseNamesJoin
    <3>6. CASE NumberNet
      BY <3>3, <3>6, NumberNetJoin
    <3>7. CASE CollectPins
      BY <2>2, <3>3, <3>7, CollectPinsJoin
    <3>8. CASE BeginComposite
      BY <3>3, <3>8, BeginCompositeJoin
    <3>9. CASE ResolvePin
      BY <3>3, <3>9, ResolvePinJoin
    <3>10. CASE JoinPort
      BY <3>3, <3>10, JoinPortJoin
    <3>11. CASE EndComposite
      BY <3>3, <3>11, EndCompositeJoin
    <3>12. CASE EndHierarchy
      BY <3>3, <3>12, EndHierarchyJoin
    <3>13. CASE Package \/ DropUnconnected
      BY <3>3, <3>13, PackageJoin
    <3> QED BY <1>3, <2>4, <3>4, <3>5, <3>6, <3>7, <3>8, <3>9, <3>10, <3>11, <3>12, <3>13 DEF Next
  <2> QED BY <2>3, <2>4
<1> QED BY <1>1, <1>2, <1>3 DEF Finished

-----------------------------------------------------------------------------
(* The result *)

LEMMA LinksFinite ==
  ASSUME RunInv, JoinInv, pc # "crashed"
  PROVE  IsFiniteSet(LinkedNets) /\ LinkedNets \subseteq (DOMAIN net_of) \X (DOMAIN net_of)
<1> DEFINE D == DOMAIN net_of
<1>1. LinkedNets \subseteq D \X D
  <2> SUFFICES ASSUME NEW ab \in LinkedNets PROVE ab \in D \X D
    OBVIOUS
  <2>1. ab[1] \in D /\ ab[2] \in D
    <3>1. \A p \in DOMAIN local_net : local_net[p] \in D
      BY DEF RunInv, NetlistInv, PinsKnown
    <3>2. \/ ab[1] \in D /\ ab[2] \in D
          \/ \E p, q \in DOMAIN local_net : ab[1] = local_net[p] /\ ab[2] = local_net[q]
      BY LinkedOnly
    <3> QED BY <3>1, <3>2
  <2>2. ab = <<ab[1], ab[2]>>
    BY DEF LinkedNets
  <2> QED BY <2>1, <2>2
<1>2. IsFiniteSet(D \X D)
  BY FS_Product DEF JoinInv
<1> QED BY <1>1, <1>2, FS_Subset

(* In any design for which no error is reported, two package pins are on one
   net of the result if and only if a chain of links joins their local nets:
   by drawn nets, by names in one namespace, and by the pins of composite
   components and the ports below them of the same label.  So no connection is
   lost and there are no shorts, whichever order the local nets are named in.  *)
THEOREM JoinedAlwaysExactly == Spec => []JoinedExactly
<1>1. RunInv /\ JoinInv => JoinedExactly
  <2> SUFFICES ASSUME RunInv, JoinInv, Netlisted,
                      NEW V \in Grouped(DOMAIN net_of, LinkedNets),
                      NEW p \in Packaged, NEW q \in Packaged, local_net[p] \in V
               PROVE  local_net[q] \in V <=> NetOf(p) = NetOf(q)
    BY DEF JoinedExactly
  <2> DEFINE D == DOMAIN net_of
             G == Grouped(D, LinkedNets)
             T == OnNet(NetOf(p))
  <2>0. pc = "done" /\ ~failed
    BY DEF Netlisted
  <2>1. IsGrouping(G, D, LinkedNets)
    BY <2>0, LinksFinite, GroupedIsGrouping
  <2>2. /\ NamedTogether /\ NoShorts /\ AboveInv(TRUE)
        /\ \A x \in DOMAIN local_net : NetOf(x) # 0
    BY <2>0 DEF JoinInv, JoinParts, Named
  <2>3. /\ p \in DOMAIN local_net /\ q \in DOMAIN local_net
        /\ local_net[p] \in D /\ local_net[q] \in D
        /\ NetOf(p) \in 1 .. Len(net)
    <3>1. p \in DOMAIN local_net /\ q \in DOMAIN local_net
      BY DEF Packaged
    <3>2. local_net[p] \in D /\ local_net[q] \in D
      BY <2>0, <3>1 DEF RunInv, NetlistInv, PinsKnown
    <3>3. Len(net) \in Nat /\ \A ln \in D : net_of[ln] \in 0 .. Len(net)
      BY DEF RunInv, NetlistInv, Agrees, IsNetList
    <3>4. NetOf(p) \in 0 .. Len(net) /\ NetOf(p) # 0
      BY <2>2, <3>1, <3>2, <3>3 DEF NetOf
    <3> QED BY <3>1, <3>2, <3>3, <3>4
  <2>4. Respects(T, LinkedNets)
    <3> SUFFICES ASSUME NEW ab \in LinkedNets PROVE ab[1] \in T <=> ab[2] \in T
      BY DEF Respects
    <3>1. ab[1] \in D /\ ab[2] \in D
      BY <2>0, LinksFinite
    <3>2. net_of[ab[1]] = net_of[ab[2]]
      <4>1. CASE KeysOf(ab[1]) \cap KeysOf(ab[2]) # {}
        BY <2>2, <3>1, <4>1 DEF NamedTogether
      <4>2. CASE \E x, y \in DOMAIN local_net : Above(x, y) /\ ab[1] = local_net[x] /\ ab[2] = local_net[y]
        BY <2>2, <4>2 DEF AboveInv, NetOf
      <4> QED BY <4>1, <4>2, LinkedOnly
    <3> QED BY <3>1, <3>2 DEF OnNet
  <2>5. T \subseteq D /\ local_net[p] \in T /\ (local_net[q] \in T <=> NetOf(p) = NetOf(q))
    BY <2>3 DEF OnNet, NetOf
  <2>6. V \in G /\ V \subseteq D /\ Respects(V, LinkedNets)
    BY <2>1 DEF IsGrouping, Splits
  <2>7. V \subseteq T
    <3>1. V \subseteq T \/ V \cap T = {}
      BY <2>1, <2>4, <2>5, <2>6 DEF IsGrouping
    <3> QED BY <2>5, <3>1
  <2>8. T \subseteq V
    <3>1. T \subseteq V \/ T \cap V = {}
      BY <2>2, <2>3, <2>6 DEF NoShorts, Inseparable
    <3> QED BY <2>5, <3>1
  <2> QED BY <2>5, <2>7, <2>8
<1> QED BY <1>1, RunAlways, InitResult, StepResult, InitJoin, StepJoin, PTL DEF Spec

-----------------------------------------------------------------------------
(* What touches on a page *)

LEMMA SignsDiffer ==
  ASSUME NEW x \in Int, NEW y \in Int
  PROVE  x * y <= 0 <=> (x <= 0 /\ y >= 0) \/ (x >= 0 /\ y <= 0)
<1>1. x > 0 /\ y > 0 => x * y > 0
  OBVIOUS
<1>2. x < 0 /\ y < 0 => x * y > 0
  OBVIOUS
<1>3. x <= 0 /\ y >= 0 => x * y <= 0
  OBVIOUS
<1>4. x >= 0 /\ y <= 0 => x * y <= 0
  OBVIOUS
<1>5. x * y \in Int
  OBVIOUS
<1> QED BY <1>1, <1>2, <1>3, <1>4, <1>5

\* Whether p is on the line e, as Covers has it.
OnLine(e, p) ==
  /\ \E k \in 1 .. 2 : e[1][k] = e[2][k]
  /\ \A k \in 1 .. 2 : (e[1][k] - p[k]) * (e[2][k] - p[k]) <= 0

\* The points that s_conn_check_midpoint finds on a line are those between its
\* ends.
LEMMA MidpointOnLine ==
  ASSUME NEW e \in Points \X Points, NEW p \in Points
  PROVE  s_conn_check_midpoint(e, p) <=> OnLine(e, p) /\ p # e[1] /\ p # e[2]
<1>1. /\ e[1] \in Points /\ e[2] \in Points
      /\ \A q \in Points : q = <<q[1], q[2]>> /\ q[1] \in Int /\ q[2] \in Int
  BY DEF Points
<1>2. PICK a, b, c, d, x, y \in Int : e[1] = <<a, b>> /\ e[2] = <<c, d>> /\ p = <<x, y>>
  BY <1>1
<1>3. s_conn_check_midpoint(e, p) <=>
        \/ a = x /\ c = x /\ ((b < y /\ y < d) \/ (d < y /\ y < b))
        \/ b = y /\ d = y /\ ((a < x /\ x < c) \/ (c < x /\ x < a))
  BY <1>2 DEF s_conn_check_midpoint, Between
<1>4. OnLine(e, p) <=> (a = c \/ b = d) /\ (a - x) * (c - x) <= 0 /\ (b - y) * (d - y) <= 0
  BY <1>2 DEF OnLine
<1>5. (a - x) * (c - x) <= 0 <=> (a <= x /\ c >= x) \/ (a >= x /\ c <= x)
  <2>1. a - x \in Int /\ c - x \in Int
    OBVIOUS
  <2>2. (a - x) * (c - x) <= 0 <=> (a - x <= 0 /\ c - x >= 0) \/ (a - x >= 0 /\ c - x <= 0)
    BY <2>1, SignsDiffer
  <2> QED BY <2>2
<1>6. (b - y) * (d - y) <= 0 <=> (b <= y /\ d >= y) \/ (b >= y /\ d <= y)
  <2>1. b - y \in Int /\ d - y \in Int
    OBVIOUS
  <2>2. (b - y) * (d - y) <= 0 <=> (b - y <= 0 /\ d - y >= 0) \/ (b - y >= 0 /\ d - y <= 0)
    BY <2>1, SignsDiffer
  <2> QED BY <2>2
<1>7. (p # e[1] <=> a # x \/ b # y) /\ (p # e[2] <=> c # x \/ d # y)
  BY <1>2
<1> QED BY <1>3, <1>4, <1>5, <1>6, <1>7

\* Where things can connect.
LEMMA EndsPlaced ==
  ASSUME NEW files, NEW page, IsPage(page, files), NEW a \in Instances(page)
  PROVE  /\ Ends(page, a) \subseteq Points
         /\ ~InSymbol(a) => /\ a[1] \in DOMAIN page /\ IsSegment(page, a[1])
                            /\ DataOf(page, a).ends \in Points \X Points
<1>1. \/ /\ a[2] = 0 /\ a[1] \in DOMAIN page /\ IsSegment(page, a[1])
      \/ /\ a[1] \in DOMAIN page /\ IsComponent(page, a[1]) /\ a[2] \in DOMAIN page[a[1]].symbol.pins
  BY DEF Instances, Pins
<1>2. IsObject(page[a[1]], files)
  BY <1>1, PageObjects
<1>3. CASE a[1] \in DOMAIN page /\ IsComponent(page, a[1]) /\ a[2] \in DOMAIN page[a[1]].symbol.pins
  <2> DEFINE o == page[a[1]]
             q == o.symbol.pins[a[2]]
  <2>1. /\ IsList(o.symbol.pins) /\ \A r \in ToSet(o.symbol.pins) : r.end \in Points
        /\ o.origin \in Points /\ o.angle \in {0, 90, 180, 270}
    BY <1>2, <1>3 DEF IsObject, IsComponent
  <2>2. InSymbol(a) /\ q \in ToSet(o.symbol.pins)
    BY <1>3, <2>1, Listed DEF InSymbol, IsList, ToSet
  <2>3. q.end \in Points
    BY <2>1, <2>2
  <2>4. \A r \in Points : Mirrored(r, o.mirror) \in Points
    BY DEF Mirrored, Points
  <2>5. \A r \in Points : Turned(r, o.angle) \in Points
    BY <2>1 DEF Turned, Points
  <2>6. \A r \in Points : <<r[1] + o.origin[1], r[2] + o.origin[2]>> \in Points
    BY <2>1 DEF Points
  <2>7. Placed(q.end, o) \in Points
    BY <2>3, <2>4, <2>5, <2>6 DEF Placed
  <2> QED BY <2>2, <2>7 DEF Ends, DataOf
<1>4. CASE a[2] = 0 /\ a[1] \in DOMAIN page /\ IsSegment(page, a[1])
  <2>1. ~InSymbol(a) /\ page[a[1]].ends \in Points \X Points
    BY <1>2, <1>4 DEF IsObject, IsSegment, InSymbol
  <2> QED BY <1>4, <2>1 DEF Ends, DataOf
<1> QED BY <1>1, <1>3, <1>4

\* What makes a connection.
LEMMA Connects ==
  ASSUME NEW page, NEW a \in Instances(page), NEW b \in Instances(page), NEW p \in Ends(page, a),
         ObjectOf(page, a) # ObjectOf(page, b),
         \/ p \in Ends(page, b) /\ AtEnd(page, a, b)
         \/ ~InSymbol(b) /\ AtMiddle(page, a, b, p)
  PROVE  <<a, b>> \in Connections(page)
<1> DEFINE I == Instances(page)
           at == UNION {{<<x, q>> : q \in Ends(page, x)} : x \in I}
           lines == {x \in I : ~InSymbol(x)}
           pairs == {xy \in at \X at : xy[1][2] = xy[2][2] /\ AtEnd(page, xy[1][1], xy[2][1])}
           ends == {<<z[1][1], z[2][1]>> : z \in pairs}
           found == {xb \in at \X lines : AtMiddle(page, xb[1][1], xb[2], xb[1][2])}
           middles == {<<z[1][1], z[2]>> : z \in found}
<1>1. \A x \in I : \A q \in Ends(page, x) : <<x, q>> \in at
  OBVIOUS
<1>2. can_connect(page, a, b)
  BY DEF can_connect, IsPin
<1> HIDE DEF at
<1>3. CASE p \in Ends(page, b) /\ AtEnd(page, a, b)
  <2> DEFINE z == <<<<a, p>>, <<b, p>>>>
  <2>1. z \in pairs /\ <<z[1][1], z[2][1]>> = <<a, b>>
    BY <1>1, <1>3
  <2> HIDE DEF pairs, z
  <2>2. <<a, b>> \in ends
    BY <2>1
  <2> QED BY <1>2, <2>2 DEF Connections, at, pairs
<1>4. CASE ~InSymbol(b) /\ AtMiddle(page, a, b, p)
  <2> DEFINE z == <<<<a, p>>, b>>
  <2>1. z \in found /\ <<z[1][1], z[2]>> = <<a, b>>
    BY <1>1, <1>4
  <2> HIDE DEF found, z
  <2>2. <<a, b>> \in middles
    BY <2>1
  <2> QED BY <1>2, <2>2 DEF Connections, at, found
<1> QED BY <1>3, <1>4

LEMMA ConnectsOnly ==
  ASSUME NEW page, NEW ab \in Connections(page)
  PROVE  /\ ab[1] \in Instances(page) /\ ab[2] \in Instances(page)
         /\ ObjectOf(page, ab[1]) # ObjectOf(page, ab[2])
         /\ \E p \in Ends(page, ab[1]) :
              \/ p \in Ends(page, ab[2])
              \/ ~InSymbol(ab[2]) /\ AtMiddle(page, ab[1], ab[2], p)
<1> DEFINE I == Instances(page)
           at == UNION {{<<x, q>> : q \in Ends(page, x)} : x \in I}
           lines == {x \in I : ~InSymbol(x)}
           pairs == {xy \in at \X at : xy[1][2] = xy[2][2] /\ AtEnd(page, xy[1][1], xy[2][1])}
           found == {xb \in at \X lines : AtMiddle(page, xb[1][1], xb[2], xb[1][2])}
<1>1. \A x \in at : x[1] \in I /\ x[2] \in Ends(page, x[1])
  OBVIOUS
<1>2. /\ ObjectOf(page, ab[1]) # ObjectOf(page, ab[2])
      /\ \/ \E z \in pairs : ab = <<z[1][1], z[2][1]>>
         \/ \E z \in found : ab = <<z[1][1], z[2]>>
  BY DEF Connections
<1> HIDE DEF at
<1>3. CASE \E z \in pairs : ab = <<z[1][1], z[2][1]>>
  <2>1. PICK z \in pairs : ab = <<z[1][1], z[2][1]>>
    BY <1>3
  <2>2. z[1] \in at /\ z[2] \in at /\ z[1][2] = z[2][2] /\ ab[1] = z[1][1] /\ ab[2] = z[2][1]
    BY <2>1
  <2> QED BY <1>1, <1>2, <2>2
<1>4. CASE \E z \in found : ab = <<z[1][1], z[2]>>
  <2>1. PICK z \in found : ab = <<z[1][1], z[2]>>
    BY <1>4
  <2>2. /\ z[1] \in at /\ z[2] \in lines /\ AtMiddle(page, z[1][1], z[2], z[1][2])
        /\ ab[1] = z[1][1] /\ ab[2] = z[2]
    BY <2>1
  <2> QED BY <1>1, <1>2, <2>2
<1> QED BY <1>2, <1>3, <1>4

\* Instances of one kind are connected if one covers an end of the other.
LEMMA CoveredConnects ==
  ASSUME NEW files, NEW page, IsPage(page, files), NEW a \in Instances(page), NEW b \in Instances(page),
         IsBus(page, a) = IsBus(page, b), ObjectOf(page, a) # ObjectOf(page, b),
         NEW p \in Ends(page, a), Covers(page, b, p)
  PROVE  <<a, b>> \in Connections(page)
<1>1. CASE p \in Ends(page, b)
  BY <1>1, Connects DEF AtEnd
<1>2. CASE p \notin Ends(page, b)
  <2> DEFINE e == DataOf(page, b).ends
  <2>1. ~IsPin(page, b) /\ OnLine(e, p)
    BY <1>2 DEF Covers, OnLine
  <2>2. ~InSymbol(b)
    BY <2>1 DEF IsPin
  <2>3. e \in Points \X Points /\ p \in Points
    BY <2>2, EndsPlaced
  <2>4. p # e[1] /\ p # e[2]
    BY <1>2, <2>1, <2>2 DEF Ends, DataOf
  <2>5. s_conn_check_midpoint(e, p)
    BY <2>1, <2>3, <2>4, MidpointOnLine
  <2>6. AtMiddle(page, a, b, p)
    BY <2>1, <2>5 DEF AtMiddle
  <2> QED BY <2>2, <2>6, Connects
<1> QED BY <1>1, <1>2

\* And if they are connected, one does.
LEMMA ConnectedCovers ==
  ASSUME NEW files, NEW page, IsPage(page, files), NEW ab \in Connections(page)
  PROVE  \E p \in Ends(page, ab[1]) : Covers(page, ab[2], p)
<1>1. /\ ab[1] \in Instances(page) /\ ab[2] \in Instances(page)
      /\ \E p \in Ends(page, ab[1]) : \/ p \in Ends(page, ab[2])
                                      \/ ~InSymbol(ab[2]) /\ AtMiddle(page, ab[1], ab[2], p)
  BY ConnectsOnly
<1>2. PICK p \in Ends(page, ab[1]) : \/ p \in Ends(page, ab[2])
                                     \/ ~InSymbol(ab[2]) /\ AtMiddle(page, ab[1], ab[2], p)
  BY <1>1
<1>3. CASE p \in Ends(page, ab[2])
  BY <1>3 DEF Covers
<1>4. CASE ~InSymbol(ab[2]) /\ AtMiddle(page, ab[1], ab[2], p)
  <2> DEFINE e == DataOf(page, ab[2]).ends
  <2>1. ~IsPin(page, ab[2]) /\ s_conn_check_midpoint(e, p)
    BY <1>4 DEF AtMiddle
  <2>2. e \in Points \X Points /\ p \in Points
    BY <1>1, <1>4, EndsPlaced
  <2>3. OnLine(e, p)
    BY <2>1, <2>2, MidpointOnLine
  <2> QED BY <2>1, <2>3 DEF Covers, OnLine
<1> QED BY <1>2, <1>3, <1>4

\* The nets of a page are the groups of what touches.
LEMMA NetsTouch ==
  ASSUME NEW files, NEW page, IsPage(page, files), ~SamePinTouches(page),
         \A V \in Nets(page) : Uniform(page, V)
  PROVE  Nets(page) = TouchingGroups(page)
<1> DEFINE I == Instances(page)
           touching == {ab \in I \X I : Touch(page, ab[1], ab[2])}
<1>1. IsFiniteSet(I) /\ IsFiniteSet(Connections(page)) /\ Connections(page) \subseteq I \X I
  BY InstancesFinite, ConnectionsFinite
<1>2. IsFiniteSet(touching) /\ touching \subseteq I \X I
  <2> HIDE DEF I
  <2>1. IsFiniteSet(I \X I)
    BY <1>1, FS_Product
  <2> QED BY <2>1, FS_Subset
<1>3. IsGrouping(Nets(page), I, Connections(page))
  BY <1>1, GroupedIsGrouping DEF Nets
<1>4. IsGrouping(TouchingGroups(page), I, touching)
  <2> HIDE DEF touching
  <2>1. IsGrouping(Grouped(I, touching), I, touching)
    BY <1>2, GroupedIsGrouping
  <2> QED BY <2>1 DEF TouchingGroups, touching
<1>5. ASSUME NEW ab \in Connections(page) PROVE ab \in touching
  <2>1. ab \in I \X I /\ ab[1] \in I /\ ab[2] \in I
    BY <1>1
  <2>2. PICK V \in Nets(page) : ab[1] \in V
    BY <1>3, <2>1 DEF IsGrouping, Splits
  <2>3. ab[2] \in V
    BY <1>3, <2>2 DEF IsGrouping, Respects
  <2>4. IsBus(page, ab[1]) = IsBus(page, ab[2])
    BY <2>2, <2>3 DEF Uniform
  <2>5. \E p \in Ends(page, ab[1]) : Covers(page, ab[2], p)
    BY ConnectedCovers
  <2> QED BY <2>1, <2>4, <2>5 DEF Touch
<1>6. ASSUME NEW a \in I, NEW b \in I, Touch(page, a, b)
      PROVE  a = b \/ <<a, b>> \in Connections(page) \/ <<b, a>> \in Connections(page)
  <2>1. a = b \/ ObjectOf(page, a) # ObjectOf(page, b)
    BY <1>6 DEF SamePinTouches
  <2>2. CASE ObjectOf(page, a) # ObjectOf(page, b)
    <3>1. IsBus(page, a) = IsBus(page, b)
      BY <1>6 DEF Touch
    <3>2. CASE \E p \in Ends(page, a) : Covers(page, b, p)
      BY <2>2, <3>1, <3>2, CoveredConnects
    <3>3. CASE \E p \in Ends(page, b) : Covers(page, a, p)
      BY <2>2, <3>1, <3>3, CoveredConnects
    <3> QED BY <1>6, <3>2, <3>3 DEF Touch
  <2> QED BY <2>1, <2>2
<1>7. ASSUME NEW T \in SUBSET I PROVE Respects(T, Connections(page)) <=> Respects(T, touching)
  <2>1. ASSUME Respects(T, touching) PROVE Respects(T, Connections(page))
    BY <1>5, <2>1 DEF Respects
  <2>2. ASSUME Respects(T, Connections(page)) PROVE Respects(T, touching)
    <3> SUFFICES ASSUME NEW ab \in touching PROVE ab[1] \in T <=> ab[2] \in T
      BY DEF Respects
    <3> DEFINE a == ab[1]  b == ab[2]
    <3>1. a = b \/ <<a, b>> \in Connections(page) \/ <<b, a>> \in Connections(page)
      BY <1>6
    <3>2. \A x, y : <<x, y>> \in Connections(page) => (x \in T <=> y \in T)
      BY <2>2 DEF Respects
    <3> QED BY <3>1, <3>2
  <2> QED BY <2>1, <2>2
<1> HIDE DEF touching, I
<1> QED BY <1>3, <1>4, <1>7, GroupingUnique

\* The nets of the pages are all read when the first sheet is made, and no net
\* and bus are drawn as one.
DrawnInv ==
  pc = "instantiate" =>
    /\ design \in Designs /\ DOMAIN drawn = Files
    /\ \A f \in Files : drawn[f] = Nets(Page(f)) /\ \A V \in drawn[f] : Uniform(Page(f), V)

LEMMA StepDrawn == RunInv /\ DrawnInv /\ [Next]_vars => DrawnInv'
<1> SUFFICES ASSUME RunInv, DrawnInv, [Next]_vars, pc' = "instantiate" PROVE DrawnInv'
  BY DEF DrawnInv
<1>1. CASE Read
  <2>1. /\ design' = design /\ drawn' = [f \in Files |-> Nets(Page(f))]
        /\ \A f \in Files : \A V \in drawn'[f] : Uniform(Page(f), V)
    BY <1>1 DEF Read, Files
  <2>2. design \in Designs
    BY DEF RunInv, ShapeInv
  <2>3. Files' = Files /\ \A f : Page(f)' = Page(f)
    BY <2>1, SamePage DEF Files
  <2> QED BY <2>1, <2>2, <2>3 DEF DrawnInv
<1>2. CASE UNCHANGED vars
  <2>1. design' = design /\ drawn' = drawn /\ pc' = pc
    BY <1>2 DEF vars, static
  <2>2. Files' = Files /\ \A f : Page(f)' = Page(f)
    BY <2>1, SamePage DEF Files
  <2> QED BY <2>1, <2>2 DEF DrawnInv
<1>3. CASE Next /\ ~Read /\ ~Finished
  <2>1. ASSUME NEW ln \in DOMAIN todo, NameLocalNet(ln) PROVE FALSE
    BY <2>1, NameLocalNetRun
  <2>2. ~Instantiate
    BY DEF Instantiate
  <2>3. ~ChooseNames /\ ~NumberNet /\ ~CollectPins
    BY DEF ChooseNames, NumberNet, CollectPins
  <2>4. ~BeginComposite /\ ~ResolvePin /\ ~JoinPort /\ ~EndComposite /\ ~EndHierarchy
    BY DEF BeginComposite, ResolvePin, JoinPort, EndComposite, EndHierarchy
  <2>5. ~Package /\ ~DropUnconnected
    BY DEF Package, DropUnconnected
  <2> QED BY <1>3, <2>1, <2>2, <2>3, <2>4, <2>5 DEF Next
<1> QED BY <1>1, <1>2, <1>3 DEF Finished

(* On any page, with segments and pins at any places: two instances are in one
   net if and only if a chain of segments and pins that touch leads from one to
   the other, unless the same pin of two components of one symbol touches.    *)
THEOREM AlwaysDrawnTogether == Spec => []DrawnTogether
<1>1. DrawnInv => DrawnTogether
  <2> SUFFICES ASSUME DrawnInv, pc = "instantiate", NEW f \in DOMAIN drawn, ~SamePinTouches(Page(f))
               PROVE  drawn[f] = TouchingGroups(Page(f))
    BY DEF DrawnTogether
  <2>1. design \in Designs /\ f \in Files /\ drawn[f] = Nets(Page(f))
        /\ \A V \in drawn[f] : Uniform(Page(f), V)
    BY DEF DrawnInv
  <2>2. IsPage(Page(f), Files)
    BY <2>1, DesignPages
  <2> QED BY <2>1, <2>2, NetsTouch
<1>2. Init => DrawnInv
  BY DEF Init, DrawnInv
<1> QED BY <1>1, <1>2, RunAlways, StepDrawn, PTL DEF Spec
=============================================================================
