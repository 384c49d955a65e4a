--------------------------- MODULE Netlist_proofs ---------------------------
(***************************************************************************)
(* Proofs about module Netlist: local nets that have been joined are never  *)
(* separated.                                                              *)
(*                                                                         *)
(* Net.merge_into moves the local nets that net.local_nets lists, so what   *)
(* has to be shown is that this list is complete at all times: that         *)
(* net.local_nets and local_net.net agree.  The inductive invariant,        *)
(* NetlistInv, says so, and gives the ranges of what net_of and net.local_nets *)
(* are looked up by: the entries of net_dict, the pins and, while the       *)
(* hierarchy is resolved, the net that ports are joined to.                 *)
(***************************************************************************)
EXTENDS Netlist, Lists_proofs

IsNet(r) ==
  r = [names |-> r.names, local_nets |-> r.local_nets, name |-> r.name,
       is_unconnected_pin |-> r.is_unconnected_pin, component_pins |-> r.component_pins,
       connections |-> r.connections]

IsNetList(n) ==
  /\ Len(n) \in Nat
  /\ n = [i \in 1 .. Len(n) |-> n[i]]
  /\ \A i \in 1 .. Len(n) : IsNet(n[i])

(* The local nets o says belong to a net are those the net lists. *)
Agrees(n, o) ==
  /\ IsNetList(n)
  /\ o \in [DOMAIN o -> 0 .. Len(n)]
  /\ \A i \in 1 .. Len(n) : n[i].local_nets = {ln \in DOMAIN o : o[ln] = i}

PinsKnown ==
  /\ DOMAIN local_net = {cpins[i] : i \in DOMAIN cpins}
  /\ local_net \in [DOMAIN local_net -> DOMAIN net_of]

IsVisit(v) ==
  v = [composites |-> v.composites, begun |-> v.begun, pins |-> v.pins, labels |-> v.labels,
       candidates |-> v.candidates, ports |-> v.ports, dest |-> v.dest, removed |-> v.removed]

HierarchyInv ==
  /\ \A p \in DOMAIN local_net : NetOf(p) # 0
  /\ visit.ports # <<>> => visit.dest \in 1 .. Len(net)

NetlistInv ==
  /\ Agrees(net, net_of)
  /\ \A k \in DOMAIN net_dict : net_dict[k] \in 1 .. Len(net)
  /\ DOMAIN todo \subseteq DOMAIN net_of
  /\ on_net \subseteq DOMAIN local_net
  /\ IsVisit(visit)
  /\ pc \in {"read", "instantiate"} => net = <<>>
  /\ pc \in {"read", "instantiate", "name", "number"} => visit = NotBegun
  /\ pc # "crashed" => PinsKnown
  /\ pc = "hierarchy" => HierarchyInv

-----------------------------------------------------------------------------
(* Lists of nets *)

(* A function on 1 .. k is a sequence of length k. *)
LEMMA ListLength ==
  ASSUME NEW k \in Nat, NEW s, s = [i \in 1 .. k |-> s[i]]
  PROVE  Len(s) = k /\ s \in Seq({s[i] : i \in 1 .. k})
<1> DEFINE S == {s[i] : i \in 1 .. k}
<1>1. s \in [1 .. k -> S]
  OBVIOUS
<1>2. s \in Seq(S)
  BY <1>1, SeqDef
<1>3. Len(s) \in Nat /\ DOMAIN s = 1 .. Len(s)
  BY <1>2, LenProperties
<1>4. DOMAIN s = 1 .. k
  BY <1>1
<1>5. Len(s) = k
  BY <1>3, <1>4
<1> QED BY <1>2, <1>5

(* What is on a list after one net more. *)
LEMMA AppendedNet ==
  ASSUME NEW n, Len(n) \in Nat, n = [i \in 1 .. Len(n) |-> n[i]], NEW r
  PROVE  Append(n, r) = [i \in 1 .. Len(n) + 1 |-> IF i = Len(n) + 1 THEN r ELSE n[i]]
<1> DEFINE S == {n[i] : i \in 1 .. Len(n)} \cup {r}
           a == Append(n, r)
<1>1. n \in [1 .. Len(n) -> S]
  OBVIOUS
<1>2. n \in Seq(S)
  BY <1>1, SeqDef
<1>3. /\ a \in Seq(S)
      /\ Len(a) = Len(n) + 1
      /\ \A i \in 1 .. Len(n) : a[i] = n[i]
      /\ a[Len(n) + 1] = r
  BY <1>2, AppendProperties
<1>4. a \in [1 .. Len(n) + 1 -> S]
  BY <1>3, LenProperties
<1> HIDE DEF a, S
<1>5. a = [i \in 1 .. Len(n) + 1 |-> a[i]]
  BY <1>4
<1>6. \A i \in 1 .. Len(n) + 1 : a[i] = IF i = Len(n) + 1 THEN r ELSE n[i]
  BY <1>3
<1>7. a = [i \in 1 .. Len(n) + 1 |-> IF i = Len(n) + 1 THEN r ELSE n[i]]
  BY <1>5, <1>6
<1> QED BY <1>7 DEF a

(* Changing the nets but not their local nets. *)
LEMMA AgreesSame ==
  ASSUME NEW n, NEW o, Agrees(n, o), NEW m,
         m = [i \in 1 .. Len(n) |-> m[i]],
         \A i \in 1 .. Len(n) : IsNet(m[i]) /\ m[i].local_nets = n[i].local_nets
  PROVE  Agrees(m, o) /\ Len(m) = Len(n)
<1>1. Len(n) \in Nat
  BY DEF Agrees, IsNetList
<1>2. Len(m) = Len(n)
  BY <1>1, ListLength
<1> QED BY <1>1, <1>2 DEF Agrees, IsNetList

(* A net more, without local nets. *)
LEMMA AgreesNew ==
  ASSUME NEW n, NEW o, Agrees(n, o), NEW r, IsNet(r), r.local_nets = {}
  PROVE  Agrees(Append(n, r), o) /\ Len(Append(n, r)) = Len(n) + 1
<1> DEFINE a == Append(n, r)
<1>1. Len(n) \in Nat /\ n = [i \in 1 .. Len(n) |-> n[i]]
  BY DEF Agrees, IsNetList
<1>2. a = [i \in 1 .. Len(n) + 1 |-> IF i = Len(n) + 1 THEN r ELSE n[i]]
  BY <1>1, AppendedNet
<1> HIDE DEF a
<1>3. Len(n) + 1 \in Nat /\ a = [i \in 1 .. Len(n) + 1 |-> a[i]]
  BY <1>1, <1>2
<1>4. Len(a) = Len(n) + 1
  BY <1>3, ListLength
<1>5. /\ \A i \in 1 .. Len(n) : a[i] = n[i]
      /\ a[Len(n) + 1] = r
  BY <1>1, <1>2
<1>6. o \in [DOMAIN o -> 0 .. Len(n)]
  BY DEF Agrees
<1>7. \A ln \in DOMAIN o : o[ln] # Len(n) + 1
  BY <1>1, <1>6
<1>8. ASSUME NEW i \in 1 .. Len(n) + 1
      PROVE  IsNet(a[i]) /\ a[i].local_nets = {ln \in DOMAIN o : o[ln] = i}
  <2>1. CASE i = Len(n) + 1
    BY <1>5, <1>7, <2>1
  <2>2. CASE i # Len(n) + 1
    BY <1>1, <1>5, <2>2 DEF Agrees, IsNetList
  <2> QED BY <2>1, <2>2
<1>9. o \in [DOMAIN o -> 0 .. Len(a)]
  BY <1>1, <1>4, <1>6
<1>10. IsNetList(a)
  BY <1>3, <1>4, <1>8 DEF IsNetList
<1>11. Agrees(a, o)
  BY <1>4, <1>8, <1>9, <1>10 DEF Agrees
<1> QED BY <1>4, <1>11 DEF a

(* A local net that is in no net is put into one. *)
LEMMA AgreesPut ==
  ASSUME NEW n, NEW o, Agrees(n, o), NEW b \in 1 .. Len(n),
         NEW ln \in DOMAIN o, o[ln] = 0
  PROVE  LET m == [n EXCEPT ![b].local_nets = @ \cup {ln}]
         IN Agrees(m, [o EXCEPT ![ln] = b]) /\ Len(m) = Len(n)
<1> DEFINE m == [n EXCEPT ![b].local_nets = @ \cup {ln}]
           q == [o EXCEPT ![ln] = b]
<1>1. /\ Len(n) \in Nat /\ n = [i \in 1 .. Len(n) |-> n[i]]
      /\ \A i \in 1 .. Len(n) : IsNet(n[i])
      /\ o \in [DOMAIN o -> 0 .. Len(n)]
      /\ \A i \in 1 .. Len(n) : n[i].local_nets = {x \in DOMAIN o : o[x] = i}
  BY DEF Agrees, IsNetList
<1>2. m = [i \in 1 .. Len(n) |-> m[i]]
  BY <1>1
<1>3. \A i \in 1 .. Len(n) : i # b => m[i] = n[i]
  BY <1>1
<1>4. m[b] = [n[b] EXCEPT !.local_nets = n[b].local_nets \cup {ln}]
  BY <1>1
<1>5. IsNet(n[b])
  BY <1>1
<1>6. IsNet(m[b]) /\ m[b].local_nets = n[b].local_nets \cup {ln}
  BY <1>4, <1>5 DEF IsNet
<1>7. Len(m) = Len(n)
  BY <1>1, <1>2, ListLength
<1>8. DOMAIN q = DOMAIN o /\ q[ln] = b /\ \A x \in DOMAIN o : x # ln => q[x] = o[x]
  BY <1>1
<1>9. q \in [DOMAIN q -> 0 .. Len(n)]
  BY <1>1, <1>8
<1> HIDE DEF m, q
<1>10. ASSUME NEW i \in 1 .. Len(n)
       PROVE  m[i].local_nets = {x \in DOMAIN q : q[x] = i}
  <2>1. CASE i = b
    BY <1>1, <1>6, <1>8, <2>1
  <2>2. CASE i # b
    <3>1. m[i].local_nets = {x \in DOMAIN o : o[x] = i}
      BY <1>1, <1>3, <2>2
    <3>2. \A x \in DOMAIN o : (o[x] = i) <=> (q[x] = i)
      BY <1>8, <2>2
    <3> QED BY <1>8, <3>1, <3>2
  <2> QED BY <2>1, <2>2
<1>11. IsNetList(m)
  BY <1>1, <1>2, <1>3, <1>6, <1>7 DEF IsNetList
<1>12. Agrees(m, q)
  BY <1>7, <1>9, <1>10, <1>11 DEF Agrees
<1> QED BY <1>7, <1>12 DEF m, q

(* A net more, for a local net that is in none. *)
LEMMA AgreesPutNew ==
  ASSUME NEW n, NEW o, Agrees(n, o), NEW ln \in DOMAIN o, o[ln] = 0,
         NEW r, IsNet(r), r.local_nets = {ln}
  PROVE  /\ Agrees(Append(n, r), [o EXCEPT ![ln] = Len(n) + 1])
         /\ Len(Append(n, r)) = Len(n) + 1
<1> DEFINE a == Append(n, r)
           q == [o EXCEPT ![ln] = Len(n) + 1]
<1>1. /\ Len(n) \in Nat /\ n = [i \in 1 .. Len(n) |-> n[i]]
      /\ \A i \in 1 .. Len(n) : IsNet(n[i])
      /\ o \in [DOMAIN o -> 0 .. Len(n)]
      /\ \A i \in 1 .. Len(n) : n[i].local_nets = {x \in DOMAIN o : o[x] = i}
  BY DEF Agrees, IsNetList
<1>2. a = [i \in 1 .. Len(n) + 1 |-> IF i = Len(n) + 1 THEN r ELSE n[i]]
  BY <1>1, AppendedNet
<1> HIDE DEF a
<1>3. Len(n) + 1 \in Nat /\ a = [i \in 1 .. Len(n) + 1 |-> a[i]]
  BY <1>1, <1>2
<1>4. Len(a) = Len(n) + 1
  BY <1>3, ListLength
<1>5. /\ \A i \in 1 .. Len(n) : a[i] = n[i]
      /\ a[Len(n) + 1] = r
  BY <1>1, <1>2
<1>6. /\ DOMAIN q = DOMAIN o /\ q[ln] = Len(n) + 1
      /\ \A x \in DOMAIN o : x # ln => q[x] = o[x]
      /\ q \in [DOMAIN q -> 0 .. Len(n) + 1]
  BY <1>1
<1> HIDE DEF q
<1>7. ASSUME NEW i \in 1 .. Len(n) + 1
      PROVE  IsNet(a[i]) /\ a[i].local_nets = {x \in DOMAIN q : q[x] = i}
  <2>1. CASE i = Len(n) + 1
    <3>1. \A x \in DOMAIN q : q[x] = i <=> x = ln
      BY <1>1, <1>6, <2>1
    <3> QED BY <1>5, <1>6, <2>1, <3>1
  <2>2. CASE i # Len(n) + 1
    <3>1. i \in 1 .. Len(n)
      BY <1>1, <2>2
    <3>2. \A x \in DOMAIN q : q[x] = i <=> o[x] = i
      BY <1>1, <1>6, <3>1
    <3> QED BY <1>1, <1>5, <1>6, <3>1, <3>2
  <2> QED BY <2>1, <2>2
<1>8. IsNetList(a)
  BY <1>3, <1>4, <1>7 DEF IsNetList
<1>9. Agrees(a, q)
  BY <1>4, <1>6, <1>7, <1>8 DEF Agrees
<1> QED BY <1>4, <1>9 DEF a, q

(* One net takes over the local nets of another. *)
LEMMA AgreesMerged ==
  ASSUME NEW n, Agrees(n, net_of), NEW src \in 1 .. Len(n), NEW dst \in 1 .. Len(n),
         src # dst
  PROVE  /\ Agrees(Merged(n, src, dst), Moved(n, src, dst))
         /\ Len(Merged(n, src, dst)) = Len(n)
<1> DEFINE m == Merged(n, src, dst)
           q == Moved(n, src, dst)
<1>1. /\ Len(n) \in Nat /\ n = [i \in 1 .. Len(n) |-> n[i]]
      /\ \A i \in 1 .. Len(n) : IsNet(n[i])
      /\ net_of \in [DOMAIN net_of -> 0 .. Len(n)]
      /\ \A i \in 1 .. Len(n) : n[i].local_nets = {x \in DOMAIN net_of : net_of[x] = i}
  BY DEF Agrees, IsNetList
<1>2. m = [i \in 1 .. Len(n) |-> m[i]]
  BY <1>1 DEF Merged
<1>3. \A i \in 1 .. Len(n) : i \notin {src, dst} => m[i] = n[i]
  BY <1>1 DEF Merged
<1>4. \E l : m[dst] = [n[dst] EXCEPT !.local_nets = n[dst].local_nets \cup n[src].local_nets,
                                     !.names = l]
  BY <1>1 DEF Merged
<1>5. \E l : m[src] = [n[src] EXCEPT !.local_nets = {}, !.names = l]
  BY <1>1 DEF Merged
<1>6. IsNet(n[src]) /\ IsNet(n[dst])
  BY <1>1
<1> HIDE DEF m
<1>7. IsNet(m[dst]) /\ m[dst].local_nets = n[dst].local_nets \cup n[src].local_nets
  BY <1>4, <1>6 DEF IsNet
<1>8. IsNet(m[src]) /\ m[src].local_nets = {}
  BY <1>5, <1>6 DEF IsNet
<1>9. Len(m) = Len(n)
  BY <1>1, <1>2, ListLength
<1>10. /\ DOMAIN q = DOMAIN net_of
       /\ \A x \in DOMAIN net_of : q[x] = IF net_of[x] = src THEN dst ELSE net_of[x]
       /\ q \in [DOMAIN q -> 0 .. Len(n)]
  BY <1>1 DEF Moved
<1> HIDE DEF q
<1>11. ASSUME NEW i \in 1 .. Len(n)
       PROVE  m[i].local_nets = {x \in DOMAIN q : q[x] = i}
  <2>1. CASE i = dst
    <3>1. m[i].local_nets = {x \in DOMAIN net_of : net_of[x] = dst \/ net_of[x] = src}
      BY <1>1, <1>7, <2>1
    <3>2. \A x \in DOMAIN net_of : (net_of[x] = dst \/ net_of[x] = src) <=> (q[x] = i)
      BY <1>10, <2>1
    <3> QED BY <1>10, <3>1, <3>2
  <2>2. CASE i = src
    BY <1>8, <1>10, <2>2
  <2>3. CASE i \notin {src, dst}
    <3>1. m[i].local_nets = {x \in DOMAIN net_of : net_of[x] = i}
      BY <1>1, <1>3, <2>3
    <3>2. \A x \in DOMAIN net_of : (net_of[x] = i) <=> (q[x] = i)
      BY <1>10, <2>3
    <3> QED BY <1>10, <3>1, <3>2
  <2> QED BY <2>1, <2>2, <2>3
<1>12. IsNetList(m)
  BY <1>1, <1>2, <1>3, <1>7, <1>8, <1>9 DEF IsNetList
<1>13. Agrees(m, q)
  BY <1>9, <1>10, <1>11, <1>12 DEF Agrees
<1> QED BY <1>9, <1>13 DEF m, q

-----------------------------------------------------------------------------
(* The steps of a run *)

(* What JoinedForGood says of a step. *)
KeptTogether ==
  \A a, b \in DOMAIN net_of :
    net_of[a] # 0 /\ net_of[a] = net_of[b] => net_of'[a] = net_of'[b]

(* Before the first step there is neither a net nor a local net. *)
LEMMA InitInv == Init => NetlistInv
<1> SUFFICES ASSUME Init PROVE NetlistInv
  OBVIOUS
<1>1. Len(<< >>) = 0 /\ DOMAIN << >> = {}
  BY EmptySeq
<1>2. Agrees(net, net_of)
  BY <1>1 DEF Init, Agrees, IsNetList
<1>3. PinsKnown
  BY <1>1 DEF Init, PinsKnown
<1>4. IsVisit(visit)
  BY DEF Init, IsVisit, NotBegun
<1> QED BY <1>1, <1>2, <1>3, <1>4 DEF Init, NetlistInv

(* Reading and checking the pages makes no nets. *)
LEMMA ReadInv == NetlistInv /\ Read => NetlistInv'
<1> SUFFICES ASSUME NetlistInv, Read PROVE NetlistInv'
  OBVIOUS
<1> USE DEF Read, namevars, netvars, partvars
<1>1. UNCHANGED <<net, net_of, net_dict, todo, on_net, visit, cpins, local_net>>
  OBVIOUS
<1>2. pc = "read" /\ pc' \in {"instantiate", "crashed"}
  OBVIOUS
<1>3. PinsKnown /\ PinsKnown'
  BY <1>1, <1>2 DEF NetlistInv, PinsKnown
<1> QED BY <1>1, <1>2, <1>3 DEF NetlistInv, Agrees, IsNetList

(* The sheets come with local nets that are in no net yet. *)
LEMMA InstantiateInv == NetlistInv /\ Instantiate => NetlistInv'
<1> SUFFICES ASSUME NetlistInv, Instantiate PROVE NetlistInv'
  OBVIOUS
<1>1. /\ UNCHANGED <<net, net_dict, visit>>
      /\ pc = "instantiate" /\ pc' \in {"name", "crashed"}
      /\ on_net' = DOMAIN local_net'
  BY DEF Instantiate
<1>2. /\ net_of' = [ln \in DOMAIN net_of' |-> 0]
      /\ DOMAIN todo' \subseteq DOMAIN net_of'
  BY DEF Instantiate
<1>3. net' = << >> /\ Len(net') = 0
  BY <1>1, EmptySeq DEF NetlistInv
<1>4. Agrees(net', net_of')
  BY <1>2, <1>3 DEF Agrees, IsNetList
<1>5. ASSUME pc' # "crashed" PROVE PinsKnown'
  <2> DEFINE lns == UNION {{<<s, V>> : V \in PageNets(page_of'[s])} : s \in DOMAIN page_of'}
             around(p) == {ln \in lns : ln[1] = SheetOf(p[1]) /\ <<Last(p[1]), p[2]>> \in ln[2]}
  <2>1. /\ \A p \in ToSet(cpins') : around(p) # {}
        /\ local_net' = [p \in ToSet(cpins') |-> CHOOSE ln \in around(p) : TRUE]
        /\ DOMAIN net_of' = lns
    BY <1>5 DEF Instantiate
  <2>2. \A p \in ToSet(cpins') : (CHOOSE ln \in around(p) : TRUE) \in lns
    BY <2>1
  <2> HIDE DEF lns, around
  <2>3. /\ DOMAIN local_net' = ToSet(cpins')
        /\ local_net' \in [ToSet(cpins') -> lns]
    BY <2>1, <2>2
  <2>4. ToSet(cpins') = {cpins'[i] : i \in DOMAIN cpins'}
    BY DEF ToSet
  <2> QED BY <2>1, <2>3, <2>4 DEF PinsKnown
<1>6. \A k \in DOMAIN net_dict' : net_dict'[k] \in 1 .. Len(net')
  BY <1>1 DEF NetlistInv
<1>7. IsVisit(visit') /\ visit' = NotBegun
  BY <1>1 DEF NetlistInv, IsVisit
<1> QED BY <1>1, <1>2, <1>3, <1>4, <1>5, <1>6, <1>7 DEF NetlistInv

(* The next name of a local net: it is put into the net of that name, or the
   net it is in and that one become one.                                    *)
LEMMA NameLocalNetInv ==
  ASSUME NetlistInv, NEW ln \in DOMAIN todo, NameLocalNet(ln)
  PROVE  NetlistInv' /\ KeptTogether
<1> DEFINE w     == Head(todo[ln])
           key   == Key(ln[1], w.name, w.from)
           known == key \in DOMAIN net_dict
           b     == IF known THEN net_dict[key] ELSE Len(net) + 1
           a     == net_of[ln]
           l     == IF known THEN nets ELSE Append(nets, b)
           dict  == Entered(net_dict, key, b)
           made  == IF known THEN net ELSE Append(net, NewNet)
           n     == [made EXCEPT ![b].names[w.from] = AddedOnce(@, key)]
           src   == IntoEarlier(a, b, l)[1]
           dst   == IntoEarlier(a, b, l)[2]
<1>1. /\ pc = "name"
      /\ UNCHANGED <<cpins, local_net, on_net, visit>>
      /\ todo' = IF Len(todo[ln]) = 1 THEN Restrict(todo, DOMAIN todo \ {ln})
                 ELSE [todo EXCEPT ![ln] = Tail(@)]
  BY DEF NameLocalNet, static, partvars
<1>2. \/ a = b /\ net' = n /\ UNCHANGED <<net_of, net_dict, pc>>
      \/ /\ a = 0 /\ net' = [n EXCEPT ![b].local_nets = @ \cup {ln}]
         /\ net_of' = [net_of EXCEPT ![ln] = b] /\ net_dict' = dict /\ UNCHANGED pc
      \/ /\ a \notin {0, b} /\ net' = Merged(n, src, dst) /\ net_of' = Moved(n, src, dst)
         /\ net_dict' = [k \in DOMAIN dict |-> IF k \in AllNames(n[src]) THEN dst ELSE dict[k]]
         /\ pc' \in {pc, "crashed"}
  BY DEF NameLocalNet
<1>3. (src = a /\ dst = b) \/ (src = b /\ dst = a)
  BY DEF IntoEarlier
<1>4. Agrees(net, net_of) /\ Len(net) \in Nat /\ ln \in DOMAIN net_of
  BY DEF NetlistInv, Agrees, IsNetList
<1>5. IsNet(NewNet) /\ NewNet.local_nets = {}
  BY DEF NewNet, IsNet
<1>6. Agrees(made, net_of) /\ Len(made) >= Len(net) /\ Len(made) \in Nat /\ b \in 1 .. Len(made)
  <2>1. CASE known
    BY <1>4, <2>1 DEF NetlistInv
  <2>2. CASE ~known
    BY <1>4, <1>5, <2>2, AgreesNew
  <2> QED BY <2>1, <2>2
<1> HIDE DEF made, b, a, l, w, key, known
<1>7. Agrees(n, net_of) /\ Len(n) = Len(made)
  <2>1. made = [i \in 1 .. Len(made) |-> made[i]] /\ \A i \in 1 .. Len(made) : IsNet(made[i])
    BY <1>6 DEF Agrees, IsNetList
  <2>2. n = [i \in 1 .. Len(made) |-> n[i]]
    BY <2>1
  <2>3. \A i \in 1 .. Len(made) : i # b => n[i] = made[i]
    BY <2>1
  <2>4. \E x : n[b] = [made[b] EXCEPT !.names = x]
    BY <2>1, <1>6
  <2>5. IsNet(made[b])
    BY <2>1, <1>6
  <2> HIDE DEF n
  <2>6. IsNet(n[b]) /\ n[b].local_nets = made[b].local_nets
    BY <2>4, <2>5 DEF IsNet
  <2>7. \A i \in 1 .. Len(made) : IsNet(n[i]) /\ n[i].local_nets = made[i].local_nets
    BY <2>1, <2>3, <2>6
  <2> QED BY <1>6, <2>2, <2>7, AgreesSame
<1>8. a \in 0 .. Len(n) /\ a = net_of[ln] /\ b \in 1 .. Len(n) /\ Len(n) \in Nat
  BY <1>4, <1>6, <1>7 DEF Agrees, a
<1>9. \A k \in DOMAIN dict : dict[k] \in 1 .. Len(n)
  <2>1. \A k \in DOMAIN net_dict : net_dict[k] \in 1 .. Len(n)
    BY <1>4, <1>6, <1>7 DEF NetlistInv
  <2> QED BY <1>8, <2>1 DEF Entered
<1>10. \A k \in DOMAIN net_dict : net_dict[k] \in 1 .. Len(n)
  BY <1>4, <1>6, <1>7 DEF NetlistInv
<1> HIDE DEF n, dict, src, dst
<1>11. /\ Agrees(net', net_of') /\ DOMAIN net_of' = DOMAIN net_of
       /\ \A k \in DOMAIN net_dict' : net_dict'[k] \in 1 .. Len(net')
       /\ KeptTogether
       /\ pc' \in {"name", "crashed"}
  <2>1. CASE a = b /\ net' = n /\ UNCHANGED <<net_of, net_dict, pc>>
    BY <1>1, <1>7, <1>10, <2>1 DEF KeptTogether
  <2>2. CASE /\ a = 0 /\ net' = [n EXCEPT ![b].local_nets = @ \cup {ln}]
             /\ net_of' = [net_of EXCEPT ![ln] = b] /\ net_dict' = dict /\ UNCHANGED pc
    <3>1. Agrees(net', net_of') /\ Len(net') = Len(n)
      <4>1. net_of[ln] = 0
        BY <1>8, <2>2
      <4>2. LET m == [n EXCEPT ![b].local_nets = @ \cup {ln}]
            IN Agrees(m, [net_of EXCEPT ![ln] = b]) /\ Len(m) = Len(n)
        BY <1>4, <1>7, <1>8, <4>1, AgreesPut
      <4> QED BY <2>2, <4>2
    <3>2. KeptTogether
      BY <1>8, <2>2 DEF KeptTogether
    <3> QED BY <1>1, <1>9, <2>2, <3>1, <3>2
  <2>3. CASE /\ a \notin {0, b} /\ net' = Merged(n, src, dst) /\ net_of' = Moved(n, src, dst)
             /\ net_dict' = [k \in DOMAIN dict |-> IF k \in AllNames(n[src]) THEN dst ELSE dict[k]]
             /\ pc' \in {pc, "crashed"}
    <3>1. src \in 1 .. Len(n) /\ dst \in 1 .. Len(n) /\ src # dst
      BY <1>3, <1>8, <2>3
    <3>2. Agrees(net', net_of') /\ Len(net') = Len(n)
      BY <1>7, <2>3, <3>1, AgreesMerged
    <3>3. KeptTogether /\ DOMAIN net_of' = DOMAIN net_of
      BY <1>7, <2>3, <3>1 DEF KeptTogether, Agrees, Moved
    <3>4. \A k \in DOMAIN net_dict' : net_dict'[k] \in 1 .. Len(n)
      BY <1>9, <2>3, <3>1
    <3> QED BY <1>1, <2>3, <3>2, <3>3, <3>4
  <2> QED BY <1>2, <2>1, <2>2, <2>3 DEF n, dict, src, dst
<1>12. DOMAIN todo' \subseteq DOMAIN net_of'
  BY <1>1, <1>11 DEF NetlistInv, Restrict
<1>13. PinsKnown'
  BY <1>1, <1>11 DEF NetlistInv, PinsKnown
<1> QED BY <1>1, <1>11, <1>12, <1>13 DEF NetlistInv

(* Other fields of some nets change. *)
LEMMA AgreesAfter ==
  ASSUME Agrees(net, net_of), UNCHANGED net_of,
         net' = [i \in DOMAIN net |-> net'[i]],
         \A i \in DOMAIN net : IsNet(net[i]) =>
           IsNet(net'[i]) /\ net'[i].local_nets = net[i].local_nets
  PROVE  Agrees(net', net_of') /\ Len(net') = Len(net) /\ KeptTogether
<1>1. /\ Len(net) \in Nat /\ net = [i \in 1 .. Len(net) |-> net[i]]
      /\ \A i \in 1 .. Len(net) : IsNet(net[i])
  BY DEF Agrees, IsNetList
<1>2. DOMAIN net = 1 .. Len(net)
  BY <1>1
<1>3. Agrees(net', net_of) /\ Len(net') = Len(net)
  BY <1>1, <1>2, AgreesSame
<1> QED BY <1>3 DEF KeptTogether

(* Choosing the name of a net changes no lists (net.py:153-174). *)
LEMMA ChooseNamesInv == NetlistInv /\ ChooseNames => NetlistInv' /\ KeptTogether
<1> SUFFICES ASSUME NetlistInv, ChooseNames PROVE NetlistInv' /\ KeptTogether
  OBVIOUS
<1>1. /\ pc = "name" /\ pc' \in {"number", "crashed"}
      /\ UNCHANGED <<cpins, local_net, on_net, visit, todo, net_dict, net_of>>
  BY DEF ChooseNames, static, partvars, namevars
<1>2. /\ net' = [i \in DOMAIN net |-> net'[i]]
      /\ \A i \in DOMAIN net : net'[i] = net[i] \/ \E x : net'[i] = [net[i] EXCEPT !.name = x]
  <2>1. CASE pc' = "crashed"
    <3>1. net' = net
      BY <2>1 DEF ChooseNames
    <3> QED BY <3>1 DEF NetlistInv, Agrees, IsNetList
  <2>2. CASE pc' # "crashed"
    BY <2>2 DEF ChooseNames
  <2> QED BY <2>1, <2>2
<1>3. \A i \in DOMAIN net : IsNet(net[i]) =>
        IsNet(net'[i]) /\ net'[i].local_nets = net[i].local_nets
  BY <1>2 DEF IsNet
<1>4. Agrees(net', net_of') /\ Len(net') = Len(net) /\ KeptTogether
  BY <1>1, <1>2, <1>3, AgreesAfter DEF NetlistInv
<1>5. PinsKnown'
  BY <1>1 DEF NetlistInv, PinsKnown
<1> QED BY <1>1, <1>4, <1>5 DEF NetlistInv

(* The net made for a pin without one. *)
LEMMA NumberedNet ==
  ASSUME NEW V, NEW key, NEW u
  PROVE  LET r == [NewNet EXCEPT !.local_nets = V, !.name = key, !.is_unconnected_pin = u]
         IN IsNet(r) /\ r.local_nets = V
<1> DEFINE r1 == [NewNet EXCEPT !.local_nets = V]
           r2 == [r1 EXCEPT !.name = key]
           r3 == [r2 EXCEPT !.is_unconnected_pin = u]
<1>1. IsNet(NewNet)
  BY DEF NewNet, IsNet
<1>2. IsNet(r1) /\ r1.local_nets = V
  BY <1>1 DEF IsNet
<1> HIDE DEF r1
<1>3. IsNet(r2) /\ r2.local_nets = V
  BY <1>2 DEF IsNet
<1> HIDE DEF r2
<1>4. IsNet(r3) /\ r3.local_nets = V
  BY <1>3 DEF IsNet
<1> QED BY <1>4 DEF r1, r2, r3

(* A local net without a net is given a new one. *)
LEMMA NumberNetInv == NetlistInv /\ NumberNet => NetlistInv' /\ KeptTogether
<1> SUFFICES ASSUME NetlistInv, NumberNet PROVE NetlistInv' /\ KeptTogether
  OBVIOUS
<1>1. /\ pc = "number" /\ pc' = "number"
      /\ UNCHANGED <<cpins, local_net, on_net, visit, todo>>
  BY DEF NumberNet, static, partvars
<1>2. PICK first \in Unnamed : \E key, u :
        /\ net' = Append(net, [NewNet EXCEPT !.local_nets = {local_net[cpins[first]]},
                                 !.name = key, !.is_unconnected_pin = u])
        /\ net_of' = [net_of EXCEPT ![local_net[cpins[first]]] = Len(net) + 1]
        /\ net_dict' = Entered(net_dict, key, Len(net) + 1)
  BY DEF NumberNet
<1> DEFINE ln == local_net[cpins[first]]
           b  == Len(net) + 1
<1>3. PICK key, u :
        /\ net' = Append(net, [NewNet EXCEPT !.local_nets = {ln}, !.name = key,
                                             !.is_unconnected_pin = u])
        /\ net_of' = [net_of EXCEPT ![ln] = b]
        /\ net_dict' = Entered(net_dict, key, b)
  BY <1>2
<1> DEFINE r == [NewNet EXCEPT !.local_nets = {ln}, !.name = key, !.is_unconnected_pin = u]
<1>4. PinsKnown
  BY <1>1 DEF NetlistInv
<1>5. ln \in DOMAIN net_of /\ net_of[ln] = 0
  BY <1>4 DEF Unnamed, PinsKnown
<1> HIDE DEF ln
<1>6. IsNet(r) /\ r.local_nets = {ln}
  BY NumberedNet
<1>7. net' = Append(net, r)
  BY <1>3
<1> HIDE DEF r
<1>8. Agrees(net, net_of) /\ Len(net) \in Nat
  BY DEF NetlistInv, Agrees, IsNetList
<1>9. Agrees(net', net_of') /\ Len(net') = b
  <2>1. /\ Agrees(Append(net, r), [net_of EXCEPT ![ln] = Len(net) + 1])
        /\ Len(Append(net, r)) = Len(net) + 1
    BY <1>5, <1>6, <1>8, AgreesPutNew
  <2>2. net_of' = [net_of EXCEPT ![ln] = Len(net) + 1]
    BY <1>3
  <2> QED BY <1>7, <2>1, <2>2
<1>10. KeptTogether /\ DOMAIN net_of' = DOMAIN net_of
  BY <1>3, <1>5 DEF KeptTogether
<1>11. \A k \in DOMAIN net_dict' : net_dict'[k] \in 1 .. b
  BY <1>3, <1>8 DEF NetlistInv, Entered
<1>12. PinsKnown'
  BY <1>1, <1>4, <1>10 DEF PinsKnown
<1> QED BY <1>1, <1>9, <1>10, <1>11, <1>12 DEF NetlistInv

(* Pins are added to the nets they are in (netlist.py:304-322). *)
LEMMA CollectPinsInv == NetlistInv /\ CollectPins => NetlistInv' /\ KeptTogether
<1> SUFFICES ASSUME NetlistInv, CollectPins PROVE NetlistInv' /\ KeptTogether
  OBVIOUS
<1>1. /\ pc = "number" /\ Unnamed = {} /\ pc' \in {"hierarchy", "crashed"}
      /\ UNCHANGED <<cpins, local_net, on_net, todo, net_dict, net_of>>
  BY DEF CollectPins, static, namevars
<1>2. /\ net' = [i \in DOMAIN net |-> net'[i]]
      /\ \A i \in DOMAIN net :
           net'[i] = net[i] \/ \E x : net'[i] = [net[i] EXCEPT !.component_pins = x]
      /\ visit' = visit \/ \E x : visit' = [visit EXCEPT !.composites = x]
  <2>1. CASE pc' = "crashed"
    <3>1. net' = net /\ visit' = visit
      BY <2>1 DEF CollectPins
    <3> QED BY <3>1 DEF NetlistInv, Agrees, IsNetList
  <2>2. CASE pc' # "crashed"
    BY <2>2 DEF CollectPins
  <2> QED BY <2>1, <2>2
<1>3. \A i \in DOMAIN net : IsNet(net[i]) =>
        IsNet(net'[i]) /\ net'[i].local_nets = net[i].local_nets
  BY <1>2 DEF IsNet
<1>4. Agrees(net', net_of') /\ Len(net') = Len(net) /\ KeptTogether
  BY <1>1, <1>2, <1>3, AgreesAfter DEF NetlistInv
<1>5. PinsKnown /\ PinsKnown'
  BY <1>1 DEF NetlistInv, PinsKnown
<1>6. IsVisit(visit') /\ visit'.ports = <<>>
  BY <1>1, <1>2 DEF NetlistInv, IsVisit, NotBegun
<1>7. \A p \in DOMAIN local_net : net_of[local_net[p]] # 0
  BY <1>1, <1>5 DEF Unnamed, PinsKnown
<1>8. HierarchyInv'
  BY <1>1, <1>6, <1>7 DEF HierarchyInv, NetOf
<1> QED BY <1>1, <1>4, <1>5, <1>6, <1>8 DEF NetlistInv

(* A pin that has not been removed is in a net. *)
LEMMA PinInNet ==
  ASSUME NetlistInv, pc = "hierarchy", NEW p \in on_net
  PROVE  NetOf(p) \in 1 .. Len(net)
<1>1. local_net[p] \in DOMAIN net_of /\ NetOf(p) # 0
  BY DEF NetlistInv, PinsKnown, HierarchyInv
<1>2. Len(net) \in Nat /\ net_of \in [DOMAIN net_of -> 0 .. Len(net)]
  BY DEF NetlistInv, Agrees, IsNetList
<1> QED BY <1>1, <1>2 DEF NetOf

(* Taking pins off a net. *)
LEMMA AgreesWithoutPin ==
  ASSUME NEW n, NEW o, Agrees(n, o), NEW dst, NEW p
  PROVE  Agrees(WithoutPin(n, dst, p), o) /\ Len(WithoutPin(n, dst, p)) = Len(n)
<1> DEFINE m == WithoutPin(n, dst, p)
<1>1. n = [i \in 1 .. Len(n) |-> n[i]] /\ \A i \in 1 .. Len(n) : IsNet(n[i])
  BY DEF Agrees, IsNetList
<1>2. m = [i \in 1 .. Len(n) |-> m[i]]
  BY <1>1 DEF WithoutPin
<1>3. \A i \in 1 .. Len(n) : m[i] = n[i] \/ \E x : m[i] = [n[i] EXCEPT !.component_pins = x]
  BY <1>1 DEF WithoutPin
<1> HIDE DEF m
<1>4. \A i \in 1 .. Len(n) : IsNet(m[i]) /\ m[i].local_nets = n[i].local_nets
  BY <1>1, <1>3 DEF IsNet
<1>5. Agrees(m, o) /\ Len(m) = Len(n)
  BY <1>2, <1>4, AgreesSame
<1> QED BY <1>5 DEF m

(* Joining two nets and their pins. *)
LEMMA AgreesJoined ==
  ASSUME NEW n, Agrees(n, net_of), NEW src \in 1 .. Len(n), NEW dst \in 1 .. Len(n),
         src # dst
  PROVE  /\ Agrees(Joined(n, src, dst), Moved(n, src, dst))
         /\ Len(Joined(n, src, dst)) = Len(n)
<1> DEFINE g == Merged(n, src, dst)
           m == Joined(n, src, dst)
           q == Moved(n, src, dst)
<1>1. Agrees(g, q) /\ Len(g) = Len(n)
  BY AgreesMerged
<1>2. m = [g EXCEPT ![dst].component_pins = @ \cup n[src].component_pins,
                    ![src].component_pins = {}]
  BY DEF Joined
<1> HIDE DEF g, m, q
<1>3. g = [i \in 1 .. Len(g) |-> g[i]] /\ \A i \in 1 .. Len(g) : IsNet(g[i])
  BY <1>1 DEF Agrees, IsNetList
<1>4. m = [i \in 1 .. Len(g) |-> m[i]]
  BY <1>2, <1>3
<1>5. \A i \in 1 .. Len(g) : m[i] = g[i] \/ \E x : m[i] = [g[i] EXCEPT !.component_pins = x]
  BY <1>2, <1>3
<1>6. \A i \in 1 .. Len(g) : IsNet(m[i]) /\ m[i].local_nets = g[i].local_nets
  BY <1>3, <1>5 DEF IsNet
<1>7. Agrees(m, q) /\ Len(m) = Len(n)
  BY <1>1, <1>4, <1>6, AgreesSame
<1> QED BY <1>7 DEF m, q

(* A pin of a composite is taken off its net. *)
LEMMA ResolvePinInv == NetlistInv /\ ResolvePin => NetlistInv' /\ KeptTogether
<1> SUFFICES ASSUME NetlistInv, ResolvePin PROVE NetlistInv' /\ KeptTogether
  OBVIOUS
<1>1. /\ pc = "hierarchy"
      /\ UNCHANGED <<cpins, local_net, todo, net_dict, net_of>>
  BY DEF ResolvePin, static, namevars
<1>2. KeptTogether
  BY <1>1 DEF KeptTogether
<1>3. PinsKnown /\ PinsKnown'
  BY <1>1 DEF NetlistInv, PinsKnown
<1>4. CASE pc' = "crashed" /\ UNCHANGED <<on_net, net, visit, failed>>
  BY <1>1, <1>2, <1>3, <1>4 DEF NetlistInv, Agrees, IsNetList
<1>5. CASE pc' = pc
  <2> DEFINE p    == Head(visit.pins)
             dest == NetOf(p)
  <2>1. /\ p \in on_net
        /\ on_net' = on_net \ {p}
        /\ net' = WithoutPin(net, dest, p)
    BY <1>1, <1>5 DEF ResolvePin
  <2> DEFINE label == Label(Object(p[1]), p[2])
             bad   == label = None \/ label \in visit.labels
             seen  == IF label = None THEN visit.labels ELSE visit.labels \cup {label}
             found == IF bad THEN <<>> ELSE PortsFor(label)
  <2>2. visit' = [visit EXCEPT !.pins = Tail(@), !.dest = dest, !.labels = seen, !.ports = found]
    BY <1>1, <1>5 DEF ResolvePin
  <2> HIDE DEF p, label, bad, seen, found
  <2>3. IsVisit(visit') /\ visit'.dest = dest
    BY <2>2 DEF NetlistInv, IsVisit
  <2>4. dest \in 1 .. Len(net)
    BY <1>1, <2>1, PinInNet
  <2> HIDE DEF dest
  <2>5. Agrees(net', net_of') /\ Len(net') = Len(net)
    BY <1>1, <2>1, AgreesWithoutPin DEF NetlistInv
  <2>6. HierarchyInv'
    BY <1>1, <2>3, <2>4, <2>5 DEF NetlistInv, HierarchyInv, NetOf
  <2> QED BY <1>1, <1>2, <1>3, <1>5, <2>1, <2>3, <2>5, <2>6 DEF NetlistInv
<1> QED BY <1>4, <1>5 DEF ResolvePin

(* The net of a port becomes one with that of the pin. *)
LEMMA JoinPortInv == NetlistInv /\ JoinPort => NetlistInv' /\ KeptTogether
<1> SUFFICES ASSUME NetlistInv, JoinPort PROVE NetlistInv' /\ KeptTogether
  OBVIOUS
<1>1. /\ pc = "hierarchy" /\ visit.ports # <<>>
      /\ UNCHANGED <<cpins, local_net, todo, net_dict>>
  BY DEF JoinPort, static, namevars
<1>2. PinsKnown /\ HierarchyInv
  BY <1>1 DEF NetlistInv
<1>3. CASE pc' = "crashed" /\ UNCHANGED <<netvars, on_sheet, on_net, visit>>
  BY <1>1, <1>2, <1>3 DEF NetlistInv, Agrees, IsNetList, PinsKnown, KeptTogether, netvars
<1>4. CASE pc' = pc
  <2> DEFINE c    == Head(visit.ports)
             p    == Head(PinsOfComponent(c))
             src  == NetOf(p)
             dest == visit.dest
             n    == IF src = dest THEN net ELSE Joined(net, src, dest)
  <2>1. /\ p \in on_net
        /\ on_net' = on_net \ {p}
        /\ net' = WithoutPin(n, dest, p)
        /\ net_of' = IF src = dest THEN net_of ELSE Moved(net, src, dest)
    BY <1>1, <1>4 DEF JoinPort
  <2>2. \E a, b : visit' = [visit EXCEPT !.ports = a, !.removed = b]
    BY <1>1, <1>4 DEF JoinPort
  <2> HIDE DEF p
  <2>3. IsVisit(visit') /\ visit'.dest = dest
    BY <2>2 DEF NetlistInv, IsVisit
  <2>4. src \in 1 .. Len(net) /\ dest \in 1 .. Len(net)
    BY <1>1, <1>2, <2>1, PinInNet DEF HierarchyInv
  <2> HIDE DEF src, dest
  <2>5. /\ Agrees(n, net_of') /\ Len(n) = Len(net) /\ KeptTogether
        /\ DOMAIN net_of' = DOMAIN net_of
        /\ \A x \in DOMAIN net_of : net_of[x] # 0 => net_of'[x] # 0
    <3>1. CASE src = dest
      BY <2>1, <3>1 DEF NetlistInv, KeptTogether
    <3>2. CASE src # dest
      <4>1. n = Joined(net, src, dest) /\ net_of' = Moved(net, src, dest)
        BY <2>1, <3>2
      <4>2. Agrees(net, net_of)
        BY DEF NetlistInv
      <4>3. Agrees(n, net_of') /\ Len(n) = Len(net)
        BY <2>4, <3>2, <4>1, <4>2, AgreesJoined
      <4>4. KeptTogether /\ DOMAIN net_of' = DOMAIN net_of
        BY <2>4, <4>1, <4>2 DEF KeptTogether, Agrees, Moved
      <4>5. \A x \in DOMAIN net_of : net_of[x] # 0 => net_of'[x] # 0
        BY <2>4, <4>1 DEF Moved
      <4> QED BY <4>3, <4>4, <4>5
    <3> QED BY <3>1, <3>2
  <2> HIDE DEF n
  <2>6. Agrees(net', net_of') /\ Len(net') = Len(net)
    BY <2>1, <2>5, AgreesWithoutPin
  <2>7. PinsKnown'
    BY <1>1, <1>2, <2>5 DEF PinsKnown
  <2>8. HierarchyInv'
    BY <1>1, <1>2, <2>3, <2>4, <2>5, <2>6 DEF HierarchyInv, PinsKnown, NetOf
  <2> QED BY <1>1, <1>4, <2>1, <2>3, <2>5, <2>6, <2>7, <2>8 DEF NetlistInv
<1> QED BY <1>3, <1>4 DEF JoinPort

(* Beginning with a composite only changes what is to do. *)
LEMMA BeginCompositeInv == NetlistInv /\ BeginComposite => NetlistInv' /\ KeptTogether
<1> SUFFICES ASSUME NetlistInv, BeginComposite PROVE NetlistInv' /\ KeptTogether
  OBVIOUS
<1>1. /\ pc = "hierarchy" /\ pc' = pc
      /\ UNCHANGED <<cpins, local_net, todo, net_dict, net, net_of, on_net>>
  BY DEF BeginComposite, static, namevars, netvars
<1> DEFINE l == PinsOfComponent(Composite)
           m == {c \in on_sheet : SheetOf(c) \in SubsheetsOf(Composite)}
           t == TRUE
<1>2. visit' = [visit EXCEPT !.begun = t, !.pins = l, !.labels = {}, !.candidates = m]
  BY DEF BeginComposite
<1> HIDE DEF l, m, t
<1>3. /\ IsVisit(visit')
      /\ visit'.ports = visit.ports /\ visit'.dest = visit.dest
  <2> DEFINE w1 == [visit EXCEPT !.begun = t]
             w2 == [w1 EXCEPT !.pins = l]
             w3 == [w2 EXCEPT !.labels = {}]
             w4 == [w3 EXCEPT !.candidates = m]
  <2>1. visit' = w4
    BY <1>2
  <2>2. IsVisit(w1) /\ w1.ports = visit.ports /\ w1.dest = visit.dest
    BY DEF NetlistInv, IsVisit
  <2> HIDE DEF w1
  <2>3. IsVisit(w2) /\ w2.ports = visit.ports /\ w2.dest = visit.dest
    BY <2>2 DEF IsVisit
  <2> HIDE DEF w2
  <2>4. IsVisit(w3) /\ w3.ports = visit.ports /\ w3.dest = visit.dest
    BY <2>3 DEF IsVisit
  <2> HIDE DEF w3
  <2>5. IsVisit(w4) /\ w4.ports = visit.ports /\ w4.dest = visit.dest
    BY <2>4 DEF IsVisit
  <2> HIDE DEF w4
  <2> QED BY <2>1, <2>5
<1>4. PinsKnown' /\ HierarchyInv'
  BY <1>1, <1>3 DEF NetlistInv, PinsKnown, HierarchyInv, NetOf
<1> QED BY <1>1, <1>3, <1>4 DEF NetlistInv, Agrees, IsNetList, KeptTogether

(* Ending with a composite removes it, and no local nets. *)
LEMMA EndCompositeInv ==
  NetlistInv /\ (EndComposite \/ EndHierarchy) => NetlistInv' /\ KeptTogether
<1> SUFFICES ASSUME NetlistInv, EndComposite \/ EndHierarchy PROVE NetlistInv' /\ KeptTogether
  OBVIOUS
<1>1. /\ pc = "hierarchy" /\ pc' \in {"hierarchy", "crashed", "package"}
      /\ UNCHANGED <<cpins, local_net, todo, net_dict, net, net_of, on_net>>
  BY DEF EndComposite, EndHierarchy, static, namevars, netvars
<1>2. IsVisit(NotBegun) /\ NotBegun.ports = <<>>
  BY DEF NotBegun, IsVisit
<1>3. IsVisit(visit') /\ visit'.ports = <<>>
  <2>1. \/ visit' = NotBegun
        \/ \E a, b : visit' = [NotBegun EXCEPT !.composites = a, !.removed = b]
    BY DEF EndComposite, EndHierarchy
  <2> QED BY <1>2, <2>1 DEF IsVisit
<1>4. PinsKnown' /\ HierarchyInv'
  BY <1>1, <1>3 DEF NetlistInv, PinsKnown, HierarchyInv, NetOf
<1> QED BY <1>1, <1>3, <1>4 DEF NetlistInv, Agrees, IsNetList, KeptTogether

(* Packaging takes pins off nets, but no local nets. *)
LEMMA PackageInv == NetlistInv /\ Package => NetlistInv' /\ KeptTogether
<1> SUFFICES ASSUME NetlistInv, Package PROVE NetlistInv' /\ KeptTogether
  OBVIOUS
<1>1. /\ pc = "package" /\ pc' \in {"drop", "crashed"}
      /\ on_net' \subseteq on_net
      /\ UNCHANGED <<cpins, local_net, todo, net_dict, net_of, visit>>
  BY DEF Package, static, namevars
<1>2. /\ net' = [i \in DOMAIN net |-> net'[i]]
      /\ \A i \in DOMAIN net :
           \E x, y : net'[i] = [net[i] EXCEPT !.component_pins = x, !.connections = y]
  BY DEF Package
<1>3. \A i \in DOMAIN net : IsNet(net[i]) =>
        IsNet(net'[i]) /\ net'[i].local_nets = net[i].local_nets
  BY <1>2 DEF IsNet
<1>4. Agrees(net', net_of') /\ Len(net') = Len(net) /\ KeptTogether
  BY <1>1, <1>2, <1>3, AgreesAfter DEF NetlistInv
<1>5. PinsKnown'
  BY <1>1 DEF NetlistInv, PinsKnown
<1> QED BY <1>1, <1>4, <1>5 DEF NetlistInv

(* Only the list of the result loses nets (netlist.py:336-341). *)
LEMMA DropUnconnectedInv == NetlistInv /\ DropUnconnected => NetlistInv' /\ KeptTogether
<1> SUFFICES ASSUME NetlistInv, DropUnconnected PROVE NetlistInv' /\ KeptTogether
  OBVIOUS
<1>1. /\ pc = "drop" /\ pc' = "done"
      /\ UNCHANGED <<cpins, local_net, on_net, todo, net_dict, net_of, visit>>
  BY DEF DropUnconnected, static, namevars, partvars
<1>2. /\ net' = [i \in DOMAIN net |-> net'[i]]
      /\ \A i \in DOMAIN net : \E x : net'[i] = [net[i] EXCEPT !.is_unconnected_pin = x]
  BY DEF DropUnconnected
<1>3. \A i \in DOMAIN net : IsNet(net[i]) =>
        IsNet(net'[i]) /\ net'[i].local_nets = net[i].local_nets
  BY <1>2 DEF IsNet
<1>4. Agrees(net', net_of') /\ Len(net') = Len(net) /\ KeptTogether
  BY <1>1, <1>2, <1>3, AgreesAfter DEF NetlistInv
<1>5. PinsKnown'
  BY <1>1 DEF NetlistInv, PinsKnown
<1> QED BY <1>1, <1>4, <1>5 DEF NetlistInv

(* One step of a run, or none. *)
LEMMA StepInv ==
  ASSUME NetlistInv, [Next]_vars
  PROVE  NetlistInv' /\ (pc \notin {"read", "instantiate"} => KeptTogether)
<1>1. CASE Read
  BY <1>1, ReadInv DEF Read
<1>2. CASE Instantiate
  BY <1>2, InstantiateInv DEF Instantiate
<1>3. ASSUME NEW ln \in DOMAIN todo, NameLocalNet(ln)
      PROVE  NetlistInv' /\ KeptTogether
  BY <1>3, NameLocalNetInv
<1>4. CASE ChooseNames
  BY <1>4, ChooseNamesInv
<1>5. CASE NumberNet
  BY <1>5, NumberNetInv
<1>6. CASE CollectPins
  BY <1>6, CollectPinsInv
<1>7. CASE BeginComposite
  BY <1>7, BeginCompositeInv
<1>8. CASE ResolvePin
  BY <1>8, ResolvePinInv
<1>9. CASE JoinPort
  BY <1>9, JoinPortInv
<1>10. CASE EndComposite \/ EndHierarchy
  BY <1>10, EndCompositeInv
<1>11. CASE Package
  BY <1>11, PackageInv
<1>12. CASE DropUnconnected
  BY <1>12, DropUnconnectedInv
<1>13. CASE UNCHANGED vars
  BY <1>13 DEF vars, static, namevars, netvars, partvars, NetlistInv, Agrees, IsNetList,
               PinsKnown, HierarchyInv, NetOf, KeptTogether
<1> QED BY <1>1, <1>2, <1>3, <1>4, <1>5, <1>6, <1>7, <1>8, <1>9, <1>10, <1>11, <1>12,
           <1>13 DEF Next, Finished

-----------------------------------------------------------------------------
(* The local nets that a net lists are those whose net it is, at all times and
   in any design: this is what makes Net.merge_into (net.py) move all of them. *)
THEOREM NetListsComplete == Spec => []NetlistInv
<1>1. Init => NetlistInv
  BY InitInv
<1>2. NetlistInv /\ [Next]_vars => NetlistInv'
  BY StepInv
<1> QED BY <1>1, <1>2, PTL DEF Spec

(* Joining local nets, by their names or through ports, is never undone, in any
   design: neither net.py nor pp_hierarchy.py separates what is in one net. *)
THEOREM JoinedForGoodAlways == Spec => JoinedForGood
<1>1. NetlistInv /\ [Next]_vars =>
        [pc \notin {"read", "instantiate"} =>
           \A a, b \in DOMAIN net_of :
             net_of[a] # 0 /\ net_of[a] = net_of[b] => net_of'[a] = net_of'[b]]_vars
  BY StepInv DEF KeptTogether
<1> QED BY <1>1, NetListsComplete, PTL DEF Spec, JoinedForGood
-----------------------------------------------------------------------------
(***************************************************************************)
(* What holds of the state of the netlister in any design: names lead to   *)
(* the right Net objects while local nets are merged, the nets of the      *)
(* result have different names and list the pins on them, and an exception *)
(* comes only after an error that was reported.                            *)
(*                                                                         *)
(* The inductive invariant RunInv has three parts: NetlistInv, proved with *)
(* the net lists; ShapeInv, which says what the lists of components, pins  *)
(* and nets hold; and NamesInv, which relates net_dict, the names of the   *)
(* nets, and the nets of the local nets, phase by phase.  It needs facts   *)
(* about the operators the model is built from: the nets of a page, the    *)
(* sheets, the components below a sheet, the pins of a component and the   *)
(* names of a local net.  ResultInv, inductive with RunInv, says what      *)
(* becomes of components, pins and nets in a run without errors.           *)
(***************************************************************************)

-----------------------------------------------------------------------------
(* The nets of a page *)

Together(ab, P) ==
  LET met == {V \in P : ab[1] \in V \/ ab[2] \in V}
  IN (P \ met) \cup {UNION met}

GroupStep(S, P, g) ==
  IF P = {} THEN {{a} : a \in S}
  ELSE Together(CHOOSE x \in P : TRUE, g[P \ {CHOOSE x \in P : TRUE}])

Groups(S, pairs) == CHOOSE g : g = [P \in SUBSET pairs |-> GroupStep(S, P, g)]

\* Grouped is the last of the partitions it is built from.
LEMMA GroupedIs == ASSUME NEW S, NEW pairs PROVE Grouped(S, pairs) = Groups(S, pairs)[pairs]
BY DEF Grouped, FoldSet, MapThenFoldSet, Groups, GroupStep, Together

Coverings(S) == {P \in SUBSET SUBSET S : UNION P = S}

\* Joining two groups takes nothing away.
LEMMA TogetherCovers ==
  ASSUME NEW S, NEW P \in Coverings(S), NEW ab
  PROVE  Together(ab, P) \in Coverings(S)
<1> DEFINE met == {V \in P : ab[1] \in V \/ ab[2] \in V}
           Q == (P \ met) \cup {UNION met}
<1>1. \A V \in P : V \subseteq S
  BY DEF Coverings
<1>2. Q \in SUBSET SUBSET S
  BY <1>1
<1>3. ASSUME NEW x \in S PROVE x \in UNION Q
  <2>1. PICK V \in P : x \in V
    BY DEF Coverings
  <2>2. CASE V \in met
    <3>1. x \in UNION met
      BY <2>1, <2>2
    <3> QED BY <3>1
  <2>3. CASE V \notin met
    BY <2>1, <2>3
  <2> QED BY <2>2, <2>3
<1> QED BY <1>2, <1>3 DEF Together, Coverings

\* The pair that FoldSet takes next.
OneOf(P) == CHOOSE x \in P : TRUE

\* For finitely many pairs there is a function as Groups is to be.
LEMMA GroupsExist ==
  ASSUME NEW S, NEW pairs, IsFiniteSet(pairs)
  PROVE  Groups(S, pairs) = [P \in SUBSET pairs |-> GroupStep(S, P, Groups(S, pairs))]
<1> DEFINE X == SUBSET pairs
           D == Coverings(S)
           N == Cardinality(pairs)
           rank == [P \in X |-> Cardinality(P)]
           st == [z \in X \X [X -> D] |-> GroupStep(S, z[1], z[2])]
           base == {{a} : a \in S}
<1>1. N \in Nat /\ rank \in [X -> 0 .. N]
  <2>1. \A P \in X : Cardinality(P) \in 0 .. N
    BY FS_Subset, FS_CardinalityType
  <2> QED BY <2>1, FS_CardinalityType
<1>2. base \in D
  BY DEF Coverings
<1>3. ASSUME NEW P \in X, P # {}
      PROVE  /\ OneOf(P) \in P /\ P \ {OneOf(P)} \in X
             /\ rank[P \ {OneOf(P)}] < rank[P]
  <2>1. OneOf(P) \in P
    BY <1>3 DEF OneOf
  <2>2. IsFiniteSet(P)
    BY FS_Subset
  <2>3. Cardinality(P \ {OneOf(P)}) = Cardinality(P) - 1 /\ Cardinality(P) \in Nat
    BY <2>1, <2>2, FS_RemoveElement, FS_CardinalityType
  <2> QED BY <2>1, <2>3
<1>4. ASSUME NEW P \in X, NEW g, P # {}
      PROVE  GroupStep(S, P, g) = Together(OneOf(P), g[P \ {OneOf(P)}])
  BY <1>4 DEF GroupStep, OneOf
<1>5. st \in [X \X [X -> D] -> D]
  <2>1. ASSUME NEW P \in X, NEW g \in [X -> D] PROVE GroupStep(S, P, g) \in D
    <3>1. CASE P = {}
      BY <1>2, <3>1 DEF GroupStep
    <3>2. CASE P # {}
      <4>1. g[P \ {OneOf(P)}] \in D
        BY <1>3, <3>2
      <4> QED BY <1>4, <3>2, <4>1, TogetherCovers
    <3> QED BY <3>1, <3>2
  <2> QED BY <2>1
<1>6. ASSUME NEW P \in X, NEW g \in [X -> D] PROVE st[<<P, g>>] = GroupStep(S, P, g)
  OBVIOUS
<1>7. ASSUME NEW P \in X, NEW g \in [X -> D], NEW h \in [X -> D],
             \A y \in X : rank[y] < rank[P] => g[y] = h[y]
      PROVE  st[<<P, g>>] = st[<<P, h>>]
  <2>1. CASE P = {}
    BY <1>6, <2>1 DEF GroupStep
  <2>2. CASE P # {}
    <3>1. g[P \ {OneOf(P)}] = h[P \ {OneOf(P)}]
      BY <1>3, <1>7, <2>2
    <3>2. GroupStep(S, P, g) = GroupStep(S, P, h)
      BY <1>4, <2>2, <3>1
    <3> QED BY <1>6, <3>2
  <2> QED BY <2>1, <2>2
<1> HIDE DEF X, D, N, rank, st, base
<1>8. PICK g : IsRecursion(g, X, D, st)
  BY <1>1, <1>2, <1>5, <1>7, Ranked
<1>9. g = [P \in SUBSET pairs |-> GroupStep(S, P, g)]
  BY <1>6, <1>8 DEF IsRecursion, X
<1> QED BY <1>9 DEF Groups

\* The elements of each pair are both in T, or neither is.
Respects(T, pairs) == \A ab \in pairs : ab[1] \in T <=> ab[2] \in T

\* G takes S apart: its groups have elements, and none in common.
Splits(G, S) ==
  /\ UNION G = S /\ {} \notin G
  /\ \A V, W \in G : V \cap W # {} => V = W

\* The smallest groups that keep the elements of each pair together.
IsGrouping(G, S, pairs) ==
  /\ Splits(G, S)
  /\ \A V \in G : Respects(V, pairs)
  /\ \A T \in SUBSET S : Respects(T, pairs) => \A V \in G : V \subseteq T \/ V \cap T = {}

\* So are those where the groups that one more pair meets are joined.
LEMMA TogetherGroups ==
  ASSUME NEW S, NEW pairs, NEW G, IsGrouping(G, S, pairs), NEW ab, ab[1] \in S, ab[2] \in S
  PROVE  IsGrouping(Together(ab, G), S, pairs \cup {ab})
<1> DEFINE met == {V \in G : ab[1] \in V \/ ab[2] \in V}
           U == UNION met
           Q == (G \ met) \cup {U}
<1>1. /\ UNION G = S /\ {} \notin G
      /\ \A V, W \in G : V \cap W # {} => V = W
      /\ \A V \in G : Respects(V, pairs)
      /\ \A T \in SUBSET S : Respects(T, pairs) => \A V \in G : V \subseteq T \/ V \cap T = {}
  BY DEF IsGrouping, Splits
<1>2. PICK A \in G : ab[1] \in A
  BY <1>1
<1>3. PICK B \in G : ab[2] \in B
  BY <1>1
<1>4. A \in met /\ B \in met /\ ab[1] \in U /\ ab[2] \in U
  BY <1>2, <1>3
<1>5. UNION Q = S
  <2>1. \A x \in S : x \in UNION Q
    <3> SUFFICES ASSUME NEW x \in S PROVE x \in UNION Q
      OBVIOUS
    <3>1. PICK V \in G : x \in V
      BY <1>1
    <3>2. CASE V \in met
      <4>1. x \in U
        BY <3>1, <3>2
      <4> HIDE DEF U
      <4> QED BY <4>1
    <3>3. CASE V \notin met
      BY <3>1, <3>3
    <3> QED BY <3>2, <3>3
  <2>2. U \subseteq S
    BY <1>1
  <2>3. \A V \in Q : V \subseteq S
    BY <1>1, <2>2
  <2> HIDE DEF Q
  <2> QED BY <2>1, <2>3
<1>6. {} \notin Q
  BY <1>1, <1>4
<1>7. ASSUME NEW V \in G \ met PROVE V \cap U = {}
  BY <1>1, <1>7
<1>8. \A V, W \in Q : V \cap W # {} => V = W
  <2> HIDE DEF U, met
  <2> QED BY <1>1, <1>7
<1>9. ASSUME NEW V \in Q PROVE Respects(V, pairs \cup {ab})
  <2>1. CASE V = U
    <3>1. Respects(U, pairs)
      BY <1>1 DEF Respects
    <3> QED BY <1>4, <2>1, <3>1 DEF Respects
  <2>2. CASE V \in G \ met
    BY <1>1, <2>2 DEF Respects
  <2> QED BY <2>1, <2>2
<1>10. ASSUME NEW T \in SUBSET S, Respects(T, pairs \cup {ab}), NEW V \in Q
       PROVE  V \subseteq T \/ V \cap T = {}
  <2>1. Respects(T, pairs) /\ (ab[1] \in T <=> ab[2] \in T)
    BY <1>10 DEF Respects
  <2>2. \A W \in G : W \subseteq T \/ W \cap T = {}
    BY <1>1, <2>1
  <2>3. CASE V = U
    <3>1. CASE ab[1] \in T
      <4>1. \A W \in met : W \subseteq T
        BY <2>1, <2>2, <3>1
      <4> QED BY <2>3, <4>1
    <3>2. CASE ab[1] \notin T
      <4>1. \A W \in met : W \cap T = {}
        BY <2>1, <2>2, <3>2
      <4> QED BY <2>3, <4>1
    <3> QED BY <3>1, <3>2
  <2>4. CASE V \in G \ met
    BY <2>2, <2>4
  <2> QED BY <2>3, <2>4
<1>11. Together(ab, G) = Q
  BY DEF Together
<1> HIDE DEF Q
<1> QED BY <1>5, <1>6, <1>8, <1>9, <1>10, <1>11 DEF IsGrouping, Splits

\* Grouped does what its comment says, for finitely many pairs.
LEMMA GroupedIsGrouping ==
  ASSUME NEW S, NEW pairs, IsFiniteSet(pairs), pairs \subseteq S \X S
  PROVE  IsGrouping(Grouped(S, pairs), S, pairs)
<1> DEFINE X == SUBSET pairs
           N == Cardinality(pairs)
           k == Groups(S, pairs)
           G == {n \in 0 .. N : \A P \in X : Cardinality(P) = n => IsGrouping(k[P], S, P)}
<1>1. N \in Nat /\ \A P \in X : IsFiniteSet(P)
  BY FS_Subset, FS_CardinalityType
<1>2. k = [P \in SUBSET pairs |-> GroupStep(S, P, k)]
  BY GroupsExist
<1> HIDE DEF k
<1>3. \A P \in X : k[P] = GroupStep(S, P, k)
  BY <1>2
<1>4. 0 \in G
  <2> SUFFICES ASSUME NEW P \in X, Cardinality(P) = 0 PROVE IsGrouping(k[P], S, P)
    BY <1>1
  <2>1. P = {}
    BY <1>1, FS_EmptySet
  <2>2. k[P] = {{a} : a \in S}
    BY <1>3, <2>1 DEF GroupStep
  <2> DEFINE I == {{a} : a \in S}
  <2>3. Splits(I, S)
    <3>1. UNION I = S /\ {} \notin I
      OBVIOUS
    <3>2. \A V, W \in I : V \cap W # {} => V = W
      OBVIOUS
    <3> QED BY <3>1, <3>2 DEF Splits
  <2>4. \A T \in SUBSET S : \A V \in I : V \subseteq T \/ V \cap T = {}
    OBVIOUS
  <2> HIDE DEF I
  <2>5. \A T : Respects(T, P)
    BY <2>1 DEF Respects
  <2> QED BY <2>2, <2>3, <2>4, <2>5 DEF IsGrouping, I
<1>5. ASSUME NEW n \in 0 .. N - 1, n \in G PROVE n + 1 \in G
  <2> SUFFICES ASSUME NEW P \in X, Cardinality(P) = n + 1 PROVE IsGrouping(k[P], S, P)
    BY <1>1
  <2>1. P # {}
    BY FS_EmptySet
  <2> DEFINE ab == OneOf(P)
             R == P \ {ab}
  <2>2. ab \in P
    BY <2>1 DEF OneOf
  <2>3. R \in X /\ Cardinality(R) = n
    <3>1. IsFiniteSet(P)
      BY <1>1
    <3>2. Cardinality(R) = Cardinality(P) - 1
      BY <2>2, <3>1, FS_RemoveElement
    <3>3. n \in Nat
      BY <1>1
    <3> QED BY <3>2, <3>3
  <2>4. k[P] = Together(ab, k[R])
    BY <1>3, <2>1 DEF GroupStep, OneOf
  <2>5. ab[1] \in S /\ ab[2] \in S
    BY <2>2
  <2>6. IsGrouping(k[R], S, R)
    BY <1>5, <2>3
  <2>7. P = R \cup {ab}
    BY <2>2
  <2> HIDE DEF ab, R
  <2>8. IsGrouping(Together(ab, k[R]), S, R \cup {ab})
    BY <2>5, <2>6, TogetherGroups
  <2> QED BY <2>4, <2>7, <2>8
<1> HIDE DEF G
<1>6. \A n \in 0 .. N : n \in G
  BY <1>1, <1>4, <1>5, UpTo
<1>7. N \in G /\ pairs \in X
  BY <1>1, <1>6
<1>8. IsGrouping(k[pairs], S, pairs)
  BY <1>7 DEF G
<1> QED BY <1>8, GroupedIs DEF k

\* Pairs that the same sets respect make the same groups.
LEMMA GroupingUnique ==
  ASSUME NEW S, NEW pairs, NEW others, NEW G, NEW H,
         IsGrouping(G, S, pairs), IsGrouping(H, S, others),
         \A T \in SUBSET S : Respects(T, pairs) <=> Respects(T, others)
  PROVE  G = H
<1>1. ASSUME NEW P, NEW Q, NEW I, NEW J, IsGrouping(I, S, P), IsGrouping(J, S, Q),
             \A T \in SUBSET S : Respects(T, P) <=> Respects(T, Q), NEW V \in I
      PROVE  V \in J
  <2>1. V \subseteq S /\ V # {} /\ Respects(V, P)
    BY <1>1 DEF IsGrouping, Splits
  <2>2. PICK x \in V : TRUE
    BY <2>1
  <2>3. PICK W \in J : x \in W
    BY <1>1, <2>1, <2>2 DEF IsGrouping, Splits
  <2>4. W \subseteq S /\ Respects(W, Q)
    BY <1>1 DEF IsGrouping, Splits
  <2>5. V \subseteq W \/ V \cap W = {}
    BY <1>1, <2>4 DEF IsGrouping
  <2>6. W \subseteq V \/ W \cap V = {}
    BY <1>1, <2>1 DEF IsGrouping
  <2>7. V = W
    BY <2>2, <2>3, <2>5, <2>6
  <2> QED BY <2>7
<1>2. \A V \in G : V \in H
  BY <1>1
<1>3. \A V \in H : V \in G
  BY <1>1
<1> QED BY <1>2, <1>3

\* Grouping a set by finitely many pairs leaves out nothing, and adds nothing.
LEMMA GroupedCovers ==
  ASSUME NEW S, NEW pairs, IsFiniteSet(pairs), pairs \subseteq S \X S
  PROVE  Grouped(S, pairs) \in Coverings(S)
BY GroupedIsGrouping DEF IsGrouping, Splits, Coverings

\* The image of a finite set.
LEMMA ImageFinite ==
  ASSUME NEW S, IsFiniteSet(S), NEW f
  PROVE  IsFiniteSet({f[x] : x \in S})
<1> DEFINE T == {f[x] : x \in S}
           g == [x \in S |-> f[x]]
<1>1. g \in Surjection(S, T)
  BY DEF Surjection
<1> HIDE DEF g, T
<1>2. IsFiniteSet(T)
  BY <1>1, FS_Surjection
<1> QED BY <1>2 DEF T

\* The union of finitely many finite sets.
LEMMA UnionFinite ==
  ASSUME NEW S, IsFiniteSet(S), NEW f, \A x \in S : IsFiniteSet(f[x])
  PROVE  IsFiniteSet(UNION {f[x] : x \in S})
<1> DEFINE T == {f[x] : x \in S}
<1>1. IsFiniteSet(T)
  BY ImageFinite
<1>2. \A U \in T : IsFiniteSet(U)
  OBVIOUS
<1> HIDE DEF T
<1>3. IsFiniteSet(UNION T)
  BY <1>1, <1>2, FS_UNION
<1> QED BY <1>3 DEF T

IsPage(page, files) == IsList(page) /\ \A o \in ToSet(page) : IsObject(o, files)

\* The objects of a page.
LEMMA PageObjects ==
  ASSUME NEW files, NEW page, IsPage(page, files)
  PROVE  /\ Len(page) \in Nat /\ DOMAIN page = 1 .. Len(page)
         /\ \A i \in DOMAIN page : IsObject(page[i], files)
         /\ \A i \in DOMAIN page : IsComponent(page, i) =>
              /\ IsList(page[i].symbol.pins)
              /\ IsList(page[i].source) /\ ToSet(page[i].source) \subseteq files
              /\ IsList(page[i].net) /\ \A a \in ToSet(page[i].net) : a[2] \in Nat \ {0}
         /\ \A i \in DOMAIN page : IsSegment(page, i) => IsList(page[i].names)
<1>1. /\ Len(page) \in Nat /\ DOMAIN page = 1 .. Len(page)
      /\ \A i \in 1 .. Len(page) : page[i] \in ToSet(page)
  BY Listed DEF IsPage, IsList
<1>2. \A i \in DOMAIN page : IsObject(page[i], files)
  BY <1>1 DEF IsPage
<1> QED BY <1>1, <1>2 DEF IsObject, IsComponent, IsSegment

\* There are finitely many net instances on a page.
LEMMA InstancesFinite ==
  ASSUME NEW files, NEW page, IsPage(page, files)
  PROVE  IsFiniteSet(Instances(page))
<1> DEFINE A == {j \in DOMAIN page : IsSegment(page, j)}
           B == {j \in DOMAIN page : IsComponent(page, j)}
           f == [i \in A |-> <<i, 0>>]
           of(i) == {<<i, k>> : k \in Pins(page, i)}
           g == [i \in B |-> of(i)]
<1>1. IsFiniteSet(DOMAIN page)
  BY PageObjects, FS_Interval
<1>2. IsFiniteSet(A) /\ IsFiniteSet(B)
  BY <1>1, FS_Subset
<1>3. ASSUME NEW i \in B PROVE IsFiniteSet(g[i])
  <2> DEFINE h == [k \in Pins(page, i) |-> <<i, k>>]
  <2>1. IsFiniteSet(Pins(page, i))
    <3>1. IsList(page[i].symbol.pins)
      BY PageObjects
    <3>2. Len(page[i].symbol.pins) \in Nat /\ DOMAIN page[i].symbol.pins = 1 .. Len(page[i].symbol.pins)
      BY <3>1, Listed DEF IsList
    <3> QED BY <3>2, FS_Interval DEF Pins
  <2>2. IsFiniteSet({h[k] : k \in Pins(page, i)})
    <3> HIDE DEF h
    <3> QED BY <2>1, ImageFinite
  <2>3. {h[k] : k \in Pins(page, i)} = g[i]
    OBVIOUS
  <2> QED BY <2>2, <2>3
<1>4. IsFiniteSet({f[i] : i \in A})
  <2> HIDE DEF f, A
  <2> QED BY <1>2, ImageFinite
<1>5. IsFiniteSet(UNION {g[i] : i \in B})
  <2> HIDE DEF g, B
  <2> QED BY <1>2, <1>3, UnionFinite
<1>6. Instances(page) = {f[i] : i \in A} \cup UNION {g[i] : i \in B}
  BY DEF Instances
<1> HIDE DEF f, g, A, B
<1>7. IsFiniteSet({f[i] : i \in A} \cup UNION {g[i] : i \in B})
  BY <1>4, <1>5, FS_Union, Zenon
<1> QED BY <1>6, <1>7, Zenon

\* A connection is between two of them.
LEMMA ConnectionsFinite ==
  ASSUME NEW files, NEW page, IsPage(page, files)
  PROVE  /\ Connections(page) \subseteq Instances(page) \X Instances(page)
         /\ IsFiniteSet(Connections(page))
<1> DEFINE I == Instances(page)
           at == UNION {{<<a, p>> : p \in Ends(page, a)} : a \in I}
           lines == {a \in I : ~InSymbol(a)}
           ends == {<<z[1][1], z[2][1]>> : z \in {xy \in at \X at :
                      xy[1][2] = xy[2][2] /\ AtEnd(page, xy[1][1], xy[2][1])}}
           middles == {<<z[1][1], z[2]>> : z \in {xb \in at \X lines :
                      AtMiddle(page, xb[1][1], xb[2], xb[1][2])}}
<1>1. \A x \in at : x[1] \in I
  OBVIOUS
<1> HIDE DEF I
<1>2. ends \subseteq I \X I
  BY <1>1
<1>3. middles \subseteq I \X I
  BY <1>1
<1>4. Connections(page) \subseteq ends \cup middles
  BY DEF Connections, I
<1> HIDE DEF ends, middles
<1>5. Connections(page) \in SUBSET (I \X I)
  BY <1>2, <1>3, <1>4
<1>6. IsFiniteSet(I \X I)
  BY InstancesFinite, FS_Product DEF I
<1> QED BY <1>5, <1>6, FS_Subset DEF I

\* Each instance is in a net of the page, and nothing else is.
LEMMA NetsCover ==
  ASSUME NEW files, NEW page, IsPage(page, files)
  PROVE  Nets(page) \in Coverings(Instances(page))
BY ConnectionsFinite, GroupedCovers DEF Nets

-----------------------------------------------------------------------------
(* The sheets *)

Files == DOMAIN design.pages

Paths == Seq(Nat)

\* Maps from sheets to the pages they instantiate.
SheetMaps == UNION {[S -> Files] : S \in SUBSET Paths}

LEMMA FrontLast ==
  ASSUME NEW T, NEW s \in Seq(T), NEW x \in T
  PROVE  /\ Append(s, x) \in Seq(T) /\ Append(s, x) # <<>>
         /\ Len(Append(s, x)) = Len(s) + 1
         /\ Front(Append(s, x)) = s /\ Last(Append(s, x)) = x
<1> DEFINE u == Append(s, x)
<1>1. u \in Seq(T) /\ Len(u) = Len(s) + 1 /\ Len(s) \in Nat /\ u # <<>>
  OBVIOUS
<1>2. Last(u) = x
  BY <1>1 DEF Last
<1>3. SubSeq(u, 1, Len(s)) = s
  OBVIOUS
<1> QED BY <1>1, <1>2, <1>3 DEF Front

\* What reading the pages has made sure of.
LEMMA DesignPages ==
  ASSUME design \in Designs
  PROVE  /\ \A f \in Files : IsPage(Page(f), Files)
         /\ IsList(design.top) /\ ToSet(design.top) \subseteq Files
         /\ design.traverse \in BOOLEAN /\ design.prefer \in BOOLEAN
BY DesignsAssumption DEF Files, Page, IsPage

\* A component on a sheet, and the object it stands for.
LEMMA ComponentAt ==
  ASSUME design \in Designs, NEW pages \in SheetMaps, NEW s \in DOMAIN pages,
         NEW c \in ComponentsOn(pages, s)
  PROVE  /\ pages[s] \in Files /\ s \in Paths
         /\ c \in Paths /\ Len(c) = Len(s) + 1 /\ c = Append(s, Last(c))
         /\ SheetOf(c) = s /\ Last(c) \in DOMAIN Page(pages[s])
         /\ IsComponent(Page(pages[s]), Last(c))
         /\ ObjectAt(pages, c) = Page(pages[s])[Last(c)]
         /\ composite_sources(ObjectAt(pages, c)) \in Seq(Files)
<1>1. pages[s] \in Files /\ s \in Paths
  BY DEF SheetMaps
<1> DEFINE page == Page(pages[s])
<1>2. PICK i \in DOMAIN page : IsComponent(page, i) /\ c = Append(s, i)
  BY DEF ComponentsOn, Page
<1>3. IsPage(page, Files)
  BY <1>1, DesignPages
<1> HIDE DEF page
<1>4. i \in Nat
  BY <1>2, <1>3, PageObjects
<1>5. c \in Paths /\ Len(c) = Len(s) + 1 /\ Front(c) = s /\ Last(c) = i
  BY <1>1, <1>2, <1>4, FrontLast DEF Paths
<1>6. ObjectAt(pages, c) = page[i]
  BY <1>5 DEF ObjectAt, SheetOf, page, Page
<1>7. composite_sources(page[i]) \in Seq(Files)
  <2>1. IsList(page[i].source) /\ ToSet(page[i].source) \subseteq Files
    BY <1>2, <1>3, PageObjects
  <2>2. page[i].source \in Seq(Files)
    BY <2>1 DEF IsList
  <2> QED BY <2>2 DEF composite_sources
<1> QED BY <1>1, <1>2, <1>5, <1>6, <1>7 DEF SheetOf, page

\* What a subsheet is made for.
LEMMA SubsheetsAre ==
  ASSUME design \in Designs, NEW pages \in SheetMaps
  PROVE  /\ Subsheets(pages) \in SheetMaps
         /\ \A s \in DOMAIN Subsheets(pages) :
              /\ s # <<>> /\ Front(s) # <<>>
              /\ SheetOf(Front(s)) \in DOMAIN pages
              /\ Front(s) \in ComponentsOn(pages, SheetOf(Front(s)))
              /\ Last(s) \in DOMAIN composite_sources(ObjectAt(pages, Front(s)))
              /\ s = Append(Front(s), Last(s))
              /\ Len(s) = Len(SheetOf(Front(s))) + 2
<1> DEFINE src(c) == composite_sources(ObjectAt(pages, c))
<1>1. ASSUME NEW s \in DOMAIN Subsheets(pages)
      PROVE  \E t \in DOMAIN pages : \E c \in ComponentsOn(pages, t) : \E j \in DOMAIN src(c) :
               s = Append(c, j)
  BY DEF Subsheets
<1>2. ASSUME NEW s \in DOMAIN Subsheets(pages)
      PROVE  /\ s \in Paths /\ Subsheets(pages)[s] \in Files
             /\ s # <<>> /\ Front(s) # <<>>
             /\ SheetOf(Front(s)) \in DOMAIN pages
             /\ Front(s) \in ComponentsOn(pages, SheetOf(Front(s)))
             /\ Last(s) \in DOMAIN src(Front(s))
             /\ s = Append(Front(s), Last(s))
             /\ Len(s) = Len(SheetOf(Front(s))) + 2
  <2>1. PICK t \in DOMAIN pages : \E c \in ComponentsOn(pages, t) : \E j \in DOMAIN src(c) :
               s = Append(c, j)
    BY <1>1
  <2>2. PICK c \in ComponentsOn(pages, t) : \E j \in DOMAIN src(c) : s = Append(c, j)
    BY <2>1
  <2>3. PICK j \in DOMAIN src(c) : s = Append(c, j)
    BY <2>2
  <2>4. /\ src(c) \in Seq(Files) /\ c \in Paths /\ SheetOf(c) = t /\ Len(c) = Len(t) + 1
        /\ t \in Paths
    BY ComponentAt
  <2>5. Subsheets(pages)[s] = src(Front(s))[Last(s)]
    BY DEF Subsheets
  <2> HIDE DEF src
  <2>6. j \in Nat /\ src(c)[j] \in Files
    BY <2>4, Listed
  <2>7. /\ s \in Paths /\ s # <<>> /\ Len(s) = Len(c) + 1 /\ Front(s) = c /\ Last(s) = j
    BY <2>3, <2>4, <2>6, FrontLast DEF Paths
  <2>8. Len(t) \in Nat /\ c # <<>>
    BY <2>4 DEF Paths
  <2> QED BY <2>3, <2>4, <2>5, <2>6, <2>7, <2>8
<1>3. Subsheets(pages) = [s \in DOMAIN Subsheets(pages) |-> Subsheets(pages)[s]]
  BY DEF Subsheets
<1>4. Subsheets(pages) \in [DOMAIN Subsheets(pages) -> Files]
  BY <1>2, <1>3
<1>5. DOMAIN Subsheets(pages) \in SUBSET Paths
  BY <1>2
<1>6. Subsheets(pages) \in SheetMaps
  BY <1>4, <1>5 DEF SheetMaps
<1> QED BY <1>2, <1>6

\* There are finitely many of them.
LEMMA ComponentsFinite ==
  ASSUME design \in Designs, NEW pages \in SheetMaps, NEW s \in DOMAIN pages
  PROVE  IsFiniteSet(ComponentsOn(pages, s))
<1> DEFINE page == Page(pages[s])
           T == {j \in DOMAIN page : IsComponent(page, j)}
           f == [i \in T |-> Append(s, i)]
<1>1. pages[s] \in Files
  BY DEF SheetMaps
<1>2. IsFiniteSet(T)
  <2>1. page \in Seq(ToSet(page))
    BY <1>1, DesignPages DEF IsPage, IsList
  <2>2. IsFiniteSet(DOMAIN page)
    <3> HIDE DEF page
    <3>1. DOMAIN page = 1 .. Len(page) /\ Len(page) \in Int
      BY <2>1, Listed
    <3> QED BY <3>1, FS_Interval
  <2> HIDE DEF page
  <2>3. T \subseteq DOMAIN page
    OBVIOUS
  <2> QED BY <2>2, <2>3, FS_Subset
<1>3. ComponentsOn(pages, s) = {f[i] : i \in T}
  BY DEF ComponentsOn, Page
<1> HIDE DEF T, f
<1> QED BY <1>2, <1>3, ImageFinite

LEMMA SubsheetsFinite ==
  ASSUME design \in Designs, NEW pages \in SheetMaps, IsFiniteSet(DOMAIN pages)
  PROVE  IsFiniteSet(DOMAIN Subsheets(pages))
<1> DEFINE src(c) == composite_sources(ObjectAt(pages, c))
           of(c)  == {Append(c, j) : j \in DOMAIN src(c)}
           on(s)  == ComponentsOn(pages, s)
           S == DOMAIN pages
           below == [s \in S |-> UNION {of(c) : c \in on(s)}]
<1>1. ASSUME NEW s \in S, NEW c \in on(s) PROVE IsFiniteSet(of(c))
  <2> DEFINE T == DOMAIN src(c)
             f == [j \in T |-> Append(c, j)]
  <2>1. src(c) \in Seq(Files)
    BY ComponentAt
  <2>2. IsFiniteSet(T)
    <3> HIDE DEF src
    <3>1. T = 1 .. Len(src(c)) /\ Len(src(c)) \in Int
      BY <2>1, Listed
    <3> QED BY <3>1, FS_Interval
  <2>3. of(c) = {f[j] : j \in T}
    OBVIOUS
  <2> HIDE DEF T, f, of
  <2> QED BY <2>2, <2>3, ImageFinite
<1>2. DOMAIN Subsheets(pages) = UNION {below[s] : s \in S}
  BY DEF Subsheets
<1> HIDE DEF of
<1>3. ASSUME NEW s \in S PROVE IsFiniteSet(below[s])
  <2> DEFINE T == on(s)
             f == [c \in T |-> of(c)]
  <2>1. IsFiniteSet(T) /\ \A c \in T : IsFiniteSet(f[c])
    BY <1>1, ComponentsFinite
  <2>2. below[s] = UNION {f[c] : c \in T}
    OBVIOUS
  <2> HIDE DEF T, f
  <2> QED BY <2>1, <2>2, UnionFinite
<1>4. IsFiniteSet(S)
  OBVIOUS
<1> HIDE DEF below, S
<1> QED BY <1>2, <1>3, <1>4, UnionFinite

\* The sheets for the files on the command line.
TopSheets == [s \in {<<t>> : t \in DOMAIN design.top} |-> design.top[s[1]]]

SheetsFrom(f) == [d \in 0 .. MaxDepth |->
                    IF d = 0 THEN TopSheets ELSE Both(f[d - 1], Subsheets(f[d - 1]))]

AllSheets == CHOOSE f : f = SheetsFrom(f)

LEMMA SheetsIs == Sheets = AllSheets[IF design.traverse THEN MaxDepth ELSE 0]
BY DEF Sheets, AllSheets, SheetsFrom, TopSheets

LEMMA TopSheetsTyped ==
  ASSUME design \in Designs
  PROVE  /\ TopSheets \in SheetMaps
         /\ \A s \in DOMAIN TopSheets : Len(s) = 1
         /\ \A t \in DOMAIN design.top : t \in Nat /\ <<t>> \in DOMAIN TopSheets
         /\ IsFiniteSet(DOMAIN TopSheets)
<1>1. design.top \in Seq(Files)
  BY DesignPages DEF IsList
<1>2. \A t \in DOMAIN design.top : t \in Nat /\ design.top[t] \in Files
  BY <1>1, Listed
<1>3. ASSUME NEW s \in DOMAIN TopSheets
      PROVE  s \in Paths /\ Len(s) = 1 /\ TopSheets[s] \in Files
  <2>1. PICK t \in DOMAIN design.top : s = <<t>>
    BY DEF TopSheets
  <2>2. t \in Nat /\ s[1] = t /\ TopSheets[s] = design.top[t]
    BY <1>2, <2>1 DEF TopSheets
  <2>3. s \in Seq(Nat) /\ Len(s) = 1
    BY <2>1, <2>2
  <2> QED BY <1>2, <2>2, <2>3 DEF Paths
<1>4. TopSheets \in [DOMAIN TopSheets -> Files]
  BY <1>3 DEF TopSheets
<1>5. DOMAIN TopSheets \in SUBSET Paths
  BY <1>3
<1>6. TopSheets \in SheetMaps
  BY <1>4, <1>5 DEF SheetMaps
<1>7. \A t \in DOMAIN design.top : <<t>> \in DOMAIN TopSheets
  BY DEF TopSheets
<1>8. IsFiniteSet(DOMAIN TopSheets)
  <2> DEFINE T == DOMAIN design.top
             f == [t \in T |-> <<t>>]
  <2>1. IsFiniteSet(T)
    <3>1. T = 1 .. Len(design.top) /\ Len(design.top) \in Int
      BY <1>1, Listed
    <3> QED BY <3>1, FS_Interval
  <2>2. DOMAIN TopSheets = {f[t] : t \in T}
    BY DEF TopSheets
  <2> HIDE DEF T, f
  <2> QED BY <2>1, <2>2, ImageFinite
<1> QED BY <1>2, <1>3, <1>6, <1>7, <1>8

LEMMA BothTyped ==
  ASSUME NEW f \in SheetMaps, NEW g \in SheetMaps
  PROVE  /\ Both(f, g) \in SheetMaps
         /\ DOMAIN Both(f, g) = DOMAIN f \cup DOMAIN g
<1>1. Both(f, g) \in [DOMAIN f \cup DOMAIN g -> Files]
  BY DEF SheetMaps, Both
<1>2. DOMAIN f \cup DOMAIN g \in SUBSET Paths
  BY DEF SheetMaps
<1> QED BY <1>1, <1>2 DEF SheetMaps

\* Sheets are finitely many and no deeper than MaxDepth, and those below the top
\* are made for a component of a sheet.
LEMMA SheetsTyped ==
  ASSUME design \in Designs
  PROVE  /\ Sheets \in SheetMaps /\ IsFiniteSet(DOMAIN Sheets)
         /\ \A s \in DOMAIN Sheets : Len(s) \in 1 .. 2 * MaxDepth + 1
         /\ \A t \in DOMAIN design.top : <<t>> \in DOMAIN Sheets
<1> DEFINE N == MaxDepth
           D == SheetMaps
           st == [x \in (1 .. N) \X D |-> Both(x[2], Subsheets(x[2]))]
           a == TopSheets
<1>1. N \in Nat
  BY DepthAssumption
<1>2. a \in D
  BY TopSheetsTyped
<1>3. \A p \in D : Both(p, Subsheets(p)) \in D
  BY SubsheetsAre, BothTyped
<1>4. st \in [(1 .. N) \X D -> D]
  BY <1>3
<1>5. \A n \in 1 .. N : \A p \in D : st[<<n, p>>] = Both(p, Subsheets(p))
  OBVIOUS
<1> HIDE DEF N, D, st, a
<1>6. PICK g : IsChain(g, N, D, a, st)
  BY <1>1, <1>2, <1>4, Chained
<1>7. g = SheetsFrom(g)
  <2>1. g \in [0 .. N -> D] /\ g[0] = a /\ \A n \in 1 .. N : g[n] = st[<<n, g[n - 1]>>]
    BY <1>6 DEF IsChain
  <2>2. \A n \in 1 .. N : n - 1 \in 0 .. N /\ g[n - 1] \in D
    BY <1>1, <2>1
  <2>3. \A n \in 0 .. N : g[n] = IF n = 0 THEN a ELSE Both(g[n - 1], Subsheets(g[n - 1]))
    <3>1. \A n \in 1 .. N : g[n] = Both(g[n - 1], Subsheets(g[n - 1]))
      BY <1>5, <2>1, <2>2
    <3> QED BY <1>1, <2>1, <3>1
  <2> QED BY <2>1, <2>3 DEF SheetsFrom, N, a
<1> DEFINE k == AllSheets
<1>8. k = SheetsFrom(k)
  BY <1>7 DEF AllSheets
<1> HIDE DEF k
<1>9. k[0] = a /\ \A n \in 1 .. N : k[n] = Both(k[n - 1], Subsheets(k[n - 1]))
  BY <1>1, <1>8 DEF SheetsFrom, N, a
<1> DEFINE Good(n) == /\ k[n] \in D
                      /\ \A s \in DOMAIN k[n] : Len(s) \in 1 .. 2 * n + 1
                      /\ DOMAIN a \subseteq DOMAIN k[n]
                      /\ IsFiniteSet(DOMAIN k[n])
           G == {n \in 0 .. N : Good(n)}
<1>10. 0 \in G
  <2>1. \A s \in DOMAIN a : Len(s) \in 1 .. 2 * 0 + 1
    BY TopSheetsTyped DEF a
  <2>2. k[0] \in D /\ k[0] = a /\ IsFiniteSet(DOMAIN a)
    BY <1>2, <1>9, TopSheetsTyped DEF a
  <2>3. Good(0)
    BY <2>1, <2>2
  <2> HIDE DEF Good
  <2>4. 0 \in 0 .. N
    BY <1>1
  <2> QED BY <2>3, <2>4
<1>11. ASSUME NEW n \in 0 .. N - 1, n \in G PROVE n + 1 \in G
  <2>1. Good(n)
    BY <1>11
  <2>2. k[n + 1] = Both(k[n], Subsheets(k[n]))
    <3>1. n + 1 \in 1 .. N /\ (n + 1) - 1 = n
      BY <1>1
    <3> QED BY <1>9, <3>1
  <2> DEFINE p == k[n]
  <2>3. k[n + 1] \in D /\ DOMAIN k[n + 1] = DOMAIN p \cup DOMAIN Subsheets(p)
    BY <2>1, <2>2, SubsheetsAre, BothTyped DEF D
  <2>4. ASSUME NEW s \in DOMAIN k[n + 1] PROVE Len(s) \in 1 .. 2 * (n + 1) + 1
    <3>1. CASE s \in DOMAIN p
      BY <2>1, <3>1, <1>1
    <3>2. CASE s \in DOMAIN Subsheets(p)
      <4>1. SheetOf(Front(s)) \in DOMAIN p /\ Len(s) = Len(SheetOf(Front(s))) + 2
        BY <2>1, <3>2, SubsheetsAre DEF D
      <4>2. Len(SheetOf(Front(s))) \in 1 .. 2 * n + 1
        BY <2>1, <4>1
      <4> QED BY <1>1, <4>1, <4>2
    <3> QED BY <2>3, <3>1, <3>2
  <2>5. DOMAIN a \subseteq DOMAIN k[n + 1]
    BY <2>1, <2>3
  <2>6. n + 1 \in 0 .. N
    BY <1>1
  <2>7. IsFiniteSet(DOMAIN k[n + 1])
    <3>1. IsFiniteSet(DOMAIN p) /\ IsFiniteSet(DOMAIN Subsheets(p))
      BY <2>1, SubsheetsFinite DEF D
    <3> QED BY <2>3, <3>1, FS_Union
  <2> QED BY <2>3, <2>4, <2>5, <2>6, <2>7
<1> HIDE DEF G
<1>12. \A n \in 0 .. N : n \in G
  BY <1>1, <1>10, <1>11, UpTo
<1> DEFINE e == IF design.traverse THEN MaxDepth ELSE 0
<1>13. e \in 0 .. N /\ e <= N
  BY <1>1 DEF N
<1>14. Good(e) /\ Sheets = k[e]
  BY <1>12, <1>13, SheetsIs DEF G, k
<1> HIDE DEF e
<1>15. \A s \in DOMAIN Sheets : Len(s) \in 1 .. 2 * MaxDepth + 1
  BY <1>1, <1>13, <1>14 DEF N
<1>16. \A t \in DOMAIN design.top : <<t>> \in DOMAIN Sheets
  BY <1>14, TopSheetsTyped DEF a
<1> QED BY <1>14, <1>15, <1>16 DEF D

-----------------------------------------------------------------------------
(* The list of components *)

AllComponents(pages) == UNION {ComponentsOn(pages, s) : s \in DOMAIN pages}

SourcesOf(pages, c) == composite_sources(ObjectAt(pages, c))

\* The parts of collect_components: below a component, a component with what
\* is below it, and the components on a sheet.
CollectBelow(pages, c, g) ==
  FlattenSeq([j \in DOMAIN SourcesOf(pages, c) |->
                IF Append(c, j) \in DOMAIN pages THEN g[Append(c, j)] ELSE <<>>])

CollectAt(pages, c, g) == <<c>> \o CollectBelow(pages, c, g)

CollectOn(pages, s, g) ==
  LET page == design.pages[pages[s]]
  IN FlattenSeq([i \in DOMAIN page |->
       IF IsComponent(page, i) THEN CollectAt(pages, Append(s, i), g) ELSE <<>>])

Collecting(pages) == CHOOSE f : f = [s \in DOMAIN pages |-> CollectOn(pages, s, f)]

LEMMA CollectedIs ==
  ASSUME NEW pages
  PROVE  Collected(pages) = FlattenSeq([t \in DOMAIN design.top |-> Collecting(pages)[<<t>>]])
BY DEF Collected, Collecting, CollectOn, CollectAt, CollectBelow, SourcesOf

\* Path c leads through s.
Under(c, s) == Len(c) > Len(s) /\ \A k \in 1 .. Len(s) : c[k] = s[k]

\* Components and those above them.
Lower(pages) == {cd \in AllComponents(pages) \X AllComponents(pages) : Under(cd[1], cd[2])}

\* A list of different components under s, each before those below it.
ListsUnder(l, s, pages) ==
  /\ l \in Seq(AllComponents(pages)) /\ IsInjective(l) /\ InOrder(l, Lower(pages))
  /\ \A c \in ToSet(l) : Under(c, s)

LEMMA UnderAppended ==
  ASSUME NEW s \in Paths, NEW j \in Nat, NEW c \in Paths, Under(c, Append(s, j))
  PROVE  Under(c, s) /\ c[Len(s) + 1] = j /\ Len(c) > Len(s) + 1
<1> DEFINE u == Append(s, j)
<1>1. /\ Len(u) = Len(s) + 1 /\ Len(s) \in Nat /\ Len(c) \in Nat /\ u[Len(s) + 1] = j
      /\ \A k \in 1 .. Len(s) : u[k] = s[k]
  BY DEF Paths
<1> HIDE DEF u
<1> QED BY <1>1 DEF Under, u

LEMMA NoneUnder == ASSUME NEW s, NEW pages PROVE ListsUnder(<<>>, s, pages)
BY EmptyListed DEF ListsUnder, InOrder

\* Lists under different subsheets have nothing in common.
LEMMA ApartListed ==
  ASSUME NEW pages \in SheetMaps, NEW s \in Paths, NEW q, NEW n \in Nat,
         q = [i \in 1 .. n |-> q[i]],
         AllComponents(pages) \subseteq Paths,
         \A i \in 1 .. n : /\ ListsUnder(q[i], s, pages)
                           /\ \A c \in ToSet(q[i]) : c[Len(s) + 1] = i
  PROVE  /\ ListsUnder(FlattenSeq(q), s, pages)
         /\ ToSet(FlattenSeq(q)) = UNION {ToSet(q[i]) : i \in 1 .. n}
<1> DEFINE T == AllComponents(pages)  S == Seq(T)
<1>1. \A i \in 1 .. n : q[i] \in S /\ IsInjective(q[i])
  BY DEF ListsUnder
<1> HIDE DEF S
<1>2. q \in Seq(S) /\ DOMAIN q = 1 .. n
  BY <1>1
<1>3. \A i, j \in 1 .. n : i # j => ToSet(q[i]) \cap ToSet(q[j]) = {}
  OBVIOUS
<1>4. /\ FlattenSeq(q) \in Seq(T)
      /\ ToSet(FlattenSeq(q)) = UNION {ToSet(q[i]) : i \in DOMAIN q}
      /\ IsInjective(FlattenSeq(q))
  BY <1>1, <1>2, <1>3, FlattenListed DEF S
<1>5. \A c \in ToSet(FlattenSeq(q)) : Under(c, s)
  BY <1>2, <1>4 DEF ListsUnder
<1>6. \A i, j \in 1 .. n : i < j =>
        \A x \in ToSet(q[i]), y \in ToSet(q[j]) : <<x, y>> \notin Lower(pages)
  <2> SUFFICES ASSUME NEW i \in 1 .. n, NEW j \in 1 .. n, i < j,
                      NEW x \in ToSet(q[i]), NEW y \in ToSet(q[j])
               PROVE  ~Under(x, y)
    BY DEF Lower
  <2>1. x[Len(s) + 1] = i /\ y[Len(s) + 1] = j /\ i # j
    OBVIOUS
  <2>2. y \in Paths /\ Len(y) > Len(s)
    <3>1. q[j] \in Seq(T) /\ Under(y, s)
      BY DEF ListsUnder
    <3> QED BY <3>1, Listed DEF Under
  <2>3. Len(s) + 1 \in 1 .. Len(y)
    <3>1. Len(s) \in Nat /\ Len(y) \in Nat
      BY <2>2 DEF Paths
    <3> QED BY <2>2, <3>1
  <2> QED BY <2>1, <2>3 DEF Under
<1>7. \A i \in 1 .. n : InOrder(q[i], Lower(pages))
  BY DEF ListsUnder
<1> HIDE DEF T
<1>8. q \in Seq(Seq(T))
  BY <1>2 DEF S
<1>9. InOrder(FlattenSeq(q), Lower(pages))
  BY <1>2, <1>6, <1>7, <1>8, FlattenInOrder
<1> QED BY <1>2, <1>4, <1>5, <1>9 DEF ListsUnder, T

LEMMA ComponentsArePaths ==
  ASSUME design \in Designs, NEW pages \in SheetMaps
  PROVE  AllComponents(pages) \subseteq Paths
BY ComponentAt DEF AllComponents

\* One step of the recursion: if what is collected on deeper sheets is right,
\* so is what is collected on this one.
LEMMA CollectOnListed ==
  ASSUME design \in Designs, NEW pages \in SheetMaps, NEW s \in DOMAIN pages, NEW g,
         \A t \in DOMAIN pages : Len(t) > Len(s) => ListsUnder(g[t], t, pages)
  PROVE  ListsUnder(CollectOn(pages, s, g), s, pages)
<1> DEFINE page == Page(pages[s])
           q == [i \in DOMAIN page |->
                   IF IsComponent(page, i) THEN CollectAt(pages, Append(s, i), g) ELSE <<>>]
           T == AllComponents(pages)
<1>0. T \subseteq Paths
  BY ComponentsArePaths
<1>1. s \in Paths /\ Len(s) \in Nat /\ pages[s] \in Files
  BY DEF SheetMaps, Paths
<1>2. IsPage(page, Files)
  BY <1>1, DesignPages
<1>3. DOMAIN page = 1 .. Len(page) /\ Len(page) \in Nat
  BY <1>2, PageObjects
<1>4. ASSUME NEW i \in DOMAIN page, IsComponent(page, i)
      PROVE  /\ ListsUnder(CollectAt(pages, Append(s, i), g), s, pages)
             /\ \A c \in ToSet(CollectAt(pages, Append(s, i), g)) : c[Len(s) + 1] = i
  <2> DEFINE c == Append(s, i)
             src == SourcesOf(pages, c)
             r == [j \in DOMAIN src |->
                     IF Append(c, j) \in DOMAIN pages THEN g[Append(c, j)] ELSE <<>>]
  <2>1. c \in ComponentsOn(pages, s)
    BY <1>4 DEF ComponentsOn, Page
  <2>2. c \in T
    BY <2>1 DEF AllComponents
  <2>3. c \in Paths /\ Len(c) = Len(s) + 1 /\ src \in Seq(Files)
    BY <2>1, ComponentAt DEF SourcesOf
  <2>4. i \in Nat
    BY <1>3, <1>4
  <2>5. c[Len(s) + 1] = i /\ \A k \in 1 .. Len(s) : c[k] = s[k]
    BY <1>1, <2>4 DEF Paths
  <2> HIDE DEF src
  <2>6. Len(src) \in Nat /\ DOMAIN src = 1 .. Len(src)
    BY <2>3, Listed
  <2> HIDE DEF c
  <2>7. ASSUME NEW j \in 1 .. Len(src)
        PROVE  /\ ListsUnder(r[j], c, pages)
               /\ \A x \in ToSet(r[j]) : x[Len(c) + 1] = j
    <3> DEFINE t == Append(c, j)
    <3>1. CASE t \notin DOMAIN pages
      <4>1. r[j] = <<>>
        BY <2>6, <3>1
      <4> QED BY <4>1, NoneUnder, EmptyListed
    <3>2. CASE t \in DOMAIN pages
      <4>1. r[j] = g[t] /\ j \in Nat
        BY <2>6, <3>2
      <4>2. Len(t) = Len(c) + 1 /\ Len(c) \in Nat
        BY <2>3, <4>1 DEF Paths
      <4>3. ListsUnder(g[t], t, pages)
        <5>1. Len(t) > Len(s)
          BY <1>1, <2>3, <4>2
        <5> HIDE DEF t
        <5> QED BY <3>2, <5>1
      <4>4. ASSUME NEW x \in ToSet(g[t]) PROVE Under(x, c) /\ x[Len(c) + 1] = j
        <5>1. x \in T /\ Under(x, t)
          BY <4>3, <4>4, Listed DEF ListsUnder
        <5> QED BY <1>0, <2>3, <4>1, <5>1, UnderAppended
      <4> QED BY <4>1, <4>3, <4>4 DEF ListsUnder
    <3> QED BY <3>1, <3>2
  <2>8. r = [j \in 1 .. Len(src) |-> r[j]]
    BY <2>6
  <2> HIDE DEF r
  <2>9. ListsUnder(FlattenSeq(r), c, pages)
    BY <1>0, <2>3, <2>6, <2>7, <2>8, ApartListed
  <2> DEFINE l == FlattenSeq(r)
  <2>10. CollectAt(pages, c, g) = <<c>> \o l
    BY DEF CollectAt, CollectBelow, r, src
  <2> HIDE DEF l
  <2> DEFINE h == <<c>>
  <2>11. h \in Seq(T) /\ ToSet(h) = {c} /\ IsInjective(h)
    BY <2>2 DEF ToSet, IsInjective
  <2>12. \A x \in ToSet(l) : x \in Paths /\ Under(x, c)
    BY <1>0, <2>9, Listed DEF ListsUnder, l
  <2>13. c \notin ToSet(l)
    BY <2>3, <2>12 DEF Under, Paths
  <2>14. l \in Seq(T) /\ IsInjective(l)
    BY <2>9 DEF ListsUnder, l
  <2>15. ToSet(h) \cap ToSet(l) = {}
    BY <2>11, <2>13
  <2> HIDE DEF T, h
  <2>16. /\ h \o l \in Seq(T) /\ IsInjective(h \o l)
         /\ ToSet(h \o l) = {c} \cup ToSet(l)
    BY <2>11, <2>14, <2>15, ConcatListed
  <2>19. InOrder(h \o l, Lower(pages))
    <3>1. InOrder(h, Lower(pages))
      BY SingleInOrder DEF h
    <3>2. InOrder(l, Lower(pages))
      BY <2>9 DEF ListsUnder, l
    <3>3. ASSUME NEW x \in ToSet(h), NEW y \in ToSet(l) PROVE <<x, y>> \notin Lower(pages)
      <4>1. x = c /\ y \in Paths /\ Len(y) > Len(c)
        BY <2>11, <2>12, <3>3 DEF Under
      <4>2. ~(Len(c) > Len(y))
        <5>1. Len(c) \in Nat /\ Len(y) \in Nat
          BY <2>3, <4>1 DEF Paths
        <5> QED BY <4>1, <5>1
      <4> QED BY <4>1, <4>2 DEF Lower, Under
    <3> QED BY <2>11, <2>14, <3>1, <3>2, <3>3, ConcatInOrder
  <2>17. ASSUME NEW x \in ToSet(l) PROVE Under(x, s) /\ x[Len(s) + 1] = i
    <3>1. x \in Paths /\ Under(x, Append(s, i))
      BY <2>12 DEF c
    <3> QED BY <1>1, <2>4, <3>1, UnderAppended
  <2>18. Under(c, s)
    BY <1>1, <2>3, <2>5 DEF Under
  <2> QED BY <2>5, <2>10, <2>16, <2>17, <2>18, <2>19 DEF ListsUnder, T, c, h
<1>5. ASSUME NEW i \in 1 .. Len(page)
      PROVE  /\ ListsUnder(q[i], s, pages)
             /\ \A c \in ToSet(q[i]) : c[Len(s) + 1] = i
  <2>1. CASE IsComponent(page, i)
    BY <1>3, <1>4, <2>1
  <2>2. CASE ~IsComponent(page, i)
    <3>1. q[i] = <<>>
      BY <1>3, <2>2
    <3> QED BY <3>1, NoneUnder, EmptyListed
  <2> QED BY <2>1, <2>2
<1>6. q = [i \in 1 .. Len(page) |-> q[i]]
  BY <1>3
<1>7. CollectOn(pages, s, g) = FlattenSeq(q)
  BY DEF CollectOn, Page
<1> HIDE DEF q
<1>8. ListsUnder(FlattenSeq(q), s, pages)
  BY <1>0, <1>1, <1>3, <1>5, <1>6, ApartListed
<1> QED BY <1>7, <1>8

\* What is collected on a sheet depends on deeper sheets only.
LEMMA CollectOnSame ==
  ASSUME design \in Designs, NEW pages \in SheetMaps, NEW s \in DOMAIN pages, NEW g, NEW h,
         \A t \in DOMAIN pages : Len(t) > Len(s) => g[t] = h[t]
  PROVE  CollectOn(pages, s, g) = CollectOn(pages, s, h)
<1> DEFINE page == design.pages[pages[s]]
<1>1. ASSUME NEW i \in DOMAIN page, IsComponent(page, i)
      PROVE  CollectAt(pages, Append(s, i), g) = CollectAt(pages, Append(s, i), h)
  <2> DEFINE c == Append(s, i)
             src == SourcesOf(pages, c)
             r(f) == [j \in DOMAIN src |->
                        IF Append(c, j) \in DOMAIN pages THEN f[Append(c, j)] ELSE <<>>]
  <2>1. c \in ComponentsOn(pages, s)
    BY <1>1 DEF ComponentsOn
  <2>2. c \in Paths /\ Len(c) = Len(s) + 1 /\ src \in Seq(Files) /\ s \in Paths
    BY <2>1, ComponentAt DEF SourcesOf
  <2> HIDE DEF c, src
  <2>3. ASSUME NEW j \in DOMAIN src, Append(c, j) \in DOMAIN pages
        PROVE  g[Append(c, j)] = h[Append(c, j)]
    <3>1. Len(Append(c, j)) = Len(c) + 1 /\ Len(c) \in Nat /\ Len(s) \in Nat
      BY <2>2 DEF Paths
    <3>2. Len(Append(c, j)) > Len(s)
      BY <2>2, <3>1
    <3> QED BY <2>3, <3>2
  <2>4. r(g) = r(h)
    BY <2>3
  <2> QED BY <2>4 DEF CollectAt, CollectBelow, c, src
<1> DEFINE q(f) == [i \in DOMAIN page |->
                      IF IsComponent(page, i) THEN CollectAt(pages, Append(s, i), f) ELSE <<>>]
<1>2. q(g) = q(h)
  BY <1>1
<1> QED BY <1>2 DEF CollectOn

\* Any function that satisfies the recursion where it gives lists under the
\* sheets gives them everywhere.
LEMMA CollectedRight ==
  ASSUME design \in Designs, NEW pages \in SheetMaps, NEW N \in Nat,
         \A s \in DOMAIN pages : Len(s) \in 1 .. N, NEW g,
         \A s \in DOMAIN pages : ListsUnder(CollectOn(pages, s, g), s, pages) =>
                                   g[s] = CollectOn(pages, s, g)
  PROVE  \A s \in DOMAIN pages : ListsUnder(g[s], s, pages)
<1> DEFINE G == {n \in 0 .. N : \A s \in DOMAIN pages : Len(s) > N - n => ListsUnder(g[s], s, pages)}
<1>1. 0 \in G
  OBVIOUS
<1>2. ASSUME NEW n \in 0 .. N - 1, n \in G PROVE n + 1 \in G
  <2>1. ASSUME NEW s \in DOMAIN pages, Len(s) > N - (n + 1) PROVE ListsUnder(g[s], s, pages)
    <3>1. \A t \in DOMAIN pages : Len(t) > Len(s) => ListsUnder(g[t], t, pages)
      <4> SUFFICES ASSUME NEW t \in DOMAIN pages, Len(t) > Len(s) PROVE ListsUnder(g[t], t, pages)
        OBVIOUS
      <4>1. Len(t) \in 1 .. N /\ Len(s) \in 1 .. N
        OBVIOUS
      <4>2. Len(t) > N - n
        BY <2>1, <4>1
      <4> QED BY <1>2, <4>2
    <3>2. ListsUnder(CollectOn(pages, s, g), s, pages)
      BY <3>1, CollectOnListed
    <3> QED BY <3>2
  <2> QED BY <2>1
<1> HIDE DEF G
<1>3. \A n \in 0 .. N : n \in G
  BY <1>1, <1>2, UpTo
<1>4. N \in G
  BY <1>3
<1> QED BY <1>4 DEF G

LEMMA CollectingListed ==
  ASSUME design \in Designs, NEW pages \in SheetMaps, NEW N \in Nat,
         \A s \in DOMAIN pages : Len(s) \in 1 .. N
  PROVE  \A s \in DOMAIN pages : ListsUnder(Collecting(pages)[s], s, pages)
<1> DEFINE X == DOMAIN pages
           D == Seq(AllComponents(pages))
           rank == [s \in X |-> N - Len(s)]
           clip(l) == IF l \in D THEN l ELSE <<>>
           st == [z \in X \X [X -> D] |-> clip(CollectOn(pages, z[1], z[2]))]
<1>1. rank \in [X -> 0 .. N]
  OBVIOUS
<1>2. <<>> \in D
  OBVIOUS
<1> HIDE DEF D
<1>3. st \in [X \X [X -> D] -> D]
  BY <1>2
<1>4. \A s \in X : \A g \in [X -> D] : st[<<s, g>>] = clip(CollectOn(pages, s, g))
  OBVIOUS
<1>5. ASSUME NEW s \in X, NEW g \in [X -> D], NEW h \in [X -> D],
             \A t \in X : rank[t] < rank[s] => g[t] = h[t]
      PROVE  st[<<s, g>>] = st[<<s, h>>]
  <2>1. \A t \in X : Len(t) > Len(s) => g[t] = h[t]
    BY <1>5
  <2>2. CollectOn(pages, s, g) = CollectOn(pages, s, h)
    BY <2>1, CollectOnSame
  <2> QED BY <1>4, <2>2
<1> HIDE DEF X, rank, st
<1>6. PICK g : IsRecursion(g, X, D, st)
  BY <1>1, <1>2, <1>3, <1>5, Ranked
<1>7. g \in [X -> D] /\ \A s \in X : g[s] = clip(CollectOn(pages, s, g))
  BY <1>4, <1>6 DEF IsRecursion
<1>8. \A s \in DOMAIN pages : ListsUnder(CollectOn(pages, s, g), s, pages) =>
                                g[s] = CollectOn(pages, s, g)
  BY <1>7 DEF X, D, ListsUnder
<1>9. \A s \in DOMAIN pages : ListsUnder(g[s], s, pages)
  BY <1>8, CollectedRight
<1>10. \A s \in DOMAIN pages : ListsUnder(CollectOn(pages, s, g), s, pages)
  BY <1>9, CollectOnListed
<1>11. g = [s \in DOMAIN pages |-> CollectOn(pages, s, g)]
  BY <1>7, <1>8, <1>10 DEF X
<1> DEFINE k == Collecting(pages)
<1>12. k = [s \in DOMAIN pages |-> CollectOn(pages, s, k)]
  BY <1>11 DEF Collecting
<1> HIDE DEF k
<1>13. \A s \in DOMAIN pages : k[s] = CollectOn(pages, s, k)
  BY <1>12
<1>14. \A s \in DOMAIN pages : ListsUnder(k[s], s, pages)
  BY <1>13, CollectedRight
<1> QED BY <1>14 DEF k

\* The list of components: components on the sheets, each once.
LEMMA CollectedListed ==
  ASSUME design \in Designs
  PROVE  /\ Collected(Sheets) \in Seq(AllComponents(Sheets)) /\ IsInjective(Collected(Sheets))
         /\ InOrder(Collected(Sheets), Lower(Sheets))
<1> DEFINE pages == Sheets
           q == [t \in DOMAIN design.top |-> Collecting(pages)[<<t>>]]
           n == Len(design.top)
<1>1. /\ pages \in SheetMaps /\ \A s \in DOMAIN pages : Len(s) \in 1 .. 2 * MaxDepth + 1
      /\ \A t \in DOMAIN design.top : <<t>> \in DOMAIN pages
  BY SheetsTyped
<1>2. 2 * MaxDepth + 1 \in Nat
  BY DepthAssumption
<1>3. design.top \in Seq(Files)
  BY DesignPages DEF IsList
<1>4. n \in Nat /\ DOMAIN design.top = 1 .. n
  BY <1>3, Listed
<1>5. AllComponents(pages) \subseteq Paths
  BY <1>1, ComponentsArePaths
<1>6. \A s \in DOMAIN pages : ListsUnder(Collecting(pages)[s], s, pages)
  BY <1>1, <1>2, CollectingListed
<1> HIDE DEF pages, n
<1>7. ASSUME NEW t \in 1 .. n
      PROVE  /\ ListsUnder(q[t], <<>>, pages)
             /\ \A c \in ToSet(q[t]) : c[Len(<<>>) + 1] = t
  <2>1. q[t] = Collecting(pages)[<<t>>] /\ ListsUnder(q[t], <<t>>, pages)
    BY <1>1, <1>4, <1>6
  <2>2. ASSUME NEW c \in ToSet(q[t]) PROVE Under(c, <<>>) /\ c[Len(<<>>) + 1] = t
    <3>1. c \in Paths /\ Under(c, <<t>>)
      BY <1>5, <2>1, <2>2, Listed DEF ListsUnder
    <3>2. Append(<<>>, t) = <<t>> /\ <<>> \in Paths /\ t \in Nat
      BY DEF Paths
    <3>3. ASSUME NEW e \in Paths, Under(c, Append(e, t))
          PROVE  Under(c, e) /\ c[Len(e) + 1] = t
      BY <3>1, <3>2, <3>3, UnderAppended
    <3>4. Under(c, Append(<<>>, t))
      BY <3>1, <3>2
    <3> QED BY <3>2, <3>3, <3>4, Zenon
  <2> QED BY <2>1, <2>2 DEF ListsUnder
<1>8. q = [t \in 1 .. n |-> q[t]]
  BY <1>4
<1>9. Collected(pages) = FlattenSeq(q)
  BY CollectedIs
<1> HIDE DEF q
<1>10. <<>> \in Paths
  BY DEF Paths
<1>11. ListsUnder(FlattenSeq(q), <<>>, pages)
  BY <1>1, <1>4, <1>5, <1>7, <1>8, <1>10, ApartListed
<1> QED BY <1>9, <1>11 DEF ListsUnder, pages

-----------------------------------------------------------------------------
(* The pins and the names on a page *)

LEMMA WiderSeq == ASSUME NEW T, NEW U, T \subseteq U, NEW s \in Seq(T) PROVE s \in Seq(U)
OBVIOUS

\* The numbers from 1 to n as a list.
LEMMA CountedList ==
  ASSUME NEW n \in Nat
  PROVE  LET l == [k \in 1 .. n |-> k]
         IN l \in Seq(Int) /\ ToSet(l) = 1 .. n /\ IsInjective(l)
<1> DEFINE l == [k \in 1 .. n |-> k]
<1>1. l \in Seq(Int) /\ DOMAIN l = 1 .. n
  OBVIOUS
<1>2. \A x : x \in ToSet(l) <=> x \in 1 .. n
  BY <1>1 DEF ToSet
<1>3. IsInjective(l)
  BY <1>1 DEF IsInjective
<1> QED BY <1>1, <1>2, <1>3

\* An artificial pin is the negative of a number in a net= attribute that no
\* pin of the symbol has.
LEMMA ArtificialListed ==
  ASSUME NEW files, NEW page, IsPage(page, files), NEW i \in DOMAIN page, IsComponent(page, i)
  PROVE  LET o == page[i] IN
         /\ Artificial(o) \in Seq(Int) /\ IsInjective(Artificial(o))
         /\ \A k \in ToSet(Artificial(o)) :
              /\ k < 0 /\ k \in Int
              /\ \A m \in DOMAIN o.symbol.pins : o.symbol.pins[m].number # -k
<1> DEFINE o == page[i]
           s == [a \in DOMAIN o.net |-> -o.net[a][2]]
           all == AddedAll(<<>>, s)
           free == {k \in ToSet(all) : \A m \in DOMAIN o.symbol.pins : o.symbol.pins[m].number # -k}
<1>1. IsList(o.net) /\ \A a \in ToSet(o.net) : a[2] \in Nat \ {0}
  BY PageObjects
<1>2. /\ Len(o.net) \in Nat /\ DOMAIN o.net = 1 .. Len(o.net)
      /\ \A a \in 1 .. Len(o.net) : o.net[a] \in ToSet(o.net)
  BY <1>1, Listed DEF IsList
<1>3. \A a \in 1 .. Len(o.net) : -o.net[a][2] \in Int /\ -o.net[a][2] < 0
  BY <1>1, <1>2
<1>4. s \in Seq({k \in Int : k < 0})
  BY <1>2, <1>3
<1> DEFINE T == {k \in Int : k < 0}
<1>5. <<>> \in Seq(T) /\ s \in Seq(T)
  BY <1>4
<1> HIDE DEF s, T
<1>6. all \in Seq(T) /\ IsInjective(all)
  BY <1>5, AddedAllListed, EmptyListed
<1>7. Artificial(o) = Filtered(all, free)
  BY DEF Artificial, s
<1> HIDE DEF all, free
<1>8. Filtered(all, free) \in Seq(T) /\ ToSet(Filtered(all, free)) = ToSet(all) \cap free
      /\ IsInjective(Filtered(all, free))
  BY <1>6, FilteredListed
<1>9. ToSet(all) \subseteq T
  BY <1>6, Listed
<1>10. T \subseteq Int /\ \A k \in T : k < 0
  BY DEF T
<1>11. Artificial(o) \in Seq(Int)
  BY <1>7, <1>8, <1>10, WiderSeq
<1>12. \A k \in free : \A m \in DOMAIN o.symbol.pins : o.symbol.pins[m].number # -k
  BY DEF free
<1> QED BY <1>7, <1>8, <1>9, <1>10, <1>11, <1>12

\* The component pins: the pins of the symbol that are no buses, and the
\* artificial ones, each once.
LEMMA PinsOfListed ==
  ASSUME NEW files, NEW page, IsPage(page, files), NEW i \in DOMAIN page, IsComponent(page, i)
  PROVE  LET o == page[i] IN
         /\ PinsOf(o) \in Seq(Int) /\ IsInjective(PinsOf(o))
         /\ ToSet(PinsOf(o)) = {k \in DOMAIN o.symbol.pins : ~o.symbol.pins[k].is_bus}
                                 \cup ToSet(Artificial(o))
         /\ Len(o.symbol.pins) \in Nat /\ DOMAIN o.symbol.pins = 1 .. Len(o.symbol.pins)
<1> DEFINE o == page[i]
           pins == o.symbol.pins
           l == [k \in DOMAIN pins |-> k]
           S == {k \in DOMAIN pins : ~pins[k].is_bus}
           t == Artificial(o)
<1>1. Len(pins) \in Nat /\ DOMAIN pins = 1 .. Len(pins)
  <2>1. IsList(pins)
    BY PageObjects
  <2> QED BY <2>1, Listed DEF IsList
<1>2. l \in Seq(Int) /\ ToSet(l) = 1 .. Len(pins) /\ IsInjective(l)
  BY <1>1, CountedList
<1>3. t \in Seq(Int) /\ IsInjective(t) /\ \A k \in ToSet(t) : k < 0 /\ k \in Int
  BY ArtificialListed
<1>4. PinsOf(o) = Filtered(l, S) \o t
  BY DEF PinsOf
<1>5. S \subseteq 1 .. Len(pins)
  BY <1>1
<1> HIDE DEF o, l, S, t
<1> DEFINE u == Filtered(l, S)
<1>6. u \in Seq(Int) /\ ToSet(u) = ToSet(l) \cap S /\ IsInjective(u)
  BY <1>2, FilteredListed
<1>7. ToSet(u) = S
  BY <1>2, <1>5, <1>6
<1> HIDE DEF u
<1>8. ToSet(u) \cap ToSet(t) = {}
  <2>1. \A k \in S : k > 0
    BY <1>1, <1>5
  <2> QED BY <1>3, <1>5, <1>7, <2>1
<1>9. u \o t \in Seq(Int) /\ ToSet(u \o t) = S \cup ToSet(t) /\ IsInjective(u \o t)
  BY <1>3, <1>6, <1>7, <1>8, ConcatListed
<1> QED BY <1>1, <1>4, <1>9 DEF u, S, t, o

\* What names and Wanted look up for a net: <<i, 0>> is in it for segments only.
IsNetOf(page, V) == \A i : <<i, 0>> \in V => i \in DOMAIN page /\ IsSegment(page, i)

ObjectNames(o) == ToSet(o.names) \cup {o.netname} \cup {a[1] : a \in ToSet(o.net)}

NamesOn(page) == UNION {ObjectNames(page[i]) : i \in DOMAIN page}

\* The names of the segments, and those from attributes and power symbols.
LEMMA NamesListed ==
  ASSUME NEW files, NEW page, IsPage(page, files), NEW V, IsNetOf(page, V)
  PROVE  /\ names(page, V) \in Seq(NamesOn(page))
         /\ names_from_net_attribute(page, V) \in Seq(NamesOn(page))
<1> DEFINE T == NamesOn(page)  S == Seq(T)
           of(i) == IF <<i, 0>> \in V THEN page[i].names ELSE <<>>
           power(i) ==
             IF IsComponent(page, i) /\ IsPower(page[i])
             THEN LET pins == page[i].symbol.pins
                      mine == Filtered([k \in DOMAIN pins |-> k], {k \in DOMAIN pins : <<i, k>> \in V})
                  IN [n \in DOMAIN mine |-> page[i].netname]
             ELSE <<>>
           attached(i) ==
             IF IsComponent(page, i)
             THEN LET mine == Filtered(page[i].net,
                                {a \in ToSet(page[i].net) : \E k \in AllPins(page[i]) :
                                   <<i, k>> \in V /\ Means(page[i], k, a[2])})
                  IN [n \in DOMAIN mine |-> mine[n][1]]
             ELSE <<>>
           q1 == [i \in DOMAIN page |-> of(i)]
           q2 == [i \in DOMAIN page |-> power(i)]
           q3 == [i \in DOMAIN page |-> attached(i)]
<1>1. Len(page) \in Nat /\ DOMAIN page = 1 .. Len(page)
  BY PageObjects
<1>0. \A i \in DOMAIN page : ObjectNames(page[i]) \subseteq T
  BY DEF NamesOn
<1>2. ASSUME NEW i \in DOMAIN page PROVE of(i) \in S
  <2>1. CASE <<i, 0>> \in V
    <3>1. page[i].names \in Seq(ToSet(page[i].names))
      BY <2>1, PageObjects DEF IsNetOf, IsList
    <3>2. ToSet(page[i].names) \subseteq T
      BY <1>0 DEF ObjectNames
    <3> QED BY <2>1, <3>1, <3>2, WiderSeq
  <2> QED BY <2>1
<1>3. ASSUME NEW i \in DOMAIN page PROVE power(i) \in S
  <2>1. CASE IsComponent(page, i) /\ IsPower(page[i])
    <3> DEFINE pins == page[i].symbol.pins
               U == {k \in DOMAIN pins : <<i, k>> \in V}
               l == [k \in DOMAIN pins |-> k]
               mine == Filtered(l, U)
    <3>1. Len(pins) \in Nat /\ DOMAIN pins = 1 .. Len(pins)
      BY <2>1, PinsOfListed
    <3>2. l \in Seq(Int)
      BY <3>1, CountedList
    <3> HIDE DEF l, U
    <3>3. mine \in Seq(Int)
      BY <3>2, FilteredListed
    <3>4. Len(mine) \in Nat /\ DOMAIN mine = 1 .. Len(mine)
      BY <3>3, Listed
    <3>5. power(i) = [n \in DOMAIN mine |-> page[i].netname]
      BY <2>1 DEF l, U
    <3>6. page[i].netname \in T
      BY <1>0 DEF ObjectNames
    <3> HIDE DEF power, mine, T
    <3> QED BY <3>4, <3>5, <3>6
  <2>2. CASE ~(IsComponent(page, i) /\ IsPower(page[i]))
    <3>1. power(i) = <<>>
      BY <2>2
    <3> QED BY <3>1
  <2> QED BY <2>1, <2>2
<1>4. ASSUME NEW i \in DOMAIN page PROVE attached(i) \in S
  <2>1. CASE IsComponent(page, i)
    <3> DEFINE l == page[i].net
               U == {a \in ToSet(l) : \E k \in AllPins(page[i]) :
                                   <<i, k>> \in V /\ Means(page[i], k, a[2])}
               mine == Filtered(l, U)
    <3>1. l \in Seq(ToSet(l))
      BY <2>1, PageObjects DEF IsList
    <3>2. \A a \in ToSet(l) : a[1] \in T
      BY <1>0 DEF ObjectNames
    <3>3. attached(i) = [n \in DOMAIN mine |-> mine[n][1]]
      BY <2>1
    <3> HIDE DEF l, U
    <3>4. mine \in Seq(ToSet(l))
      BY <3>1, FilteredListed
    <3>5. /\ Len(mine) \in Nat /\ DOMAIN mine = 1 .. Len(mine)
          /\ \A n \in 1 .. Len(mine) : mine[n] \in ToSet(l)
      BY <3>4, Listed
    <3> HIDE DEF attached, mine, T
    <3> QED BY <3>2, <3>3, <3>5
  <2>2. CASE ~IsComponent(page, i)
    <3>1. attached(i) = <<>>
      BY <2>2
    <3> QED BY <3>1
  <2> QED BY <2>1, <2>2
<1>5. names(page, V) = FlattenSeq(q1)
  BY DEF names
<1>6. names_from_net_attribute(page, V) = FlattenSeq(q2) \o FlattenSeq(q3)
  BY DEF names_from_net_attribute
<1> HIDE DEF of, power, attached, S
<1>7. q1 \in Seq(S) /\ q2 \in Seq(S) /\ q3 \in Seq(S)
  BY <1>1, <1>2, <1>3, <1>4
<1> HIDE DEF q1, q2, q3, T
<1>8. FlattenSeq(q1) \in Seq(T) /\ FlattenSeq(q2) \in Seq(T) /\ FlattenSeq(q3) \in Seq(T)
  BY <1>7, FlattenListed DEF S
<1>9. FlattenSeq(q2) \o FlattenSeq(q3) \in Seq(T)
  BY <1>8, ConcatListed
<1> QED BY <1>5, <1>6, <1>8, <1>9 DEF T

IsWanted(l) == /\ Len(l) \in Nat /\ DOMAIN l = 1 .. Len(l) /\ IsList(l)
               /\ \A n \in 1 .. Len(l) : l[n].from \in BOOLEAN

\* The names to be looked at are a list.
LEMMA WantedListed ==
  ASSUME NEW files, NEW page, IsPage(page, files), NEW V, IsNetOf(page, V)
  PROVE  IsWanted(Wanted(page, V))
<1> DEFINE T == NamesOn(page)
           R == [name : T, from : BOOLEAN]
           tagged(l, from) == [n \in DOMAIN l |-> [name |-> l[n], from |-> from]]
           a == names(page, V)
           b == names_from_net_attribute(page, V)
           l == tagged(a, FALSE) \o tagged(b, TRUE)
<1>1. a \in Seq(T) /\ b \in Seq(T)
  BY NamesListed
<1>2. Wanted(page, V) = l
  BY DEF Wanted
<1> HIDE DEF T, a, b
<1>3. tagged(a, FALSE) \in Seq(R) /\ tagged(b, TRUE) \in Seq(R)
  <2>1. /\ Len(a) \in Nat /\ DOMAIN a = 1 .. Len(a) /\ \A n \in 1 .. Len(a) : a[n] \in T
        /\ Len(b) \in Nat /\ DOMAIN b = 1 .. Len(b) /\ \A n \in 1 .. Len(b) : b[n] \in T
    BY <1>1, Listed
  <2> QED BY <2>1
<1> HIDE DEF R, tagged
<1>4. l \in Seq(R)
  BY <1>3, ConcatListed
<1> HIDE DEF l
<1>5. /\ Len(l) \in Nat /\ DOMAIN l = 1 .. Len(l) /\ ToSet(l) = {l[n] : n \in 1 .. Len(l)}
      /\ \A n \in 1 .. Len(l) : l[n] \in R
  BY <1>4, Listed
<1>6. l = [n \in 1 .. Len(l) |-> l[n]]
  BY <1>4, <1>5
<1>7. l \in Seq(ToSet(l))
  BY <1>5, <1>6
<1> QED BY <1>2, <1>5, <1>7 DEF IsWanted, IsList, R

\* The nets of a page and its artificial pins: every component pin is in one.
LEMMA PageNetsCover ==
  ASSUME design \in Designs, NEW f \in Files, drawn[f] = Nets(Page(f))
  PROVE  /\ \A V \in PageNets(f) : IsNetOf(Page(f), V)
         /\ \A i \in DOMAIN Page(f) : IsComponent(Page(f), i) =>
              \A k \in ToSet(PinsOf(Page(f)[i])) : \E V \in PageNets(f) : <<i, k>> \in V
<1> DEFINE page == Page(f)
           comps == {j \in DOMAIN page : IsComponent(page, j)}
           made == UNION {{{<<i, k>>} : k \in ToSet(Artificial(page[i]))} : i \in comps}
<1>1. IsPage(page, Files)
  BY DesignPages
<1>2. PageNets(f) = drawn[f] \cup made
  BY DEF PageNets
<1>3. drawn[f] \in Coverings(Instances(page))
  BY <1>1, NetsCover
<1> HIDE DEF page
<1>4. ASSUME NEW V \in drawn[f], NEW i, <<i, 0>> \in V PROVE i \in DOMAIN page /\ IsSegment(page, i)
  <2>1. <<i, 0>> \in Instances(page)
    BY <1>3, <1>4 DEF Coverings
  <2>2. CASE \E j \in comps : <<i, 0>> \in {<<j, k>> : k \in Pins(page, j)}
    <3>1. PICK j \in comps : 0 \in Pins(page, j)
      BY <2>2
    <3>2. DOMAIN page[j].symbol.pins = 1 .. Len(page[j].symbol.pins)
      BY <1>1, <3>1, PinsOfListed
    <3> QED BY <3>1, <3>2 DEF Pins
  <2> QED BY <2>1, <2>2 DEF Instances
<1>5. ASSUME NEW V \in made, NEW i, <<i, 0>> \in V PROVE FALSE
  <2>1. PICK j \in comps : \E k \in ToSet(Artificial(page[j])) : V = {<<j, k>>}
    BY <1>5
  <2>2. PICK k \in ToSet(Artificial(page[j])) : V = {<<j, k>>}
    BY <2>1
  <2>3. k = 0
    BY <1>5, <2>2
  <2>4. k < 0
    BY <1>1, <2>1, ArtificialListed
  <2> QED BY <2>3, <2>4
<1>6. \A V \in PageNets(f) : IsNetOf(page, V)
  BY <1>2, <1>4, <1>5 DEF IsNetOf
<1>7. ASSUME NEW i \in DOMAIN page, IsComponent(page, i), NEW k \in ToSet(PinsOf(page[i]))
      PROVE  \E V \in PageNets(f) : <<i, k>> \in V
  <2>1. k \in Pins(page, i) \/ k \in ToSet(Artificial(page[i]))
    BY <1>1, <1>7, PinsOfListed DEF Pins
  <2>2. CASE k \in Pins(page, i)
    <3>1. <<i, k>> \in Instances(page)
      BY <1>7, <2>2 DEF Instances
    <3> QED BY <1>2, <1>3, <3>1 DEF Coverings
  <2>3. CASE k \in ToSet(Artificial(page[i]))
    <3>1. {<<i, k>>} \in made
      BY <1>7, <2>3
    <3> QED BY <1>2, <3>1
  <2> QED BY <2>1, <2>2, <2>3
<1> QED BY <1>6, <1>7 DEF page

\* There are finitely many nets on the pages of finitely many sheets.
LEMMA LocalNetsFinite ==
  ASSUME design \in Designs, \A f \in Files : drawn[f] = Nets(Page(f)),
         NEW pages \in SheetMaps, IsFiniteSet(DOMAIN pages)
  PROVE  IsFiniteSet(UNION {{<<s, V>> : V \in PageNets(pages[s])} : s \in DOMAIN pages})
<1>1. ASSUME NEW f \in Files PROVE IsFiniteSet(PageNets(f))
  <2> DEFINE page == Page(f)
             comps == {j \in DOMAIN page : IsComponent(page, j)}
             pins(i) == ToSet(Artificial(page[i]))
             made == [i \in comps |-> {{<<i, k>>} : k \in pins(i)}]
  <2>1. IsPage(page, Files)
    BY DesignPages
  <2>2. PageNets(f) = drawn[f] \cup UNION {made[i] : i \in comps}
    BY DEF PageNets
  <2>3. IsFiniteSet(drawn[f])
    <3>1. drawn[f] \subseteq SUBSET Instances(page)
      BY <2>1, NetsCover DEF Coverings
    <3>2. IsFiniteSet(SUBSET Instances(page))
      <4> HIDE DEF page
      <4> QED BY <2>1, InstancesFinite, FS_SUBSET
    <3> QED BY <3>1, <3>2, FS_Subset
  <2>4. IsFiniteSet(comps)
    <3> HIDE DEF page
    <3>1. DOMAIN page = 1 .. Len(page) /\ Len(page) \in Int
      BY <2>1, Listed DEF IsPage, IsList
    <3>2. IsFiniteSet(DOMAIN page) /\ comps \subseteq DOMAIN page
      BY <3>1, FS_Interval
    <3> QED BY <3>2, FS_Subset
  <2>5. ASSUME NEW i \in comps PROVE IsFiniteSet(made[i])
    <3> DEFINE T == pins(i)
               g == [k \in T |-> {<<i, k>>}]
    <3>1. Artificial(page[i]) \in Seq(Int)
      <4> HIDE DEF page
      <4> QED BY <2>1, ArtificialListed
    <3>2. IsFiniteSet(T)
      <4> DEFINE l == Artificial(page[i])
      <4> HIDE DEF page, l
      <4>1. DOMAIN l = 1 .. Len(l) /\ Len(l) \in Int
        BY <3>1, Listed DEF l
      <4>2. IsFiniteSet(DOMAIN l)
        BY <4>1, FS_Interval
      <4>3. ToSet(l) = {l[n] : n \in DOMAIN l}
        BY DEF ToSet
      <4> QED BY <4>2, <4>3, ImageFinite DEF l
    <3>3. made[i] = {g[k] : k \in T}
      OBVIOUS
    <3> HIDE DEF T, g
    <3>4. IsFiniteSet({g[k] : k \in T})
      BY <3>2, ImageFinite
    <3> HIDE DEF made
    <3> QED BY <3>3, <3>4
  <2> DEFINE all == UNION {made[i] : i \in comps}
  <2> HIDE DEF made, comps
  <2>6. IsFiniteSet(all)
    BY <2>4, <2>5, UnionFinite
  <2> HIDE DEF all
  <2>7. IsFiniteSet(drawn[f] \cup all)
    BY <2>3, <2>6, FS_Union
  <2> QED BY <2>2, <2>7 DEF all
<1> DEFINE S == DOMAIN pages
           f == [s \in S |-> {<<s, V>> : V \in PageNets(pages[s])}]
<1>2. ASSUME NEW s \in S PROVE IsFiniteSet(f[s])
  <2> DEFINE T == PageNets(pages[s])
             g == [V \in T |-> <<s, V>>]
  <2>1. IsFiniteSet(T)
    BY <1>1 DEF SheetMaps
  <2>2. f[s] = {g[V] : V \in T}
    OBVIOUS
  <2> HIDE DEF T, g
  <2> QED BY <2>1, <2>2, ImageFinite
<1>3. IsFiniteSet(UNION {f[s] : s \in S})
  <2> HIDE DEF f
  <2> QED BY <1>2, UnionFinite
<1> QED BY <1>3

-----------------------------------------------------------------------------
(* Names and their nets *)

HasNames(r) ==
  /\ r.names = [from \in BOOLEAN |-> r.names[from]]
  /\ IsList(r.names[FALSE]) /\ IsList(r.names[TRUE])

\* Of the nets n, those in list l have names, all different, and d leads from
\* each name to the net that lists it.
NamesAgree(n, d, l) ==
  /\ l \in Seq(1 .. Len(n)) /\ IsInjective(l)
  /\ \A i \in 1 .. Len(n) : HasNames(n[i])
  /\ \A i \in 1 .. Len(n) : \A k \in AllNames(n[i]) : k \in DOMAIN d /\ d[k] = i
  /\ d \in [DOMAIN d -> ToSet(l)]
  /\ \A k \in DOMAIN d : k \in AllNames(n[d[k]])
  /\ \A i \in ToSet(l) : AllNames(n[i]) # {}

LEMMA ListWithAll ==
  ASSUME NEW s, NEW t, IsList(s), IsList(t)
  PROVE  IsList(AddedAll(s, t)) /\ ToSet(AddedAll(s, t)) = ToSet(s) \cup ToSet(t)
<1> DEFINE T == ToSet(s) \cup ToSet(t)
<1>1. s \in Seq(T) /\ t \in Seq(T)
  BY WiderSeq DEF IsList
<1>2. AddedAll(s, t) \in Seq(T) /\ ToSet(AddedAll(s, t)) = T
  BY <1>1, AddedAllListed
<1> QED BY <1>2 DEF IsList

LEMMA ListWithOne ==
  ASSUME NEW s, IsList(s), NEW x
  PROVE  IsList(AddedOnce(s, x)) /\ ToSet(AddedOnce(s, x)) = ToSet(s) \cup {x}
<1> DEFINE T == ToSet(s) \cup {x}
<1>1. s \in Seq(T) /\ x \in T
  BY WiderSeq DEF IsList
<1>2. AddedOnce(s, x) \in Seq(T) /\ ToSet(AddedOnce(s, x)) = T
  BY <1>1, AddedOnceListed
<1> QED BY <1>2 DEF IsList

WithName(n, b, from, key) == [n EXCEPT ![b].names[from] = AddedOnce(@, key)]

\* Adding a name to a net.
LEMMA NameAdded ==
  ASSUME NEW n, IsNetList(n), NEW b \in 1 .. Len(n), HasNames(n[b]), NEW from \in BOOLEAN, NEW key
  PROVE  LET m == WithName(n, b, from, key) IN
         /\ IsNetList(m) /\ Len(m) = Len(n)
         /\ HasNames(m[b]) /\ AllNames(m[b]) = AllNames(n[b]) \cup {key}
         /\ \A i \in 1 .. Len(n) : i # b => m[i] = n[i]
         /\ \A i \in 1 .. Len(n) : m[i].local_nets = n[i].local_nets /\ m[i].name = n[i].name
                                   /\ m[i].component_pins = n[i].component_pins
<1> DEFINE m == WithName(n, b, from, key)
           r == n[b]
           f == [r.names EXCEPT ![from] = AddedOnce(@, key)]
<1>1. n = [i \in 1 .. Len(n) |-> n[i]] /\ Len(n) \in Nat /\ \A i \in 1 .. Len(n) : IsNet(n[i])
  BY DEF IsNetList
<1>2. m = [i \in 1 .. Len(n) |-> m[i]] /\ m[b] = [r EXCEPT !.names = f]
      /\ \A i \in 1 .. Len(n) : i # b => m[i] = n[i]
  BY <1>1 DEF WithName
<1> HIDE DEF m
<1>3. IsNet(r) /\ HasNames(r)
  BY <1>1
<1>4. IsNet(m[b]) /\ m[b].names = f /\ m[b].local_nets = r.local_nets /\ m[b].name = r.name
      /\ m[b].component_pins = r.component_pins
  <2> HIDE DEF r, f
  <2> QED BY <1>2, <1>3 DEF IsNet
<1>5. Len(m) = Len(n)
  BY <1>1, <1>2, ListLength
<1>6. \A x \in BOOLEAN : f[x] = IF x = from THEN AddedOnce(r.names[x], key) ELSE r.names[x]
  BY <1>3 DEF HasNames
<1>7. f = [x \in BOOLEAN |-> f[x]]
  BY <1>3 DEF HasNames
<1> HIDE DEF f
<1>8. ASSUME NEW x \in BOOLEAN
      PROVE  /\ IsList(f[x])
             /\ ToSet(f[x]) = IF x = from THEN ToSet(r.names[x]) \cup {key} ELSE ToSet(r.names[x])
  <2>1. IsList(r.names[x])
    BY <1>3 DEF HasNames
  <2> HIDE DEF r
  <2>2. /\ IsList(AddedOnce(r.names[x], key))
        /\ ToSet(AddedOnce(r.names[x], key)) = ToSet(r.names[x]) \cup {key}
    BY <2>1, ListWithOne
  <2> QED BY <1>6, <2>1, <2>2
<1>9. HasNames(m[b])
  BY <1>4, <1>7, <1>8 DEF HasNames
<1>10. AllNames(m[b]) = AllNames(r) \cup {key}
  <2>1. ToSet(f[FALSE]) \cup ToSet(f[TRUE]) = ToSet(r.names[FALSE]) \cup ToSet(r.names[TRUE]) \cup {key}
    BY <1>8
  <2> QED BY <1>4, <2>1 DEF AllNames
<1>11. IsNetList(m)
  BY <1>1, <1>2, <1>4, <1>5 DEF IsNetList
<1>12. \A i \in 1 .. Len(n) : m[i].local_nets = n[i].local_nets /\ m[i].name = n[i].name
                              /\ m[i].component_pins = n[i].component_pins
  BY <1>2, <1>4
<1> QED BY <1>2, <1>5, <1>9, <1>10, <1>11, <1>12 DEF m

\* Entering a name for a net of the list.
LEMMA NameEntered ==
  ASSUME NEW n, IsNetList(n), NEW d, NEW l, NamesAgree(n, d, l),
         NEW key, NEW from \in BOOLEAN, NEW b \in ToSet(l), key \in DOMAIN d => d[key] = b
  PROVE  NamesAgree(WithName(n, b, from, key), Entered(d, key, b), l)
<1> DEFINE m == WithName(n, b, from, key)
           e == Entered(d, key, b)
<1>1. b \in 1 .. Len(n) /\ ToSet(l) \subseteq 1 .. Len(n)
  BY Listed DEF NamesAgree
<1>2. /\ Len(m) = Len(n)
      /\ HasNames(m[b]) /\ AllNames(m[b]) = AllNames(n[b]) \cup {key}
      /\ \A i \in 1 .. Len(n) : i # b => m[i] = n[i]
  <2>1. HasNames(n[b])
    BY <1>1 DEF NamesAgree
  <2> QED BY <1>1, <2>1, NameAdded
<1> HIDE DEF m
<1>3. /\ DOMAIN e = DOMAIN d \cup {key} /\ e = [k \in DOMAIN e |-> e[k]]
      /\ e[key] = b /\ \A k \in DOMAIN d : e[k] = d[k]
  BY DEF Entered
<1> HIDE DEF e
<1>4. \A i \in 1 .. Len(n) : HasNames(m[i])
  BY <1>2 DEF NamesAgree
<1>5. \A i \in 1 .. Len(n) : \A k \in AllNames(m[i]) : k \in DOMAIN e /\ e[k] = i
  BY <1>2, <1>3 DEF NamesAgree
<1>6. \A k \in DOMAIN e : e[k] \in ToSet(l) /\ k \in AllNames(m[e[k]])
  <2> SUFFICES ASSUME NEW k \in DOMAIN e PROVE e[k] \in ToSet(l) /\ k \in AllNames(m[e[k]])
    OBVIOUS
  <2>1. CASE k = key
    BY <1>2, <1>3, <2>1
  <2>2. CASE k # key
    <3>1. k \in DOMAIN d /\ e[k] = d[k] /\ d[k] \in ToSet(l) /\ k \in AllNames(n[d[k]])
      BY <1>3, <2>2 DEF NamesAgree
    <3> QED BY <1>1, <1>2, <3>1
  <2> QED BY <2>1, <2>2
<1>7. e \in [DOMAIN e -> ToSet(l)]
  BY <1>3, <1>6
<1>8. \A i \in ToSet(l) : AllNames(m[i]) # {}
  BY <1>1, <1>2 DEF NamesAgree
<1>9. l \in Seq(1 .. Len(m)) /\ IsInjective(l)
  BY <1>2 DEF NamesAgree
<1>10. NamesAgree(m, e, l)
  BY <1>2, <1>4, <1>5, <1>6, <1>7, <1>8, <1>9 DEF NamesAgree
<1> QED BY <1>10 DEF m, e

\* Net.merge_into: of two nets of the list, one takes over the names of the
\* other.
LEMMA NamesMerged ==
  ASSUME NEW n, IsNetList(n), NEW d, NEW l, NamesAgree(n, d, l),
         NEW src \in ToSet(l), NEW dst \in ToSet(l), src # dst
  PROVE  /\ NamesAgree(Merged(n, src, dst),
                       [k \in DOMAIN d |-> IF k \in AllNames(n[src]) THEN dst ELSE d[k]],
                       Removing(l, src))
         /\ Mergeable(n, src, d)
<1> DEFINE m == Merged(n, src, dst)
           e == [k \in DOMAIN d |-> IF k \in AllNames(n[src]) THEN dst ELSE d[k]]
           t == Removing(l, src)
           f == [from \in BOOLEAN |-> AddedAll(n[dst].names[from], n[src].names[from])]
<1>1. src \in 1 .. Len(n) /\ dst \in 1 .. Len(n) /\ ToSet(l) \subseteq 1 .. Len(n)
  BY Listed DEF NamesAgree
<1>2. n = [i \in 1 .. Len(n) |-> n[i]] /\ Len(n) \in Nat /\ \A i \in 1 .. Len(n) : IsNet(n[i])
  BY DEF IsNetList
<1>3. /\ m = [i \in 1 .. Len(n) |-> m[i]]
      /\ \E x : m[dst] = [n[dst] EXCEPT !.local_nets = x, !.names = f]
      /\ m[src] = [n[src] EXCEPT !.local_nets = {}, !.names = NewNet.names]
      /\ \A i \in 1 .. Len(n) : i \notin {src, dst} => m[i] = n[i]
  BY <1>1, <1>2 DEF Merged
<1> HIDE DEF m
<1>4. m[dst].names = f /\ m[src].names = NewNet.names
  <2>1. IsNet(n[src]) /\ IsNet(n[dst])
    BY <1>1, <1>2
  <2> HIDE DEF f
  <2> QED BY <1>3, <2>1 DEF IsNet
<1>5. Len(m) = Len(n)
  BY <1>2, <1>3, ListLength
<1>6. HasNames(n[src]) /\ HasNames(n[dst])
  BY <1>1 DEF NamesAgree
<1>7. ASSUME NEW x \in BOOLEAN
      PROVE  IsList(f[x]) /\ ToSet(f[x]) = ToSet(n[dst].names[x]) \cup ToSet(n[src].names[x])
  <2>1. IsList(n[src].names[x]) /\ IsList(n[dst].names[x])
    BY <1>6 DEF HasNames
  <2>2. f[x] = AddedAll(n[dst].names[x], n[src].names[x])
    OBVIOUS
  <2> QED BY <2>1, <2>2, ListWithAll
<1>8. f = [x \in BOOLEAN |-> f[x]]
  OBVIOUS
<1> HIDE DEF f
<1>9. HasNames(m[dst]) /\ AllNames(m[dst]) = AllNames(n[dst]) \cup AllNames(n[src])
  <2>1. ToSet(f[FALSE]) \cup ToSet(f[TRUE]) =
          (ToSet(n[dst].names[FALSE]) \cup ToSet(n[dst].names[TRUE]))
            \cup (ToSet(n[src].names[FALSE]) \cup ToSet(n[src].names[TRUE]))
    BY <1>7
  <2> QED BY <1>4, <1>7, <1>8, <2>1 DEF HasNames, AllNames
<1>10. HasNames(m[src]) /\ AllNames(m[src]) = {}
  <2>1. /\ NewNet.names = [from \in BOOLEAN |-> NewNet.names[from]]
        /\ NewNet.names[FALSE] = <<>> /\ NewNet.names[TRUE] = <<>>
    BY DEF NewNet
  <2>2. IsList(<<>>) /\ ToSet(<<>>) = {}
    BY EmptyListed DEF IsList
  <2> QED BY <1>4, <2>1, <2>2 DEF HasNames, AllNames
<1>11. t \in Seq(1 .. Len(n)) /\ ToSet(t) = ToSet(l) \ {src} /\ IsInjective(t)
  BY RemovingListed DEF NamesAgree
<1>12. DOMAIN e = DOMAIN d /\ e = [k \in DOMAIN d |-> e[k]]
       /\ \A k \in DOMAIN d : e[k] = IF k \in AllNames(n[src]) THEN dst ELSE d[k]
  OBVIOUS
<1> HIDE DEF e, t
<1>13. \A i \in 1 .. Len(n) : HasNames(m[i])
  BY <1>3, <1>9, <1>10 DEF NamesAgree
<1>14. ASSUME NEW i \in 1 .. Len(n), NEW k \in AllNames(m[i]) PROVE k \in DOMAIN e /\ e[k] = i
  <2>1. CASE i = src
    BY <1>10, <1>14, <2>1
  <2>2. CASE i = dst
    BY <1>1, <1>9, <1>12, <1>14, <2>2 DEF NamesAgree
  <2>3. CASE i \notin {src, dst}
    <3>1. k \in DOMAIN d /\ d[k] = i
      BY <1>3, <1>14, <2>3 DEF NamesAgree
    <3>2. k \notin AllNames(n[src])
      BY <1>1, <2>3, <3>1 DEF NamesAgree
    <3> QED BY <1>12, <3>1, <3>2
  <2> QED BY <2>1, <2>2, <2>3
<1>15. ASSUME NEW k \in DOMAIN e PROVE e[k] \in ToSet(t) /\ k \in AllNames(m[e[k]])
  <2>1. CASE k \in AllNames(n[src])
    BY <1>9, <1>11, <1>12, <1>15, <2>1
  <2>2. CASE k \notin AllNames(n[src])
    <3>1. e[k] = d[k] /\ d[k] \in ToSet(l) /\ k \in AllNames(n[d[k]])
      BY <1>12, <1>15, <2>2 DEF NamesAgree
    <3>2. d[k] # src
      BY <2>2, <3>1
    <3> QED BY <1>1, <1>3, <1>9, <1>11, <3>1, <3>2
  <2> QED BY <2>1, <2>2
<1>16. e \in [DOMAIN e -> ToSet(t)]
  BY <1>12, <1>15
<1>17. \A i \in ToSet(t) : AllNames(m[i]) # {}
  BY <1>1, <1>3, <1>9, <1>11 DEF NamesAgree
<1>18. NamesAgree(m, e, t)
  BY <1>5, <1>11, <1>13, <1>14, <1>15, <1>16, <1>17 DEF NamesAgree
<1>19. Mergeable(n, src, d)
  BY <1>1 DEF Mergeable, NamesAgree
<1> QED BY <1>18, <1>19 DEF m, e, t

LEMMA OwnElements == ASSUME NEW T, NEW s \in Seq(T) PROVE IsList(s)
<1>1. /\ Len(s) \in Nat /\ DOMAIN s = 1 .. Len(s) /\ s = [i \in 1 .. Len(s) |-> s[i]]
  OBVIOUS
<1>2. \A i \in 1 .. Len(s) : s[i] \in ToSet(s)
  BY <1>1 DEF ToSet
<1> QED BY <1>1, <1>2 DEF IsList

LEMMA LastListed ==
  ASSUME NEW s, IsList(s), s # <<>>
  PROVE  Last(s) \in ToSet(s)
<1>1. Len(s) \in Nat /\ DOMAIN s = 1 .. Len(s) /\ Len(s) # 0
  BY DEF IsList
<1> QED BY <1>1 DEF Last, ToSet

\* There is a number that gives an unused name, and FirstFree is one.
LEMMA FirstFreeUnused ==
  ASSUME NEW s, NEW text, counter[text] \in Nat, IsFiniteSet(DOMAIN net_dict)
  PROVE  /\ FirstFree(s, text) \in Nat
         /\ Numbered(s, text, FirstFree(s, text)) \notin DOMAIN net_dict
<1> DEFINE c == counter[text]
           D == DOMAIN net_dict
           K == Cardinality(D)
           Used(i) == Numbered(s, text, i) \in D
           First(n) == ~Used(n) /\ \A m \in c .. n - 1 : Used(m)
           G == {m \in 0 .. K : \A j \in 0 .. m : Used(c + j)}
           f == [j \in 0 .. K |-> Numbered(s, text, c + j)]
<1>1. K \in Nat
  BY FS_CardinalityType
<1>2. ASSUME NEW i, NEW j, Numbered(s, text, i) = Numbered(s, text, j) PROVE i = j
  BY <1>2 DEF Numbered, Key
<1> HIDE DEF K
<1>3. \E n \in c .. c + K : First(n)
  <2> SUFFICES ASSUME \A n \in c .. c + K : ~First(n) PROVE FALSE
    OBVIOUS
  <2> HIDE DEF Used
  <2>1. 0 \in G
    <3>1. c \in c .. c + K /\ \A m \in c .. c - 1 : FALSE
      BY <1>1
    <3>2. Used(c)
      BY <3>1
    <3>3. \A j \in 0 .. 0 : c + j = c
      OBVIOUS
    <3> QED BY <1>1, <3>2, <3>3
  <2>2. ASSUME NEW m \in 0 .. K - 1, m \in G PROVE m + 1 \in G
    <3>1. c + (m + 1) \in c .. c + K /\ m + 1 \in 0 .. K
      BY <1>1
    <3>2. \A i \in c .. (c + (m + 1)) - 1 : Used(i)
      <4> SUFFICES ASSUME NEW i \in c .. (c + (m + 1)) - 1 PROVE Used(i)
        OBVIOUS
      <4>1. i - c \in 0 .. m /\ c + (i - c) = i
        OBVIOUS
      <4>2. Used(c + (i - c))
        BY <2>2, <4>1
      <4> QED BY <4>1, <4>2
    <3>3. Used(c + (m + 1))
      BY <3>1, <3>2
    <3>4. \A j \in 0 .. m + 1 : j \in 0 .. m \/ j = m + 1
      OBVIOUS
    <3> QED BY <2>2, <3>1, <3>3, <3>4
  <2> HIDE DEF G
  <2>3. K \in G
    <3>1. \A m \in 0 .. K : m \in G
      BY <1>1, <2>1, <2>2, UpTo
    <3> QED BY <1>1, <3>1
  <2>4. f \in [0 .. K -> D]
    BY <2>3 DEF G, Used
  <2>5. IsFiniteSet(0 .. K) /\ Cardinality(0 .. K) = K + 1
    BY <1>1, FS_Interval
  <2> DEFINE I == 0 .. K
  <2>6. IsFiniteSet(I) /\ Cardinality(D) < Cardinality(I) /\ f \in [I -> D] /\ IsFiniteSet(D)
    BY <1>1, <2>4, <2>5 DEF K
  <2> HIDE DEF I, D, f
  <2>7. \E x, y \in I : x # y /\ f[x] = f[y]
    BY <2>6, FS_PigeonHole
  <2>8. PICK x \in I, y \in I : x # y /\ f[x] = f[y]
    BY <2>7
  <2>9. c + x = c + y
    BY <1>2, <2>8 DEF f, I
  <2> QED BY <2>8, <2>9 DEF I
<1>4. FirstFree(s, text) \in c .. c + K /\ First(FirstFree(s, text))
  BY <1>3 DEF FirstFree, K
<1> QED BY <1>1, <1>4

\* Of the nets n, those in list l have different names; d leads from each name
\* to the net that has it.
NumbersAgree(n, d, l) ==
  /\ l \in Seq(1 .. Len(n)) /\ IsInjective(l)
  /\ \A i \in 1 .. Len(n) : \A k \in AllNames(n[i]) : k \in DOMAIN d /\ d[k] = i
  /\ d \in [DOMAIN d -> ToSet(l)]
  /\ \A k \in DOMAIN d : k \in AllNames(n[d[k]]) \cup {n[d[k]].name}
  /\ \A i \in ToSet(l) : n[i].name \in DOMAIN d /\ d[n[i].name] = i

\* A net with a new name.
LEMMA NumberEntered ==
  ASSUME NEW n, IsNetList(n), NEW d, NEW l, NumbersAgree(n, d, l),
         NEW key, key \notin DOMAIN d, NEW V, NEW u
  PROVE  LET r == [NewNet EXCEPT !.local_nets = V, !.name = key, !.is_unconnected_pin = u] IN
         NumbersAgree(Append(n, r), Entered(d, key, Len(n) + 1), Append(l, Len(n) + 1))
<1> DEFINE r == [NewNet EXCEPT !.local_nets = V, !.name = key, !.is_unconnected_pin = u]
           b == Len(n) + 1
           m == Append(n, r)
           e == Entered(d, key, b)
           t == Append(l, b)
<1>1. n = [i \in 1 .. Len(n) |-> n[i]] /\ Len(n) \in Nat
  BY DEF IsNetList
<1>2. m = [i \in 1 .. b |-> IF i = b THEN r ELSE n[i]]
  BY <1>1, AppendedNet
<1>3. r.name = key /\ r.names = NewNet.names
  BY DEF NewNet
<1>4. AllNames(r) = {}
  <2>1. NewNet.names[FALSE] = <<>> /\ NewNet.names[TRUE] = <<>>
    BY DEF NewNet
  <2> QED BY <1>3, <2>1, EmptyListed DEF AllNames
<1> HIDE DEF r, m
<1>5. Len(m) = b /\ m[b] = r /\ \A i \in 1 .. Len(n) : m[i] = n[i]
  <2>1. b \in Nat /\ m = [i \in 1 .. b |-> m[i]]
    BY <1>1, <1>2
  <2> QED BY <1>1, <1>2, <2>1, ListLength
<1>6. ToSet(l) \subseteq 1 .. Len(n) /\ l \in Seq(1 .. b) /\ b \in 1 .. b /\ IsInjective(l)
  <2>1. l \in Seq(1 .. Len(n)) /\ IsInjective(l)
    BY DEF NumbersAgree
  <2>2. 1 .. Len(n) \subseteq 1 .. b
    BY <1>1
  <2>3. l \in Seq(1 .. b)
    BY <2>1, <2>2, WiderSeq
  <2> QED BY <1>1, <2>1, <2>3, Listed
<1>7. b \notin ToSet(l)
  BY <1>1, <1>6
<1>8. t \in Seq(1 .. b) /\ ToSet(t) = ToSet(l) \cup {b} /\ IsInjective(t)
  <2> HIDE DEF b
  <2> QED BY <1>6, <1>7, AppendListed
<1>9. /\ DOMAIN e = DOMAIN d \cup {key} /\ e = [k \in DOMAIN e |-> e[k]]
      /\ e[key] = b /\ \A k \in DOMAIN d : e[k] = d[k]
  BY DEF Entered
<1> HIDE DEF e, t
<1>10. ASSUME NEW i \in 1 .. b, NEW k \in AllNames(m[i]) PROVE k \in DOMAIN e /\ e[k] = i
  <2>1. i # b /\ i \in 1 .. Len(n)
    BY <1>1, <1>4, <1>5, <1>10
  <2> QED BY <1>5, <1>9, <1>10, <2>1 DEF NumbersAgree
<1>11. ASSUME NEW k \in DOMAIN e
       PROVE  e[k] \in ToSet(t) /\ k \in AllNames(m[e[k]]) \cup {m[e[k]].name}
  <2>1. CASE k = key
    BY <1>3, <1>5, <1>8, <1>9, <2>1
  <2>2. CASE k \in DOMAIN d
    <3>1. d[k] \in ToSet(l) /\ k \in AllNames(n[d[k]]) \cup {n[d[k]].name}
      BY <2>2 DEF NumbersAgree
    <3> QED BY <1>5, <1>6, <1>8, <1>9, <2>2, <3>1
  <2> QED BY <1>9, <2>1, <2>2
<1>12. e \in [DOMAIN e -> ToSet(t)]
  BY <1>9, <1>11
<1>13. ASSUME NEW i \in ToSet(t) PROVE m[i].name \in DOMAIN e /\ e[m[i].name] = i
  <2>1. CASE i = b
    BY <1>3, <1>5, <1>9, <2>1
  <2>2. CASE i \in ToSet(l)
    <3>1. n[i].name \in DOMAIN d /\ d[n[i].name] = i
      BY <2>2 DEF NumbersAgree
    <3> QED BY <1>5, <1>6, <1>9, <2>2, <3>1
  <2> QED BY <1>8, <2>1, <2>2
<1>14. NumbersAgree(m, e, t)
  BY <1>5, <1>8, <1>10, <1>11, <1>12, <1>13 DEF NumbersAgree
<1> QED BY <1>14 DEF m, e, t, r

-----------------------------------------------------------------------------
(* The invariant *)

Phases == {"read", "instantiate", "name", "number", "hierarchy", "package", "drop", "done",
           "crashed"}

ShapeInv ==
  /\ design \in Designs /\ pc \in Phases /\ failed \in BOOLEAN
  /\ pc = "instantiate" => \A f \in Files : drawn[f] = Nets(Page(f))
  /\ pc \in {"read", "instantiate"} => net_dict = <<>> /\ nets = <<>>
  /\ nets \in Seq(1 .. Len(net)) /\ IsInjective(nets)
  /\ IsList(cpins)
  /\ components \in Seq(AllComponents(page_of)) /\ on_sheet \subseteq AllComponents(page_of)
  /\ \A n \in 1 .. Len(net) : net[n].component_pins \subseteq DOMAIN local_net

TextsCounted == {"unconnected_pin-", "unnamed_net"}

NamesInv ==
  /\ \A text \in TextsCounted : counter[text] \in Nat
  /\ counter = [text \in TextsCounted |-> counter[text]]
  /\ IsFiniteSet(DOMAIN net_dict)
  /\ pc = "name" =>
       /\ NamesAgree(net, net_dict, nets)
       /\ \A ln \in DOMAIN todo : IsWanted(todo[ln]) /\ todo[ln] # <<>>
  /\ pc = "number" => NumbersAgree(net, net_dict, nets)
  /\ pc \in {"name", "number"} =>
       \A ln \in DOMAIN net_of : net_of[ln] # 0 => net_of[ln] \in ToSet(nets)
  /\ NamesUnique

RunInv == NetlistInv /\ ShapeInv /\ NamesInv

LEMMA InitRun == Init => RunInv
<1> SUFFICES ASSUME Init PROVE RunInv
  OBVIOUS
<1>1. NetlistInv
  BY InitInv
<1>2. /\ design \in Designs /\ pc = "read" /\ failed = FALSE
      /\ net = <<>> /\ nets = <<>> /\ net_dict = <<>> /\ cpins = <<>> /\ components = <<>>
      /\ on_sheet = {} /\ counter = [text \in TextsCounted |-> 1]
  BY DEF Init, TextsCounted
<1>3. IsInjective(<<>>) /\ IsList(<<>>)
  BY EmptyListed DEF IsList
<1>4. /\ nets \in Seq(1 .. Len(net)) /\ components \in Seq(AllComponents(page_of))
      /\ Len(net) = 0
  BY <1>2
<1>5. IsFiniteSet(DOMAIN net_dict)
  BY <1>2, FS_EmptySet
<1>6. ShapeInv
  <2>1. pc \in Phases /\ pc # "instantiate" /\ failed \in BOOLEAN
    BY <1>2 DEF Phases
  <2>2. IsInjective(nets) /\ IsList(cpins)
    BY <1>2, <1>3
  <2>3. 1 .. Len(net) = {} /\ on_sheet \subseteq AllComponents(page_of)
    BY <1>2, <1>4
  <2> QED BY <1>2, <1>4, <2>1, <2>2, <2>3 DEF ShapeInv
<1>7. NamesInv
  BY <1>2, <1>5 DEF NamesInv, NamesUnique, TextsCounted
<1> QED BY <1>1, <1>6, <1>7 DEF RunInv

\* Reading the pages draws their nets.
LEMMA ReadRun == RunInv /\ Read => ShapeInv' /\ NamesInv'
<1> SUFFICES ASSUME RunInv, Read PROVE ShapeInv' /\ NamesInv'
  OBVIOUS
<1>1. /\ pc = "read" /\ pc' \in {"instantiate", "crashed"} /\ failed' \in BOOLEAN
      /\ UNCHANGED <<design, page_of, cpins, local_net, counter, net_dict, net, nets, net_of,
                     components, on_sheet>>
      /\ drawn' = [f \in DOMAIN design.pages |-> Nets(Page(f))]
  BY DEF Read, namevars, netvars, partvars
<1>2. \A f \in Files' : drawn'[f] = Nets(Page(f))'
  BY <1>1 DEF Files, Page
<1>3. ShapeInv'
  BY <1>1, <1>2 DEF RunInv, ShapeInv, Phases, AllComponents, ComponentsOn
<1>4. NamesInv'
  BY <1>1 DEF RunInv, NamesInv, NamesUnique
<1> QED BY <1>3, <1>4

\* The list of component pins: those of each component.
CpinsOf(pages, l) ==
  FlattenSeq([n \in DOMAIN l |-> LET c == l[n]
                                     k == PinsOf(ObjectAt(pages, c))
                                 IN [m \in DOMAIN k |-> <<c, k[m]>>]])

LEMMA CpinsListed ==
  ASSUME design \in Designs, NEW pages \in SheetMaps, NEW l \in Seq(AllComponents(pages)),
         IsInjective(l)
  PROVE  /\ IsList(CpinsOf(pages, l)) /\ IsInjective(CpinsOf(pages, l))
         /\ ToSet(CpinsOf(pages, l)) =
              UNION {{<<c, k>> : k \in ToSet(PinsOf(ObjectAt(pages, c)))} : c \in ToSet(l)}
<1> DEFINE C == AllComponents(pages)
           T == C \X Int
           S == Seq(T)
           pinsOf(c) == PinsOf(ObjectAt(pages, c))
           of(c) == [m \in DOMAIN pinsOf(c) |-> <<c, pinsOf(c)[m]>>]
           q == [n \in DOMAIN l |-> of(l[n])]
<1>1. ASSUME NEW c \in C
      PROVE  /\ of(c) \in S /\ IsInjective(of(c))
             /\ ToSet(of(c)) = {<<c, k>> : k \in ToSet(pinsOf(c))}
  <2>1. PICK s \in DOMAIN pages : c \in ComponentsOn(pages, s)
    BY DEF AllComponents
  <2>2. /\ IsPage(Page(pages[s]), Files) /\ Last(c) \in DOMAIN Page(pages[s])
        /\ IsComponent(Page(pages[s]), Last(c))
        /\ ObjectAt(pages, c) = Page(pages[s])[Last(c)]
    BY <2>1, ComponentAt, DesignPages
  <2>3. pinsOf(c) \in Seq(Int) /\ IsInjective(pinsOf(c))
    BY <2>2, PinsOfListed
  <2> DEFINE k == pinsOf(c)  u == of(c)
  <2>4. /\ Len(k) \in Nat /\ DOMAIN k = 1 .. Len(k) /\ ToSet(k) = {k[i] : i \in 1 .. Len(k)}
        /\ \A i \in 1 .. Len(k) : k[i] \in Int
    BY <2>3, Listed
  <2> HIDE DEF pinsOf
  <2>5. DOMAIN u = 1 .. Len(k) /\ \A m \in 1 .. Len(k) : u[m] = <<c, k[m]>>
    BY <2>4
  <2>6. u \in S
    BY <2>4, <2>5
  <2> HIDE DEF k
  <2>7. IsInjective(u)
    <3>1. \A i, j \in 1 .. Len(k) : k[i] = k[j] => i = j
      BY <2>3, <2>4 DEF IsInjective, k
    <3> QED BY <2>5, <3>1 DEF IsInjective
  <2>8. ToSet(u) = {<<c, x>> : x \in ToSet(k)}
    <3>1. \A y : y \in ToSet(u) <=> \E m \in 1 .. Len(k) : y = <<c, k[m]>>
      BY <2>5 DEF ToSet
    <3> QED BY <2>4, <3>1
  <2> QED BY <2>6, <2>7, <2>8 DEF k
<1>2. CpinsOf(pages, l) = FlattenSeq(q)
  BY DEF CpinsOf
<1>3. /\ Len(l) \in Nat /\ DOMAIN l = 1 .. Len(l) /\ ToSet(l) = {l[i] : i \in 1 .. Len(l)}
      /\ \A i \in 1 .. Len(l) : l[i] \in C
  BY Listed
<1> HIDE DEF of, pinsOf, S, C
<1>4. \A i \in 1 .. Len(l) : q[i] = of(l[i])
  BY <1>3
<1>5. q \in Seq(S) /\ DOMAIN q = 1 .. Len(l)
  BY <1>1, <1>3
<1> HIDE DEF q
<1>6. \A i \in DOMAIN q : IsInjective(q[i])
  BY <1>1, <1>3, <1>4, <1>5
<1>7. ASSUME NEW i \in DOMAIN q, NEW j \in DOMAIN q, i # j PROVE ToSet(q[i]) \cap ToSet(q[j]) = {}
  <2>1. l[i] # l[j]
    BY <1>3, <1>5, <1>7 DEF IsInjective
  <2>2. \A x \in ToSet(q[i]) : x[1] = l[i]
    BY <1>1, <1>3, <1>4, <1>5
  <2>3. \A x \in ToSet(q[j]) : x[1] = l[j]
    BY <1>1, <1>3, <1>4, <1>5
  <2> QED BY <2>1, <2>2, <2>3
<1> HIDE DEF T
<1>8. /\ FlattenSeq(q) \in Seq(T) /\ IsInjective(FlattenSeq(q))
      /\ ToSet(FlattenSeq(q)) = UNION {ToSet(q[i]) : i \in DOMAIN q}
  BY <1>5, <1>6, <1>7, FlattenListed DEF S
<1>9. IsList(FlattenSeq(q))
  BY <1>8, OwnElements
<1>10. \A x : x \in ToSet(FlattenSeq(q)) <=> \E c \in ToSet(l) : x \in {<<c, k>> : k \in ToSet(pinsOf(c))}
  <2>1. \A x : x \in ToSet(FlattenSeq(q)) <=> \E i \in 1 .. Len(l) : x \in ToSet(of(l[i]))
    BY <1>4, <1>5, <1>8
  <2>2. \A i \in 1 .. Len(l) : ToSet(of(l[i])) = {<<l[i], k>> : k \in ToSet(pinsOf(l[i]))}
    BY <1>1, <1>3
  <2>3. \A x : x \in ToSet(FlattenSeq(q)) <=>
                 \E i \in 1 .. Len(l) : x \in {<<l[i], k>> : k \in ToSet(pinsOf(l[i]))}
    BY <2>1, <2>2
  <2> QED BY <1>3, <2>3
<1> QED BY <1>2, <1>8, <1>9, <1>10 DEF pinsOf

\* The sheets are made: no local net is in a net yet.
LEMMA InstantiateRun == RunInv /\ Instantiate => ShapeInv' /\ NamesInv'
<1> SUFFICES ASSUME RunInv, Instantiate PROVE ShapeInv' /\ NamesInv'
  OBVIOUS
<1>1. /\ pc = "instantiate" /\ pc' \in {"name", "crashed"}
      /\ UNCHANGED <<design, drawn, net_dict, counter, net, nets, failed>>
      /\ page_of' = Sheets /\ components' = Collected(page_of')
      /\ on_sheet' = ToSet(components')
      /\ cpins' = CpinsOf(page_of', components')
  BY DEF Instantiate, CpinsOf
<1>2. design \in Designs /\ net = <<>> /\ nets = <<>> /\ net_dict = <<>>
  BY <1>1 DEF RunInv, NetlistInv, ShapeInv
<1>3. /\ page_of' \in SheetMaps
      /\ components' \in Seq(AllComponents(page_of')) /\ IsInjective(components')
  BY <1>1, <1>2, SheetsTyped, CollectedListed
<1>4. IsList(cpins')
  BY <1>1, <1>2, <1>3, CpinsListed
<1>5. AllComponents(page_of)' = AllComponents(page_of')
  BY <1>1 DEF AllComponents, ComponentsOn
<1>6. on_sheet' \subseteq AllComponents(page_of')
  BY <1>1, <1>3, Listed
<1>7. Len(net') = 0
  BY <1>1, <1>2
<1>8. ShapeInv'
  BY <1>1, <1>2, <1>3, <1>4, <1>5, <1>6, <1>7 DEF RunInv, ShapeInv, Phases
<1>9. NamesAgree(net', net_dict', nets')
  BY <1>1, <1>2, <1>7, EmptyListed DEF NamesAgree
<1>10. ASSUME NEW ln \in DOMAIN todo' PROVE IsWanted(todo'[ln]) /\ todo'[ln] # <<>>
  <2> DEFINE lns == UNION {{<<s, V>> : V \in PageNets(page_of'[s])} : s \in DOMAIN page_of'}
             wanted(x) == Wanted(Page(page_of'[x[1]]), x[2])
  <2>1. ln \in lns /\ wanted(ln) # <<>> /\ todo'[ln] = wanted(ln)
    BY DEF Instantiate
  <2>2. PICK s \in DOMAIN page_of' : \E V \in PageNets(page_of'[s]) : ln = <<s, V>>
    BY <2>1
  <2>3. PICK V \in PageNets(page_of'[s]) : ln = <<s, V>>
    BY <2>2
  <2>4. page_of'[s] \in Files
    BY <1>3 DEF SheetMaps
  <2>5. drawn[page_of'[s]] = Nets(Page(page_of'[s]))
    BY <1>1, <2>4 DEF RunInv, ShapeInv
  <2>6. IsNetOf(Page(page_of'[s]), V) /\ IsPage(Page(page_of'[s]), Files)
    BY <1>2, <2>4, <2>5, PageNetsCover, DesignPages
  <2>7. IsWanted(Wanted(Page(page_of'[s]), V))
    BY <2>6, WantedListed
  <2> QED BY <2>1, <2>3, <2>7
<1>11. \A ln \in DOMAIN net_of' : net_of'[ln] = 0
  BY DEF Instantiate
<1>12. NamesInv'
  BY <1>1, <1>9, <1>10, <1>11 DEF RunInv, NamesInv, NamesUnique
<1> QED BY <1>8, <1>12

LEMMA NamesSame ==
  ASSUME NEW n, NEW d, NEW l, NamesAgree(n, d, l), NEW m, Len(m) = Len(n),
         \A i \in 1 .. Len(n) : m[i].names = n[i].names
  PROVE  NamesAgree(m, d, l)
<1>1. \A i \in 1 .. Len(n) : AllNames(m[i]) = AllNames(n[i]) /\ (HasNames(n[i]) => HasNames(m[i]))
  BY DEF AllNames, HasNames
<1>2. l \in Seq(1 .. Len(n)) /\ ToSet(l) \subseteq 1 .. Len(n)
  BY Listed DEF NamesAgree
<1> QED BY <1>1, <1>2 DEF NamesAgree

\* Making a net for a new name.
LEMMA NameMade ==
  ASSUME NEW n, IsNetList(n), NEW d, NEW l, NamesAgree(n, d, l),
         NEW key, key \notin DOMAIN d, NEW from \in BOOLEAN
  PROVE  NamesAgree(WithName(Append(n, NewNet), Len(n) + 1, from, key),
                    Entered(d, key, Len(n) + 1), Append(l, Len(n) + 1))
<1> DEFINE b == Len(n) + 1
           p == Append(n, NewNet)
           m == WithName(p, b, from, key)
           e == Entered(d, key, b)
           t == Append(l, b)
<1>1. n = [i \in 1 .. Len(n) |-> n[i]] /\ Len(n) \in Nat /\ \A i \in 1 .. Len(n) : IsNet(n[i])
  BY DEF IsNetList
<1>2. p = [i \in 1 .. b |-> IF i = b THEN NewNet ELSE n[i]]
  BY <1>1, AppendedNet
<1> HIDE DEF p
<1>3. IsNet(NewNet) /\ HasNames(NewNet) /\ AllNames(NewNet) = {}
  <2>1. IsNet(NewNet) /\ NewNet.names = [x \in BOOLEAN |-> <<>>]
    BY DEF NewNet, IsNet
  <2>2. NewNet.names[FALSE] = <<>> /\ NewNet.names[TRUE] = <<>>
        /\ NewNet.names = [x \in BOOLEAN |-> NewNet.names[x]]
    BY <2>1
  <2>3. IsList(<<>>) /\ ToSet(<<>>) = {}
    BY EmptyListed DEF IsList
  <2> QED BY <2>1, <2>2, <2>3 DEF HasNames, AllNames
<1>4. Len(p) = b /\ p[b] = NewNet /\ \A i \in 1 .. Len(n) : p[i] = n[i]
  <2>1. b \in Nat /\ p = [i \in 1 .. b |-> p[i]]
    BY <1>1, <1>2
  <2> QED BY <1>1, <1>2, <2>1, ListLength
<1>5. IsNetList(p)
  BY <1>1, <1>2, <1>3, <1>4 DEF IsNetList
<1>6. b \in 1 .. Len(p) /\ HasNames(p[b])
  BY <1>1, <1>3, <1>4
<1> HIDE DEF b
<1>7. /\ Len(m) = Len(p) /\ HasNames(m[b]) /\ AllNames(m[b]) = AllNames(p[b]) \cup {key}
      /\ \A i \in 1 .. Len(p) : i # b => m[i] = p[i]
  <2>1. /\ IsNetList(m) /\ Len(m) = Len(p)
        /\ HasNames(m[b]) /\ AllNames(m[b]) = AllNames(p[b]) \cup {key}
        /\ \A i \in 1 .. Len(p) : i # b => m[i] = p[i]
        /\ \A i \in 1 .. Len(p) : m[i].local_nets = p[i].local_nets /\ m[i].name = p[i].name
                                   /\ m[i].component_pins = p[i].component_pins
    <3>1. b \in 1 .. Len(p) /\ IsNetList(p) /\ HasNames(p[b])
      BY <1>5, <1>6
    <3>2. /\ IsNetList(m) /\ Len(m) = Len(p)
          /\ HasNames(m[b]) /\ AllNames(m[b]) = AllNames(p[b]) \cup {key}
      BY <3>1, NameAdded
    <3>3. \A i \in 1 .. Len(p) : i # b => m[i] = p[i]
      BY <3>1, NameAdded
    <3>4. \A i \in 1 .. Len(p) : m[i].local_nets = p[i].local_nets /\ m[i].name = p[i].name
                                   /\ m[i].component_pins = p[i].component_pins
      BY <3>1, NameAdded
    <3> QED BY <3>2, <3>3, <3>4
  <2> QED BY <2>1
<1> HIDE DEF m
<1>8. /\ Len(m) = b /\ HasNames(m[b]) /\ AllNames(m[b]) = {key}
      /\ \A i \in 1 .. Len(n) : i \in 1 .. b /\ i # b /\ m[i] = n[i]
      /\ \A i \in 1 .. b : i # b => i \in 1 .. Len(n)
  BY <1>1, <1>3, <1>4, <1>7 DEF b
<1>9. ToSet(l) \subseteq 1 .. Len(n) /\ l \in Seq(1 .. b) /\ b \in 1 .. b /\ IsInjective(l)
  <2>1. l \in Seq(1 .. Len(n)) /\ IsInjective(l)
    BY DEF NamesAgree
  <2>2. 1 .. Len(n) \subseteq 1 .. b
    BY <1>8
  <2>3. l \in Seq(1 .. b)
    BY <2>1, <2>2, WiderSeq
  <2> QED BY <1>4, <1>6, <2>1, <2>3, Listed
<1>10. b \notin ToSet(l)
  BY <1>8, <1>9
<1>11. t \in Seq(1 .. b) /\ ToSet(t) = ToSet(l) \cup {b} /\ IsInjective(t)
  BY <1>9, <1>10, AppendListed
<1>12. /\ DOMAIN e = DOMAIN d \cup {key} /\ e = [k \in DOMAIN e |-> e[k]]
       /\ e[key] = b /\ \A k \in DOMAIN d : e[k] = d[k]
  BY DEF Entered
<1> HIDE DEF e, t
<1>13. \A i \in 1 .. b : HasNames(m[i])
  BY <1>8 DEF NamesAgree
<1>14. ASSUME NEW i \in 1 .. b, NEW k \in AllNames(m[i]) PROVE k \in DOMAIN e /\ e[k] = i
  <2>1. CASE i = b
    BY <1>8, <1>12, <1>14, <2>1
  <2>2. CASE i # b
    BY <1>8, <1>12, <1>14, <2>2 DEF NamesAgree
  <2> QED BY <2>1, <2>2
<1>15. ASSUME NEW k \in DOMAIN e PROVE e[k] \in ToSet(t) /\ k \in AllNames(m[e[k]])
  <2>1. CASE k = key
    BY <1>8, <1>11, <1>12, <2>1
  <2>2. CASE k \in DOMAIN d
    <3>1. d[k] \in ToSet(l) /\ k \in AllNames(n[d[k]])
      BY <2>2 DEF NamesAgree
    <3> QED BY <1>8, <1>9, <1>11, <1>12, <2>2, <3>1
  <2> QED BY <1>12, <2>1, <2>2
<1>16. e \in [DOMAIN e -> ToSet(t)]
  BY <1>12, <1>15
<1>17. \A i \in ToSet(t) : AllNames(m[i]) # {}
  BY <1>8, <1>9, <1>11 DEF NamesAgree
<1>18. NamesAgree(m, e, t)
  BY <1>8, <1>11, <1>13, <1>14, <1>15, <1>16, <1>17 DEF NamesAgree
<1> QED BY <1>18 DEF m, e, t, p, b

PinsWithin(n) == \A i \in 1 .. Len(n) : n[i].component_pins \subseteq DOMAIN local_net

\* The net b of a name, which may be new, and the net of local net ln have
\* become one, dst: for all local nets and all names that led to them.
NameJoins(ln, key, b, dst) ==
  LET known   == key \in DOMAIN net_dict
      joining == {net_of[ln], b} \ {0}
  IN /\ b = IF known THEN net_dict[key] ELSE Len(net) + 1
     /\ Len(net') = IF known THEN Len(net) ELSE b
     /\ dst \in joining
     /\ net_of' = [m \in DOMAIN net_of |->
                    IF m = ln \/ net_of[m] \in joining THEN dst ELSE net_of[m]]
     /\ net_dict' = [k \in DOMAIN net_dict \cup {key} |->
                      IF k = key \/ net_dict[k] \in joining THEN dst ELSE net_dict[k]]

\* The key of a name that is looked at for a local net.
KeyFor(ln, w) == Key(ln[1], w.name, w.from)

\* The next name of a local net: net and netlist.nets, the names and the local
\* nets keep up with each other, and merge_into finds what it looks up.
LEMMA NameLocalNetRun ==
  ASSUME RunInv, NEW ln \in DOMAIN todo, NameLocalNet(ln)
  PROVE  /\ ShapeInv' /\ NamesInv' /\ pc' = "name"
         /\ \E b, dst : NameJoins(ln, KeyFor(ln, Head(todo[ln])), b, dst)
<1> DEFINE w     == Head(todo[ln])
           key   == Key(ln[1], w.name, w.from)
           from  == w.from
           known == key \in DOMAIN net_dict
           b     == IF known THEN net_dict[key] ELSE Len(net) + 1
           a     == net_of[ln]
           l     == IF known THEN nets ELSE Append(nets, b)
           dict  == Entered(net_dict, key, b)
           made  == IF known THEN net ELSE Append(net, NewNet)
           n     == WithName(made, b, from, key)
           src   == IntoEarlier(a, b, l)[1]
           dst   == IntoEarlier(a, b, l)[2]
<1>1. /\ pc = "name"
      /\ UNCHANGED <<design, drawn, page_of, cpins, local_net, components, on_sheet, failed, counter>>
      /\ todo' = IF Len(todo[ln]) = 1 THEN Restrict(todo, DOMAIN todo \ {ln})
                 ELSE [todo EXCEPT ![ln] = Tail(@)]
  BY DEF NameLocalNet, static, partvars
<1>2. \/ a = b /\ net' = n /\ UNCHANGED <<nets, net_of, net_dict, pc>>
      \/ /\ a = 0 /\ net' = [n EXCEPT ![b].local_nets = @ \cup {ln}]
         /\ net_of' = [net_of EXCEPT ![ln] = b] /\ nets' = l /\ net_dict' = dict /\ UNCHANGED pc
      \/ /\ a \notin {0, b} /\ net' = Merged(n, src, dst) /\ net_of' = Moved(n, src, dst)
         /\ nets' = Removing(l, src)
         /\ net_dict' = [k \in DOMAIN dict |-> IF k \in AllNames(n[src]) THEN dst ELSE dict[k]]
         /\ pc' = IF Mergeable(n, src, dict) THEN pc ELSE "crashed"
  BY DEF NameLocalNet, WithName
<1>3. (src = a /\ dst = b) \/ (src = b /\ dst = a)
  BY DEF IntoEarlier
<1>4. /\ Agrees(net, net_of) /\ IsNetList(net) /\ Len(net) \in Nat
      /\ NamesAgree(net, net_dict, nets) /\ PinsWithin(net)
      /\ ln \in DOMAIN net_of /\ a \in 0 .. Len(net) /\ (a # 0 => a \in ToSet(nets))
      /\ IsWanted(todo[ln]) /\ todo[ln] # <<>>
      /\ IsFiniteSet(DOMAIN net_dict)
  BY <1>1 DEF RunInv, NetlistInv, ShapeInv, NamesInv, Agrees, IsNetList, PinsWithin
<1>5. w \in ToSet(todo[ln]) /\ from \in BOOLEAN
  BY <1>4 DEF IsWanted, ToSet
<1>6. nets \in Seq(1 .. Len(net)) /\ ToSet(nets) \subseteq 1 .. Len(net)
  BY <1>4, Listed DEF NamesAgree
<1>7. known => b \in ToSet(nets) /\ dict = net_dict
  <2>1. ASSUME known PROVE b \in ToSet(nets) /\ dict = net_dict
    <3>1. net_dict \in [DOMAIN net_dict -> ToSet(nets)]
      BY <1>4 DEF NamesAgree
    <3> QED BY <2>1, <3>1 DEF Entered
  <2> QED BY <2>1
<1>8. a = b => known
  BY <1>4
<1>9. /\ IsNetList(made) /\ HasNames(made[b]) /\ b \in 1 .. Len(made) /\ PinsWithin(made)
      /\ Len(made) \in Nat /\ Len(made) = IF known THEN Len(net) ELSE b
      /\ NamesAgree(n, dict, l) /\ b \in ToSet(l) /\ ToSet(nets) \subseteq ToSet(l)
      /\ DOMAIN dict \subseteq DOMAIN net_dict \cup {key}
  <2>1. CASE known
    <3>1. NamesAgree(WithName(net, b, from, key), dict, nets)
      <4>1. key \in DOMAIN net_dict => net_dict[key] = b
        BY <2>1
      <4>2. b \in ToSet(nets)
        BY <1>7, <2>1
      <4> HIDE DEF b, key, from
      <4> QED BY <1>4, <1>5, <4>1, <4>2, NameEntered
    <3>2. b \in 1 .. Len(net) /\ HasNames(net[b])
      BY <1>4, <1>6, <1>7, <2>1 DEF NamesAgree
    <3> HIDE DEF dict, b
    <3> QED BY <1>4, <1>7, <2>1, <3>1, <3>2
  <2>2. CASE ~known
    <3>1. NamesAgree(WithName(Append(net, NewNet), Len(net) + 1, from, key),
                     Entered(net_dict, key, Len(net) + 1), Append(nets, Len(net) + 1))
      <4> HIDE DEF key, from
      <4> QED BY <1>4, <1>5, <2>2, NameMade
    <3>2. b = Len(net) + 1 /\ made = Append(net, NewNet) /\ l = Append(nets, b)
      BY <2>2
    <3> HIDE DEF b, made, l
    <3>3. NamesAgree(n, dict, l)
      BY <3>1, <3>2
    <3>4. made = [i \in 1 .. b |-> IF i = b THEN NewNet ELSE net[i]]
      BY <1>4, <3>2, AppendedNet DEF IsNetList
    <3>5. b \in Nat /\ made = [i \in 1 .. b |-> made[i]]
      BY <1>4, <3>2, <3>4
    <3>6. Len(made) = b /\ made[b] = NewNet /\ \A i \in 1 .. Len(net) : made[i] = net[i]
      BY <1>4, <3>2, <3>4, <3>5, ListLength
    <3>7. IsNet(NewNet) /\ HasNames(NewNet) /\ NewNet.component_pins = {}
      <4>1. /\ NewNet.names = [x \in BOOLEAN |-> NewNet.names[x]]
            /\ NewNet.names[FALSE] = <<>> /\ NewNet.names[TRUE] = <<>>
        BY DEF NewNet
      <4>2. IsList(<<>>)
        BY DEF IsList
      <4> QED BY <4>1, <4>2 DEF NewNet, IsNet, HasNames
    <3>8. IsNetList(made)
      BY <1>4, <3>2, <3>4, <3>5, <3>6, <3>7 DEF IsNetList
    <3>9. PinsWithin(made)
      BY <1>4, <3>2, <3>6, <3>7 DEF PinsWithin
    <3>10. ToSet(l) = ToSet(nets) \cup {b}
      <4>1. 1 .. Len(net) \subseteq 1 .. b /\ b \in 1 .. b
        BY <1>4, <3>2
      <4>2. nets \in Seq(1 .. b)
        BY <1>6, <4>1, WiderSeq
      <4> QED BY <3>2, <4>1, <4>2, AppendListed
    <3>11. DOMAIN dict = DOMAIN net_dict \cup {key}
      BY DEF Entered
    <3>12. b \in 1 .. Len(made) /\ Len(made) \in Nat /\ Len(made) = IF known THEN Len(net) ELSE b
      BY <1>4, <2>2, <3>2, <3>4, <3>6
    <3>13. HasNames(made[b])
      BY <3>2, <3>6, <3>7
    <3> HIDE DEF dict, n, made, l, b
    <3> QED BY <3>3, <3>8, <3>9, <3>10, <3>11, <3>12, <3>13
  <2> QED BY <2>1, <2>2
<1>10. /\ IsNetList(n) /\ Len(n) = Len(made) /\ PinsWithin(n)
       /\ \A i \in 1 .. Len(made) : n[i].local_nets = made[i].local_nets
  <2> HIDE DEF made, b, key, from
  <2>1. /\ IsNetList(n) /\ Len(n) = Len(made)
        /\ \A i \in 1 .. Len(made) : n[i].local_nets = made[i].local_nets
        /\ \A i \in 1 .. Len(made) : n[i].component_pins = made[i].component_pins
    BY <1>5, <1>9, NameAdded
  <2> HIDE DEF n
  <2> QED BY <1>9, <2>1 DEF PinsWithin
<1>11. IsFiniteSet(DOMAIN dict)
  <2>1. IsFiniteSet(DOMAIN net_dict \cup {key})
    BY <1>4, FS_AddElement
  <2> HIDE DEF dict, key
  <2> QED BY <1>9, <2>1, FS_Subset
<1>12. Agrees(n, net_of)
  <2>1. made = [i \in 1 .. Len(made) |-> made[i]] /\ \A i \in 1 .. Len(made) : IsNet(made[i])
    BY <1>9 DEF IsNetList
  <2>2. n = [i \in 1 .. Len(made) |-> n[i]] /\ \A i \in 1 .. Len(made) : IsNet(n[i])
    <3> HIDE DEF n, made
    <3> QED BY <1>10 DEF IsNetList
  <2>3. Agrees(made, net_of)
    <3>1. CASE known
      BY <1>4, <3>1
    <3>2. CASE ~known
      <4>1. IsNet(NewNet) /\ NewNet.local_nets = {}
        BY DEF NewNet, IsNet
      <4> QED BY <1>4, <3>2, <4>1, AgreesNew
    <3> QED BY <3>1, <3>2
  <2> HIDE DEF made, n
  <2> QED BY <1>10, <2>2, <2>3, AgreesSame
<1> HIDE DEF n, dict, l, made, b, key, known, w, src, dst, from
<1>13. a \in 0 .. Len(n) /\ a = net_of[ln] /\ ToSet(l) \subseteq 1 .. Len(n)
  <2>1. ToSet(l) \subseteq 1 .. Len(n)
    BY <1>9, Listed DEF NamesAgree
  <2>2. a = net_of[ln] /\ a \in 0 .. Len(n)
    BY <1>4, <1>12 DEF Agrees
  <2> QED BY <2>1, <2>2
<1> HIDE DEF a
<1>14. /\ NamesAgree(net', net_dict', nets') /\ PinsWithin(net')
       /\ \A m \in DOMAIN net_of' : net_of'[m] # 0 => net_of'[m] \in ToSet(nets')
       /\ DOMAIN net_dict' = DOMAIN dict /\ pc' = "name"
  <2>0. \A m \in DOMAIN net_of : net_of[m] # 0 => net_of[m] \in ToSet(nets)
    BY <1>1 DEF RunInv, NamesInv
  <2>1. CASE a = b /\ net' = n /\ UNCHANGED <<nets, net_of, net_dict, pc>>
    <3>1. dict = net_dict /\ l = nets
      BY <1>7, <1>8, <2>1 DEF l
    <3> QED BY <1>1, <1>9, <1>10, <2>0, <2>1, <3>1
  <2>2. CASE /\ a = 0 /\ net' = [n EXCEPT ![b].local_nets = @ \cup {ln}]
             /\ net_of' = [net_of EXCEPT ![ln] = b] /\ nets' = l /\ net_dict' = dict /\ UNCHANGED pc
    <3>1. n = [i \in 1 .. Len(n) |-> n[i]] /\ Len(n) \in Nat /\ \A i \in 1 .. Len(n) : IsNet(n[i])
      BY <1>10 DEF IsNetList
    <3>2. /\ net' = [i \in 1 .. Len(n) |-> net'[i]]
          /\ \A i \in 1 .. Len(n) : \E x : net'[i] = [n[i] EXCEPT !.local_nets = x] \/ net'[i] = n[i]
      BY <2>2, <3>1
    <3>3. Len(net') = Len(n)
      BY <3>1, <3>2, ListLength
    <3>4. \A i \in 1 .. Len(n) : /\ net'[i].names = n[i].names
                                 /\ net'[i].component_pins = n[i].component_pins
      BY <3>1, <3>2 DEF IsNet
    <3>5. NamesAgree(net', dict, l)
      BY <1>9, <3>3, <3>4, NamesSame
    <3>6. PinsWithin(net')
      BY <1>10, <3>3, <3>4 DEF PinsWithin
    <3>7. \A m \in DOMAIN net_of' : net_of'[m] # 0 => net_of'[m] \in ToSet(nets')
      BY <1>9, <2>0, <2>2
    <3> QED BY <1>1, <2>2, <3>5, <3>6, <3>7
  <2>3. CASE /\ a \notin {0, b} /\ net' = Merged(n, src, dst) /\ net_of' = Moved(n, src, dst)
             /\ nets' = Removing(l, src)
             /\ net_dict' = [k \in DOMAIN dict |-> IF k \in AllNames(n[src]) THEN dst ELSE dict[k]]
             /\ pc' = IF Mergeable(n, src, dict) THEN pc ELSE "crashed"
    <3>1. src \in ToSet(l) /\ dst \in ToSet(l) /\ src # dst
      BY <1>3, <1>4, <1>9, <2>3 DEF a
    <3>2. NamesAgree(net', net_dict', nets') /\ Mergeable(n, src, dict)
      BY <1>9, <1>10, <2>3, <3>1, NamesMerged
    <3>3. src \in 1 .. Len(n) /\ dst \in 1 .. Len(n)
      BY <1>13, <3>1
    <3>4. PinsWithin(net')
      <4>1. n = [i \in 1 .. Len(n) |-> n[i]] /\ Len(n) \in Nat /\ \A i \in 1 .. Len(n) : IsNet(n[i])
        BY <1>10 DEF IsNetList
      <4>2. /\ net' = [i \in 1 .. Len(n) |-> net'[i]]
            /\ \A i \in 1 .. Len(n) :
                 \E x, y : net'[i] = [n[i] EXCEPT !.local_nets = x, !.names = y] \/ net'[i] = n[i]
        BY <2>3, <3>1, <3>3, <4>1 DEF Merged
      <4>3. Len(net') = Len(n)
        BY <4>1, <4>2, ListLength
      <4>4. \A i \in 1 .. Len(n) : net'[i].component_pins = n[i].component_pins
        BY <4>1, <4>2 DEF IsNet
      <4> QED BY <1>10, <4>3, <4>4 DEF PinsWithin
    <3>5. ToSet(nets') = ToSet(l) \ {src}
      BY <1>9, <2>3, RemovingListed DEF NamesAgree
    <3>6. ASSUME NEW m \in DOMAIN net_of', net_of'[m] # 0 PROVE net_of'[m] \in ToSet(nets')
      <4>1. m \in DOMAIN net_of /\ net_of'[m] = IF m \in n[src].local_nets THEN dst ELSE net_of[m]
        BY <2>3, <3>6 DEF Moved
      <4>2. CASE m \in n[src].local_nets
        BY <3>1, <3>5, <4>1, <4>2
      <4>3. CASE m \notin n[src].local_nets
        <5>1. net_of[m] # src
          BY <1>12, <3>3, <4>1, <4>3 DEF Agrees
        <5> QED BY <1>9, <2>0, <3>5, <3>6, <4>1, <4>3, <5>1
      <4> QED BY <4>2, <4>3
    <3> QED BY <1>1, <2>3, <3>2, <3>4, <3>6
  <2> QED BY <1>2, <2>1, <2>2, <2>3 DEF a
<1>15. ShapeInv'
  BY <1>1, <1>14 DEF RunInv, ShapeInv, NamesAgree, PinsWithin, Phases, AllComponents, ComponentsOn
<1>16. ASSUME NEW m \in DOMAIN todo' PROVE IsWanted(todo'[m]) /\ todo'[m] # <<>>
  <2>0. \A x \in DOMAIN todo : IsWanted(todo[x]) /\ todo[x] # <<>>
    BY <1>1 DEF RunInv, NamesInv
  <2>1. CASE Len(todo[ln]) = 1
    BY <1>1, <1>16, <2>0, <2>1 DEF Restrict
  <2>2. CASE Len(todo[ln]) # 1 /\ m # ln
    BY <1>1, <1>16, <2>0, <2>2
  <2>3. CASE Len(todo[ln]) # 1 /\ m = ln
    <3> DEFINE s == todo[ln]  t == Tail(s)
    <3>1. todo'[m] = t
      BY <1>1, <2>3
    <3>2. IsWanted(s) /\ s # <<>> /\ Len(s) # 1
      BY <1>4, <2>3
    <3> HIDE DEF s
    <3>3. Len(s) \in Nat /\ Len(s) > 1 /\ s \in Seq(ToSet(s))
      BY <3>2 DEF IsWanted, IsList
    <3>4. t \in Seq(ToSet(s)) /\ Len(t) = Len(s) - 1 /\ \A i \in 1 .. Len(t) : t[i] = s[i + 1]
      BY <3>3
    <3> HIDE DEF t
    <3>5. /\ Len(t) \in Nat /\ Len(t) > 0 /\ DOMAIN t = 1 .. Len(t) /\ IsList(t)
          /\ \A i \in 1 .. Len(t) : t[i].from \in BOOLEAN
      BY <3>2, <3>3, <3>4, OwnElements DEF IsWanted
    <3>6. t # <<>>
      BY <3>5
    <3> QED BY <3>1, <3>5, <3>6 DEF IsWanted
  <2> QED BY <2>1, <2>2, <2>3
<1>17. NamesInv'
  BY <1>1, <1>11, <1>14, <1>16 DEF RunInv, NamesInv, NamesUnique
<1>18. b = IF known THEN net_dict[key] ELSE Len(net) + 1
  BY DEF b, known
<1>19. /\ DOMAIN dict = DOMAIN net_dict \cup {key} /\ dict = [k \in DOMAIN dict |-> dict[k]]
       /\ dict[key] = b /\ \A k \in DOMAIN net_dict : k # key => dict[k] = net_dict[k]
       /\ net_dict = [k \in DOMAIN net_dict |-> net_dict[k]]
       /\ \A k \in DOMAIN net_dict : net_dict[k] \in 1 .. Len(net)
       /\ net_of = [m \in DOMAIN net_of |-> net_of[m]]
       /\ \A m \in DOMAIN net_of : net_of[m] \in 0 .. Len(net)
  BY <1>4, <1>6 DEF dict, Entered, NamesAgree, Agrees
<1>20. known <=> key \in DOMAIN net_dict
  BY DEF known
<1>21. \E d : NameJoins(ln, key, b, d)
  <2>1. CASE a = b /\ net' = n /\ UNCHANGED <<nets, net_of, net_dict, pc>>
    <3>1. known /\ Len(net') = Len(net)
      BY <1>8, <1>9, <1>10, <2>1
    <3>2. b # 0 /\ net_of[ln] = b /\ {net_of[ln], b} \ {0} = {b}
      BY <1>9, <1>13, <2>1
    <3>3. net_of' = [m \in DOMAIN net_of |-> IF m = ln \/ net_of[m] \in {b} THEN b ELSE net_of[m]]
      BY <1>19, <2>1, <3>2
    <3>4. key \in DOMAIN net_dict /\ b = net_dict[key]
      BY <1>18, <1>20, <3>1
    <3>5. net_dict' = [k \in DOMAIN net_dict \cup {key} |->
                         IF k = key \/ net_dict[k] \in {b} THEN b ELSE net_dict[k]]
      BY <1>19, <2>1, <3>4
    <3>6. NameJoins(ln, key, b, b)
      BY <3>1, <3>2, <3>3, <3>4, <3>5 DEF NameJoins
    <3> QED BY <3>6
  <2>2. CASE /\ a = 0 /\ net' = [n EXCEPT ![b].local_nets = @ \cup {ln}]
             /\ net_of' = [net_of EXCEPT ![ln] = b] /\ nets' = l /\ net_dict' = dict /\ UNCHANGED pc
    <3>1. n = [i \in 1 .. Len(n) |-> n[i]] /\ Len(n) \in Nat
      BY <1>10 DEF IsNetList
    <3>2. net' = [i \in 1 .. Len(n) |-> net'[i]]
      BY <2>2, <3>1
    <3>3. Len(net') = Len(n)
      BY <3>1, <3>2, ListLength
    <3>4. b # 0 /\ b \in Nat /\ {net_of[ln], b} \ {0} = {b}
      BY <1>9, <1>13, <2>2
    <3>5. net_of' = [m \in DOMAIN net_of |-> IF m = ln \/ net_of[m] \in {b} THEN b ELSE net_of[m]]
      BY <1>19, <2>2
    <3>6. net_dict' = [k \in DOMAIN net_dict \cup {key} |->
                         IF k = key \/ net_dict[k] \in {b} THEN b ELSE net_dict[k]]
      BY <1>19, <2>2
    <3>7. NameJoins(ln, key, b, b)
      BY <1>9, <1>10, <1>18, <1>20, <3>3, <3>4, <3>5, <3>6 DEF NameJoins
    <3> QED BY <3>7
  <2>3. CASE /\ a \notin {0, b} /\ net' = Merged(n, src, dst) /\ net_of' = Moved(n, src, dst)
             /\ nets' = Removing(l, src)
             /\ net_dict' = [k \in DOMAIN dict |-> IF k \in AllNames(n[src]) THEN dst ELSE dict[k]]
             /\ pc' = IF Mergeable(n, src, dict) THEN pc ELSE "crashed"
    <3>1. src \in ToSet(l) /\ dst \in ToSet(l) /\ src # dst
      BY <1>3, <1>4, <1>9, <2>3 DEF a
    <3>2. src \in 1 .. Len(n) /\ dst \in 1 .. Len(n)
      BY <1>13, <3>1
    <3>3. Len(net') = Len(n)
      BY <1>12, <2>3, <3>1, <3>2, AgreesMerged
    <3>4. b # 0 /\ {net_of[ln], b} \ {0} = {src, dst} /\ dst \in {src, dst}
      BY <1>3, <1>9, <1>13, <2>3 DEF a
    <3>5. net_of' = [m \in DOMAIN net_of |->
                       IF m = ln \/ net_of[m] \in {src, dst} THEN dst ELSE net_of[m]]
      <4>1. \A m \in DOMAIN net_of : m \in n[src].local_nets <=> net_of[m] = src
        BY <1>12, <3>2 DEF Agrees
      <4>2. net_of[ln] \in {src, dst}
        BY <1>3, <1>13
      <4> QED BY <2>3, <4>1, <4>2 DEF Moved
    <3>6. net_dict' = [k \in DOMAIN net_dict \cup {key} |->
                         IF k = key \/ net_dict[k] \in {src, dst} THEN dst ELSE net_dict[k]]
      <4>1. \A k \in DOMAIN dict : k \in AllNames(n[src]) <=> dict[k] = src
        BY <1>9, <3>2 DEF NamesAgree
      <4>2. dict[key] \in {src, dst}
        BY <1>3, <1>19
      <4> QED BY <1>19, <2>3, <4>1, <4>2
    <3>7. NameJoins(ln, key, b, dst)
      BY <1>9, <1>10, <1>18, <1>20, <3>3, <3>4, <3>5, <3>6 DEF NameJoins
    <3> QED BY <3>7
  <2> QED BY <1>2, <2>1, <2>2, <2>3 DEF a, n, dict, src, dst, l
<1>22. KeyFor(ln, Head(todo[ln])) = key
  BY DEF KeyFor, key, w
<1> QED BY <1>14, <1>15, <1>17, <1>21, <1>22

\* Nets get their names; no net is without one to choose.
LEMMA ChooseNamesRun ==
  ASSUME RunInv, ChooseNames
  PROVE  ShapeInv' /\ NamesInv' /\ pc' = "number"
<1> DEFINE prio == ~design.prefer
           called(n) == IF n.names[prio] # <<>> THEN Last(n.names[prio])
                        ELSE Last(n.names[~prio])
<1>1. /\ pc = "name"
      /\ UNCHANGED <<design, drawn, page_of, cpins, local_net, components, on_sheet, failed, counter,
                     net_dict, nets, net_of>>
      /\ pc' = IF \A i \in ToSet(nets) : AllNames(net[i]) # {} THEN "number" ELSE "crashed"
  BY DEF ChooseNames, static, namevars, partvars
<1>2. NamesAgree(net, net_dict, nets)
  BY <1>1 DEF RunInv, NamesInv
<1>3. pc' = "number"
  BY <1>1, <1>2 DEF NamesAgree
<1>4. net = [i \in 1 .. Len(net) |-> net[i]] /\ Len(net) \in Nat /\ \A i \in 1 .. Len(net) : IsNet(net[i])
  BY DEF RunInv, NetlistInv, Agrees, IsNetList
<1>5. net' = [i \in DOMAIN net |-> IF i \in ToSet(nets) THEN [net[i] EXCEPT !.name = called(net[i])]
                                                        ELSE net[i]]
  BY <1>3 DEF ChooseNames
<1>6. ToSet(nets) \subseteq 1 .. Len(net)
  BY <1>2, Listed DEF NamesAgree
<1> HIDE DEF called
<1>7. /\ net' = [i \in 1 .. Len(net) |-> net'[i]]
      /\ \A i \in 1 .. Len(net) : \E x : net'[i] = [net[i] EXCEPT !.name = x] \/ net'[i] = net[i]
      /\ \A i \in ToSet(nets) : net'[i] = [net[i] EXCEPT !.name = called(net[i])]
  BY <1>4, <1>5, <1>6
<1>8. Len(net') = Len(net)
  BY <1>4, <1>7, ListLength
<1>9. \A i \in 1 .. Len(net) : /\ net'[i].names = net[i].names
                               /\ net'[i].component_pins = net[i].component_pins
  BY <1>4, <1>7 DEF IsNet
<1>10. ASSUME NEW i \in ToSet(nets) PROVE net'[i].name \in AllNames(net[i])
  <2>1. net'[i].name = called(net[i])
    BY <1>4, <1>6, <1>7 DEF IsNet
  <2>2. HasNames(net[i]) /\ AllNames(net[i]) # {} /\ prio \in BOOLEAN
    <3>1. design \in Designs
      BY DEF RunInv, ShapeInv
    <3> QED BY <1>2, <1>6, <3>1, DesignPages DEF NamesAgree
  <2>3. \A x \in BOOLEAN : IsList(net[i].names[x]) /\ ToSet(net[i].names[x]) \subseteq AllNames(net[i])
    BY <2>2 DEF HasNames, AllNames
  <2>4. AllNames(net[i]) = ToSet(net[i].names[prio]) \cup ToSet(net[i].names[~prio])
    BY <2>2 DEF AllNames
  <2>5. CASE net[i].names[prio] # <<>>
    BY <2>1, <2>2, <2>3, <2>5, LastListed DEF called
  <2>6. CASE net[i].names[prio] = <<>>
    <3>1. net[i].names[~prio] # <<>>
      BY <2>2, <2>4, <2>6, EmptyListed
    <3>2. ~prio = TRUE \/ ~prio = FALSE
      BY Zenon
    <3> QED BY <2>1, <2>3, <2>6, <3>1, <3>2, LastListed DEF called
  <2> QED BY <2>5, <2>6
<1>11. \A i \in 1 .. Len(net) : AllNames(net'[i]) = AllNames(net[i])
  BY <1>9 DEF AllNames
<1>12. NumbersAgree(net', net_dict, nets)
  <2>1. \A k \in DOMAIN net_dict : net_dict[k] \in 1 .. Len(net) /\ k \in AllNames(net[net_dict[k]])
    BY <1>2, <1>6 DEF NamesAgree
  <2> QED BY <1>2, <1>6, <1>8, <1>10, <1>11, <2>1 DEF NumbersAgree, NamesAgree
<1>13. ShapeInv'
  BY <1>1, <1>3, <1>8, <1>9 DEF RunInv, ShapeInv, Phases, AllComponents, ComponentsOn
<1>14. NamesInv'
  BY <1>1, <1>3, <1>12 DEF RunInv, NamesInv, NamesUnique
<1> QED BY <1>3, <1>13, <1>14

\* A net with a number for a name.
LEMMA NumberNetRun == RunInv /\ NumberNet => ShapeInv' /\ NamesInv'
<1> SUFFICES ASSUME RunInv, NumberNet PROVE ShapeInv' /\ NamesInv'
  OBVIOUS
<1>1. /\ pc = "number" /\ pc' = "number"
      /\ UNCHANGED <<design, drawn, page_of, cpins, local_net, components, on_sheet, failed>>
  BY DEF NumberNet, static, partvars
<1>2. PICK first \in Unnamed : \E text \in TextsCounted : \E s, u :
        LET i   == FirstFree(s, text)
            key == Numbered(s, text, i)
        IN /\ net' = Append(net, [NewNet EXCEPT !.local_nets = {local_net[cpins[first]]}, !.name = key,
                                                !.is_unconnected_pin = u])
           /\ nets' = Append(nets, Len(net) + 1)
           /\ net_of' = [net_of EXCEPT ![local_net[cpins[first]]] = Len(net) + 1]
           /\ net_dict' = Entered(net_dict, key, Len(net) + 1)
           /\ counter' = [counter EXCEPT ![text] = i + 1]
  BY DEF NumberNet, TextsCounted
<1> DEFINE ln == local_net[cpins[first]]
           b  == Len(net) + 1
<1>3. PICK text \in TextsCounted : \E s, u :
        LET i   == FirstFree(s, text)
            key == Numbered(s, text, i)
        IN /\ net' = Append(net, [NewNet EXCEPT !.local_nets = {ln}, !.name = key,
                                                !.is_unconnected_pin = u])
           /\ nets' = Append(nets, b)
           /\ net_of' = [net_of EXCEPT ![ln] = b]
           /\ net_dict' = Entered(net_dict, key, b)
           /\ counter' = [counter EXCEPT ![text] = i + 1]
  BY <1>2
<1>4. PICK s, u :
        LET i   == FirstFree(s, text)
            key == Numbered(s, text, i)
        IN /\ net' = Append(net, [NewNet EXCEPT !.local_nets = {ln}, !.name = key,
                                                !.is_unconnected_pin = u])
           /\ nets' = Append(nets, b)
           /\ net_of' = [net_of EXCEPT ![ln] = b]
           /\ net_dict' = Entered(net_dict, key, b)
           /\ counter' = [counter EXCEPT ![text] = i + 1]
  BY <1>3
<1> DEFINE i   == FirstFree(s, text)
           key == Numbered(s, text, i)
           r   == [NewNet EXCEPT !.local_nets = {ln}, !.name = key, !.is_unconnected_pin = u]
<1>5. /\ IsNetList(net) /\ Len(net) \in Nat /\ NumbersAgree(net, net_dict, nets)
      /\ counter[text] \in Nat /\ IsFiniteSet(DOMAIN net_dict)
      /\ net = [k \in 1 .. Len(net) |-> net[k]]
  BY <1>1 DEF RunInv, NetlistInv, NamesInv, Agrees, IsNetList
<1>6. i \in Nat /\ key \notin DOMAIN net_dict
  BY <1>5, FirstFreeUnused
<1>7. /\ net' = Append(net, r) /\ nets' = Append(nets, b)
      /\ net_of' = [net_of EXCEPT ![ln] = b] /\ net_dict' = Entered(net_dict, key, b)
      /\ counter' = [counter EXCEPT ![text] = i + 1]
  BY <1>4
<1> HIDE DEF i, key, ln
<1>8. NumbersAgree(net', net_dict', nets')
  <2>1. NumbersAgree(Append(net, r), Entered(net_dict, key, Len(net) + 1), Append(nets, Len(net) + 1))
    BY <1>5, <1>6, NumberEntered
  <2> QED BY <1>7, <2>1
<1>9. r.component_pins = {}
  BY DEF NewNet
<1> HIDE DEF r
<1>10. Len(net') = b /\ net'[b] = r /\ \A k \in 1 .. Len(net) : net'[k] = net[k]
  <2>1. net' = [k \in 1 .. b |-> IF k = b THEN r ELSE net[k]]
    BY <1>5, <1>7, AppendedNet
  <2>2. b \in Nat /\ net' = [k \in 1 .. b |-> net'[k]]
    BY <1>5, <2>1
  <2> QED BY <1>5, <2>1, <2>2, ListLength
<1>11. \A k \in 1 .. Len(net') : net'[k].component_pins \subseteq DOMAIN local_net
  BY <1>5, <1>9, <1>10 DEF RunInv, ShapeInv
<1>12. nets' \in Seq(1 .. Len(net')) /\ IsInjective(nets')
  BY <1>8 DEF NumbersAgree
<1>13. ToSet(nets') = ToSet(nets) \cup {b}
  <2>1. nets \in Seq(Nat) /\ b \in Nat
    BY <1>5, WiderSeq DEF NumbersAgree
  <2>2. ToSet(Append(nets, b)) = ToSet(nets) \cup {b}
    <3> HIDE DEF b
    <3> QED BY <2>1, AppendListed
  <2>3. nets' = Append(nets, b)
    BY <1>7
  <2> QED BY <2>2, <2>3
<1>14. \A m \in DOMAIN net_of' : net_of'[m] # 0 => net_of'[m] \in ToSet(nets')
  BY <1>1, <1>7, <1>13 DEF RunInv, NamesInv
<1>15. IsFiniteSet(DOMAIN net_dict')
  <2>1. DOMAIN net_dict' = DOMAIN net_dict \cup {key}
    BY <1>7 DEF Entered
  <2> QED BY <1>5, <2>1, FS_AddElement
<1>16. /\ counter' = [t \in TextsCounted |-> counter'[t]]
       /\ \A t \in TextsCounted : counter'[t] \in Nat
  <2>1. counter = [t \in TextsCounted |-> counter[t]] /\ \A t \in TextsCounted : counter[t] \in Nat
    BY DEF RunInv, NamesInv
  <2>2. \A t \in TextsCounted : counter'[t] = IF t = text THEN i + 1 ELSE counter[t]
    BY <1>7, <2>1
  <2> QED BY <1>6, <1>7, <2>1, <2>2
<1>17. ShapeInv'
  <2>1. AllComponents(page_of)' = AllComponents(page_of)
    BY <1>1 DEF AllComponents, ComponentsOn
  <2>2. pc' = "number"
    BY <1>1
  <2>3. design' = design /\ failed' = failed /\ cpins' = cpins
        /\ components' = components /\ on_sheet' = on_sheet
    BY <1>1
  <2>4. /\ design \in Designs /\ failed \in BOOLEAN /\ IsList(cpins)
        /\ components \in Seq(AllComponents(page_of)) /\ on_sheet \subseteq AllComponents(page_of)
    BY DEF RunInv, ShapeInv
  <2>5. components' \in Seq(AllComponents(page_of)') /\ on_sheet' \subseteq AllComponents(page_of)'
    BY <2>1, <2>3, <2>4
  <2>6. /\ design' \in Designs /\ failed' \in BOOLEAN /\ IsList(cpins') /\ pc' \in Phases
        /\ pc' \notin {"read", "instantiate"}
    BY <2>2, <2>3, <2>4 DEF Phases
  <2>7. \A k \in 1 .. Len(net') : net'[k].component_pins \subseteq DOMAIN local_net'
    BY <1>1, <1>11
  <2> QED BY <1>12, <2>5, <2>6, <2>7 DEF ShapeInv
<1>18. NamesInv'
  BY <1>1, <1>8, <1>14, <1>15, <1>16 DEF NamesInv, NamesUnique
<1> QED BY <1>17, <1>18

\* Pins are added to nets, and the nets listed in the order of the pins: every
\* net has a pin or is dropped.
LEMMA CollectPinsRun ==
  ASSUME RunInv, CollectPins
  PROVE  /\ ShapeInv' /\ NamesInv' /\ pc' = "hierarchy"
         /\ ToSet(nets') = {NetOf(p) : p \in DOMAIN local_net} /\ Len(net') = Len(net)
         /\ \A n \in 1 .. Len(net) : net'[n].component_pins = {p \in DOMAIN local_net : NetOf(p) = n}
<1> DEFINE pins(n) == {p \in DOMAIN local_net : NetOf(p) = n}
           q == [i \in DOMAIN cpins |-> NetOf(cpins[i])]
           l == AddedAll(<<>>, q)
           T == {NetOf(p) : p \in DOMAIN local_net}
<1>1. /\ pc = "number" /\ Unnamed = {}
      /\ UNCHANGED <<design, drawn, page_of, cpins, local_net, components, on_sheet, failed, counter,
                     net_dict, net_of>>
      /\ IF ToSet(l) = {n \in ToSet(nets) : pins(n) # {}}
         THEN /\ pc' = "hierarchy" /\ nets' = l
              /\ net' = [n \in DOMAIN net |-> [net[n] EXCEPT !.component_pins = pins(n)]]
         ELSE pc' = "crashed"
  BY DEF CollectPins, static, namevars
<1>2. /\ DOMAIN local_net = {cpins[i] : i \in DOMAIN cpins}
      /\ local_net \in [DOMAIN local_net -> DOMAIN net_of]
      /\ IsList(cpins) /\ NumbersAgree(net, net_dict, nets)
  BY <1>1 DEF RunInv, NetlistInv, PinsKnown, ShapeInv, NamesInv
<1>3. Len(cpins) \in Nat /\ DOMAIN cpins = 1 .. Len(cpins)
  BY <1>2, Listed DEF IsList
<1>4. q \in Seq(T) /\ DOMAIN q = 1 .. Len(cpins) /\ \A i \in 1 .. Len(cpins) : q[i] = NetOf(cpins[i])
  <2> HIDE DEF T
  <2>1. \A i \in 1 .. Len(cpins) : NetOf(cpins[i]) \in T
    BY <1>2, <1>3 DEF T
  <2> QED BY <1>3, <2>1
<1>5. ToSet(q) = T
  <2>1. \A x : x \in ToSet(q) <=> \E i \in 1 .. Len(cpins) : x = NetOf(cpins[i])
    BY <1>4 DEF ToSet
  <2>2. \A x : x \in T <=> \E i \in 1 .. Len(cpins) : x = NetOf(cpins[i])
    BY <1>2, <1>3
  <2> QED BY <2>1, <2>2
<1>6. l \in Seq(T) /\ ToSet(l) = T /\ IsInjective(l)
  <2> HIDE DEF q, T
  <2>1. <<>> \in Seq(T) /\ ToSet(<<>>) = {} /\ IsInjective(<<>>)
    BY EmptyListed
  <2>2. /\ AddedAll(<<>>, q) \in Seq(T)
        /\ ToSet(AddedAll(<<>>, q)) = ToSet(<<>>) \cup ToSet(q)
        /\ IsInjective(<<>>) => IsInjective(AddedAll(<<>>, q))
    <3>1. q \in Seq(T)
      BY <1>4
    <3> QED BY <2>1, <3>1, AddedAllListed
  <2> QED BY <1>5, <2>1, <2>2
<1>7. ASSUME NEW p \in DOMAIN local_net PROVE NetOf(p) \in ToSet(nets)
  <2>1. NetOf(p) # 0
    BY <1>1, <1>2 DEF Unnamed, NetOf
  <2> QED BY <1>1, <1>2, <2>1 DEF RunInv, NamesInv, NetOf
<1>8. T = {n \in ToSet(nets) : pins(n) # {}}
  BY <1>7
<1> HIDE DEF l, q, T
<1>9. /\ pc' = "hierarchy" /\ nets' = l
      /\ net' = [n \in DOMAIN net |-> [net[n] EXCEPT !.component_pins = pins(n)]]
  BY <1>1, <1>6, <1>8
<1>10. net = [i \in 1 .. Len(net) |-> net[i]] /\ Len(net) \in Nat /\ \A i \in 1 .. Len(net) : IsNet(net[i])
  BY DEF RunInv, NetlistInv, Agrees, IsNetList
<1>11. /\ net' = [i \in 1 .. Len(net) |-> net'[i]]
       /\ \A i \in 1 .. Len(net) : net'[i] = [net[i] EXCEPT !.component_pins = pins(i)]
  BY <1>9, <1>10
<1>12. Len(net') = Len(net)
  BY <1>10, <1>11, ListLength
<1>13. \A i \in 1 .. Len(net) : net'[i].name = net[i].name /\ net'[i].component_pins = pins(i)
  <2> HIDE DEF pins
  <2> QED BY <1>10, <1>11 DEF IsNet
<1>14. ToSet(nets') \subseteq ToSet(nets) /\ ToSet(nets) \subseteq 1 .. Len(net)
  <2>1. ToSet(nets) \subseteq 1 .. Len(net)
    BY <1>2, Listed DEF NumbersAgree
  <2> QED BY <1>6, <1>8, <1>9, <2>1
<1>15. nets' \in Seq(1 .. Len(net'))
  <2>1. nets' \in Seq(ToSet(nets'))
    BY <1>6, <1>9, OwnElements DEF IsList
  <2> QED BY <1>12, <1>14, <2>1, WiderSeq
<1>16. ShapeInv'
  BY <1>1, <1>6, <1>9, <1>12, <1>13, <1>15 DEF RunInv, ShapeInv, Phases, AllComponents, ComponentsOn
<1>17. NamesUnique'
  <2> SUFFICES ASSUME NEW m \in ToSet(nets'), NEW n \in ToSet(nets'), net'[m].name = net'[n].name
               PROVE  m = n
    BY DEF NamesUnique
  <2>1. m \in ToSet(nets) /\ n \in ToSet(nets) /\ net[m].name = net[n].name
    BY <1>13, <1>14
  <2> QED BY <1>2, <2>1 DEF NumbersAgree
<1>18. NamesInv'
  BY <1>1, <1>9, <1>17 DEF RunInv, NamesInv
<1> QED BY <1>6, <1>9, <1>12, <1>13, <1>16, <1>18 DEF T

\* What is left of a list.
LEMMA FilteredPart ==
  ASSUME NEW s, IsList(s), NEW S
  PROVE  /\ IsList(Filtered(s, S)) /\ Filtered(s, S) \in Seq(ToSet(s))
         /\ ToSet(Filtered(s, S)) = ToSet(s) \cap S
         /\ IsInjective(s) => IsInjective(Filtered(s, S))
<1> DEFINE T == ToSet(s)  t == Filtered(s, S)
<1>1. s \in Seq(T)
  BY DEF IsList
<1> HIDE DEF T
<1>2. t \in Seq(T) /\ ToSet(t) = ToSet(s) \cap S /\ (IsInjective(s) => IsInjective(t))
  BY <1>1, FilteredListed
<1> HIDE DEF t
<1>3. IsList(t)
  BY <1>2, OwnElements
<1> QED BY <1>2, <1>3 DEF t, T

\* Nets m are nets n but for pin p, which is no longer on net dst.
IsWithoutPin(m, n, dst, p) ==
  /\ IsNetList(m) /\ Len(m) = Len(n)
  /\ \A i \in 1 .. Len(n) :
       /\ m[i].name = n[i].name /\ m[i].local_nets = n[i].local_nets
       /\ m[i].component_pins = IF i = dst THEN n[i].component_pins \ {p}
                                ELSE n[i].component_pins

LEMMA WithoutPinFields ==
  ASSUME NEW n, IsNetList(n), NEW dst, NEW p
  PROVE  IsWithoutPin(WithoutPin(n, dst, p), n, dst, p)
<1> DEFINE m == WithoutPin(n, dst, p)
<1>1. n = [i \in 1 .. Len(n) |-> n[i]] /\ Len(n) \in Nat /\ \A i \in 1 .. Len(n) : IsNet(n[i])
  BY DEF IsNetList
<1>2. /\ m = [i \in 1 .. Len(n) |-> m[i]]
      /\ \A i \in 1 .. Len(n) : i # dst => m[i] = n[i]
      /\ \A i \in 1 .. Len(n) : i = dst =>
           m[i] = [n[i] EXCEPT !.component_pins = n[i].component_pins \ {p}]
  BY <1>1 DEF WithoutPin
<1> HIDE DEF m
<1>3. Len(m) = Len(n)
  BY <1>1, <1>2, ListLength
<1>4. \A i \in 1 .. Len(n) :
        /\ IsNet(m[i]) /\ m[i].name = n[i].name /\ m[i].local_nets = n[i].local_nets
        /\ m[i].component_pins = IF i = dst THEN n[i].component_pins \ {p} ELSE n[i].component_pins
  BY <1>1, <1>2 DEF IsNet
<1>5. IsNetList(m)
  BY <1>1, <1>2, <1>3, <1>4 DEF IsNetList
<1> QED BY <1>3, <1>4, <1>5 DEF m, IsWithoutPin

\* Nets m are nets n, but with the pins of net src on net dst.
IsJoined(m, n, src, dst) ==
  /\ IsNetList(m) /\ Len(m) = Len(n)
  /\ \A i \in 1 .. Len(n) :
       /\ m[i].name = n[i].name
       /\ m[i].component_pins = IF i = dst THEN n[dst].component_pins \cup n[src].component_pins
                                ELSE IF i = src THEN {} ELSE n[i].component_pins

LEMMA JoinedFields ==
  ASSUME NEW n, IsNetList(n), NEW src \in 1 .. Len(n), NEW dst \in 1 .. Len(n), src # dst
  PROVE  IsJoined(Joined(n, src, dst), n, src, dst)
<1> DEFINE m == Joined(n, src, dst)
           f == [from \in BOOLEAN |-> AddedAll(n[dst].names[from], n[src].names[from])]
           x == n[dst].local_nets \cup n[src].local_nets
           c == n[dst].component_pins \cup n[src].component_pins
<1>1. n = [i \in 1 .. Len(n) |-> n[i]] /\ Len(n) \in Nat /\ \A i \in 1 .. Len(n) : IsNet(n[i])
  BY DEF IsNetList
<1>2. /\ m = [i \in 1 .. Len(n) |-> m[i]]
      /\ \A i \in 1 .. Len(n) : i \notin {src, dst} => m[i] = n[i]
      /\ m[dst] = [n[dst] EXCEPT !.local_nets = x, !.names = f,
                                 !.component_pins = n[dst].component_pins \cup n[src].component_pins]
      /\ m[src] = [n[src] EXCEPT !.local_nets = {}, !.names = NewNet.names, !.component_pins = {}]
  <2> DEFINE g == Merged(n, src, dst)
  <2>1. /\ g = [i \in 1 .. Len(n) |-> g[i]]
        /\ g[dst] = [n[dst] EXCEPT !.local_nets = x, !.names = f]
        /\ g[src] = [n[src] EXCEPT !.local_nets = {}, !.names = NewNet.names]
        /\ \A i \in 1 .. Len(n) : i \notin {src, dst} => g[i] = n[i]
    BY <1>1 DEF Merged
  <2>2. m = [g EXCEPT ![dst].component_pins = @ \cup n[src].component_pins,
                      ![src].component_pins = {}]
    BY DEF Joined
  <2> HIDE DEF g, m, x, f
  <2>3. /\ m = [i \in 1 .. Len(n) |-> m[i]]
        /\ \A i \in 1 .. Len(n) : i \notin {src, dst} => m[i] = g[i]
        /\ m[dst] = [g[dst] EXCEPT !.component_pins = g[dst].component_pins \cup n[src].component_pins]
        /\ m[src] = [g[src] EXCEPT !.component_pins = {}]
    BY <2>1, <2>2
  <2>4. IsNet(n[dst]) /\ IsNet(n[src])
    BY <1>1
  <2> QED BY <2>1, <2>3, <2>4 DEF IsNet
<1> HIDE DEF m, f, x
<1>3. Len(m) = Len(n)
  BY <1>1, <1>2, ListLength
<1>4. IsNet(n[dst]) /\ IsNet(n[src])
  BY <1>1
<1>5. IsNet(m[dst]) /\ m[dst].name = n[dst].name /\ m[dst].component_pins = c
  BY <1>2, <1>4 DEF IsNet
<1>6. IsNet(m[src]) /\ m[src].name = n[src].name /\ m[src].component_pins = {}
  BY <1>2, <1>4 DEF IsNet
<1>7. \A i \in 1 .. Len(n) : IsNet(m[i]) /\ m[i].name = n[i].name
  BY <1>1, <1>2, <1>5, <1>6
<1>8. IsNetList(m)
  BY <1>1, <1>2, <1>3, <1>7 DEF IsNetList
<1> QED BY <1>2, <1>3, <1>5, <1>6, <1>7, <1>8 DEF m, c, IsJoined

\* Once nets have names, they keep them; lists only lose elements.
LEMMA LaterRun ==
  ASSUME RunInv, pc \in {"hierarchy", "package", "drop"},
         pc' \in {"hierarchy", "package", "drop", "done", "crashed"}, failed' \in BOOLEAN,
         UNCHANGED <<design, page_of, cpins, local_net, counter, net_dict>>,
         Len(net') = Len(net),
         \A i \in 1 .. Len(net) : /\ net'[i].name = net[i].name
                                  /\ net'[i].component_pins \subseteq DOMAIN local_net,
         nets' \in Seq(ToSet(nets)), IsInjective(nets'),
         components' \in Seq(ToSet(components)), on_sheet' \subseteq on_sheet
  PROVE  ShapeInv' /\ NamesInv'
<1>1. /\ nets \in Seq(1 .. Len(net)) /\ components \in Seq(AllComponents(page_of))
      /\ on_sheet \subseteq AllComponents(page_of)
  BY DEF RunInv, ShapeInv
<1>2. /\ ToSet(nets) \subseteq 1 .. Len(net) /\ ToSet(components) \subseteq AllComponents(page_of)
      /\ ToSet(nets') \subseteq ToSet(nets)
  BY <1>1, Listed
<1>3. nets' \in Seq(1 .. Len(net')) /\ components' \in Seq(AllComponents(page_of))
  BY <1>1, <1>2, WiderSeq
<1>4. AllComponents(page_of)' = AllComponents(page_of)
  BY DEF AllComponents, ComponentsOn
<1>5. ShapeInv'
  BY <1>1, <1>3, <1>4 DEF RunInv, ShapeInv, Phases
<1>6. NamesUnique'
  BY <1>2 DEF RunInv, NamesInv, NamesUnique
<1>7. NamesInv'
  BY <1>6 DEF RunInv, NamesInv
<1> QED BY <1>5, <1>7

LEMMA SameLists ==
  ASSUME RunInv
  PROVE  /\ nets \in Seq(ToSet(nets)) /\ IsInjective(nets)
         /\ components \in Seq(ToSet(components))
         /\ IsNetList(net) /\ Len(net) \in Nat
         /\ ToSet(nets) \subseteq 1 .. Len(net)
         /\ \A i \in 1 .. Len(net) : net[i].component_pins \subseteq DOMAIN local_net
BY OwnElements, Listed DEF RunInv, NetlistInv, Agrees, IsNetList, ShapeInv, IsList

LEMMA CompositeRun ==
  ASSUME RunInv, BeginComposite \/ EndComposite \/ EndHierarchy
  PROVE  ShapeInv' /\ NamesInv'
<1>1. /\ pc = "hierarchy" /\ pc' \in {"hierarchy", "package", "crashed"}
      /\ UNCHANGED <<design, page_of, cpins, local_net, counter, net_dict, net, nets>>
      /\ on_sheet' \subseteq on_sheet
      /\ components' = components \/ components' = Filtered(components, ToSet(components) \ visit.removed)
  BY DEF BeginComposite, EndComposite, EndHierarchy, static, namevars, netvars
<1>2. failed' \in BOOLEAN
  BY DEF BeginComposite, EndComposite, EndHierarchy, RunInv, ShapeInv
<1>3. components' \in Seq(ToSet(components))
  <2>1. IsList(components) /\ components \in Seq(ToSet(components))
    BY SameLists DEF IsList
  <2> QED BY <1>1, <2>1, FilteredPart
<1> QED BY <1>1, <1>2, <1>3, SameLists, LaterRun

LEMMA ResolvePinRun == RunInv /\ ResolvePin => ShapeInv' /\ NamesInv'
<1> SUFFICES ASSUME RunInv, ResolvePin PROVE ShapeInv' /\ NamesInv'
  OBVIOUS
<1>1. /\ pc = "hierarchy" /\ pc' \in {"hierarchy", "crashed"}
      /\ UNCHANGED <<design, page_of, cpins, local_net, counter, net_dict, nets, components, on_sheet>>
      /\ net' = net \/ \E dst, p : net' = WithoutPin(net, dst, p)
  BY DEF ResolvePin, static, namevars
<1>2. failed' \in BOOLEAN
  BY DEF ResolvePin, RunInv, ShapeInv
<1>3. Len(net') = Len(net) /\ \A i \in 1 .. Len(net) : /\ net'[i].name = net[i].name
                                                       /\ net'[i].component_pins \subseteq DOMAIN local_net
  <2>1. CASE net' = net
    BY <2>1, SameLists
  <2>2. ASSUME NEW dst, NEW p, net' = WithoutPin(net, dst, p)
        PROVE  Len(net') = Len(net) /\ \A i \in 1 .. Len(net) :
                 /\ net'[i].name = net[i].name
                 /\ net'[i].component_pins \subseteq DOMAIN local_net
    <3>1. IsNetList(net)
      BY SameLists
    <3>2. IsWithoutPin(WithoutPin(net, dst, p), net, dst, p)
      BY <3>1, WithoutPinFields
    <3> QED BY <2>2, <3>1, <3>2, SameLists DEF IsWithoutPin
  <2> QED BY <1>1, <2>1, <2>2
<1> QED BY <1>1, <1>2, <1>3, SameLists, LaterRun

LEMMA JoinPortRun == RunInv /\ JoinPort => ShapeInv' /\ NamesInv'
<1> SUFFICES ASSUME RunInv, JoinPort PROVE ShapeInv' /\ NamesInv'
  OBVIOUS
<1>1. /\ pc = "hierarchy" /\ pc' \in {"hierarchy", "crashed"}
      /\ UNCHANGED <<design, page_of, cpins, local_net, counter, net_dict, components, failed>>
      /\ on_sheet' \subseteq on_sheet
      /\ \/ net' = net /\ nets' = nets
         \/ \E src, p : LET dst == visit.dest
                            n == IF src = dst THEN net ELSE Joined(net, src, dst)
                        IN /\ src = dst \/ src \in ToSet(nets)
                           /\ net' = WithoutPin(n, dst, p)
                           /\ nets' = IF src = dst THEN nets ELSE Removing(nets, src)
  BY DEF JoinPort, static, namevars, netvars
<1>2. visit.dest \in 1 .. Len(net)
  BY <1>1 DEF JoinPort, RunInv, NetlistInv, HierarchyInv
<1>3. failed' \in BOOLEAN
  BY <1>1 DEF RunInv, ShapeInv
<1> DEFINE Good == /\ Len(net') = Len(net)
                   /\ \A i \in 1 .. Len(net) : /\ net'[i].name = net[i].name
                                               /\ net'[i].component_pins \subseteq DOMAIN local_net
                   /\ nets' \in Seq(ToSet(nets)) /\ IsInjective(nets')
<1>4. CASE net' = net /\ nets' = nets
  BY <1>1, <1>3, <1>4, SameLists, LaterRun
<1>5. ASSUME NEW src, NEW p, src = visit.dest \/ src \in ToSet(nets),
             net' = WithoutPin(IF src = visit.dest THEN net ELSE Joined(net, src, visit.dest), visit.dest, p),
             nets' = IF src = visit.dest THEN nets ELSE Removing(nets, src)
      PROVE  Good
  <2> DEFINE dst == visit.dest
             n == IF src = dst THEN net ELSE Joined(net, src, dst)
  <2>1. src \in 1 .. Len(net)
    BY <1>2, <1>5, SameLists
  <2>2. /\ IsNetList(n) /\ Len(n) = Len(net)
        /\ \A i \in 1 .. Len(net) : /\ n[i].name = net[i].name
                                    /\ n[i].component_pins \subseteq DOMAIN local_net
    <3>1. CASE src = dst
      BY <3>1, SameLists
    <3>2. CASE src # dst
      <4>1. n = Joined(net, src, dst)
        BY <3>2
      <4> HIDE DEF n, dst
      <4>2. IsJoined(Joined(net, src, dst), net, src, dst)
        <5>1. IsNetList(net) /\ dst \in 1 .. Len(net)
          BY <1>2, SameLists DEF dst
        <5> QED BY <2>1, <3>2, <5>1, JoinedFields
      <4> QED BY <1>2, <2>1, <4>1, <4>2, SameLists DEF dst, IsJoined
    <3> QED BY <3>1, <3>2
  <2>3. net' = WithoutPin(n, dst, p)
    BY <1>5
  <2> HIDE DEF n, dst
  <2>4. Len(net') = Len(net) /\ \A i \in 1 .. Len(net) :
          /\ net'[i].name = net[i].name
          /\ net'[i].component_pins \subseteq DOMAIN local_net
    <3>1. IsNetList(n)
      BY <2>2
    <3>2. IsWithoutPin(WithoutPin(n, dst, p), n, dst, p)
      BY <3>1, WithoutPinFields
    <3> QED BY <2>2, <2>3, <3>2 DEF IsWithoutPin
  <2>5. nets' \in Seq(ToSet(nets)) /\ IsInjective(nets')
    BY <1>5, SameLists, RemovingListed
  <2> QED BY <2>4, <2>5
<1>6. CASE \E src, p : LET dst == visit.dest
                           n == IF src = dst THEN net ELSE Joined(net, src, dst)
                       IN /\ src = dst \/ src \in ToSet(nets)
                          /\ net' = WithoutPin(n, dst, p)
                          /\ nets' = IF src = dst THEN nets ELSE Removing(nets, src)
  <2>1. Good
    BY <1>5, <1>6
  <2> QED BY <1>1, <1>3, <2>1, SameLists, LaterRun
<1> QED BY <1>1, <1>4, <1>6

LEMMA PackageRun == RunInv /\ (Package \/ DropUnconnected) => ShapeInv' /\ NamesInv'
<1> SUFFICES ASSUME RunInv, Package \/ DropUnconnected PROVE ShapeInv' /\ NamesInv'
  OBVIOUS
<1>1. /\ pc \in {"package", "drop"} /\ pc' \in {"drop", "crashed", "done"}
      /\ UNCHANGED <<design, page_of, cpins, local_net, counter, net_dict>>
      /\ on_sheet' \subseteq on_sheet
      /\ components' = components \/ \E S : components' = Filtered(components, S)
      /\ nets' = nets \/ \E S : nets' = Filtered(nets, S)
      /\ net' = [i \in DOMAIN net |-> net'[i]]
      /\ \A i \in DOMAIN net :
           \/ \E x, y : net'[i] = [net[i] EXCEPT !.component_pins = net[i].component_pins \ x, !.connections = y]
           \/ \E x : net'[i] = [net[i] EXCEPT !.is_unconnected_pin = x]
  BY DEF Package, DropUnconnected, static, namevars, partvars
<1>2. failed' \in BOOLEAN
  BY DEF Package, DropUnconnected, RunInv, ShapeInv
<1>3. DOMAIN net = 1 .. Len(net) /\ Len(net) \in Nat /\ \A i \in 1 .. Len(net) : IsNet(net[i])
  BY DEF RunInv, NetlistInv, Agrees, IsNetList
<1>4. Len(net') = Len(net)
  BY <1>1, <1>3, ListLength
<1>5. \A i \in 1 .. Len(net) : /\ net'[i].name = net[i].name
                               /\ net'[i].component_pins \subseteq net[i].component_pins
  <2> SUFFICES ASSUME NEW i \in 1 .. Len(net)
               PROVE  /\ net'[i].name = net[i].name
                      /\ net'[i].component_pins \subseteq net[i].component_pins
    OBVIOUS
  <2>1. IsNet(net[i]) /\ i \in DOMAIN net
    BY <1>3
  <2>2. \/ \E x, y : net'[i] = [net[i] EXCEPT !.component_pins = net[i].component_pins \ x, !.connections = y]
        \/ \E x : net'[i] = [net[i] EXCEPT !.is_unconnected_pin = x]
    BY <1>1, <2>1
  <2>3. ASSUME NEW x, NEW y,
               net'[i] = [net[i] EXCEPT !.component_pins = net[i].component_pins \ x, !.connections = y]
        PROVE  net'[i].name = net[i].name /\ net'[i].component_pins \subseteq net[i].component_pins
    BY <2>1, <2>3 DEF IsNet
  <2>4. ASSUME NEW x, net'[i] = [net[i] EXCEPT !.is_unconnected_pin = x]
        PROVE  net'[i].name = net[i].name /\ net'[i].component_pins \subseteq net[i].component_pins
    BY <2>1, <2>4 DEF IsNet
  <2> QED BY <2>2, <2>3, <2>4
<1>6. \A i \in 1 .. Len(net) : /\ net'[i].name = net[i].name
                               /\ net'[i].component_pins \subseteq DOMAIN local_net
  BY <1>5, SameLists
<1>7. nets' \in Seq(ToSet(nets)) /\ IsInjective(nets') /\ components' \in Seq(ToSet(components))
  <2>1. IsList(nets) /\ IsList(components)
    BY SameLists DEF IsList
  <2>2. /\ \A S : Filtered(nets, S) \in Seq(ToSet(nets))
        /\ \A S : IsInjective(nets) => IsInjective(Filtered(nets, S))
        /\ \A S : Filtered(components, S) \in Seq(ToSet(components))
    BY <2>1, FilteredPart
  <2> QED BY <1>1, <2>2, SameLists
<1> QED BY <1>1, <1>2, <1>4, <1>6, <1>7, LaterRun

-----------------------------------------------------------------------------
(* The theorems *)

LEMMA StepRun == RunInv /\ [Next]_vars => RunInv'
<1> SUFFICES ASSUME RunInv, [Next]_vars PROVE ShapeInv' /\ NamesInv'
  BY StepInv DEF RunInv
<1>1. CASE Read
  BY <1>1, ReadRun
<1>2. CASE Instantiate
  BY <1>2, InstantiateRun
<1>3. ASSUME NEW ln \in DOMAIN todo, NameLocalNet(ln)
      PROVE  ShapeInv' /\ NamesInv'
  BY <1>3, NameLocalNetRun
<1>4. CASE ChooseNames
  BY <1>4, ChooseNamesRun
<1>5. CASE NumberNet
  BY <1>5, NumberNetRun
<1>6. CASE CollectPins
  BY <1>6, CollectPinsRun
<1>7. CASE BeginComposite \/ EndComposite \/ EndHierarchy
  BY <1>7, CompositeRun
<1>8. CASE ResolvePin
  BY <1>8, ResolvePinRun
<1>9. CASE JoinPort
  BY <1>9, JoinPortRun
<1>10. CASE Package \/ DropUnconnected
  BY <1>10, PackageRun
<1>11. CASE UNCHANGED vars
  <2>1. /\ UNCHANGED <<design, drawn, page_of, cpins, local_net>>
        /\ UNCHANGED <<pc, todo, net_dict, counter, net, nets, net_of>>
        /\ UNCHANGED <<components, on_sheet, failed>>
    BY <1>11 DEF vars, static, namevars, netvars, partvars
  <2>2. Files' = Files /\ AllComponents(page_of)' = AllComponents(page_of)
    BY <2>1 DEF Files, AllComponents, ComponentsOn
  <2>3. \A f : Page(f)' = Page(f)
    BY <2>1 DEF Page
  <2>4. ShapeInv'
    BY <2>1, <2>2, <2>3 DEF RunInv, ShapeInv
  <2>5. NamesUnique'
    BY <2>1 DEF RunInv, NamesInv, NamesUnique
  <2>6. NamesInv'
    BY <2>1, <2>5 DEF RunInv, NamesInv
  <2> QED BY <2>4, <2>6
<1> QED BY <1>1, <1>2, <1>3, <1>4, <1>5, <1>6, <1>7, <1>8, <1>9, <1>10, <1>11
        DEF Next, Finished

LEMMA RunAlways == Spec => []RunInv
BY InitRun, StepRun, PTL DEF Spec

(* The state of the netlister is well-formed: netlist.nets lists Net objects
   without repetition, net_dict leads to Net objects, and what is in a sheet
   or in a local net has been made for some component.                       *)
THEOREM TypeCorrect == Spec => []TypeOK
<1>1. RunInv => TypeOK
  <2> SUFFICES ASSUME RunInv PROVE TypeOK
    OBVIOUS
  <2>1. DOMAIN net = 1 .. Len(net) /\ \A n \in 1 .. Len(net) : net[n].local_nets \subseteq DOMAIN net_of
    BY DEF RunInv, NetlistInv, Agrees, IsNetList
  <2>2. ToSet(nets) \subseteq 1 .. Len(net) /\ ToSet(components) \subseteq AllComponents(page_of)
    BY Listed DEF RunInv, ShapeInv
  <2>3. on_sheet \cup ToSet(components) \subseteq UNION {ComponentsOn(page_of, s) : s \in DOMAIN page_of}
    BY <2>2 DEF RunInv, ShapeInv, AllComponents
  <2>4. /\ \A ln \in DOMAIN net_of : net_of[ln] \in 0 .. Len(net)
        /\ \A k \in DOMAIN net_dict : net_dict[k] \in 1 .. Len(net)
        /\ on_net \subseteq DOMAIN local_net
    BY DEF RunInv, NetlistInv, Agrees
  <2>5. /\ \A n \in 1 .. Len(net) : net[n].component_pins \subseteq DOMAIN local_net
        /\ pc \in Phases /\ failed \in BOOLEAN /\ IsInjective(nets)
    BY DEF RunInv, ShapeInv
  <2> QED BY <2>1, <2>2, <2>3, <2>4, <2>5 DEF TypeOK, Phases
<1> QED BY <1>1, RunAlways, PTL

(* In any design, until all nets have names, a name leads to the one net that
   lists it, which is in netlist.nets, and local_net.net and net.local_nets
   agree, whatever has been merged: what the assertions in net.py count on.   *)
THEOREM DictAlwaysExact == Spec => []DictExact
<1>1. RunInv => DictExact
  <2> SUFFICES ASSUME RunInv, pc \in {"name", "number"} PROVE DictExact
    BY DEF DictExact
  <2>1. /\ DOMAIN net = 1 .. Len(net)
        /\ \A n \in 1 .. Len(net) : net[n].local_nets = {ln \in DOMAIN net_of : net_of[ln] = n}
    BY DEF RunInv, NetlistInv, Agrees, IsNetList
  <2>2. CASE pc = "name"
    BY <2>1, <2>2 DEF RunInv, NamesInv, NamesAgree, DictExact
  <2>3. CASE pc = "number"
    BY <2>1, <2>3 DEF RunInv, NamesInv, NumbersAgree, DictExact
  <2> QED BY <2>2, <2>3
<1> QED BY <1>1, RunAlways, PTL

(* In any design, no two nets of the result have the same name in the same
   namespace: neither the names chosen nor the numbers made up collide.      *)
THEOREM NamesAlwaysUnique == Spec => []NamesUnique
<1>1. RunInv => NamesUnique
  BY DEF RunInv, NamesInv
<1> QED BY <1>1, RunAlways, PTL

(* The assertions and dictionary lookups of net.py never fail, in any design:
   no step that names, numbers or collects ends in an exception.              *)
THEOREM NamingNeverCrashes == Spec => [][(pc \in {"name", "number"}) => pc' # "crashed"]_vars
<1>1. RunInv /\ [Next]_vars => [(pc \in {"name", "number"}) => pc' # "crashed"]_vars
  <2> SUFFICES ASSUME RunInv, Next, pc \in {"name", "number"} PROVE pc' # "crashed"
    OBVIOUS
  <2>1. ASSUME NEW ln \in DOMAIN todo, NameLocalNet(ln) PROVE pc' # "crashed"
    BY <2>1, NameLocalNetRun
  <2>2. CASE ChooseNames
    BY <2>2, ChooseNamesRun
  <2>3. CASE NumberNet
    BY <2>3 DEF NumberNet
  <2>4. CASE CollectPins
    BY <2>4, CollectPinsRun
  <2>5. pc # "read" /\ pc # "instantiate" /\ pc # "hierarchy" /\ pc # "package" /\ pc # "drop" /\ pc # "done" /\ pc # "crashed"
    OBVIOUS
  <2>6. \/ \E ln \in DOMAIN todo : NameLocalNet(ln)
        \/ ChooseNames \/ NumberNet \/ CollectPins
    <3>1. ~Read /\ ~Instantiate
      BY <2>5 DEF Read, Instantiate
    <3>2. ~BeginComposite /\ ~EndHierarchy /\ ~EndComposite
      BY <2>5 DEF BeginComposite, EndComposite, EndHierarchy
    <3>3. ~ResolvePin /\ ~JoinPort
      BY <2>5 DEF ResolvePin, JoinPort
    <3>4. ~Package /\ ~DropUnconnected /\ ~Finished
      BY <2>5 DEF Package, DropUnconnected, Finished
    <3> QED BY <3>1, <3>2, <3>3, <3>4 DEF Next
  <2> QED BY <2>1, <2>2, <2>3, <2>4, <2>6
<1> QED BY <1>1, RunAlways, PTL DEF Spec

-----------------------------------------------------------------------------
(* The result *)

(* A list without doubles: its only element, and what its head leaves. *)
LEMMA SingleListed ==
  ASSUME NEW s, IsList(s), IsInjective(s), NEW x, ToSet(s) = {x}
  PROVE  Len(s) = 1 /\ s # <<>> /\ Head(s) = x
<1>1. /\ Len(s) \in Nat /\ DOMAIN s = 1 .. Len(s) /\ s \in Seq(ToSet(s))
      /\ ToSet(s) = {s[i] : i \in 1 .. Len(s)}
  BY Listed DEF IsList
<1>2. PICK i \in 1 .. Len(s) : s[i] = x
  BY <1>1
<1>3. \A j \in 1 .. Len(s) : s[j] = x
  BY <1>1
<1>4. \A j, k \in 1 .. Len(s) : j = k
  BY <1>1, <1>3 DEF IsInjective
<1>5. Len(s) = 1
  <2>1. 1 \in 1 .. Len(s) /\ Len(s) \in 1 .. Len(s)
    BY <1>1, <1>2
  <2> QED BY <1>4, <2>1
<1>6. s # <<>> /\ Head(s) = s[1]
  BY <1>1, <1>5
<1> QED BY <1>3, <1>5, <1>6

LEMMA HeadTailListed ==
  ASSUME NEW s, IsList(s), IsInjective(s), s # <<>>
  PROVE  /\ Head(s) \in ToSet(s) /\ IsList(Tail(s)) /\ IsInjective(Tail(s))
         /\ ToSet(Tail(s)) = ToSet(s) \ {Head(s)}
<1> DEFINE t == Tail(s)
<1>1. /\ Len(s) \in Nat /\ DOMAIN s = 1 .. Len(s) /\ s \in Seq(ToSet(s))
      /\ \A x : x \in ToSet(s) <=> \E i \in 1 .. Len(s) : x = s[i]
  BY Listed DEF IsList
<1>2. Len(s) # 0 /\ Head(s) = s[1]
  BY <1>1
<1>3. /\ t \in Seq(ToSet(s)) /\ Len(t) = Len(s) - 1 /\ DOMAIN t = 1 .. Len(s) - 1
      /\ \A i \in 1 .. Len(s) - 1 : t[i] = s[i + 1]
  BY <1>1, <1>2
<1> HIDE DEF t
<1>4. \A x : x \in ToSet(t) <=> \E i \in 1 .. Len(s) - 1 : x = s[i + 1]
  BY <1>3 DEF ToSet
<1>5. \A i, j \in 1 .. Len(s) : s[i] = s[j] => i = j
  BY <1>1 DEF IsInjective
<1>6. IsInjective(t)
  <2> SUFFICES ASSUME NEW i \in 1 .. Len(s) - 1, NEW j \in 1 .. Len(s) - 1, s[i + 1] = s[j + 1]
               PROVE  i = j
    BY <1>3 DEF IsInjective
  <2>1. i + 1 \in 1 .. Len(s) /\ j + 1 \in 1 .. Len(s)
    BY <1>1
  <2> QED BY <1>5, <2>1
<1>7. ASSUME NEW x PROVE x \in ToSet(t) <=> x \in ToSet(s) /\ x # s[1]
  <2>1. ASSUME x \in ToSet(t) PROVE x \in ToSet(s) /\ x # s[1]
    <3>1. PICK i \in 1 .. Len(s) - 1 : x = s[i + 1]
      BY <1>4, <2>1
    <3>2. i + 1 \in 1 .. Len(s) /\ 1 \in 1 .. Len(s) /\ i + 1 # 1
      BY <1>1
    <3> QED BY <1>1, <1>5, <3>1, <3>2
  <2>2. ASSUME x \in ToSet(s), x # s[1] PROVE x \in ToSet(t)
    <3>1. PICK i \in 1 .. Len(s) : x = s[i]
      BY <1>1, <2>2
    <3>2. i - 1 \in 1 .. Len(s) - 1 /\ (i - 1) + 1 = i
      BY <1>1, <2>2, <3>1
    <3> QED BY <1>4, <3>1, <3>2
  <2> QED BY <2>1, <2>2
<1>8. IsList(t)
  BY <1>3, OwnElements
<1>9. Head(s) \in ToSet(s)
  BY <1>1, <1>2
<1> QED BY <1>2, <1>6, <1>7, <1>8, <1>9 DEF t

(* The exceptions of CrashOnlyAfterError. *)
GoodPages == \A f \in Files : ~Mixed(Page(f)) /\ ~BusPort(Page(f))

\* A port has one pin, or a bus pin that is none.
Fits(c) == Usable(c) \/ (PinsOfComponent(c) = <<>> /\ ~GoodPages)

NothingWrong ==
  \A f \in Files : \A i \in DOMAIN Page(f) : IsComponent(Page(f), i) => ~Wrong(Page(f)[i])

(* The components were made for the sheets, with all their pins. *)
PartsInv ==
  /\ page_of \in SheetMaps
  /\ IsInjective(cpins) /\ IsInjective(components)
  /\ ToSet(cpins) = UNION {{<<c, k>> : k \in ToSet(PinsOf(Object(c)))} : c \in ToSet(components)}

RemainingPins == {p \in DOMAIN local_net : p[1] \in on_sheet}

(* A port is joined along with the pins of the component above its sheet. *)
ComponentAbove(c) == Instantiating(SheetOf(c))

Handled(c) ==
  \/ ComponentAbove(c) \notin ToSet(visit.composites)
  \/ /\ visit.begun /\ ComponentAbove(c) = Composite
     /\ PortLabel(Object(c)) \in visit.labels

IsComposite(c) == composite_sources(Object(c)) # <<>>

BegunInv ==
  /\ visit.composites # <<>>
  /\ IsInjective(visit.pins) /\ IsList(visit.pins)
  /\ ToSet(visit.pins) \subseteq {p \in RemainingPins : p[1] = Composite}
  /\ on_net = {p \in RemainingPins : p[1] = Composite => p \in ToSet(visit.pins)}
  /\ visit.candidates \subseteq {c \in ToSet(components) : ComponentAbove(c) = Composite}
  /\ IsInjective(visit.ports) /\ IsList(visit.ports) /\ ToSet(visit.ports) \subseteq on_sheet
  /\ \A c \in ToSet(visit.ports) :
       /\ ComponentAbove(c) = Composite /\ PortLabel(Object(c)) \in visit.labels
       /\ ~IsComposite(c) /\ Fits(c)
  /\ visit.ports # <<>> => visit.dest \in ToSet(nets)

VisitInv ==
  /\ IsInjective(visit.composites) /\ IsList(visit.composites)
  /\ ToSet(visit.composites) \subseteq on_sheet
  /\ \A c \in ToSet(visit.composites) : IsComposite(c)
  /\ on_sheet = ToSet(components) \ visit.removed
  /\ \A c \in visit.removed : IsComposite(c) \/ Handled(c)
  /\ ~visit.begun => visit.pins = <<>> /\ visit.ports = <<>> /\ on_net = RemainingPins
  /\ visit.begun => BegunInv

PinsExact == \A n \in 1 .. Len(net) : net[n].component_pins = {p \in on_net : NetOf(p) = n}

NetsKept == \A p \in DOMAIN local_net : NetOf(p) \in ToSet(nets)

ConnectionsInv ==
  \A n \in 1 .. Len(net) :
    net[n].connections = {PackagePin(p) : p \in {q \in Packaged : NetOf(q) = n}}

(* What becomes of the components, their pins and the nets, phase by phase. *)
ResultParts ==
  /\ pc # "crashed"
  /\ pc # "read" => NothingWrong
  /\ pc \in {"name", "number", "hierarchy"} => PartsInv
  /\ pc \in {"name", "number"} => on_sheet = ToSet(components) /\ on_net = DOMAIN local_net
  /\ pc = "hierarchy" => VisitInv
  /\ pc \in {"hierarchy", "package"} => PinsExact
  /\ pc \in {"hierarchy", "package", "drop"} => NetsKept
  /\ pc = "package" => on_sheet = ToSet(components) /\ on_net = RemainingPins
  /\ pc = "drop" => ConnectionsInv
  /\ ConnectionsExact

\* The result of a run without errors, or an exception for one of these pages.
Outcome == ResultParts \/ (pc = "crashed" /\ ~GoodPages)

ResultInv == (pc = "read" => ~failed) /\ (failed \/ Outcome)

LEMMA SameGoodPages == ASSUME design' = design PROVE GoodPages' = GoodPages
BY DEF GoodPages, Page, Files

LEMMA SameNothingWrong == ASSUME design' = design, NothingWrong PROVE NothingWrong'
BY DEF NothingWrong, Page, Files

LEMMA SamePage == ASSUME design' = design, NEW f PROVE Page(f)' = Page(f)
BY DEF Page

LEMMA SameObject ==
  ASSUME UNCHANGED <<design, page_of>>, NEW c
  PROVE  /\ Object(c)' = Object(c) /\ IsComposite(c)' = IsComposite(c)
         /\ ComponentAbove(c)' = ComponentAbove(c)
BY DEF Object, ObjectAt, IsComposite, ComponentAbove

LEMMA InitResult == Init => ResultInv
<1> SUFFICES ASSUME Init PROVE ResultInv
  OBVIOUS
<1>1. pc = "read" /\ failed = FALSE
  BY DEF Init
<1>2. ConnectionsExact
  BY <1>1 DEF ConnectionsExact, Netlisted
<1>3. ResultParts
  BY <1>1, <1>2 DEF ResultParts
<1> QED BY <1>1, <1>3 DEF ResultInv, Outcome

\* Pages with mistakes are told apart, and those with nets and buses in one net.
LEMMA ReadResult ==
  ASSUME Read, ~failed' PROVE Outcome'
<1>1. /\ design' = design
      /\ drawn' = [f \in Files |-> Nets(Page(f))]
      /\ pc' = IF \A f \in DOMAIN drawn' : \A V \in drawn'[f] : Uniform(Page(f), V)
               THEN "instantiate" ELSE "crashed"
      /\ failed' = (pc' = "instantiate" /\ \E f \in Files :
                      \E i \in DOMAIN Page(f) : IsComponent(Page(f), i) /\ Wrong(Page(f)[i]))
  BY DEF Read, Files
<1>2. CASE pc' = "instantiate"
  <2>1. NothingWrong
    BY <1>1, <1>2 DEF NothingWrong
  <2>2. NothingWrong'
    BY <1>1, <2>1, SameNothingWrong
  <2>3. ConnectionsExact'
    BY <1>2 DEF ConnectionsExact, Netlisted
  <2> QED BY <1>2, <2>2, <2>3 DEF Outcome, ResultParts
<1>3. CASE pc' # "instantiate"
  <2>1. PICK f \in Files : Mixed(Page(f))
    BY <1>1, <1>3 DEF Mixed
  <2>2. ~GoodPages'
    BY <1>1, <2>1, SameGoodPages DEF GoodPages
  <2> QED BY <1>1, <1>3, <2>2 DEF Outcome
<1> QED BY <1>2, <1>3

\* Each pin of a component is in some local net of its sheet.
LEMMA InstantiateResult ==
  ASSUME RunInv, Instantiate, ResultParts PROVE ResultParts'
<1> DEFINE lns == UNION {{<<s, V>> : V \in PageNets(page_of'[s])} : s \in DOMAIN page_of'}
           around(p) == {ln \in lns : ln[1] = SheetOf(p[1]) /\ <<Last(p[1]), p[2]>> \in ln[2]}
<1>1. /\ pc = "instantiate"
      /\ UNCHANGED <<design, drawn, failed>>
      /\ page_of' = Sheets /\ components' = Collected(page_of')
      /\ on_sheet' = ToSet(components')
      /\ on_net' = DOMAIN local_net'
      /\ cpins' = CpinsOf(page_of', components')
      /\ pc' = IF \A p \in ToSet(cpins') : around(p) # {} THEN "name" ELSE "crashed"
  BY DEF Instantiate, CpinsOf
<1>2. design \in Designs
  BY DEF RunInv, ShapeInv
<1>3. /\ page_of' \in SheetMaps
      /\ components' \in Seq(AllComponents(page_of')) /\ IsInjective(components')
  BY <1>1, <1>2, SheetsTyped, CollectedListed
<1>4. /\ IsInjective(cpins')
      /\ ToSet(cpins') = UNION {{<<c, k>> : k \in ToSet(PinsOf(ObjectAt(page_of', c)))} :
                                  c \in ToSet(components')}
  BY <1>1, <1>2, <1>3, CpinsListed
<1>5. \A c : ObjectAt(page_of', c) = Object(c)'
  BY <1>1 DEF Object, ObjectAt
<1>6. PartsInv'
  <2>1. SheetMaps' = SheetMaps
    BY <1>1 DEF SheetMaps, Files
  <2> QED BY <1>3, <1>4, <1>5, <2>1 DEF PartsInv
<1>7. ASSUME NEW p \in ToSet(cpins') PROVE around(p) # {}
  <2>1. PICK c \in ToSet(components') : \E k \in ToSet(PinsOf(ObjectAt(page_of', c))) : p = <<c, k>>
    BY <1>4
  <2>2. PICK k \in ToSet(PinsOf(ObjectAt(page_of', c))) : p = <<c, k>>
    BY <2>1
  <2>3. c \in AllComponents(page_of')
    BY <1>3, Listed
  <2>4. PICK s \in DOMAIN page_of' : c \in ComponentsOn(page_of', s)
    BY <2>3 DEF AllComponents
  <2>5. /\ page_of'[s] \in Files
        /\ SheetOf(c) = s /\ Last(c) \in DOMAIN Page(page_of'[s])
        /\ IsComponent(Page(page_of'[s]), Last(c))
        /\ ObjectAt(page_of', c) = Page(page_of'[s])[Last(c)]
    BY <1>2, <1>3, <2>4, ComponentAt
  <2>6. drawn[page_of'[s]] = Nets(Page(page_of'[s]))
    BY <1>1, <2>5 DEF RunInv, ShapeInv
  <2>7. \A i \in DOMAIN Page(page_of'[s]) : IsComponent(Page(page_of'[s]), i) =>
          \A m \in ToSet(PinsOf(Page(page_of'[s])[i])) : \E V \in PageNets(page_of'[s]) : <<i, m>> \in V
    BY <1>2, <2>5, <2>6, PageNetsCover
  <2>8. PICK V \in PageNets(page_of'[s]) : <<Last(c), k>> \in V
    BY <2>2, <2>5, <2>7
  <2>9. <<s, V>> \in lns
    BY <2>8
  <2>10. p[1] = c /\ p[2] = k
    BY <2>2
  <2>11. <<s, V>> \in around(p)
    BY <2>5, <2>8, <2>9, <2>10
  <2> QED BY <2>11
<1>8. pc' = "name"
  BY <1>1, <1>7
<1>9. NothingWrong'
  BY <1>1, SameNothingWrong DEF ResultParts
<1>10. ConnectionsExact'
  BY <1>8 DEF ConnectionsExact, Netlisted
<1> QED BY <1>1, <1>6, <1>8, <1>9, <1>10 DEF ResultParts

\* Names and numbers leave the components and their pins alone.
LEMMA SameParts ==
  ASSUME PartsInv, UNCHANGED <<design, page_of, cpins, components>>
  PROVE  PartsInv'
<1>1. \A c : Object(c)' = Object(c)
  BY SameObject
<1>2. Files' = Files
  BY DEF Files
<1> QED BY <1>1, <1>2 DEF PartsInv, SheetMaps

LEMMA NamingResult ==
  ASSUME ResultParts, pc \in {"name", "number"}, pc' \in {"name", "number"},
         UNCHANGED <<design, page_of, cpins, local_net, components, on_sheet, on_net>>
  PROVE  ResultParts'
<1>1. PartsInv'
  BY SameParts DEF ResultParts
<1>2. NothingWrong'
  BY SameNothingWrong DEF ResultParts
<1>3. ConnectionsExact'
  BY DEF ConnectionsExact, Netlisted
<1> QED BY <1>1, <1>2, <1>3 DEF ResultParts

LEMMA CollectPinsResult ==
  ASSUME RunInv, CollectPins, ResultParts
  PROVE  ResultParts'
<1>1. /\ pc = "number" /\ pc' = "hierarchy"
      /\ UNCHANGED <<design, page_of, cpins, local_net, net_of, components, on_sheet, on_net>>
  BY CollectPinsRun DEF CollectPins, static
<1>2. /\ on_sheet = ToSet(components) /\ on_net = DOMAIN local_net
      /\ PartsInv /\ NothingWrong
  BY <1>1 DEF ResultParts
<1>3. PartsInv' /\ NothingWrong'
  BY <1>1, <1>2, SameParts, SameNothingWrong
<1>4. visit = NotBegun
  BY <1>1 DEF RunInv, NetlistInv
<1>5. visit' = [NotBegun EXCEPT !.composites = Composites]
  <2>1. visit' = [visit EXCEPT !.composites = Composites] \/ pc' = "crashed"
    BY DEF CollectPins
  <2> QED BY <1>1, <1>4, <2>1
<1>6. /\ visit'.composites = Composites /\ visit'.begun = FALSE
      /\ visit'.pins = <<>> /\ visit'.ports = <<>> /\ visit'.removed = {}
  BY <1>5 DEF NotBegun
<1>7. /\ IsInjective(Composites) /\ IsList(Composites)
      /\ ToSet(Composites) \subseteq ToSet(components)
      /\ \A c \in ToSet(Composites) : IsComposite(c)
  <2> DEFINE S == {c \in ToSet(components) : composite_sources(Object(c)) # <<>>}
  <2>1. IsList(components) /\ IsInjective(components)
    BY <1>2, SameLists DEF IsList, PartsInv
  <2>2. Composites = Filtered(components, S)
    BY DEF Composites
  <2> HIDE DEF S
  <2>3. /\ IsList(Filtered(components, S)) /\ IsInjective(Filtered(components, S))
        /\ ToSet(Filtered(components, S)) = ToSet(components) \cap S
    BY <2>1, FilteredPart
  <2> QED BY <2>2, <2>3 DEF S, IsComposite
<1>8. \A c : IsComposite(c)' = IsComposite(c)
  BY <1>1, SameObject
<1>9. RemainingPins' = on_net'
  <2>1. \A p \in DOMAIN local_net : p[1] \in on_sheet
    <3>1. DOMAIN local_net = ToSet(cpins)
      <4>1. DOMAIN local_net = {cpins[i] : i \in DOMAIN cpins}
        BY <1>1 DEF RunInv, NetlistInv, PinsKnown
      <4> QED BY <4>1 DEF ToSet
    <3>2. \A p \in ToSet(cpins) : p[1] \in ToSet(components)
      BY <1>2 DEF PartsInv
    <3> QED BY <1>2, <3>1, <3>2
  <2> QED BY <1>1, <1>2, <2>1 DEF RemainingPins
<1>10. VisitInv'
  BY <1>1, <1>2, <1>6, <1>7, <1>8, <1>9 DEF VisitInv
<1>11. PinsExact' /\ NetsKept'
  <2>1. /\ ToSet(nets') = {NetOf(p) : p \in DOMAIN local_net} /\ Len(net') = Len(net)
        /\ \A n \in 1 .. Len(net) : net'[n].component_pins = {p \in DOMAIN local_net : NetOf(p) = n}
    BY CollectPinsRun
  <2>2. \A p : NetOf(p)' = NetOf(p)
    BY <1>1 DEF NetOf
  <2> QED BY <1>1, <1>2, <2>1, <2>2 DEF PinsExact, NetsKept
<1>12. ConnectionsExact'
  BY <1>1 DEF ConnectionsExact, Netlisted
<1> QED BY <1>1, <1>3, <1>10, <1>11, <1>12 DEF ResultParts

\* The pins of a component, and a port's only one.
LEMMA PinsOfComponentListed ==
  ASSUME RunInv, PartsInv, NEW c
  PROVE  /\ IsList(PinsOfComponent(c)) /\ IsInjective(PinsOfComponent(c))
         /\ ToSet(PinsOfComponent(c)) = {p \in ToSet(cpins) : p[1] = c}
<1> DEFINE S == {p \in ToSet(cpins) : p[1] = c}
           l == Filtered(cpins, S)
<1>1. IsList(cpins) /\ IsInjective(cpins)
  BY DEF RunInv, ShapeInv, PartsInv
<1>2. IsList(l) /\ ToSet(l) = ToSet(cpins) \cap S /\ IsInjective(l)
  <2> HIDE DEF S
  <2> QED BY <1>1, FilteredPart
<1> QED BY <1>2 DEF PinsOfComponent

\* A port has one pin, and nothing that would make it a component of its own.
LEMMA NoArtificial ==
  ASSUME NEW o, o.net = <<>>
  PROVE  ToSet(Artificial(o)) = {}
<1> DEFINE s == [a \in DOMAIN o.net |-> -o.net[a][2]]
           l == AddedAll(<<>>, s)
           S == {k \in ToSet(l) : \A m \in DOMAIN o.symbol.pins : o.symbol.pins[m].number # -k}
<1>1. s = <<>>
  OBVIOUS
<1>2. <<>> \in Seq(Int) /\ ToSet(<<>>) = {}
  BY EmptyListed
<1>3. l \in Seq(Int) /\ ToSet(l) = {}
  <2> DEFINE T == Int
  <2> HIDE DEF T, s
  <2>1. <<>> \in Seq(T) /\ s \in Seq(T)
    BY <1>1, <1>2 DEF T
  <2>2. /\ AddedAll(<<>>, s) \in Seq(T)
        /\ ToSet(AddedAll(<<>>, s)) = ToSet(<<>>) \cup ToSet(s)
        /\ IsInjective(<<>>) => IsInjective(AddedAll(<<>>, s))
    BY <2>1, AddedAllListed
  <2> QED BY <1>1, <1>2, <2>2 DEF T
<1>4. Artificial(o) = Filtered(l, S)
  BY DEF Artificial
<1> HIDE DEF l, S
<1> QED BY <1>3, <1>4, FilteredListed

LEMMA PortsFit ==
  ASSUME RunInv, NothingWrong, PartsInv, DOMAIN local_net = ToSet(cpins),
         NEW c \in ToSet(components), IsPort(Object(c))
  PROVE  ~IsComposite(c) /\ Object(c).refdes = None /\ Fits(c)
<1> DEFINE o == Object(c)
<1>1. design \in Designs /\ components \in Seq(AllComponents(page_of)) /\ page_of \in SheetMaps
  BY DEF RunInv, ShapeInv, PartsInv
<1>2. PICK s \in DOMAIN page_of : c \in ComponentsOn(page_of, s)
  BY <1>1, Listed DEF AllComponents
<1>3. /\ page_of[s] \in Files /\ Last(c) \in DOMAIN Page(page_of[s])
      /\ IsComponent(Page(page_of[s]), Last(c))
      /\ o = Page(page_of[s])[Last(c)]
  BY <1>1, <1>2, ComponentAt DEF Object
<1>4. ~Wrong(o)
  BY <1>3 DEF NothingWrong
<1>5. IsPage(Page(page_of[s]), Files)
  BY <1>1, <1>3, DesignPages
<1>6. /\ IsList(o.symbol.pins)
      /\ Len(o.symbol.pins) \in Nat /\ DOMAIN o.symbol.pins = 1 .. Len(o.symbol.pins)
      /\ ToSet(PinsOf(o)) = {k \in DOMAIN o.symbol.pins : ~o.symbol.pins[k].is_bus}
                               \cup ToSet(Artificial(o))
  <2>1. \A i \in DOMAIN Page(page_of[s]) : IsComponent(Page(page_of[s]), i) =>
          LET x == Page(page_of[s])[i] IN
          /\ ToSet(PinsOf(x)) = {k \in DOMAIN x.symbol.pins : ~x.symbol.pins[k].is_bus}
                                  \cup ToSet(Artificial(x))
          /\ Len(x.symbol.pins) \in Nat /\ DOMAIN x.symbol.pins = 1 .. Len(x.symbol.pins)
    BY <1>5, PinsOfListed
  <2>2. IsList(o.symbol.pins)
    BY <1>3, <1>5, PageObjects
  <2> QED BY <1>3, <2>1, <2>2
<1> HIDE DEF o
<1>7. IsPort(o)
  BY DEF o
<1>8. /\ o.refdes = None /\ o.net = <<>> /\ Len(o.symbol.pins) = 1
      /\ ~Graphical(o) /\ o.source = <<>>
  BY <1>4, <1>7 DEF Wrong
<1>9. /\ ToSet(PinsOf(o)) = IF o.symbol.pins[1].is_bus THEN {} ELSE {1}
      /\ o.symbol.pins[1].is_bus => ~GoodPages
  <2>1. ToSet(Artificial(o)) = {}
    BY <1>8, NoArtificial
  <2>2. o.symbol.pins[1].is_bus => BusPort(Page(page_of[s]))
    BY <1>3, <1>6, <1>7, <1>8 DEF BusPort
  <2> QED BY <1>3, <1>6, <1>8, <2>1, <2>2 DEF GoodPages
<1>10. {p \in ToSet(cpins) : p[1] = c} = {<<c, k>> : k \in ToSet(PinsOf(o))}
  <2>1. \A p : p \in ToSet(cpins) <=>
          \E d \in ToSet(components) : \E k \in ToSet(PinsOf(Object(d))) : p = <<d, k>>
    BY DEF PartsInv
  <2>2. ASSUME NEW k \in ToSet(PinsOf(o)) PROVE <<c, k>> \in ToSet(cpins)
    BY <2>1 DEF o
  <2>3. ASSUME NEW p \in ToSet(cpins), p[1] = c PROVE \E k \in ToSet(PinsOf(o)) : p = <<c, k>>
    <3>1. PICK d \in ToSet(components) : \E k \in ToSet(PinsOf(Object(d))) : p = <<d, k>>
      BY <2>1
    <3>2. d = c
      BY <2>3, <3>1
    <3> QED BY <3>1, <3>2 DEF o
  <2> QED BY <2>2, <2>3
<1>11. /\ IsList(PinsOfComponent(c)) /\ IsInjective(PinsOfComponent(c))
       /\ ToSet(PinsOfComponent(c)) = {<<c, k>> : k \in ToSet(PinsOf(o))}
  BY <1>10, PinsOfComponentListed
<1>12. Fits(c)
  <2>1. CASE o.symbol.pins[1].is_bus
    <3>1. ToSet(PinsOfComponent(c)) = {}
      BY <1>9, <1>11, <2>1
    <3>2. PinsOfComponent(c) = <<>>
      BY <1>11, <3>1, Listed DEF IsList
    <3> QED BY <1>9, <2>1, <3>2 DEF Fits
  <2>2. CASE ~o.symbol.pins[1].is_bus
    <3>1. ToSet(PinsOfComponent(c)) = {<<c, 1>>}
      BY <1>9, <1>11, <2>2
    <3> QED BY <1>11, <3>1, SingleListed DEF Fits, Usable
  <2> QED BY <2>1, <2>2
<1>13. ~IsComposite(c)
  BY <1>8 DEF IsComposite, composite_sources, o
<1> QED BY <1>8, <1>12, <1>13 DEF o

LEMMA UsablePin ==
  ASSUME RunInv, PartsInv, NEW c, Usable(c)
  PROVE  /\ PinsOfComponent(c) # <<>>
         /\ {p \in ToSet(cpins) : p[1] = c} = {Head(PinsOfComponent(c))}
<1> DEFINE l == PinsOfComponent(c)
<1>1. IsList(l) /\ Len(l) = 1 /\ ToSet(l) = {p \in ToSet(cpins) : p[1] = c}
  BY PinsOfComponentListed DEF Usable
<1> HIDE DEF l
<1>2. l \in Seq(ToSet(l)) /\ ToSet(l) = {l[i] : i \in 1 .. Len(l)}
  BY <1>1, Listed DEF IsList
<1>3. l # <<>> /\ Head(l) = l[1] /\ 1 .. Len(l) = {1}
  BY <1>1, <1>2
<1>4. ToSet(l) = {Head(l)}
  BY <1>2, <1>3
<1> QED BY <1>1, <1>3, <1>4 DEF l

LEMMA HierarchyFacts ==
  ASSUME RunInv, ResultParts, pc = "hierarchy"
  PROVE  /\ PartsInv /\ VisitInv /\ PinsExact /\ NetsKept /\ NothingWrong
         /\ IsVisit(visit) /\ DOMAIN local_net = ToSet(cpins)
         /\ IsList(components) /\ on_sheet \subseteq ToSet(components)
         /\ net = [i \in 1 .. Len(net) |-> net[i]] /\ Len(net) \in Nat /\ IsNetList(net)
         /\ ToSet(nets) \subseteq 1 .. Len(net)
         /\ \A n \in 1 .. Len(net) : net[n].local_nets = {ln \in DOMAIN net_of : net_of[ln] = n}
         /\ local_net \in [DOMAIN local_net -> DOMAIN net_of]
<1>1. PartsInv /\ VisitInv /\ PinsExact /\ NetsKept /\ NothingWrong
  BY DEF ResultParts
<1>2. IsVisit(visit) /\ DOMAIN local_net = ToSet(cpins) /\ local_net \in [DOMAIN local_net -> DOMAIN net_of]
  <2>1. DOMAIN local_net = {cpins[i] : i \in DOMAIN cpins}
    BY DEF RunInv, NetlistInv, PinsKnown
  <2> QED BY <2>1 DEF RunInv, NetlistInv, PinsKnown, ToSet
<1>3. IsList(components)
  BY SameLists DEF IsList
<1>4. on_sheet \subseteq ToSet(components)
  BY <1>1 DEF VisitInv
<1>5. /\ Agrees(net, net_of) /\ ToSet(nets) \subseteq 1 .. Len(net)
  BY SameLists DEF RunInv, NetlistInv
<1> QED BY <1>1, <1>2, <1>3, <1>4, <1>5 DEF Agrees, IsNetList

\* A composite component is begun with all its pins.
LEMMA BeginCompositeResult ==
  ASSUME RunInv, ResultParts, BeginComposite
  PROVE  ResultParts'
<1>1. /\ pc = "hierarchy" /\ pc' = "hierarchy" /\ visit.composites # <<>> /\ ~visit.begun
      /\ UNCHANGED <<design, page_of, cpins, local_net, components, on_sheet, on_net, net, nets, net_of>>
      /\ visit' = [visit EXCEPT
            !.begun = TRUE, !.pins = PinsOfComponent(Composite), !.labels = {},
            !.candidates = {c \in on_sheet : SheetOf(c) \in SubsheetsOf(Composite)}]
  BY DEF BeginComposite, static, netvars
<1>2. /\ PartsInv /\ VisitInv /\ PinsExact /\ NetsKept /\ NothingWrong
      /\ IsVisit(visit) /\ DOMAIN local_net = ToSet(cpins)
      /\ on_sheet \subseteq ToSet(components)
  BY <1>1, HierarchyFacts
<1>3. /\ visit'.composites = visit.composites /\ visit'.begun = TRUE
      /\ visit'.pins = PinsOfComponent(Composite) /\ visit'.ports = visit.ports
      /\ visit'.removed = visit.removed
      /\ visit'.candidates = {c \in on_sheet : SheetOf(c) \in SubsheetsOf(Composite)}
  BY <1>1, <1>2 DEF IsVisit
<1>4. Composite' = Composite
  BY <1>3 DEF Composite
<1>5. \A c : /\ Object(c)' = Object(c) /\ IsComposite(c)' = IsComposite(c)
             /\ ComponentAbove(c)' = ComponentAbove(c)
  BY <1>1, SameObject
<1>6. RemainingPins' = RemainingPins /\ visit.ports = <<>> /\ on_net = RemainingPins
  BY <1>1, <1>2 DEF RemainingPins, VisitInv
<1>7. /\ IsInjective(visit'.pins) /\ IsList(visit'.pins)
      /\ ToSet(visit'.pins) = {p \in DOMAIN local_net : p[1] = Composite}
  BY <1>2, <1>3, PinsOfComponentListed
<1>8. Composite \in on_sheet
  <2>1. IsInjective(visit.composites) /\ IsList(visit.composites) /\ ToSet(visit.composites) \subseteq on_sheet
    BY <1>2 DEF VisitInv
  <2> QED BY <1>1, <2>1, HeadTailListed DEF Composite
<1>9. ToSet(visit'.pins) = {p \in RemainingPins : p[1] = Composite}
  BY <1>7, <1>8 DEF RemainingPins
<1>10. visit'.candidates \subseteq {c \in ToSet(components) : ComponentAbove(c) = Composite}
  <2> SUFFICES ASSUME NEW c \in on_sheet, SheetOf(c) \in SubsheetsOf(Composite)
               PROVE  c \in ToSet(components) /\ ComponentAbove(c) = Composite
    BY <1>3
  <2>1. Len(SheetOf(c)) > 1 /\ Front(SheetOf(c)) = Composite /\ SheetOf(c) \in DOMAIN page_of
    BY DEF SubsheetsOf
  <2>2. SheetOf(c) \in Paths
    BY <1>2, <2>1 DEF PartsInv, SheetMaps
  <2>3. Len(SheetOf(c)) # 1
    <3>1. Len(SheetOf(c)) \in Nat
      BY <2>2, Listed DEF Paths
    <3>2. \A n \in Nat : n > 1 => n # 1
      OBVIOUS
    <3> QED BY <2>1, <3>1, <3>2, Zenon
  <2> QED BY <1>2, <2>1, <2>3 DEF ComponentAbove, Instantiating
<1>11. BegunInv'
  <2>1. IsInjective(<<>>) /\ IsList(<<>>) /\ ToSet(<<>>) = {}
    BY EmptyListed DEF IsList
  <2>2. on_net = {p \in RemainingPins : p[1] = Composite => p \in ToSet(visit'.pins)}
    BY <1>6, <1>9
  <2>3. ToSet(visit'.ports) = {} /\ IsInjective(visit'.ports) /\ IsList(visit'.ports) /\ visit'.ports = <<>>
    BY <1>3, <1>6, <2>1
  <2> QED BY <1>1, <1>3, <1>4, <1>5, <1>6, <1>7, <1>9, <1>10, <2>2, <2>3 DEF BegunInv
<1>12. \A c \in visit'.removed : IsComposite(c)' \/ Handled(c)'
  <2>1. \A c \in visit.removed : IsComposite(c) \/ ComponentAbove(c) \notin ToSet(visit.composites)
    BY <1>1, <1>2 DEF VisitInv, Handled
  <2> QED BY <1>3, <1>5, <2>1 DEF Handled
<1>13. VisitInv'
  BY <1>1, <1>2, <1>3, <1>5, <1>11, <1>12 DEF VisitInv
<1>14. \A p : NetOf(p)' = NetOf(p)
  BY <1>1 DEF NetOf
<1>15. PartsInv' /\ NothingWrong' /\ PinsExact' /\ NetsKept'
  BY <1>1, <1>2, <1>14, SameParts, SameNothingWrong DEF PinsExact, NetsKept
<1>16. ConnectionsExact'
  BY <1>1 DEF ConnectionsExact, Netlisted
<1> QED BY <1>1, <1>13, <1>15, <1>16 DEF ResultParts

\* The composite component goes, when all its pins and the ports have gone.
LEMMA EndCompositeResult ==
  ASSUME RunInv, ResultParts, EndComposite
  PROVE  ResultParts'
<1>1. /\ pc = "hierarchy" /\ visit.begun /\ visit.ports = <<>> /\ visit.pins = <<>>
      /\ pc' = IF Composite \in on_sheet THEN "hierarchy" ELSE "crashed"
      /\ UNCHANGED <<design, page_of, cpins, local_net, components, on_net, net, nets, net_of>>
      /\ on_sheet' = on_sheet \ {Composite}
      /\ visit' = [NotBegun EXCEPT !.composites = Tail(visit.composites),
                                   !.removed = visit.removed \cup {Composite}]
  BY DEF EndComposite, static, netvars
<1>2. /\ PartsInv /\ VisitInv /\ PinsExact /\ NetsKept /\ NothingWrong
      /\ on_sheet \subseteq ToSet(components)
  BY <1>1, HierarchyFacts
<1>3. /\ visit'.composites = Tail(visit.composites) /\ visit'.begun = FALSE
      /\ visit'.pins = <<>> /\ visit'.ports = <<>>
      /\ visit'.removed = visit.removed \cup {Composite}
  BY <1>1 DEF NotBegun
<1>4. BegunInv
  BY <1>1, <1>2 DEF VisitInv
<1>5. /\ Composite \in ToSet(visit.composites) /\ IsList(Tail(visit.composites))
      /\ IsInjective(Tail(visit.composites))
      /\ ToSet(Tail(visit.composites)) = ToSet(visit.composites) \ {Composite}
  <2>1. IsInjective(visit.composites) /\ IsList(visit.composites) /\ visit.composites # <<>>
    BY <1>2, <1>4 DEF VisitInv, BegunInv
  <2> QED BY <2>1, HeadTailListed DEF Composite
<1>6. Composite \in on_sheet /\ pc' = "hierarchy"
  BY <1>1, <1>2, <1>5 DEF VisitInv
<1>7. \A c : /\ Object(c)' = Object(c) /\ IsComposite(c)' = IsComposite(c)
             /\ ComponentAbove(c)' = ComponentAbove(c)
  BY <1>1, SameObject
<1>8. on_net' = RemainingPins'
  <2>1. ToSet(visit.pins) = {}
    BY <1>1, EmptyListed
  <2>2. on_net = {p \in RemainingPins : p[1] # Composite}
    BY <1>4, <2>1 DEF BegunInv
  <2> QED BY <1>1, <2>2 DEF RemainingPins
<1>9. \A c \in visit'.removed : IsComposite(c)' \/ Handled(c)'
  <2>1. \A c \in visit.removed : IsComposite(c) \/ Handled(c)
    BY <1>2 DEF VisitInv
  <2>2. \A c : Handled(c) => Handled(c)'
    BY <1>3, <1>5, <1>7 DEF Handled
  <2>3. IsComposite(Composite)
    BY <1>2, <1>5 DEF VisitInv
  <2> QED BY <1>3, <1>7, <2>1, <2>2, <2>3
<1>10. VisitInv'
  <2>1. /\ IsInjective(visit'.composites) /\ IsList(visit'.composites)
        /\ ToSet(visit'.composites) \subseteq on_sheet'
        /\ \A c \in ToSet(visit'.composites) : IsComposite(c)'
    BY <1>1, <1>2, <1>3, <1>5, <1>7 DEF VisitInv
  <2>2. on_sheet' = ToSet(components') \ visit'.removed
    BY <1>1, <1>2, <1>3 DEF VisitInv
  <2> QED BY <1>3, <1>8, <1>9, <2>1, <2>2 DEF VisitInv
<1>11. \A p : NetOf(p)' = NetOf(p)
  BY <1>1 DEF NetOf
<1>12. PartsInv' /\ NothingWrong' /\ PinsExact' /\ NetsKept'
  BY <1>1, <1>2, <1>11, SameParts, SameNothingWrong DEF PinsExact, NetsKept
<1>13. ConnectionsExact'
  BY <1>6 DEF ConnectionsExact, Netlisted
<1> QED BY <1>6, <1>10, <1>12, <1>13 DEF ResultParts

\* Afterwards the components are those that are left on their sheets.
LEMMA EndHierarchyResult ==
  ASSUME RunInv, ResultParts, EndHierarchy
  PROVE  ResultParts'
<1>1. /\ pc = "hierarchy" /\ pc' = "package" /\ visit.composites = <<>>
      /\ UNCHANGED <<design, page_of, cpins, local_net, on_sheet, on_net, net, nets, net_of>>
      /\ components' = Filtered(components, ToSet(components) \ visit.removed)
  BY DEF EndHierarchy, static, netvars
<1>2. /\ VisitInv /\ PinsExact /\ NetsKept /\ NothingWrong /\ IsList(components)
  BY <1>1, HierarchyFacts
<1>3. ~visit.begun /\ on_net = RemainingPins /\ on_sheet = ToSet(components) \ visit.removed
  BY <1>1, <1>2 DEF VisitInv, BegunInv
<1>4. ToSet(components') = on_sheet
  <2>1. ToSet(components') = ToSet(components) \cap (ToSet(components) \ visit.removed)
    BY <1>1, <1>2, FilteredPart
  <2> QED BY <1>3, <2>1
<1>5. \A p : NetOf(p)' = NetOf(p)
  BY <1>1 DEF NetOf
<1>6. RemainingPins' = RemainingPins
  BY <1>1 DEF RemainingPins
<1>7. NothingWrong' /\ PinsExact' /\ NetsKept'
  BY <1>1, <1>2, <1>5, SameNothingWrong DEF PinsExact, NetsKept
<1>8. ConnectionsExact'
  BY <1>1 DEF ConnectionsExact, Netlisted
<1> QED BY <1>1, <1>3, <1>4, <1>6, <1>7, <1>8 DEF ResultParts

\* Ports of the label on the sheets below are all still there.
LEMMA NewPortsListed ==
  ASSUME RunInv, ResultParts, pc = "hierarchy", visit.begun,
         NEW label, label # None, label \notin visit.labels
  PROVE  /\ IsList(NewPorts(label)) /\ IsInjective(NewPorts(label))
         /\ ToSet(NewPorts(label)) \subseteq on_sheet
         /\ \A c \in ToSet(NewPorts(label)) :
              /\ ComponentAbove(c) = Composite /\ PortLabel(Object(c)) = label
              /\ ~IsComposite(c) /\ Fits(c) /\ Object(c).refdes = None
<1> DEFINE S == {c \in ToSet(components) :
                   SheetOf(c) \in SubsheetsOf(Composite) /\ Object(c).portname = label}
           l == Filtered(components, S)
<1>1. /\ PartsInv /\ VisitInv /\ NothingWrong /\ DOMAIN local_net = ToSet(cpins) /\ IsList(components)
  BY HierarchyFacts
<1>2. IsInjective(components)
  BY <1>1 DEF PartsInv
<1>3. IsList(l) /\ IsInjective(l) /\ ToSet(l) = ToSet(components) \cap S
  <2> HIDE DEF S
  <2> QED BY <1>1, <1>2, FilteredPart
<1>4. NewPorts(label) = l
  BY DEF NewPorts
<1> HIDE DEF l
<1>5. ASSUME NEW c \in ToSet(l)
      PROVE  /\ c \in on_sheet /\ ComponentAbove(c) = Composite /\ PortLabel(Object(c)) = label
             /\ ~IsComposite(c) /\ Fits(c) /\ Object(c).refdes = None
  <2>1. /\ c \in ToSet(components) /\ SheetOf(c) \in SubsheetsOf(Composite)
        /\ Object(c).portname = label
    BY <1>3
  <2>2. IsPort(Object(c))
    BY <2>1 DEF IsPort
  <2>3. ~IsComposite(c) /\ Object(c).refdes = None /\ Fits(c)
    BY <1>1, <2>1, <2>2, PortsFit
  <2>4. PortLabel(Object(c)) = label
    BY <2>1, <2>2 DEF PortLabel
  <2>5. ComponentAbove(c) = Composite
    <3>1. Len(SheetOf(c)) > 1 /\ Front(SheetOf(c)) = Composite /\ SheetOf(c) \in DOMAIN page_of
      BY <2>1 DEF SubsheetsOf
    <3>2. Len(SheetOf(c)) \in Nat
      <4>1. SheetOf(c) \in Seq(Nat)
        BY <1>1, <3>1 DEF PartsInv, SheetMaps, Paths
      <4> QED BY <4>1, Listed
    <3>3. \A n \in Nat : n > 1 => n # 1
      OBVIOUS
    <3>4. Len(SheetOf(c)) # 1
      BY <3>1, <3>2, <3>3, Zenon
    <3> QED BY <3>1, <3>4 DEF ComponentAbove, Instantiating
  <2>6. Composite \in ToSet(visit.composites)
    <3>1. IsInjective(visit.composites) /\ IsList(visit.composites) /\ visit.composites # <<>>
      BY <1>1 DEF VisitInv, BegunInv
    <3> QED BY <3>1, HeadTailListed DEF Composite
  <2>7. c \notin visit.removed
    <3> SUFFICES ASSUME c \in visit.removed PROVE FALSE
      OBVIOUS
    <3>1. Handled(c)
      BY <1>1, <2>3 DEF VisitInv
    <3> QED BY <2>4, <2>5, <2>6, <3>1 DEF Handled
  <2>8. c \in on_sheet
    BY <1>1, <2>1, <2>7 DEF VisitInv
  <2> QED BY <2>3, <2>4, <2>5, <2>8
<1> QED BY <1>3, <1>4, <1>5

\* So are old-style ports with one pin, if nothing is wrong with them.
LEMMA OldPortsListed ==
  ASSUME RunInv, ResultParts, pc = "hierarchy", visit.begun,
         NEW label, label # None, label \notin visit.labels,
         \A c \in ToSet(OldPorts(label)) : ~WrongPort(c)
  PROVE  LET l == Filtered(OldPorts(label), {c \in visit.candidates : Usable(c)}) IN
         /\ IsList(l) /\ IsInjective(l) /\ ToSet(l) \subseteq on_sheet
         /\ \A c \in ToSet(l) :
              /\ ComponentAbove(c) = Composite /\ PortLabel(Object(c)) = label
              /\ ~IsComposite(c) /\ Fits(c) /\ Object(c).refdes = label
<1> DEFINE S == {c \in visit.candidates : Object(c).refdes = label}
           U == {c \in visit.candidates : Usable(c)}
           o == OldPorts(label)
           l == Filtered(o, U)
<1>1. /\ PartsInv /\ VisitInv /\ NothingWrong /\ DOMAIN local_net = ToSet(cpins) /\ IsList(components)
  BY HierarchyFacts
<1>2. IsInjective(components)
  BY <1>1 DEF PartsInv
<1>3. IsList(o) /\ IsInjective(o) /\ ToSet(o) = ToSet(components) \cap S
  <2>1. o = Filtered(components, S)
    BY DEF OldPorts
  <2> HIDE DEF S, o
  <2> QED BY <1>1, <1>2, <2>1, FilteredPart
<1>4. IsList(l) /\ IsInjective(l) /\ ToSet(l) = ToSet(o) \cap U
  <2> HIDE DEF o, U
  <2> QED BY <1>3, FilteredPart
<1> HIDE DEF l
<1>5. ASSUME NEW c \in ToSet(l)
      PROVE  /\ c \in on_sheet /\ ComponentAbove(c) = Composite /\ PortLabel(Object(c)) = label
             /\ ~IsComposite(c) /\ Fits(c) /\ Object(c).refdes = label
  <2>1. /\ c \in ToSet(components) /\ c \in visit.candidates /\ c \in ToSet(o)
        /\ Object(c).refdes = label /\ Usable(c)
    BY <1>3, <1>4
  <2>2. ~IsPort(Object(c))
    BY <1>1, <2>1, PortsFit
  <2>3. PortLabel(Object(c)) = label
    BY <2>1, <2>2 DEF PortLabel
  <2>4. ~IsComposite(c)
    BY <2>1 DEF WrongPort, IsComposite
  <2>5. BegunInv
    BY <1>1 DEF VisitInv
  <2>6. ComponentAbove(c) = Composite
    BY <2>1, <2>5 DEF BegunInv
  <2>7. Composite \in ToSet(visit.composites)
    <3>1. IsInjective(visit.composites) /\ IsList(visit.composites) /\ visit.composites # <<>>
      BY <1>1, <2>5 DEF VisitInv, BegunInv
    <3> QED BY <3>1, HeadTailListed DEF Composite
  <2>8. c \notin visit.removed
    <3> SUFFICES ASSUME c \in visit.removed PROVE FALSE
      OBVIOUS
    <3>1. Handled(c)
      BY <1>1, <2>4 DEF VisitInv
    <3> QED BY <2>3, <2>6, <2>7, <3>1 DEF Handled
  <2>9. c \in on_sheet
    BY <1>1, <2>1, <2>8 DEF VisitInv
  <2> QED BY <2>1, <2>3, <2>4, <2>6, <2>9 DEF Fits
<1> QED BY <1>4, <1>5 DEF l

LEMMA PortsListed ==
  ASSUME RunInv, ResultParts, pc = "hierarchy", visit.begun,
         NEW label, label # None, label \notin visit.labels,
         \A c \in ToSet(OldPorts(label)) : ~WrongPort(c)
  PROVE  /\ IsList(PortsFor(label)) /\ IsInjective(PortsFor(label))
         /\ ToSet(PortsFor(label)) \subseteq on_sheet
         /\ \A c \in ToSet(PortsFor(label)) :
              /\ ComponentAbove(c) = Composite /\ PortLabel(Object(c)) = label
              /\ ~IsComposite(c) /\ Fits(c)
<1> DEFINE s == NewPorts(label)
           t == Filtered(OldPorts(label), {c \in visit.candidates : Usable(c)})
           T == on_sheet
<1>1. /\ IsList(s) /\ IsInjective(s) /\ ToSet(s) \subseteq on_sheet
      /\ \A c \in ToSet(s) :
           /\ ComponentAbove(c) = Composite /\ PortLabel(Object(c)) = label
           /\ ~IsComposite(c) /\ Fits(c) /\ Object(c).refdes = None
  BY NewPortsListed
<1>2. /\ IsList(t) /\ IsInjective(t) /\ ToSet(t) \subseteq on_sheet
      /\ \A c \in ToSet(t) :
           /\ ComponentAbove(c) = Composite /\ PortLabel(Object(c)) = label
           /\ ~IsComposite(c) /\ Fits(c) /\ Object(c).refdes = label
  BY OldPortsListed
<1>3. PortsFor(label) = s \o t
  BY DEF PortsFor
<1> HIDE DEF s, t, T
<1>4. s \in Seq(T) /\ t \in Seq(T)
  BY <1>1, <1>2, WiderSeq DEF T, IsList
<1>5. ToSet(s) \cap ToSet(t) = {}
  BY <1>1, <1>2
<1>6. /\ s \o t \in Seq(T) /\ ToSet(s \o t) = ToSet(s) \cup ToSet(t)
      /\ IsInjective(s) /\ IsInjective(t) /\ ToSet(s) \cap ToSet(t) = {} => IsInjective(s \o t)
  BY <1>4, ConcatListed
<1>7. IsList(s \o t)
  BY <1>6, OwnElements
<1> QED BY <1>1, <1>2, <1>3, <1>5, <1>6, <1>7

\* A pin of the composite component leaves its net, and ports are to come.
LEMMA ResolvePinResult ==
  ASSUME RunInv, ResultParts, ResolvePin, ~failed'
  PROVE  ResultParts'
<1> DEFINE p     == Head(visit.pins)
           dst   == NetOf(p)
           label == Label(Object(p[1]), p[2])
           bad   == label = None \/ label \in visit.labels
           enough == /\ p \in on_net
                     /\ p \in net[dst].component_pins
                     /\ bad \/ ToSet(NewPorts(label)) \subseteq on_sheet
           l == PortsFor(label)
<1>1. /\ pc = "hierarchy" /\ visit.begun /\ visit.ports = <<>> /\ visit.pins # <<>>
      /\ UNCHANGED <<design, page_of, cpins, local_net, components, on_sheet, nets, net_of>>
      /\ enough => /\ pc' = pc
                   /\ on_net' = on_net \ {p}
                   /\ net' = WithoutPin(net, dst, p)
                   /\ visit' = [visit EXCEPT
                         !.pins = Tail(visit.pins),
                         !.dest = dst,
                         !.labels = IF label = None THEN visit.labels ELSE visit.labels \cup {label},
                         !.ports = IF bad THEN <<>> ELSE l]
                   /\ failed' = (failed \/ bad \/ \E c \in ToSet(OldPorts(label)) : WrongPort(c))
      /\ ~enough => failed' = failed
  BY DEF ResolvePin, static
<1>2. /\ PartsInv /\ VisitInv /\ PinsExact /\ NetsKept /\ NothingWrong
      /\ IsVisit(visit) /\ DOMAIN local_net = ToSet(cpins)
      /\ IsNetList(net) /\ ToSet(nets) \subseteq 1 .. Len(net)
      /\ on_sheet \subseteq ToSet(components)
  BY <1>1, HierarchyFacts
<1>3. BegunInv
  BY <1>1, <1>2 DEF VisitInv
<1>4. /\ p \in ToSet(visit.pins) /\ IsList(Tail(visit.pins)) /\ IsInjective(Tail(visit.pins))
      /\ ToSet(Tail(visit.pins)) = ToSet(visit.pins) \ {p}
  BY <1>1, <1>3, HeadTailListed DEF BegunInv
<1>5. p \in RemainingPins /\ p[1] = Composite /\ p \in on_net /\ p \in DOMAIN local_net
  BY <1>3, <1>4 DEF BegunInv, RemainingPins
<1>6. dst \in ToSet(nets) /\ dst \in 1 .. Len(net)
  BY <1>2, <1>5 DEF NetsKept
<1>7. p \in net[dst].component_pins
  BY <1>2, <1>5, <1>6 DEF PinsExact
<1> HIDE DEF p, dst, label, l
<1>8. ASSUME ~bad PROVE ToSet(NewPorts(label)) \subseteq on_sheet
  BY <1>1, <1>8, NewPortsListed
<1>9. enough
  BY <1>5, <1>7, <1>8
<1>10. ~bad /\ (\A c \in ToSet(OldPorts(label)) : ~WrongPort(c))
  BY <1>1, <1>9
<1> HIDE DEF enough
<1>11. /\ pc' = "hierarchy" /\ on_net' = on_net \ {p} /\ net' = WithoutPin(net, dst, p)
       /\ visit' = [visit EXCEPT !.pins = Tail(visit.pins), !.dest = dst,
                                 !.labels = visit.labels \cup {label}, !.ports = l]
  BY <1>1, <1>9, <1>10
<1>12. /\ IsList(l) /\ IsInjective(l) /\ ToSet(l) \subseteq on_sheet
       /\ \A c \in ToSet(l) :
            /\ ComponentAbove(c) = Composite /\ PortLabel(Object(c)) = label
            /\ ~IsComposite(c) /\ Fits(c)
  BY <1>1, <1>10, PortsListed DEF l
<1>13. /\ visit'.composites = visit.composites /\ visit'.begun = visit.begun
       /\ visit'.removed = visit.removed /\ visit'.candidates = visit.candidates
       /\ visit'.pins = Tail(visit.pins) /\ visit'.ports = l /\ visit'.dest = dst
       /\ visit'.labels = visit.labels \cup {label}
  BY <1>2, <1>11 DEF IsVisit
<1>14. /\ Composite' = Composite
       /\ \A c : /\ Object(c)' = Object(c) /\ IsComposite(c)' = IsComposite(c)
                 /\ ComponentAbove(c)' = ComponentAbove(c) /\ Fits(c)' = Fits(c)
  BY <1>1, <1>13, SameObject, SameGoodPages DEF Composite, Fits, Usable, PinsOfComponent
<1>15. RemainingPins' = RemainingPins
  BY <1>1 DEF RemainingPins
<1>16. BegunInv'
  <2>1. ToSet(visit'.pins) \subseteq {q \in RemainingPins : q[1] = Composite}
    BY <1>3, <1>4, <1>13 DEF BegunInv
  <2>2. on_net' = {q \in RemainingPins : q[1] = Composite => q \in ToSet(visit'.pins)}
    BY <1>3, <1>4, <1>5, <1>11, <1>13 DEF BegunInv
  <2>3. visit'.candidates \subseteq {c \in ToSet(components) : ComponentAbove(c) = Composite}
    BY <1>3, <1>13 DEF BegunInv
  <2>4. /\ visit'.composites # <<>> /\ IsInjective(visit'.pins) /\ IsList(visit'.pins)
    BY <1>3, <1>4, <1>13 DEF BegunInv
  <2>5. /\ IsInjective(visit'.ports) /\ IsList(visit'.ports) /\ ToSet(visit'.ports) \subseteq on_sheet'
        /\ visit'.dest \in ToSet(nets')
    BY <1>1, <1>6, <1>12, <1>13
  <2>6. \A c \in ToSet(visit'.ports) :
          /\ ComponentAbove(c)' = Composite' /\ PortLabel(Object(c)') \in visit'.labels
          /\ ~IsComposite(c)' /\ Fits(c)'
    BY <1>12, <1>13, <1>14
  <2> QED BY <1>1, <1>14, <1>15, <2>1, <2>2, <2>3, <2>4, <2>5, <2>6 DEF BegunInv
<1>17. \A c \in visit'.removed : IsComposite(c)' \/ Handled(c)'
  <2>1. \A c : Handled(c) => Handled(c)'
    BY <1>13, <1>14 DEF Handled
  <2> QED BY <1>2, <1>13, <1>14, <2>1 DEF VisitInv
<1>18. VisitInv'
  BY <1>1, <1>2, <1>13, <1>14, <1>16, <1>17 DEF VisitInv
<1>19. \A q : NetOf(q)' = NetOf(q)
  BY <1>1 DEF NetOf
<1>20. PinsExact'
  <2>1. IsWithoutPin(net', net, dst, p)
    BY <1>2, <1>11, WithoutPinFields
  <2>2. Len(net') = Len(net) /\ \A n \in 1 .. Len(net) :
          net'[n].component_pins = IF n = dst THEN net[n].component_pins \ {p} ELSE net[n].component_pins
    BY <2>1 DEF IsWithoutPin
  <2>3. ASSUME NEW n \in 1 .. Len(net)
        PROVE  net'[n].component_pins = {q \in on_net' : NetOf(q) = n}
    <3>1. net[n].component_pins = {q \in on_net : NetOf(q) = n}
      BY <1>2 DEF PinsExact
    <3>2. n = dst <=> NetOf(p) = n
      BY DEF dst
    <3> QED BY <1>11, <2>2, <3>1, <3>2
  <2> QED BY <1>19, <2>2, <2>3 DEF PinsExact
<1>21. PartsInv' /\ NothingWrong' /\ NetsKept'
  BY <1>1, <1>2, <1>19, SameParts, SameNothingWrong DEF NetsKept
<1>22. ConnectionsExact'
  BY <1>11 DEF ConnectionsExact, Netlisted
<1> QED BY <1>11, <1>18, <1>20, <1>21, <1>22 DEF ResultParts

\* The net of a port becomes one with that of the pin above, pins and all.
LEMMA JoinPortResult ==
  ASSUME RunInv, ResultParts, JoinPort
  PROVE  Outcome'
<1>0. PICK c, p, src, dst :
        c = Head(visit.ports) /\ p = Head(PinsOfComponent(c)) /\ src = NetOf(p) /\ dst = visit.dest
  OBVIOUS
<1> DEFINE n    == IF src = dst THEN net ELSE Joined(net, src, dst)
           enough == /\ PinsOfComponent(c) # <<>>
                     /\ src = dst \/ src \in ToSet(nets)
                     /\ c \in on_sheet
                     /\ p \in on_net
                     /\ p \in n[dst].component_pins
           NewOf(q) == IF NetOf(q) = src THEN dst ELSE NetOf(q)
<1>1. /\ pc = "hierarchy" /\ visit.ports # <<>>
      /\ UNCHANGED <<design, page_of, cpins, local_net, components>>
      /\ enough => /\ pc' = pc
                   /\ net' = WithoutPin(n, dst, p)
                   /\ nets' = IF src = dst THEN nets ELSE Removing(nets, src)
                   /\ net_of' = IF src = dst THEN net_of ELSE Moved(net, src, dst)
                   /\ on_sheet' = on_sheet \ {c}
                   /\ on_net' = on_net \ {p}
                   /\ visit' = [visit EXCEPT !.ports = Tail(visit.ports),
                                             !.removed = visit.removed \cup {c}]
      /\ ~enough => pc' = "crashed"
  BY <1>0 DEF JoinPort, static
<1>2. /\ PartsInv /\ VisitInv /\ PinsExact /\ NetsKept /\ NothingWrong
      /\ IsVisit(visit) /\ DOMAIN local_net = ToSet(cpins)
      /\ IsNetList(net) /\ ToSet(nets) \subseteq 1 .. Len(net)
      /\ on_sheet \subseteq ToSet(components)
      /\ \A i \in 1 .. Len(net) : net[i].local_nets = {ln \in DOMAIN net_of : net_of[ln] = i}
      /\ local_net \in [DOMAIN local_net -> DOMAIN net_of]
  BY <1>1, HierarchyFacts
<1>3. visit.begun /\ BegunInv
  BY <1>1, <1>2 DEF VisitInv
<1>4. /\ c \in ToSet(visit.ports) /\ IsList(Tail(visit.ports)) /\ IsInjective(Tail(visit.ports))
      /\ ToSet(Tail(visit.ports)) = ToSet(visit.ports) \ {c}
  BY <1>0, <1>1, <1>3, HeadTailListed DEF BegunInv
<1>5. /\ c \in on_sheet /\ ComponentAbove(c) = Composite /\ PortLabel(Object(c)) \in visit.labels
      /\ ~IsComposite(c) /\ Fits(c) /\ dst \in ToSet(nets)
  BY <1>0, <1>1, <1>3, <1>4 DEF BegunInv
<1> SUFFICES ASSUME Usable(c) PROVE ResultParts'
  <2>1. CASE ~Usable(c)
    <3>1. pc' = "crashed" /\ ~GoodPages
      BY <1>1, <1>5, <2>1 DEF Fits
    <3> QED BY <1>1, <3>1, SameGoodPages DEF Outcome
  <2> QED BY <2>1 DEF Outcome
<1>6. /\ Composite \in ToSet(visit.composites) /\ IsComposite(Composite) /\ c # Composite
      /\ c \notin ToSet(visit.composites)
  <2>1. IsInjective(visit.composites) /\ IsList(visit.composites) /\ visit.composites # <<>>
    BY <1>2, <1>3 DEF VisitInv, BegunInv
  <2>2. Composite \in ToSet(visit.composites)
    BY <2>1, HeadTailListed DEF Composite
  <2> QED BY <1>2, <1>5, <2>2 DEF VisitInv
<1>7. PinsOfComponent(c) # <<>> /\ {q \in DOMAIN local_net : q[1] = c} = {p}
  BY <1>0, <1>2, <1>5, UsablePin
<1>8. p \in DOMAIN local_net /\ p[1] = c
  BY <1>7
<1>9. p \in on_net
  BY <1>3, <1>5, <1>6, <1>8 DEF BegunInv, RemainingPins
<1>10. src \in ToSet(nets) /\ src \in 1 .. Len(net) /\ dst \in 1 .. Len(net)
  BY <1>0, <1>2, <1>5, <1>8 DEF NetsKept
<1>11. /\ IsNetList(n) /\ Len(n) = Len(net)
       /\ \A i \in 1 .. Len(net) : n[i].component_pins = {q \in on_net : NewOf(q) = i}
  <2>1. \A i \in 1 .. Len(net) : net[i].component_pins = {q \in on_net : NetOf(q) = i}
    BY <1>2 DEF PinsExact
  <2>2. CASE src = dst
    BY <1>2, <2>1, <2>2
  <2>3. CASE src # dst
    <3>1. n = Joined(net, src, dst)
      BY <2>3
    <3>2. IsJoined(Joined(net, src, dst), net, src, dst)
      BY <1>2, <1>10, <2>3, JoinedFields
    <3> HIDE DEF n
    <3>3. /\ IsNetList(n) /\ Len(n) = Len(net)
          /\ \A i \in 1 .. Len(net) :
               n[i].component_pins = IF i = dst THEN net[dst].component_pins \cup net[src].component_pins
                                     ELSE IF i = src THEN {} ELSE net[i].component_pins
      BY <3>1, <3>2 DEF IsJoined
    <3> QED BY <1>10, <2>1, <2>3, <3>3
  <2> QED BY <2>2, <2>3
<1>12. p \in n[dst].component_pins
  <2>1. n[dst].component_pins = {q \in on_net : NewOf(q) = dst}
    BY <1>10, <1>11
  <2>2. NewOf(p) = dst
    BY <1>0
  <2> QED BY <1>9, <2>1, <2>2
<1>13. enough
  BY <1>5, <1>7, <1>9, <1>10, <1>12
<1>14. /\ pc' = "hierarchy"
       /\ net' = WithoutPin(n, dst, p)
       /\ nets' = IF src = dst THEN nets ELSE Removing(nets, src)
       /\ net_of' = IF src = dst THEN net_of ELSE Moved(net, src, dst)
       /\ on_sheet' = on_sheet \ {c} /\ on_net' = on_net \ {p}
       /\ visit' = [visit EXCEPT !.ports = Tail(visit.ports), !.removed = visit.removed \cup {c}]
  BY <1>1, <1>13
<1> HIDE DEF enough
<1>15. \A q \in DOMAIN local_net : NetOf(q)' = NewOf(q)
  <2>1. CASE src = dst
    BY <1>1, <1>14, <2>1 DEF NetOf
  <2>2. ASSUME src # dst, NEW q \in DOMAIN local_net PROVE NetOf(q)' = NewOf(q)
    <3>1. net_of' = Moved(net, src, dst)
      BY <1>14, <2>2
    <3>2. local_net[q] \in DOMAIN net_of
      BY <1>2
    <3>3. net_of'[local_net[q]] = IF local_net[q] \in net[src].local_nets THEN dst ELSE net_of[local_net[q]]
      BY <3>1, <3>2 DEF Moved
    <3>4. local_net[q] \in net[src].local_nets <=> net_of[local_net[q]] = src
      BY <1>2, <1>10, <3>2
    <3> QED BY <1>1, <3>3, <3>4 DEF NetOf
  <2> QED BY <2>1, <2>2
<1>16. PinsExact'
  <2> HIDE DEF n, NewOf
  <2>1. IsWithoutPin(net', n, dst, p)
    BY <1>11, <1>14, WithoutPinFields
  <2>2. Len(net') = Len(net) /\ \A i \in 1 .. Len(net) :
          net'[i].component_pins = IF i = dst THEN n[i].component_pins \ {p} ELSE n[i].component_pins
    BY <1>11, <2>1 DEF IsWithoutPin
  <2>3. NewOf(p) = dst
    BY <1>0 DEF NewOf
  <2>4. on_net \subseteq DOMAIN local_net
    BY DEF RunInv, NetlistInv
  <2>5. ASSUME NEW i \in 1 .. Len(net)
        PROVE  net'[i].component_pins = {q \in on_net' : NetOf(q)' = i}
    <3>1. n[i].component_pins = {q \in on_net : NewOf(q) = i}
      BY <1>11
    <3>2. net'[i].component_pins = {q \in on_net \ {p} : NewOf(q) = i}
      BY <2>2, <2>3, <3>1
    <3>3. \A q \in on_net \ {p} : NetOf(q)' = NewOf(q)
      BY <1>15, <2>4
    <3> QED BY <1>14, <3>2, <3>3
  <2> QED BY <2>2, <2>5 DEF PinsExact
<1>17. NetsKept' /\ dst \in ToSet(nets')
  <2>1. CASE src = dst
    <3>1. nets' = nets
      BY <1>14, <2>1
    <3> QED BY <1>1, <1>2, <1>5, <1>15, <2>1, <3>1 DEF NetsKept
  <2>2. CASE src # dst
    <3>1. nets' = Removing(nets, src)
      BY <1>14, <2>2
    <3>2. ToSet(Removing(nets, src)) = ToSet(nets) \ {src}
      <4>1. nets \in Seq(ToSet(nets))
        BY SameLists
      <4> QED BY <4>1, RemovingListed
    <3> QED BY <1>1, <1>2, <1>5, <1>15, <2>2, <3>1, <3>2 DEF NetsKept
  <2> QED BY <2>1, <2>2
<1>18. /\ visit'.composites = visit.composites /\ visit'.begun = visit.begun
       /\ visit'.removed = visit.removed \cup {c} /\ visit'.candidates = visit.candidates
       /\ visit'.pins = visit.pins /\ visit'.ports = Tail(visit.ports)
       /\ visit'.dest = dst /\ visit'.labels = visit.labels
  BY <1>0, <1>2, <1>14 DEF IsVisit
<1>19. /\ Composite' = Composite
       /\ \A d : /\ Object(d)' = Object(d) /\ IsComposite(d)' = IsComposite(d)
                 /\ ComponentAbove(d)' = ComponentAbove(d) /\ Fits(d)' = Fits(d)
  BY <1>1, <1>18, SameObject, SameGoodPages DEF Composite, Fits, Usable, PinsOfComponent
<1>20. RemainingPins' = RemainingPins \ {p}
  BY <1>1, <1>7, <1>8, <1>14 DEF RemainingPins
<1>21. BegunInv'
  <2>1. ToSet(visit'.pins) \subseteq {q \in RemainingPins' : q[1] = Composite}
    BY <1>3, <1>6, <1>8, <1>18, <1>20 DEF BegunInv
  <2>2. on_net' = {q \in RemainingPins' : q[1] = Composite => q \in ToSet(visit'.pins)}
    BY <1>3, <1>14, <1>18, <1>20 DEF BegunInv
  <2>3. /\ visit'.candidates \subseteq {d \in ToSet(components) : ComponentAbove(d) = Composite}
        /\ visit'.composites # <<>> /\ IsInjective(visit'.pins) /\ IsList(visit'.pins)
    BY <1>3, <1>18 DEF BegunInv
  <2>4. /\ IsInjective(visit'.ports) /\ IsList(visit'.ports) /\ ToSet(visit'.ports) \subseteq on_sheet'
        /\ visit'.dest \in ToSet(nets')
    BY <1>3, <1>4, <1>14, <1>17, <1>18 DEF BegunInv
  <2>5. \A d \in ToSet(visit'.ports) :
          /\ ComponentAbove(d)' = Composite' /\ PortLabel(Object(d)') \in visit'.labels
          /\ ~IsComposite(d)' /\ Fits(d)'
    BY <1>3, <1>4, <1>18, <1>19 DEF BegunInv
  <2> QED BY <1>1, <1>19, <2>1, <2>2, <2>3, <2>4, <2>5 DEF BegunInv
<1>22. \A d \in visit'.removed : IsComposite(d)' \/ Handled(d)'
  <2>1. \A d : Handled(d) => Handled(d)'
    BY <1>18, <1>19 DEF Handled
  <2>2. Handled(c)'
    BY <1>3, <1>5, <1>18, <1>19 DEF Handled
  <2>3. \A d \in visit.removed : IsComposite(d) \/ Handled(d)
    BY <1>2 DEF VisitInv
  <2> QED BY <1>18, <1>19, <2>1, <2>2, <2>3
<1>23. VisitInv'
  <2>1. /\ IsInjective(visit'.composites) /\ IsList(visit'.composites)
        /\ ToSet(visit'.composites) \subseteq on_sheet'
        /\ \A d \in ToSet(visit'.composites) : IsComposite(d)'
    BY <1>2, <1>6, <1>14, <1>18, <1>19 DEF VisitInv
  <2>2. on_sheet' = ToSet(components') \ visit'.removed
    BY <1>1, <1>2, <1>14, <1>18 DEF VisitInv
  <2> QED BY <1>3, <1>18, <1>21, <1>22, <2>1, <2>2 DEF VisitInv
<1>24. PartsInv' /\ NothingWrong'
  BY <1>1, <1>2, SameParts, SameNothingWrong
<1>25. ConnectionsExact'
  BY <1>14 DEF ConnectionsExact, Netlisted
<1> QED BY <1>14, <1>16, <1>17, <1>23, <1>24, <1>25 DEF ResultParts

\* With the pictures gone, the pins left on a net are those of packages.
LEMMA PackageResult ==
  ASSUME RunInv, ResultParts, Package
  PROVE  ResultParts'
<1> DEFINE pictures == {c \in ToSet(components) : Graphical(Object(c))}
           gone     == {p \in DOMAIN local_net : p[1] \in pictures}
           packaged == {p \in DOMAIN local_net : p[1] \in ToSet(components') /\ HasRefdes(p)}
           pins(n)  == {p \in net[n].component_pins \ gone : HasRefdes(p)}
           ppins    == {PackagePin(p) : p \in packaged}
<1>1. /\ pc = "package"
      /\ UNCHANGED <<design, page_of, cpins, local_net, nets, net_of>>
      /\ components' = Filtered(components, ToSet(components) \ pictures)
      /\ pc' = IF /\ \A p \in gone : p \in on_net /\ p \in net[NetOf(p)].component_pins
                  /\ \A n \in ToSet(nets) : \A p \in pins(n) : PackagePin(p) \in ppins
               THEN "drop" ELSE "crashed"
      /\ net' = [n \in DOMAIN net |->
                   [net[n] EXCEPT !.component_pins = net[n].component_pins \ gone,
                                  !.connections = {PackagePin(p) : p \in pins(n)}]]
  BY DEF Package, static
<1>2. /\ PinsExact /\ NetsKept /\ NothingWrong
      /\ on_sheet = ToSet(components) /\ on_net = RemainingPins
  BY <1>1 DEF ResultParts
<1>3. /\ IsList(components) /\ ToSet(nets) \subseteq 1 .. Len(net)
      /\ DOMAIN net = 1 .. Len(net) /\ Len(net) \in Nat /\ \A i \in 1 .. Len(net) : IsNet(net[i])
  BY SameLists DEF IsList, IsNetList
<1>4. ToSet(components') = ToSet(components) \ pictures
  <2> HIDE DEF pictures
  <2>1. ToSet(components') = ToSet(components) \cap (ToSet(components) \ pictures)
    BY <1>1, <1>3, FilteredPart
  <2> QED BY <2>1
<1>5. \A n \in 1 .. Len(net) : pins(n) = {p \in packaged : NetOf(p) = n}
  <2> SUFFICES ASSUME NEW n \in 1 .. Len(net), NEW p
               PROVE  p \in pins(n) <=> p \in packaged /\ NetOf(p) = n
    OBVIOUS
  <2>1. p \in net[n].component_pins <=> p \in DOMAIN local_net /\ p[1] \in ToSet(components) /\ NetOf(p) = n
    BY <1>2 DEF PinsExact, RemainingPins
  <2>2. p \in DOMAIN local_net => (p \in gone <=> p[1] \in pictures)
    OBVIOUS
  <2> HIDE DEF pictures, gone
  <2> QED BY <1>4, <2>1, <2>2
<1>6. \A p \in gone : p \in on_net /\ p \in net[NetOf(p)].component_pins
  <2> SUFFICES ASSUME NEW p \in gone PROVE p \in on_net /\ p \in net[NetOf(p)].component_pins
    OBVIOUS
  <2>1. p \in DOMAIN local_net /\ p[1] \in ToSet(components)
    OBVIOUS
  <2>2. p \in on_net
    BY <1>2, <2>1 DEF RemainingPins
  <2>3. NetOf(p) \in 1 .. Len(net)
    BY <1>2, <1>3, <2>1 DEF NetsKept
  <2> QED BY <1>2, <2>2, <2>3 DEF PinsExact
<1>7. \A n \in ToSet(nets) : \A p \in pins(n) : PackagePin(p) \in ppins
  BY <1>3, <1>5
<1>8. pc' = "drop"
  BY <1>1, <1>6, <1>7
<1>9. \A c : Object(c)' = Object(c)
  BY <1>1, SameObject
<1>10. /\ \A p : NetOf(p)' = NetOf(p) /\ HasRefdes(p)' = HasRefdes(p) /\ PackagePin(p)' = PackagePin(p)
       /\ Packaged' = packaged
  <2>1. \A p : HasRefdes(p)' = HasRefdes(p)
    BY <1>9 DEF HasRefdes
  <2> QED BY <1>1, <1>9, <2>1 DEF NetOf, PackagePin, Packaged
<1>11. ConnectionsInv'
  <2>1. Len(net') = Len(net) /\ \A n \in 1 .. Len(net) :
          net'[n].connections = {PackagePin(p) : p \in pins(n)}
    <3> HIDE DEF pins, gone
    <3>1. net' = [n \in 1 .. Len(net) |-> net'[n]]
      BY <1>1, <1>3
    <3>2. Len(net') = Len(net)
      BY <1>3, <3>1, ListLength
    <3>3. \A n \in 1 .. Len(net) : net'[n].connections = {PackagePin(p) : p \in pins(n)}
      <4> SUFFICES ASSUME NEW n \in 1 .. Len(net)
                   PROVE  net'[n].connections = {PackagePin(p) : p \in pins(n)}
        OBVIOUS
      <4> DEFINE x == net[n].component_pins \ gone
                 y == {PackagePin(p) : p \in pins(n)}
      <4>1. net'[n] = [net[n] EXCEPT !.component_pins = x, !.connections = y]
        BY <1>1, <1>3
      <4> HIDE DEF x, y
      <4>2. IsNet(net[n])
        BY <1>3
      <4>3. net'[n].connections = y
        BY <4>1, <4>2 DEF IsNet
      <4> QED BY <4>3 DEF y
    <3> QED BY <3>2, <3>3
  <2> HIDE DEF pins, packaged
  <2>2. \A n \in 1 .. Len(net) :
          net'[n].connections = {PackagePin(p) : p \in {q \in packaged : NetOf(q) = n}}
    BY <1>5, <2>1
  <2>3. ASSUME NEW n \in 1 .. Len(net')
        PROVE  net'[n].connections = {PackagePin(p)' : p \in {q \in Packaged' : NetOf(q)' = n}}
    BY <1>10, <2>1, <2>2
  <2> QED BY <2>3 DEF ConnectionsInv
<1>12. NothingWrong' /\ NetsKept'
  BY <1>1, <1>2, <1>10, SameNothingWrong DEF NetsKept
<1>13. ConnectionsExact'
  BY <1>8 DEF ConnectionsExact, Netlisted
<1> QED BY <1>8, <1>11, <1>12, <1>13 DEF ResultParts

\* A net that joins two package pins is kept, whatever its name.
LEMMA DropResult ==
  ASSUME RunInv, ResultParts, DropUnconnected
  PROVE  ResultParts'
<1>1. /\ pc = "drop" /\ pc' = "done"
      /\ UNCHANGED <<design, page_of, cpins, local_net, net_of, components, failed>>
      /\ nets' = Filtered(nets, {n \in ToSet(nets) : ~Dropped(net[n])})
      /\ net' = [n \in DOMAIN net |-> [net[n] EXCEPT !.is_unconnected_pin = Dropped(net[n])]]
  BY DEF DropUnconnected, static, partvars
<1>2. ConnectionsInv /\ NetsKept /\ NothingWrong
  BY <1>1 DEF ResultParts
<1>3. /\ IsList(nets) /\ ToSet(nets) \subseteq 1 .. Len(net)
      /\ DOMAIN net = 1 .. Len(net) /\ Len(net) \in Nat /\ \A i \in 1 .. Len(net) : IsNet(net[i])
  BY SameLists DEF IsList, IsNetList
<1>4. ToSet(nets') = {n \in ToSet(nets) : ~Dropped(net[n])}
  <2> DEFINE S == {n \in ToSet(nets) : ~Dropped(net[n])}
  <2>1. ToSet(Filtered(nets, S)) = ToSet(nets) \cap S
    <3> HIDE DEF S
    <3> QED BY <1>3, FilteredPart
  <2> QED BY <1>1, <2>1
<1>5. \A n \in 1 .. Len(net) : net'[n].connections = net[n].connections
  BY <1>1, <1>3 DEF IsNet
<1>6. \A c : Object(c)' = Object(c)
  BY <1>1, SameObject
<1>7. /\ \A p : NetOf(p)' = NetOf(p) /\ HasRefdes(p)' = HasRefdes(p) /\ PackagePin(p)' = PackagePin(p)
      /\ Packaged' = Packaged
  <2>1. \A p : HasRefdes(p)' = HasRefdes(p)
    BY <1>6 DEF HasRefdes
  <2> QED BY <1>1, <1>6, <2>1 DEF NetOf, PackagePin, Packaged
<1>8. IsFiniteSet(Packaged)
  <2>1. DOMAIN local_net = {cpins[i] : i \in DOMAIN cpins}
    BY <1>1 DEF RunInv, NetlistInv, PinsKnown
  <2>2. Len(cpins) \in Nat /\ DOMAIN cpins = 1 .. Len(cpins)
    BY Listed DEF RunInv, ShapeInv, IsList
  <2>3. IsFiniteSet(1 .. Len(cpins))
    BY <2>2, FS_Interval
  <2>4. IsFiniteSet({cpins[i] : i \in DOMAIN cpins})
    BY <2>2, <2>3, ImageFinite
  <2>5. Packaged \subseteq DOMAIN local_net
    BY DEF Packaged
  <2> QED BY <2>1, <2>4, <2>5, FS_Subset
<1>9. \A n \in ToSet(nets') :
        net'[n].connections = {PackagePin(p) : p \in {q \in Packaged : NetOf(q) = n}}
  BY <1>2, <1>3, <1>4, <1>5 DEF ConnectionsInv
<1>10. ASSUME NEW p \in Packaged, NEW q \in Packaged, NetOf(p) = NetOf(q), PackagePin(p) # PackagePin(q)
       PROVE  NetOf(p) \in ToSet(nets')
  <2> DEFINE n == NetOf(p)
             P == {x \in Packaged : NetOf(x) = n}
             C == {PackagePin(x) : x \in P}
  <2>1. n \in ToSet(nets) /\ n \in 1 .. Len(net)
    BY <1>2, <1>3 DEF NetsKept, Packaged
  <2>2. net[n].connections = C
    BY <1>2, <2>1 DEF ConnectionsInv
  <2>3. IsFiniteSet(C)
    <3>1. IsFiniteSet(P)
      BY <1>8, FS_Subset
    <3> DEFINE f == [x \in P |-> PackagePin(x)]
    <3>2. C = {f[x] : x \in P}
      OBVIOUS
    <3> HIDE DEF P, C, f
    <3> QED BY <3>1, <3>2, ImageFinite
  <2>4. PackagePin(p) \in C /\ PackagePin(q) \in C
    BY <1>10
  <2> HIDE DEF C, n
  <2>5. ~(Cardinality(C) <= 1)
    <3>1. C \ {PackagePin(p)} # {} /\ IsFiniteSet(C \ {PackagePin(p)})
      BY <1>10, <2>3, <2>4, FS_RemoveElement
    <3>2. Cardinality(C \ {PackagePin(p)}) = Cardinality(C) - 1
      BY <2>3, <2>4, FS_RemoveElement
    <3>3. Cardinality(C \ {PackagePin(p)}) # 0 /\ Cardinality(C \ {PackagePin(p)}) \in Nat
      BY <3>1, FS_EmptySet, FS_CardinalityType
    <3>4. Cardinality(C) \in Nat
      BY <2>3, FS_CardinalityType
    <3> QED BY <3>2, <3>3, <3>4
  <2>6. ~Dropped(net[n])
    BY <2>2, <2>5 DEF Dropped
  <2> QED BY <1>4, <2>1, <2>6 DEF n
<1>11. ConnectionsExact'
  <2>1. \A n \in ToSet(nets') :
          net'[n].connections = {PackagePin(p)' : p \in {q \in Packaged' : NetOf(q)' = n}}
    BY <1>7, <1>9
  <2>2. \A p, q \in Packaged' :
          NetOf(p)' = NetOf(q)' /\ PackagePin(p)' # PackagePin(q)' => NetOf(p)' \in ToSet(nets')
    BY <1>7, <1>10
  <2> QED BY <2>1, <2>2 DEF ConnectionsExact
<1>12. NothingWrong'
  BY <1>1, <1>2, SameNothingWrong
<1> QED BY <1>1, <1>11, <1>12 DEF ResultParts

LEMMA SameResult ==
  ASSUME Outcome, UNCHANGED vars
  PROVE  Outcome'
<1>1. /\ UNCHANGED <<design, drawn, page_of, cpins, local_net>>
      /\ UNCHANGED <<pc, net, nets, net_of, components, on_sheet, on_net, visit, failed>>
  BY DEF vars, static, netvars, partvars
<1>2. /\ \A c : /\ Object(c)' = Object(c) /\ IsComposite(c)' = IsComposite(c)
                /\ ComponentAbove(c)' = ComponentAbove(c)
      /\ Composite' = Composite /\ RemainingPins' = RemainingPins
      /\ GoodPages' = GoodPages
  BY <1>1, SameObject, SameGoodPages DEF Composite, RemainingPins
<1>3. \A c : Fits(c)' = Fits(c)
  <2>1. \A c : PinsOfComponent(c)' = PinsOfComponent(c)
    BY <1>1 DEF PinsOfComponent
  <2> QED BY <1>2, <2>1 DEF Fits, Usable
<1>4. CASE ResultParts
  <2>1. /\ \A p : NetOf(p)' = NetOf(p) /\ HasRefdes(p)' = HasRefdes(p) /\ PackagePin(p)' = PackagePin(p)
        /\ Packaged' = Packaged
    <3>1. \A p : HasRefdes(p)' = HasRefdes(p)
      BY <1>2 DEF HasRefdes
    <3> QED BY <1>1, <1>2, <3>1 DEF NetOf, PackagePin, Packaged
  <2>2. PartsInv => PartsInv'
    BY <1>1, SameParts
  <2>3. BegunInv => BegunInv'
    BY <1>1, <1>2, <1>3 DEF BegunInv
  <2>4. VisitInv => VisitInv'
    <3>1. \A c : Handled(c)' = Handled(c)
      BY <1>1, <1>2 DEF Handled
    <3> QED BY <1>1, <1>2, <2>3, <3>1 DEF VisitInv
  <2>5. (PinsExact => PinsExact') /\ (NetsKept => NetsKept')
    BY <1>1, <2>1 DEF PinsExact, NetsKept
  <2>6. (ConnectionsInv => ConnectionsInv') /\ (ConnectionsExact => ConnectionsExact')
    BY <1>1, <2>1 DEF ConnectionsInv, ConnectionsExact, Netlisted
  <2>7. NothingWrong => NothingWrong'
    BY <1>1, SameNothingWrong
  <2> QED BY <1>1, <1>2, <1>4, <2>2, <2>4, <2>5, <2>6, <2>7 DEF Outcome, ResultParts
<1>5. CASE ~ResultParts
  BY <1>1, <1>2, <1>5 DEF Outcome
<1> QED BY <1>4, <1>5

\* Nothing is done after an exception, and an error is not forgotten.
LEMMA Started ==
  ASSUME RunInv, Next, ~Read, ~Finished
  PROVE  pc # "crashed" /\ pc' # "read" /\ (failed => failed')
<1>1. failed \in BOOLEAN
  BY DEF RunInv, ShapeInv
<1>2. CASE Instantiate
  BY <1>2 DEF Instantiate
<1>3. ASSUME NEW ln \in DOMAIN todo, NameLocalNet(ln)
      PROVE  pc # "crashed" /\ pc' # "read" /\ (failed => failed')
  BY <1>3, NameLocalNetRun DEF NameLocalNet
<1>4. CASE ChooseNames
  BY <1>4 DEF ChooseNames
<1>5. CASE NumberNet
  BY <1>5 DEF NumberNet, static
<1>6. CASE CollectPins
  BY <1>6 DEF CollectPins
<1>7. CASE BeginComposite
  BY <1>7 DEF BeginComposite, static
<1>8. CASE ResolvePin
  <2>1. pc = "hierarchy" /\ pc' \in {"hierarchy", "crashed"}
    BY <1>8 DEF ResolvePin
  <2>2. ASSUME failed PROVE failed'
    BY <1>1, <1>8, <2>2 DEF ResolvePin
  <2> QED BY <2>1, <2>2
<1>9. CASE JoinPort
  BY <1>9 DEF JoinPort
<1>10. CASE EndComposite
  BY <1>10 DEF EndComposite
<1>11. CASE EndHierarchy
  BY <1>1, <1>11 DEF EndHierarchy
<1>12. CASE Package
  BY <1>1, <1>12 DEF Package
<1>13. CASE DropUnconnected
  BY <1>13 DEF DropUnconnected
<1> QED BY <1>2, <1>3, <1>4, <1>5, <1>6, <1>7, <1>8, <1>9, <1>10, <1>11, <1>12, <1>13 DEF Next

LEMMA StepResult == RunInv /\ ResultInv /\ [Next]_vars => ResultInv'
<1> SUFFICES ASSUME RunInv, ResultInv, [Next]_vars PROVE ResultInv'
  OBVIOUS
<1>1. CASE Read
  <2>1. pc' # "read"
    BY <1>1 DEF Read
  <2> QED BY <1>1, <2>1, ReadResult DEF ResultInv
<1>2. CASE UNCHANGED vars
  <2>1. failed' = failed /\ pc' = pc
    BY <1>2 DEF vars, static
  <2> QED BY <1>2, <2>1, SameResult DEF ResultInv
<1>3. CASE Next /\ ~Read /\ ~Finished
  <2>1. pc # "crashed" /\ pc' # "read" /\ (failed => failed')
    BY <1>3, Started
  <2>2. SUFFICES ASSUME ~failed' PROVE Outcome'
    BY <2>1 DEF ResultInv
  <2>3. ResultParts
    BY <2>1, <2>2 DEF ResultInv, Outcome
  <2>4. CASE Instantiate
    BY <2>3, <2>4, InstantiateResult DEF Outcome
  <2>5. ASSUME NEW ln \in DOMAIN todo, NameLocalNet(ln) PROVE ResultParts'
    <3>1. /\ pc = "name" /\ UNCHANGED <<design, page_of, cpins, local_net, components, on_sheet, on_net>>
      BY <2>5 DEF NameLocalNet, static, partvars
    <3>2. pc' = "name"
      BY <2>5, NameLocalNetRun
    <3> QED BY <2>3, <3>1, <3>2, NamingResult
  <2>6. CASE ChooseNames
    <3>1. /\ pc = "name" /\ UNCHANGED <<design, page_of, cpins, local_net, components, on_sheet, on_net>>
      BY <2>6 DEF ChooseNames, static, partvars
    <3>2. pc' = "number"
      BY <2>6, ChooseNamesRun
    <3>3. ResultParts'
      BY <2>3, <3>1, <3>2, NamingResult
    <3> QED BY <3>3 DEF Outcome
  <2>7. CASE NumberNet
    <3>1. /\ pc = "number" /\ pc' = "number"
          /\ UNCHANGED <<design, page_of, cpins, local_net, components, on_sheet, on_net>>
      BY <2>7 DEF NumberNet, static, partvars
    <3>2. ResultParts'
      BY <2>3, <3>1, NamingResult
    <3> QED BY <3>2 DEF Outcome
  <2>8. CASE CollectPins
    BY <2>3, <2>8, CollectPinsResult DEF Outcome
  <2>9. CASE BeginComposite
    BY <2>3, <2>9, BeginCompositeResult DEF Outcome
  <2>10. CASE ResolvePin
    BY <2>2, <2>3, <2>10, ResolvePinResult DEF Outcome
  <2>11. CASE JoinPort
    BY <2>3, <2>11, JoinPortResult
  <2>12. CASE EndComposite
    BY <2>3, <2>12, EndCompositeResult DEF Outcome
  <2>13. CASE EndHierarchy
    BY <2>3, <2>13, EndHierarchyResult DEF Outcome
  <2>14. CASE Package
    BY <2>3, <2>14, PackageResult DEF Outcome
  <2>15. CASE DropUnconnected
    BY <2>3, <2>15, DropResult DEF Outcome
  <2>16. ASSUME NEW ln \in DOMAIN todo, NameLocalNet(ln) PROVE Outcome'
    BY <2>5, <2>16 DEF Outcome
  <2> QED BY <1>3, <2>4, <2>16, <2>6, <2>7, <2>8, <2>9, <2>10, <2>11, <2>12, <2>13, <2>14, <2>15 DEF Next
<1> QED BY <1>1, <1>2, <1>3 DEF Finished

(* In any design, the netlister ends with an exception only after it has
   reported an error, or for one of the two kinds of drawings that the code
   does not provide for: a net and a bus in one, and a port with a bus pin.   *)
THEOREM CrashesAlwaysReported == Spec => []CrashOnlyAfterError
<1>1. ResultInv => CrashOnlyAfterError
  <2>1. ~GoodPages => \E f \in DOMAIN design.pages : Mixed(Page(f)) \/ BusPort(Page(f))
    BY DEF GoodPages, Files
  <2> QED BY <2>1 DEF ResultInv, Outcome, ResultParts, CrashOnlyAfterError
<1> QED BY <1>1, RunAlways, InitResult, StepResult, PTL DEF Spec

(* In any design for which no error is reported, a net of the result lists
   exactly the package pins on it, whichever ports and composite components
   have been removed, and each net that joins two package pins is in the
   result.                                                                    *)
THEOREM ConnectionsAlwaysExact == Spec => []ConnectionsExact
<1>1. ResultInv => ConnectionsExact
  <2>1. CASE failed
    BY <2>1 DEF ConnectionsExact, Netlisted
  <2>2. CASE ~failed
    <3>1. CASE pc = "crashed"
      BY <3>1 DEF ConnectionsExact, Netlisted
    <3> QED BY <2>2, <3>1 DEF ResultInv, Outcome, ResultParts
  <2> QED BY <2>1, <2>2
<1> QED BY <1>1, RunAlways, InitResult, StepResult, PTL DEF Spec
=============================================================================
