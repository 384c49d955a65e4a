-------------------------- MODULE XornStorage_proofs --------------------------
(***************************************************************************)
(* Theorems about XornStorage, for any number of revisions, object states  *)
(* and objects and any client.                                             *)
(*                                                                         *)
(* The invariant Inv says of all revisions what TypeOK, RefcountExact and  *)
(* TreeConsistent say together: copying a tree needs to know that what is  *)
(* attached exists and has a state, and dropping a reference needs to know *)
(* how many there are.  It also says that no revision has an object whose  *)
(* id has not been handed out, which makes the ids of copies new.          *)
(*                                                                         *)
(* Three arguments carry the proof.  ExactStep: an operation that takes    *)
(* the references of the table entries a revision gains and then drops     *)
(* those of the entries it loses keeps all counts exact, so each operation *)
(* only has to name the two tables.  The tree lemmas say of one revision   *)
(* what attaching, moving, removing and copying leave of Linked and Kinds. *)
(* StepRight puts them together: every call keeps Inv, changes no state in *)
(* place and no revision but its own, and reads as before if it fails.     *)
(***************************************************************************)
EXTENDS XornStorage, Lists_proofs

\* IndexIn finds an element where it is.
LEMMA Found ==
  ASSUME NEW T, NEW s \in Seq(T), IsInjective(s), NEW ob \in ToSet(s)
  PROVE  IndexIn(s, ob) \in 1 .. Len(s) /\ s[IndexIn(s, ob)] = ob
<1>1. Len(s) \in Nat /\ DOMAIN s = 1 .. Len(s) /\ ToSet(s) = {s[i] : i \in 1 .. Len(s)}
  BY Listed
<1>2. PICK i \in 1 .. Len(s) : s[i] = ob
  BY <1>1
<1>3. ASSUME NEW j \in 1 .. i - 1 PROVE s[j] # ob
  <2>1. j \in 1 .. Len(s) /\ j # i
    BY <1>1
  <2> QED BY <1>1, <1>2, <2>1 DEF IsInjective
<1>4. \E l \in DOMAIN s : s[l] = ob /\ \A j \in 1 .. l - 1 : s[j] # ob
  BY <1>1, <1>2, <1>3
<1> QED BY <1>1, <1>4 DEF IndexIn
-----------------------------------------------------------------------------
(* What copy_object visits *)

Items == [of : Objects, at : Nat]

GoodItem(q, j, v, obs) ==
  /\ q[j] \in Items
  /\ q[j].at < j
  /\ q[j].at = 0 => q[j].of \in obs
  /\ q[j].at # 0 => /\ q[q[j].at].at = 0
                    /\ q[j].of \in ToSet(Kids(v, q[q[j].at].of))

GoodVisit(q, v, obs) ==
  /\ q \in Seq(Items)
  /\ \A j \in 1 .. Len(q) : GoodItem(q, j, v, obs)

VisitOne(v, n, prev) ==
  prev \o <<[of |-> n, at |-> 0]>>
       \o [k \in 1 .. Len(Kids(v, n)) |-> [of |-> Kids(v, n)[k], at |-> Len(prev) + 1]]

VisitFrom(v, obs, N, g) ==
  [n \in 0 .. N |-> IF n = 0 THEN <<>>
                    ELSE IF n \notin obs THEN g[n - 1] ELSE VisitOne(v, n, g[n - 1])]

Visits(v, obs, N) == CHOOSE g : g = VisitFrom(v, obs, N, g)

\* Visited is the last of the sequences it is built from.
LEMMA VisitedIs ==
  ASSUME NEW v, NEW obs
  PROVE  Visited(v, obs) = Visits(v, obs, next_object_id)[next_object_id]
BY DEF Visited, Visits, VisitFrom, VisitOne

\* The recursive function by which Visited is defined exists.
LEMMA VisitsExist ==
  ASSUME NEW v, NEW obs, NEW N \in Nat
  PROVE  \E g : g = VisitFrom(v, obs, N, g)
<1> DEFINE G == {n \in Nat : \E g : g = VisitFrom(v, obs, n, g)}
<1>1. 0 \in G
  <2>1. [n \in 0 .. 0 |-> <<>>] = VisitFrom(v, obs, 0, [n \in 0 .. 0 |-> <<>>])
    BY DEF VisitFrom
  <2> QED BY <2>1
<1>2. ASSUME NEW n \in 0 .. N - 1, n \in G PROVE n + 1 \in G
  <2>1. PICK g : g = VisitFrom(v, obs, n, g)
    BY <1>2
  <2> DEFINE step == IF n + 1 \notin obs THEN g[n] ELSE VisitOne(v, n + 1, g[n])
             h == [m \in 0 .. n + 1 |-> IF m = n + 1 THEN step ELSE g[m]]
             k == VisitFrom(v, obs, n + 1, h)
  <2>2. \A m \in 0 .. n : g[m] = IF m = 0 THEN <<>>
                          ELSE IF m \notin obs THEN g[m - 1] ELSE VisitOne(v, m, g[m - 1])
    BY <2>1 DEF VisitFrom
  <2>3. ASSUME NEW m \in 0 .. n + 1 PROVE h[m] = k[m]
    <3>1. k[m] = IF m = 0 THEN <<>>
                 ELSE IF m \notin obs THEN h[m - 1] ELSE VisitOne(v, m, h[m - 1])
      BY DEF VisitFrom
    <3>2. m # 0 => m - 1 \in 0 .. n /\ h[m - 1] = g[m - 1]
      OBVIOUS
    <3>3. CASE m = n + 1
      <4>1. m # 0 /\ m - 1 = n /\ h[m] = step
        BY <3>3
      <4> HIDE DEF h, k
      <4> QED BY <3>1, <3>2, <3>3, <4>1
    <3>4. CASE m # n + 1
      <4>1. h[m] = g[m] /\ m \in 0 .. n
        BY <3>4
      <4> HIDE DEF h, k
      <4> QED BY <2>2, <3>1, <3>2, <4>1
    <3> QED BY <3>3, <3>4
  <2>4. h = [m \in 0 .. n + 1 |-> h[m]] /\ k = [m \in 0 .. n + 1 |-> k[m]]
    BY DEF VisitFrom
  <2> HIDE DEF h
  <2>5. h = k
    <3> HIDE DEF k
    <3> QED BY <2>3, <2>4
  <2>6. n + 1 \in Nat
    OBVIOUS
  <2> QED BY <2>5, <2>6
<1> HIDE DEF G
<1>3. N \in G
  BY <1>1, <1>2, UpTo
<1> QED BY <1>3 DEF G

\* What it is at zero, and from one id to the next.
LEMMA VisitsSteps ==
  ASSUME NEW v, NEW obs, NEW N \in Nat
  PROVE  /\ Visits(v, obs, N)[0] = <<>>
         /\ \A n \in 0 .. N - 1 :
              Visits(v, obs, N)[n + 1] =
                IF n + 1 \notin obs THEN Visits(v, obs, N)[n]
                ELSE VisitOne(v, n + 1, Visits(v, obs, N)[n])
<1>1. \E g : g = VisitFrom(v, obs, N, g)
  BY VisitsExist
<1>2. Visits(v, obs, N) = VisitFrom(v, obs, N, Visits(v, obs, N))
  BY <1>1 DEF Visits
<1> DEFINE k == Visits(v, obs, N)
<1> HIDE DEF k
<1>3. k = [n \in 0 .. N |-> IF n = 0 THEN <<>>
                    ELSE IF n \notin obs THEN k[n - 1] ELSE VisitOne(v, n, k[n - 1])]
  BY <1>2 DEF k, VisitFrom
<1>4. k[0] = <<>>
  BY <1>3
<1>5. ASSUME NEW n \in 0 .. N - 1
      PROVE  k[n + 1] = IF n + 1 \notin obs THEN k[n] ELSE VisitOne(v, n + 1, k[n])
  <2>1. n + 1 \in 0 .. N /\ n + 1 # 0 /\ (n + 1) - 1 = n
    OBVIOUS
  <2>2. k[n + 1] = IF n + 1 \notin obs THEN k[(n + 1) - 1] ELSE VisitOne(v, n + 1, k[(n + 1) - 1])
    BY <1>3, <2>1
  <2> QED BY <2>1, <2>2
<1> QED BY <1>4, <1>5 DEF k

\* One more object, with what is attached to it, keeps the visit good.
LEMMA VisitOneGood ==
  ASSUME NEW v, NEW obs, NEW n \in obs, n \in Objects, NEW q, GoodVisit(q, v, obs),
         Kids(v, n) \in Seq(Objects)
  PROVE  GoodVisit(VisitOne(v, n, q), v, obs)
<1> DEFINE K == Kids(v, n)  m == Len(q)  l == Len(K)
           head == [of |-> n, at |-> 0]
           a == Append(q, head)
           t == [k \in 1 .. l |-> [of |-> K[k], at |-> m + 1]]
           u == a \o t
<1>1. m \in Nat /\ l \in Nat /\ q \in Seq(Items) /\ \A k \in 1 .. l : K[k] \in Objects
  BY Listed DEF GoodVisit
<1>2. head \in Items
  BY DEF Items
<1>3. /\ a \in Seq(Items) /\ Len(a) = m + 1
      /\ \A j \in 1 .. m : a[j] = q[j]
      /\ a[m + 1] = head
  <2> HIDE DEF head
  <2> QED BY <1>1, <1>2, AppendProperties
<1>4. VisitOne(v, n, q) = u
  <2>1. a = q \o <<head>>
    <3> HIDE DEF head
    <3> QED BY <1>1, <1>2, AppendIsConcat
  <2> QED BY <2>1 DEF VisitOne
<1>5. ASSUME NEW k \in 1 .. l PROVE [of |-> K[k], at |-> m + 1] \in Items
  BY <1>1 DEF Items
<1>6. t \in Seq(Items) /\ Len(t) = l /\ \A k \in 1 .. l : t[k] = [of |-> K[k], at |-> m + 1]
  <2>1. t \in Seq(Items)
    BY <1>1, <1>5, IsASeq
  <2>2. DOMAIN t = 1 .. Len(t) /\ Len(t) \in Nat
    BY <2>1, LenProperties
  <2>3. DOMAIN t = 1 .. l
    OBVIOUS
  <2> HIDE DEF t
  <2>4. Len(t) = l
    BY <1>1, <2>2, <2>3
  <2> QED BY <2>1, <2>4 DEF t
<1> HIDE DEF t, a
<1>7. u \in Seq(Items) /\ Len(u) = m + 1 + l
      /\ \A j \in 1 .. m + 1 + l : u[j] = IF j <= m + 1 THEN a[j] ELSE t[j - (m + 1)]
  <2>1. u \in Seq(Items) /\ Len(u) = Len(a) + Len(t)
        /\ \A j \in 1 .. Len(a) + Len(t) : u[j] = IF j <= Len(a) THEN a[j] ELSE t[j - Len(a)]
    <3>1. a \in Seq(Items)
      BY <1>3
    <3>2. t \in Seq(Items)
      BY <1>6
    <3> QED BY <3>1, <3>2, ConcatProperties
  <2> HIDE DEF u, m, l
  <2>2. Len(a) = m + 1 /\ Len(t) = l
    BY <1>3, <1>6
  <2> QED BY <2>1, <2>2
<1> HIDE DEF u
<1>8. ASSUME NEW j \in 1 .. m PROVE u[j] = q[j]
  BY <1>1, <1>3, <1>7
<1>9. u[m + 1] = head
  BY <1>1, <1>3, <1>7
<1>10. ASSUME NEW j \in 1 .. m + 1 + l, j > m + 1
       PROVE  \E k \in 1 .. l : u[j] = [of |-> K[k], at |-> m + 1]
  <2>1. j - (m + 1) \in 1 .. l /\ ~(j <= m + 1)
    BY <1>1, <1>10
  <2> QED BY <1>6, <1>7, <2>1
<1>11. ASSUME NEW j \in 1 .. m + 1 + l PROVE GoodItem(u, j, v, obs)
  <2>1. CASE j \in 1 .. m
    <3>1. GoodItem(q, j, v, obs) /\ u[j] = q[j]
      BY <1>8, <2>1 DEF GoodVisit
    <3>2. q[j].at # 0 => q[j].at \in 1 .. m
      BY <1>1, <2>1, <3>1 DEF GoodItem, Items
    <3>3. q[j].at # 0 => u[q[j].at] = q[q[j].at]
      BY <1>8, <3>2
    <3> QED BY <3>1, <3>3 DEF GoodItem
  <2>2. CASE j = m + 1
    <3>1. u[j] \in Items /\ u[j].at = 0 /\ u[j].of = n
      BY <1>2, <1>9, <2>2
    <3> QED BY <1>1, <2>2, <3>1 DEF GoodItem
  <2>3. CASE j > m + 1
    <3>1. PICK k \in 1 .. l : u[j] = [of |-> K[k], at |-> m + 1]
      BY <1>10, <2>3
    <3>2. u[j] \in Items /\ u[j].at = m + 1 /\ u[j].of = K[k]
      BY <1>5, <3>1
    <3>3. u[m + 1].at = 0 /\ u[m + 1].of = n
      BY <1>9
    <3>4. K[k] \in ToSet(K)
      BY Listed
    <3>5. m + 1 # 0 /\ m + 1 < j
      BY <1>1, <2>3
    <3> HIDE DEF K, l
    <3>6. u[j].of \in ToSet(Kids(v, u[u[j].at].of))
      BY <3>2, <3>3, <3>4 DEF K
    <3> QED BY <3>2, <3>3, <3>5, <3>6 DEF GoodItem
  <2> QED BY <1>1, <2>1, <2>2, <2>3
<1> QED BY <1>4, <1>7, <1>11 DEF GoodVisit

\* Every item visited is a selected object, or attached to one visited before.
LEMMA VisitedGood ==
  ASSUME next_object_id \in Nat, next_object_id <= MaxObjects,
         NEW v, NEW obs, \A n \in Objects : Kids(v, n) \in Seq(Objects)
  PROVE  GoodVisit(Visited(v, obs), v, obs)
<1> DEFINE N == next_object_id  k == Visits(v, obs, N)
           G == {n \in 0 .. N : GoodVisit(k[n], v, obs)}
<1>1. N \in Nat /\ N <= MaxObjects /\ MaxObjects \in Nat
  BY XornAssumption
<1> HIDE DEF N
<1>2. k[0] = <<>>
  BY <1>1, VisitsSteps
<1>3. ASSUME NEW n \in 0 .. N - 1
      PROVE  k[n + 1] = IF n + 1 \notin obs THEN k[n] ELSE VisitOne(v, n + 1, k[n])
  BY <1>1, VisitsSteps
<1>4. Visited(v, obs) = k[N]
  BY VisitedIs DEF N
<1> HIDE DEF k
<1>5. 0 \in G
  <2>1. <<>> \in Seq(Items) /\ Len(<<>>) = 0
    BY EmptySeq
  <2>2. GoodVisit(<<>>, v, obs)
    BY <2>1 DEF GoodVisit
  <2> QED BY <1>1, <1>2, <2>2
<1>6. ASSUME NEW n \in 0 .. N - 1, n \in G PROVE n + 1 \in G
  <2>1. n + 1 \in 0 .. N /\ n + 1 \in Objects
    BY <1>1 DEF Objects
  <2>2. GoodVisit(k[n], v, obs)
    BY <1>6
  <2>3. CASE n + 1 \notin obs
    BY <1>3, <2>1, <2>2, <2>3
  <2>4. CASE n + 1 \in obs
    <3>1. GoodVisit(VisitOne(v, n + 1, k[n]), v, obs)
      BY <2>1, <2>2, <2>4, VisitOneGood
    <3> QED BY <1>3, <2>1, <2>4, <3>1
  <2> QED BY <2>3, <2>4
<1>7. N \in 0 .. N
  BY <1>1
<1>8. N \in G
  <2> HIDE DEF G
  <2> QED BY <1>1, <1>5, <1>6, <1>7, UpTo
<1> QED BY <1>4, <1>8

-----------------------------------------------------------------------------
(* Counting references *)

\* The functions from subsets of D to R.
Partial(D, R) == UNION {[E -> R] : E \in SUBSET D}

ObstateRecs == [refcnt : Nat, type : Types, data : Data]

Heaps  == Partial(Addrs, ObstateRecs)
Tables == Partial(Objects, Addrs)

\* The object tables of all revisions; unallocated ones have no objects.
States(lv) == [r \in Revs |-> IF r \in DOMAIN lv THEN lv[r].obstates ELSE <<>>]

Users(pts, a) ==
  {p \in Revs \X Objects : p[2] \in DOMAIN pts[p[1]] /\ pts[p[1]][p[2]] = a}

AllPresent(pts, h) == \A r \in Revs : \A ob \in DOMAIN pts[r] : pts[r][ob] \in DOMAIN h
CountExact(pts, h, a) == h[a].refcnt > 0 /\ h[a].refcnt = Cardinality(Users(pts, a))
Exact(pts, h) == AllPresent(pts, h) /\ \A a \in DOMAIN h : CountExact(pts, h, a)

\* What a state is never changes while it is allocated.
SameState(h, h2, a) == h2[a].type = h[a].type /\ h2[a].data = h[a].data
SameStates(h, h2) == \A a \in DOMAIN h \cap DOMAIN h2 : SameState(h, h2, a)

\* What it means to be a function from a subset of D to R.
LEMMA PartialFunction ==
  ASSUME NEW D, NEW R, NEW f
  PROVE  f \in Partial(D, R) <=> DOMAIN f \in SUBSET D /\ f \in [DOMAIN f -> R]
BY DEF Partial

\* A function from a given subset is one of them.
LEMMA PartialGiven ==
  ASSUME NEW D, NEW R, NEW E \in SUBSET D, NEW f \in [E -> R]
  PROVE  f \in Partial(D, R)
BY DEF Partial

\* There are finitely many object ids.
LEMMA ObjectsFinite == IsFiniteSet(Objects)
BY XornAssumption, FS_Interval DEF Objects

\* The size of a finite set that loses some elements and gets new ones.
LEMMA Exchanged ==
  ASSUME NEW U, IsFiniteSet(U), NEW O \in SUBSET U, NEW I, IsFiniteSet(I), I \cap (U \ O) = {}
  PROVE  /\ Cardinality((U \ O) \cup I) = Cardinality(U) - Cardinality(O) + Cardinality(I)
         /\ IsFiniteSet((U \ O) \cup I)
<1>1. IsFiniteSet(O) /\ IsFiniteSet(U \ O)
  BY FS_Subset
<1>2. Cardinality({}) = 0
  BY FS_EmptySet
<1>3. Cardinality((U \ O) \cup O) = Cardinality(U \ O) + Cardinality(O) - Cardinality((U \ O) \cap O)
  BY <1>1, FS_Union
<1>4. (U \ O) \cup O = U /\ (U \ O) \cap O = {} /\ (U \ O) \cap I = {}
  OBVIOUS
<1>5. /\ Cardinality((U \ O) \cup I) = Cardinality(U \ O) + Cardinality(I) - Cardinality((U \ O) \cap I)
      /\ IsFiniteSet((U \ O) \cup I)
  BY <1>1, FS_Union
<1>6. /\ Cardinality(U) \in Nat /\ Cardinality(O) \in Nat /\ Cardinality(I) \in Nat
      /\ Cardinality(U \ O) \in Nat
  BY <1>1, FS_CardinalityType
<1>7. Cardinality(U) = Cardinality(U \ O) + Cardinality(O)
  <2>1. Cardinality(U) = Cardinality(U \ O) + Cardinality(O) - Cardinality({})
    BY <1>3, <1>4
  <2> QED BY <1>2, <1>6, <2>1
<1>8. Cardinality((U \ O) \cup I) = Cardinality(U \ O) + Cardinality(I)
  <2>1. Cardinality((U \ O) \cup I) = Cardinality(U \ O) + Cardinality(I) - Cardinality({})
    BY <1>4, <1>5
  <2> QED BY <1>2, <1>6, <2>1
<1> QED BY <1>5, <1>6, <1>7, <1>8

\* The uses of the address a by the objects of a table f of the revision r.
Uses(r, f, a) == {r} \X {ob \in DOMAIN f : f[ob] = a}

\* The uses of an address by one table are as many as the table's pointers to it.
LEMMA UsesCounted ==
  ASSUME NEW r, NEW f \in Tables, NEW a
  PROVE  /\ IsFiniteSet(Uses(r, f, a))
         /\ Cardinality(Uses(r, f, a)) = Pointers(f, a)
         /\ Pointers(f, a) \in Nat
<1> DEFINE S == {ob \in DOMAIN f : f[ob] = a}
           g == [ob \in S |-> <<r, ob>>]
<1>1. S \in SUBSET Objects
  BY PartialFunction DEF Tables
<1>2. IsFiniteSet(S)
  BY <1>1, ObjectsFinite, FS_Subset
<1>3. g \in [S -> Uses(r, f, a)]
  BY DEF Uses
<1>4. \A x, y \in S : g[x] = g[y] => x = y
  OBVIOUS
<1>5. \A t \in Uses(r, f, a) : \E x \in S : g[x] = t
  BY DEF Uses
<1> HIDE DEF g
<1>6. g \in Bijection(S, Uses(r, f, a))
  BY <1>3, <1>4, <1>5 DEF Bijection, Injection, Surjection, IsInjective
<1>7. ExistsBijection(S, Uses(r, f, a))
  BY <1>6 DEF ExistsBijection
<1> HIDE DEF S
<1>8. IsFiniteSet(Uses(r, f, a)) /\ Cardinality(Uses(r, f, a)) = Cardinality(S)
  BY <1>2, <1>7, FS_Bijection
<1>9. Cardinality(S) \in Nat
  BY <1>2, FS_CardinalityType
<1>10. Pointers(f, a) = Cardinality(S)
  BY DEF Pointers, S
<1> QED BY <1>8, <1>9, <1>10

\* The uses of an address by all revisions can be counted.
LEMMA UsersFinite ==
  ASSUME NEW pts, NEW a
  PROVE  IsFiniteSet(Users(pts, a)) /\ Cardinality(Users(pts, a)) \in Nat
<1>1. IsFiniteSet(Revs \X Objects)
  BY XornAssumption, ObjectsFinite, FS_Product
<1>2. Users(pts, a) \in SUBSET (Revs \X Objects)
  BY DEF Users
<1> QED BY <1>1, <1>2, FS_Subset, FS_CardinalityType

\* The table of the revision r loses the entries `out` and gets those of `in`.
TableChanges(pts, pts2, r, out, in) ==
  /\ \A q \in Revs : q # r => pts2[q] = pts[q]
  /\ DOMAIN out \in SUBSET DOMAIN pts[r]
  /\ \A ob \in DOMAIN out : out[ob] = pts[r][ob]
  /\ DOMAIN in \cap (DOMAIN pts[r] \ DOMAIN out) = {}
  /\ DOMAIN pts2[r] = (DOMAIN pts[r] \ DOMAIN out) \cup DOMAIN in
  /\ \A ob \in DOMAIN in : pts2[r][ob] = in[ob]
  /\ \A ob \in DOMAIN pts[r] \ DOMAIN out : pts2[r][ob] = pts[r][ob]

\* When one table changes, the number of uses changes by its pointers.
LEMMA UsersExchanged ==
  ASSUME NEW pts \in [Revs -> Tables], NEW pts2 \in [Revs -> Tables], NEW r \in Revs,
         NEW out \in Tables, NEW in \in Tables, NEW a, TableChanges(pts, pts2, r, out, in)
  PROVE  Cardinality(Users(pts2, a))
           = Cardinality(Users(pts, a)) - Pointers(out, a) + Pointers(in, a)
<1> DEFINE U == Users(pts, a)  O == Uses(r, out, a)  I == Uses(r, in, a)
<1>1. O \in SUBSET U
  <2>1. ASSUME NEW p \in O PROVE p \in U
    <3>1. PICK ob \in DOMAIN out : p = <<r, ob>> /\ out[ob] = a
      BY DEF Uses
    <3>2. ob \in DOMAIN pts[r] /\ pts[r][ob] = a
      BY <3>1 DEF TableChanges
    <3>3. ob \in Objects
      BY PartialFunction DEF Tables
    <3> QED BY <3>1, <3>2, <3>3 DEF Users
  <2> QED BY <2>1
<1>2. I \cap (U \ O) = {}
  <2>1. SUFFICES ASSUME NEW p \in I, p \in U, p \notin O PROVE FALSE
    OBVIOUS
  <2>2. PICK ob \in DOMAIN in : p = <<r, ob>> /\ in[ob] = a
    BY DEF Uses
  <2>3. ob \in DOMAIN pts[r] /\ pts[r][ob] = a
    BY <2>1, <2>2 DEF Users
  <2>4. ob \in DOMAIN out
    BY <2>2, <2>3 DEF TableChanges
  <2>5. out[ob] = a
    BY <2>3, <2>4 DEF TableChanges
  <2> QED BY <2>1, <2>2, <2>4, <2>5 DEF Uses
<1>3. ASSUME NEW q \in Revs, NEW ob \in Objects
      PROVE  <<q, ob>> \in Users(pts2, a) <=> <<q, ob>> \in (U \ O) \cup I
  <2>1. <<q, ob>> \in Users(pts2, a) <=> ob \in DOMAIN pts2[q] /\ pts2[q][ob] = a
    BY DEF Users
  <2>2. <<q, ob>> \in U <=> ob \in DOMAIN pts[q] /\ pts[q][ob] = a
    BY DEF Users
  <2>3. <<q, ob>> \in O <=> q = r /\ ob \in DOMAIN out /\ out[ob] = a
    BY DEF Uses
  <2>4. <<q, ob>> \in I <=> q = r /\ ob \in DOMAIN in /\ in[ob] = a
    BY DEF Uses
  <2> HIDE DEF U, O, I
  <2>5. CASE q # r
    <3>1. pts2[q] = pts[q]
      BY <2>5 DEF TableChanges
    <3> QED BY <2>1, <2>2, <2>3, <2>4, <2>5, <3>1
  <2>6. CASE q = r
    <3>1. CASE ob \in DOMAIN in
      <4>1. ob \in DOMAIN pts2[r] /\ pts2[r][ob] = in[ob] /\ (ob \in DOMAIN pts[r] => ob \in DOMAIN out)
        BY <3>1 DEF TableChanges
      <4>2. ob \in DOMAIN out => out[ob] = pts[r][ob]
        BY DEF TableChanges
      <4> QED BY <2>1, <2>2, <2>3, <2>4, <2>6, <3>1, <4>1, <4>2
    <3>2. CASE ob \notin DOMAIN in /\ ob \in DOMAIN out
      <4>1. ob \notin DOMAIN pts2[r] /\ ob \in DOMAIN pts[r] /\ out[ob] = pts[r][ob]
        BY <3>2 DEF TableChanges
      <4> QED BY <2>1, <2>2, <2>3, <2>4, <2>6, <3>2, <4>1
    <3>3. CASE ob \notin DOMAIN in /\ ob \notin DOMAIN out
      <4>1. ob \in DOMAIN pts2[r] <=> ob \in DOMAIN pts[r]
        BY <3>3 DEF TableChanges
      <4>2. ob \in DOMAIN pts[r] => pts2[r][ob] = pts[r][ob]
        BY <3>3 DEF TableChanges
      <4> QED BY <2>1, <2>2, <2>3, <2>4, <2>6, <3>3, <4>1, <4>2
    <3> QED BY <3>1, <3>2, <3>3
  <2> QED BY <2>5, <2>6
<1>4. Users(pts2, a) = (U \ O) \cup I
  <2>1. Users(pts2, a) \in SUBSET (Revs \X Objects) /\ U \in SUBSET (Revs \X Objects)
    BY DEF Users
  <2>2. I \in SUBSET (Revs \X Objects)
    BY PartialFunction DEF Tables, Uses
  <2> HIDE DEF U, O, I
  <2>3. \A p \in Revs \X Objects : \E q \in Revs, ob \in Objects : p = <<q, ob>>
    OBVIOUS
  <2> QED BY <1>3, <2>1, <2>2, <2>3
<1>5. /\ IsFiniteSet(O) /\ Cardinality(O) = Pointers(out, a)
      /\ IsFiniteSet(I) /\ Cardinality(I) = Pointers(in, a)
  BY UsesCounted
<1>6. IsFiniteSet(U)
  BY UsersFinite
<1> HIDE DEF U, O, I
<1>7. Cardinality((U \ O) \cup I) = Cardinality(U) - Cardinality(O) + Cardinality(I)
  BY <1>1, <1>2, <1>5, <1>6, Exchanged
<1> QED BY <1>4, <1>5, <1>7 DEF U

\* h1 is h with the references of the table `in` added: to new states, too.
ReferencesAdded(h, h1, in) ==
  /\ DOMAIN h \in SUBSET DOMAIN h1
  /\ \A ob \in DOMAIN in : in[ob] \in DOMAIN h1
  /\ \A a \in DOMAIN h : h1[a].refcnt = h[a].refcnt + Pointers(in, a) /\ SameState(h, h1, a)
  /\ \A a \in DOMAIN h1 : a \notin DOMAIN h => h1[a].refcnt = Pointers(in, a)

\* An allocated address is an address, and has a state with a natural count.
LEMMA HeapRecord ==
  ASSUME NEW h \in Heaps, NEW a \in DOMAIN h
  PROVE  h[a] \in ObstateRecs /\ a \in Addrs /\ h[a].refcnt \in Nat
<1>1. DOMAIN h \in SUBSET Addrs /\ h \in [DOMAIN h -> ObstateRecs]
  BY PartialFunction DEF Heaps
<1>2. h[a] \in ObstateRecs /\ a \in Addrs
  BY <1>1
<1> QED BY <1>2 DEF ObstateRecs

\* Dropped deletes the states whose last references go and counts the others down.
LEMMA DroppedIs ==
  ASSUME NEW h \in Heaps, NEW out \in Tables
  PROVE  /\ \A a \in DOMAIN h : a \in DOMAIN Dropped(h, out) <=> h[a].refcnt # Pointers(out, a)
         /\ DOMAIN Dropped(h, out) \in SUBSET DOMAIN h
         /\ \A a \in DOMAIN Dropped(h, out) :
              /\ Dropped(h, out)[a] = [h[a] EXCEPT !.refcnt = @ - Pointers(out, a)]
              /\ Dropped(h, out)[a].refcnt = h[a].refcnt - Pointers(out, a)
              /\ SameState(h, Dropped(h, out), a)
<1> DEFINE kept == {a \in DOMAIN h : h[a].refcnt # Pointers(out, a)}
           d == Dropped(h, out)
<1>1. DOMAIN d = kept
  BY DEF Dropped
<1>2. ASSUME NEW a \in kept
      PROVE  /\ d[a] = [h[a] EXCEPT !.refcnt = @ - Pointers(out, a)]
             /\ d[a].refcnt = h[a].refcnt - Pointers(out, a)
             /\ SameState(h, d, a)
  <2>1. d[a] = [h[a] EXCEPT !.refcnt = @ - Pointers(out, a)]
    BY DEF Dropped
  <2>2. h[a] \in ObstateRecs
    BY HeapRecord
  <2> HIDE DEF d
  <2> QED BY <2>1, <2>2 DEF ObstateRecs, SameState
<1> HIDE DEF d
<1>3. \A a \in DOMAIN h : a \in kept <=> h[a].refcnt # Pointers(out, a)
  OBVIOUS
<1>4. kept \in SUBSET DOMAIN h
  OBVIOUS
<1> QED BY <1>1, <1>2, <1>3, <1>4 DEF d

(* The step that all operations take: a table loses entries and gets others, *)
(* the references of the new ones are taken first, then those of the old    *)
(* ones are dropped.                                                         *)
LEMMA ExactStep ==
  ASSUME NEW pts \in [Revs -> Tables], NEW pts2 \in [Revs -> Tables], NEW r \in Revs,
         NEW out \in Tables, NEW in \in Tables, TableChanges(pts, pts2, r, out, in),
         NEW h \in Heaps, NEW h1 \in Heaps, ReferencesAdded(h, h1, in),
         Exact(pts, h)
  PROVE  /\ Dropped(h1, out) \in Heaps
         /\ Exact(pts2, Dropped(h1, out))
         /\ SameStates(h, Dropped(h1, out))
<1> DEFINE h2 == Dropped(h1, out)
<1>1. ASSUME NEW a \in DOMAIN h1 PROVE a \in DOMAIN h2 <=> h1[a].refcnt # Pointers(out, a)
  BY DroppedIs
<1>2. DOMAIN h2 \in SUBSET DOMAIN h1
  BY DroppedIs
<1>3. ASSUME NEW a \in DOMAIN h2
      PROVE  /\ h2[a] = [h1[a] EXCEPT !.refcnt = @ - Pointers(out, a)]
             /\ h2[a].refcnt = h1[a].refcnt - Pointers(out, a)
             /\ SameState(h1, h2, a)
  BY DroppedIs
<1> HIDE DEF h2
<1>4. ASSUME NEW a \in DOMAIN h1
      PROVE  Cardinality(Users(pts2, a)) = h1[a].refcnt - Pointers(out, a)
  <2>1. Cardinality(Users(pts2, a))
          = Cardinality(Users(pts, a)) - Pointers(out, a) + Pointers(in, a)
    BY UsersExchanged
  <2>2. Pointers(out, a) \in Nat /\ Pointers(in, a) \in Nat
    BY UsesCounted
  <2>3. Cardinality(Users(pts, a)) \in Nat
    BY UsersFinite
  <2>4. h1[a].refcnt = Cardinality(Users(pts, a)) + Pointers(in, a)
    <3>1. CASE a \in DOMAIN h
      <4>1. h1[a].refcnt = h[a].refcnt + Pointers(in, a)
        BY <3>1 DEF ReferencesAdded
      <4>2. h[a].refcnt = Cardinality(Users(pts, a))
        BY <3>1 DEF Exact, CountExact
      <4> QED BY <4>1, <4>2
    <3>2. CASE a \notin DOMAIN h
      <4>1. h1[a].refcnt = Pointers(in, a)
        BY <3>2 DEF ReferencesAdded
      <4>2. Users(pts, a) = {}
        BY <3>2 DEF Exact, AllPresent, Users
      <4>3. Cardinality(Users(pts, a)) = 0
        BY <4>2, FS_EmptySet
      <4> QED BY <2>2, <4>1, <4>3
    <3> QED BY <3>1, <3>2
  <2> QED BY <2>1, <2>2, <2>3, <2>4
<1>5. ASSUME NEW a \in DOMAIN h1 PROVE h1[a].refcnt \in Nat /\ Pointers(out, a) \in Nat
  BY HeapRecord, UsesCounted
<1>6. ASSUME NEW a \in DOMAIN h2 PROVE CountExact(pts2, h2, a)
  <2>1. a \in DOMAIN h1
    BY <1>2
  <2>2. h2[a].refcnt = Cardinality(Users(pts2, a))
    BY <1>3, <1>4, <2>1
  <2>3. Cardinality(Users(pts2, a)) \in Nat
    BY UsersFinite
  <2>4. Cardinality(Users(pts2, a)) # 0
    BY <1>1, <1>4, <1>5, <2>1
  <2> QED BY <2>2, <2>3, <2>4 DEF CountExact
<1>7. AllPresent(pts2, h2)
  <2>1. SUFFICES ASSUME NEW q \in Revs, NEW ob \in DOMAIN pts2[q]
                 PROVE  pts2[q][ob] \in DOMAIN h2
    BY DEF AllPresent
  <2> DEFINE a == pts2[q][ob]
  <2>2. a \in DOMAIN h1
    <3>1. CASE q # r
      <4>1. pts2[q] = pts[q]
        BY <3>1 DEF TableChanges
      <4>2. a \in DOMAIN h
        BY <4>1 DEF Exact, AllPresent
      <4> QED BY <4>2 DEF ReferencesAdded
    <3>2. CASE q = r /\ ob \in DOMAIN in
      <4>1. a = in[ob]
        BY <3>2 DEF TableChanges
      <4> QED BY <3>2, <4>1 DEF ReferencesAdded
    <3>3. CASE q = r /\ ob \notin DOMAIN in
      <4>1. ob \in DOMAIN pts[r] \ DOMAIN out /\ a = pts[r][ob]
        BY <2>1, <3>3 DEF TableChanges
      <4>2. a \in DOMAIN h
        BY <4>1 DEF Exact, AllPresent
      <4> QED BY <4>2 DEF ReferencesAdded
    <3> QED BY <3>1, <3>2, <3>3
  <2>3. ob \in Objects
    <3>1. pts2[q] \in Partial(Objects, Addrs)
      BY DEF Tables
    <3> QED BY <3>1, PartialFunction
  <2>4. <<q, ob>> \in Users(pts2, a)
    BY <2>3 DEF Users
  <2> HIDE DEF a
  <2>5. Cardinality(Users(pts2, a)) # 0
    BY <2>4, UsersFinite, FS_EmptySet
  <2>6. a \in DOMAIN h2
    BY <1>1, <1>4, <1>5, <2>2, <2>5
  <2> QED BY <2>6 DEF a
<1>8. h2 \in Heaps
  <2>1. DOMAIN h2 \in SUBSET Addrs
    BY <1>2, HeapRecord
  <2>2. ASSUME NEW a \in DOMAIN h2 PROVE h2[a] \in ObstateRecs
    <3>1. h1[a] \in ObstateRecs
      BY <1>2, HeapRecord
    <3>2. h2[a].refcnt \in Nat
      BY <1>6, UsersFinite DEF CountExact
    <3>3. h2[a] = [h1[a] EXCEPT !.refcnt = h2[a].refcnt]
      BY <1>3
    <3> QED BY <3>1, <3>2, <3>3 DEF ObstateRecs
  <2>3. h2 = [a \in DOMAIN h2 |-> h2[a]]
    BY DEF h2, Dropped
  <2>4. h2 \in [DOMAIN h2 -> ObstateRecs]
    BY <2>2, <2>3
  <2> QED BY <2>1, <2>4, PartialGiven DEF Heaps
<1>9. SameStates(h, h2)
  <2>1. ASSUME NEW a \in DOMAIN h, a \in DOMAIN h2 PROVE SameState(h, h2, a)
    <3>1. SameState(h, h1, a)
      BY DEF ReferencesAdded
    <3>2. SameState(h1, h2, a)
      BY <1>3, <2>1
    <3> QED BY <3>1, <3>2 DEF SameState
  <2> QED BY <2>1 DEF SameStates
<1> QED BY <1>6, <1>7, <1>8, <1>9 DEF Exact, h2

-----------------------------------------------------------------------------
(* The object tree of one revision *)

Lists     == Partial(Objects \cup {NULL}, Seq(Objects))
Parents   == Partial(Objects, Objects \cup {NULL})
Revisions == [is_transient : BOOLEAN, obstates : Tables, children : Lists, parent : Parents]

\* The list of k has the objects whose parent is k, each once.
ListExact(v, k) ==
  /\ IsInjective(Kids(v, k))
  /\ ToSet(Kids(v, k)) = {ob \in DOMAIN v.parent : v.parent[ob] = k}

Linked(v) ==
  /\ DOMAIN v.parent = DOMAIN v.obstates
  /\ DOMAIN v.children \in SUBSET (DOMAIN v.obstates \cup {NULL})
  /\ \A ob \in DOMAIN v.parent : v.parent[ob] \in DOMAIN v.obstates \cup {NULL}
  /\ \A k \in Objects \cup {NULL} : ListExact(v, k)

\* What is attached is a text, and to a net or component.
KindRight(v, h, ob) ==
  v.parent[ob] # NULL => /\ v.parent[ob] \in DOMAIN v.obstates
                         /\ h[v.obstates[ob]].type = "text"
                         /\ h[v.obstates[v.parent[ob]]].type \in Holders
Kinds(v, h) == \A ob \in DOMAIN v.parent : KindRight(v, h, ob)

\* w reads like v: only entries with empty lists may differ.
ReadsAs(w, v) ==
  /\ w.obstates = v.obstates /\ w.parent = v.parent /\ w.is_transient = v.is_transient
  /\ \A k \in Objects \cup {NULL} : Kids(w, k) = Kids(v, k)

\* The fields of a revision and their types.
LEMMA RevisionIs ==
  ASSUME NEW v \in Revisions
  PROVE  /\ v.obstates \in Tables /\ v.children \in Lists /\ v.parent \in Parents
         /\ v.is_transient \in BOOLEAN
         /\ v = [is_transient |-> v.is_transient, obstates |-> v.obstates,
                 children |-> v.children, parent |-> v.parent]
BY DEF Revisions

\* An object table maps objects to addresses.
LEMMA TableIs ==
  ASSUME NEW f \in Tables
  PROVE  /\ DOMAIN f \in SUBSET Objects
         /\ \A ob \in DOMAIN f : f[ob] \in Addrs /\ ob \in Objects
         /\ f = [ob \in DOMAIN f |-> f[ob]]
BY PartialFunction DEF Tables

\* The map of parents maps objects to objects or NULL.
LEMMA ParentsAre ==
  ASSUME NEW f \in Parents
  PROVE  /\ DOMAIN f \in SUBSET Objects
         /\ \A ob \in DOMAIN f : f[ob] \in Objects \cup {NULL} /\ ob \in Objects
         /\ f = [ob \in DOMAIN f |-> f[ob]]
BY PartialFunction DEF Parents

\* The map of children maps objects or NULL to lists of objects.
LEMMA ListsAre ==
  ASSUME NEW f \in Lists
  PROVE  /\ DOMAIN f \in SUBSET (Objects \cup {NULL})
         /\ \A k \in DOMAIN f : f[k] \in Seq(Objects)
         /\ f = [k \in DOMAIN f |-> f[k]]
BY PartialFunction DEF Lists

\* The list of an entry, or of a missing one, is a list of objects.
LEMMA KidsListed ==
  ASSUME NEW v \in Revisions, NEW k
  PROVE  Kids(v, k) \in Seq(Objects)
<1>1. v.children \in Lists /\ <<>> \in Seq(Objects)
  BY RevisionIs, EmptySeq
<1>2. k \in DOMAIN v.children => v.children[k] \in Seq(Objects)
  BY <1>1, ListsAre
<1> QED BY <1>1, <1>2 DEF Kids

\* NULL is not the id of an object.
LEMMA NullIsNoObject == NULL \notin Objects
BY DEF NULL, Objects

\* Put changes one entry.
LEMMA PutIs ==
  ASSUME NEW f, NEW k, NEW x
  PROVE  /\ DOMAIN Put(f, k, x) = DOMAIN f \cup {k}
         /\ Put(f, k, x)[k] = x
         /\ \A l \in DOMAIN f : l # k => Put(f, k, x)[l] = f[l]
BY DEF Put

\* Put keeps the type of a map.
LEMMA PutTyped ==
  ASSUME NEW D, NEW R, NEW f \in Partial(D, R), NEW k \in D, NEW x \in R
  PROVE  Put(f, k, x) \in Partial(D, R)
<1>1. DOMAIN f \in SUBSET D /\ \A l \in DOMAIN f : f[l] \in R
  BY PartialFunction
<1>2. Put(f, k, x) \in [DOMAIN f \cup {k} -> R]
  BY <1>1 DEF Put
<1> QED BY <1>1, <1>2, PartialGiven

\* A revision that reads like a linked one is linked, and attaches the same kinds.
LEMMA ReadsAsLinked ==
  ASSUME NEW v \in Revisions, NEW w \in Revisions, Linked(v), ReadsAs(w, v),
         DOMAIN w.children \in SUBSET (DOMAIN v.children \cup DOMAIN v.obstates \cup {NULL})
  PROVE  Linked(w) /\ \A h : Kinds(v, h) => Kinds(w, h)
<1>1. \A k \in Objects \cup {NULL} : ListExact(v, k) => ListExact(w, k)
  BY DEF ReadsAs, ListExact
<1> QED BY <1>1 DEF Linked, ReadsAs, Kinds, KindRight

\* Entries with empty lists cannot be read.
LEMMA EntriesRead ==
  ASSUME NEW v \in Revisions, NEW ks \in SUBSET (Objects \cup {NULL})
  PROVE  /\ WithEntries(v, ks) \in Revisions
         /\ ReadsAs(WithEntries(v, ks), v)
         /\ DOMAIN WithEntries(v, ks).children = DOMAIN v.children \cup ks
<1> DEFINE c == Joined(v.children, [k \in ks |-> <<>>])
           w == WithEntries(v, ks)
<1>1. w = [v EXCEPT !.children = c]
  BY DEF WithEntries
<1>2. /\ DOMAIN c = DOMAIN v.children \cup ks
      /\ \A k \in DOMAIN c : c[k] = Kids(v, k)
      /\ c \in [DOMAIN v.children \cup ks -> Seq(Objects)]
  <2>1. \A k \in DOMAIN v.children \cup ks : c[k] = Kids(v, k)
    BY DEF Joined, Kids
  <2>2. DOMAIN c = DOMAIN v.children \cup ks /\ c = [k \in DOMAIN c |-> c[k]]
    BY DEF Joined
  <2> HIDE DEF c
  <2>3. \A k \in DOMAIN c : c[k] \in Seq(Objects)
    BY <2>1, <2>2, KidsListed
  <2> QED BY <2>1, <2>2, <2>3
<1>3. c \in Lists
  <2>1. DOMAIN v.children \cup ks \in SUBSET (Objects \cup {NULL})
    BY RevisionIs, ListsAre
  <2> QED BY <1>2, <2>1, PartialGiven DEF Lists
<1> HIDE DEF w, c
<1>4. /\ w.obstates = v.obstates /\ w.parent = v.parent /\ w.is_transient = v.is_transient
      /\ w.children = c /\ w \in Revisions
  BY <1>1, <1>3 DEF Revisions
<1>5. \A k : Kids(w, k) = Kids(v, k)
  BY <1>2, <1>4 DEF Kids
<1> QED BY <1>2, <1>4, <1>5 DEF ReadsAs, w

\* ob at the end of the top level, before it has a state.
Attached(v, ob) == WithParent(PushedBack(v, ob, NULL), ob, NULL)

\* What attaching an object to the top level changes.
LEMMA AttachedIs ==
  ASSUME NEW v \in Revisions, NEW ob \in Objects
  PROVE  LET w == Attached(v, ob) IN
         /\ w \in Revisions
         /\ w.obstates = v.obstates /\ w.is_transient = v.is_transient
         /\ w.parent = Put(v.parent, ob, NULL)
         /\ DOMAIN w.children = DOMAIN v.children \cup {NULL}
         /\ Kids(w, NULL) = Append(Kids(v, NULL), ob)
         /\ \A k : k # NULL => Kids(w, k) = Kids(v, k)
<1> DEFINE s == Append(Kids(v, NULL), ob)
           c == Put(v.children, NULL, s)
           p == Put(v.parent, ob, NULL)
           w == Attached(v, ob)
<1>1. w = [[v EXCEPT !.children = c] EXCEPT !.parent = p]
  <2>1. PushedBack(v, ob, NULL).parent = v.parent
    BY RevisionIs DEF PushedBack
  <2> QED BY <2>1 DEF Attached, WithParent, PushedBack
<1>2. s \in Seq(Objects)
  BY KidsListed, AppendProperties
<1>3. c \in Lists
  <2>1. v.children \in Lists /\ NULL \in Objects \cup {NULL}
    BY RevisionIs
  <2> HIDE DEF s
  <2> QED BY <1>2, <2>1, PutTyped DEF Lists
<1>4. p \in Parents
  <2>1. v.parent \in Parents /\ NULL \in Objects \cup {NULL}
    BY RevisionIs
  <2> QED BY <2>1, PutTyped DEF Parents
<1>5. DOMAIN c = DOMAIN v.children \cup {NULL} /\ c[NULL] = s
      /\ \A k \in DOMAIN v.children : k # NULL => c[k] = v.children[k]
  BY DEF Put
<1> HIDE DEF c, p, w, s
<1>6. /\ w.obstates = v.obstates /\ w.is_transient = v.is_transient
      /\ w.parent = p /\ w.children = c /\ w \in Revisions
  BY <1>1, <1>3, <1>4 DEF Revisions
<1>7. Kids(w, NULL) = s
  BY <1>5, <1>6 DEF Kids
<1>8. \A k : k # NULL => Kids(w, k) = Kids(v, k)
  BY <1>5, <1>6 DEF Kids
<1> QED BY <1>5, <1>6, <1>7, <1>8 DEF w, p, s

\* What giving an object a state changes.
LEMMA TablePut ==
  ASSUME NEW v \in Revisions, NEW ob \in Objects, NEW a \in Addrs
  PROVE  LET w == [v EXCEPT !.obstates = Put(@, ob, a)] IN
         /\ w \in Revisions
         /\ w.obstates = Put(v.obstates, ob, a) /\ w.is_transient = v.is_transient
         /\ w.parent = v.parent /\ w.children = v.children
         /\ \A k : Kids(w, k) = Kids(v, k)
<1> DEFINE t == Put(v.obstates, ob, a)  w == [v EXCEPT !.obstates = t]
<1>1. t \in Tables
  <2>1. v.obstates \in Tables
    BY RevisionIs
  <2> QED BY <2>1, PutTyped DEF Tables
<1> HIDE DEF t
<1>2. /\ w.obstates = t /\ w.is_transient = v.is_transient
      /\ w.parent = v.parent /\ w.children = v.children /\ w \in Revisions
  BY <1>1 DEF Revisions
<1> HIDE DEF w
<1>3. \A k : Kids(w, k) = Kids(v, k)
  BY <1>2 DEF Kids
<1> QED BY <1>2, <1>3 DEF w, t

(* A new object at the end of the top level. *)
LEMMA AttachedLinked ==
  ASSUME NEW v \in Revisions, Linked(v), NEW ob \in Objects, ob \notin DOMAIN v.parent,
         NEW a \in Addrs
  PROVE  Linked([Attached(v, ob) EXCEPT !.obstates = Put(@, ob, a)])
<1> DEFINE u == Attached(v, ob)
           w == [u EXCEPT !.obstates = Put(@, ob, a)]
<1>1. /\ u \in Revisions
      /\ u.obstates = v.obstates
      /\ u.parent = Put(v.parent, ob, NULL)
      /\ DOMAIN u.children = DOMAIN v.children \cup {NULL}
      /\ Kids(u, NULL) = Append(Kids(v, NULL), ob)
      /\ \A k : k # NULL => Kids(u, k) = Kids(v, k)
  BY AttachedIs
<1> HIDE DEF u
<1>2. /\ w.obstates = Put(v.obstates, ob, a)
      /\ w.parent = u.parent /\ w.children = u.children
      /\ \A k : Kids(w, k) = Kids(u, k)
  BY <1>1, TablePut
<1> HIDE DEF w
<1>3. /\ DOMAIN w.parent = DOMAIN v.parent \cup {ob}
      /\ w.parent[ob] = NULL
      /\ \A o \in DOMAIN v.parent : w.parent[o] = v.parent[o]
  <2>1. w.parent = Put(v.parent, ob, NULL)
    BY <1>1, <1>2
  <2> QED BY <2>1 DEF Put
<1>4. DOMAIN w.obstates = DOMAIN v.obstates \cup {ob}
  BY <1>2 DEF Put
<1>5. DOMAIN w.children = DOMAIN v.children \cup {NULL}
  BY <1>1, <1>2
<1>6. Kids(v, NULL) \in Seq(Objects)
  BY KidsListed
<1>7. ListExact(w, NULL)
  <2>1. ListExact(v, NULL)
    BY DEF Linked
  <2>2. ob \notin ToSet(Kids(v, NULL))
    BY <2>1 DEF ListExact
  <2>3. /\ ToSet(Append(Kids(v, NULL), ob)) = ToSet(Kids(v, NULL)) \cup {ob}
        /\ IsInjective(Append(Kids(v, NULL), ob))
    BY <1>6, <2>1, <2>2, AppendListed DEF ListExact
  <2>4. Kids(w, NULL) = Append(Kids(v, NULL), ob)
    BY <1>1, <1>2
  <2> QED BY <1>3, <2>1, <2>3, <2>4 DEF ListExact
<1>8. ASSUME NEW k \in Objects PROVE ListExact(w, k)
  <2>1. k # NULL
    BY NullIsNoObject
  <2>2. ListExact(v, k)
    BY DEF Linked
  <2>3. Kids(w, k) = Kids(v, k)
    BY <1>1, <1>2, <2>1
  <2> QED BY <1>3, <2>1, <2>2, <2>3 DEF ListExact
<1>9. \A o \in DOMAIN w.parent : w.parent[o] \in DOMAIN w.obstates \cup {NULL}
  BY <1>3, <1>4 DEF Linked
<1> QED BY <1>3, <1>4, <1>5, <1>7, <1>8, <1>9 DEF Linked, w, u

(* Whatever step of appending fails, the revision reads as before. *)
LEMMA AppendFailuresRead ==
  ASSUME NEW v \in Revisions, NEW ob \in Objects, ob \notin DOMAIN v.parent,
         NEW w \in AppendFailures(v, ob)
  PROVE  /\ w \in Revisions
         /\ ReadsAs(w, v)
         /\ DOMAIN w.children \in SUBSET (DOMAIN v.children \cup {NULL})
<1> DEFINE s == Kids(v, NULL)
           c == Put(v.children, NULL, s)
           u == [v EXCEPT !.children = c]
           pushed == PushedBack(v, ob, NULL)
<1>1. s \in Seq(Objects)
  BY KidsListed
<1>2. Front(Append(s, ob)) = s
  <2>1. /\ Append(s, ob) \in Seq(Objects) /\ Len(Append(s, ob)) = Len(s) + 1
        /\ \A i \in 1 .. Len(s) : Append(s, ob)[i] = s[i]
    BY <1>1, AppendProperties
  <2>2. Len(s) \in Nat /\ \A i \in 1 .. Len(s) : s[i] \in Objects
    BY <1>1, Listed
  <2> DEFINE t == Append(s, ob)
  <2> HIDE DEF t, s
  <2>3. \A i \in 1 .. Len(s) : t[i] \in Objects
    BY <2>1, <2>2 DEF t
  <2>4. 1 \in Int /\ Len(s) \in Int
    BY <2>2
  <2>5. /\ SubSeq(t, 1, Len(s)) \in Seq(Objects)
        /\ Len(SubSeq(t, 1, Len(s))) = IF 1 <= Len(s) THEN Len(s) - 1 + 1 ELSE 0
        /\ \A i \in 1 .. Len(s) - 1 + 1 : SubSeq(t, 1, Len(s))[i] = t[1 + i - 1]
    BY <2>3, <2>4, SubSeqProperties
  <2>6. Len(SubSeq(t, 1, Len(s))) = Len(s)
    BY <2>2, <2>5
  <2>7. ASSUME NEW i \in 1 .. Len(s) PROVE SubSeq(t, 1, Len(s))[i] = s[i]
    <3>1. i \in 1 .. Len(s) - 1 + 1 /\ 1 + i - 1 = i
      BY <2>2
    <3>2. SubSeq(t, 1, Len(s))[i] = t[i]
      BY <2>5, <3>1
    <3> QED BY <2>1, <3>2 DEF t
  <2>8. SubSeq(t, 1, Len(s)) = s
    BY <1>1, <2>5, <2>6, <2>7, SeqEqual
  <2>9. Len(t) - 1 = Len(s)
    BY <2>1, <2>2 DEF t
  <2>10. Front(t) = s
    BY <2>8, <2>9 DEF Front
  <2> QED BY <2>10 DEF t
<1>3. c \in Lists
  <2>1. v.children \in Lists /\ NULL \in Objects \cup {NULL}
    BY RevisionIs
  <2> QED BY <1>1, <2>1, PutTyped DEF Lists
<1>4. /\ DOMAIN c = DOMAIN v.children \cup {NULL} /\ c[NULL] = s
      /\ \A k \in DOMAIN v.children : k # NULL => c[k] = v.children[k]
  BY DEF Put
<1>5. u \in Revisions /\ ReadsAs(u, v) /\ DOMAIN u.children \in SUBSET (DOMAIN v.children \cup {NULL})
  <2> HIDE DEF c
  <2>1. /\ u.obstates = v.obstates /\ u.is_transient = v.is_transient
        /\ u.parent = v.parent /\ u.children = c /\ u \in Revisions
    BY <1>3 DEF Revisions
  <2> HIDE DEF u
  <2>2. \A k : Kids(u, k) = Kids(v, k)
    BY <1>4, <2>1 DEF Kids
  <2> QED BY <1>4, <2>1, <2>2 DEF ReadsAs
<1>6. pushed = [v EXCEPT !.children = Put(v.children, NULL, Append(s, ob))]
  BY DEF PushedBack
<1>7. PoppedBack(pushed, NULL) = u
  <2> DEFINE d == Put(v.children, NULL, Append(s, ob))
  <2>1. d = [k \in DOMAIN d |-> d[k]] /\ NULL \in DOMAIN d /\ d[NULL] = Append(s, ob)
    BY DEF Put
  <2>2. [d EXCEPT ![NULL] = Front(@)] = c
    <3>1. Front(d[NULL]) = s
      BY <1>2, <2>1
    <3>2. DOMAIN d = DOMAIN v.children \cup {NULL}
          /\ \A k \in DOMAIN v.children : k # NULL => d[k] = v.children[k]
      BY DEF Put
    <3>3. DOMAIN [d EXCEPT ![NULL] = Front(@)] = DOMAIN v.children \cup {NULL}
      BY <3>2
    <3> DEFINE e == [d EXCEPT ![NULL] = Front(@)]
    <3>4. ASSUME NEW k \in DOMAIN v.children \cup {NULL} PROVE e[k] = c[k]
      <4>1. CASE k = NULL
        BY <1>4, <2>1, <3>1, <4>1
      <4>2. CASE k # NULL
        <5>1. k \in DOMAIN d /\ e[k] = d[k]
          BY <2>1, <3>2, <4>2
        <5> HIDE DEF e, d, c
        <5> QED BY <1>4, <3>2, <4>2, <5>1
      <4> QED BY <4>1, <4>2
    <3>5. e = [k \in DOMAIN v.children \cup {NULL} |-> e[k]]
      BY <3>2
    <3>6. c = [k \in DOMAIN v.children \cup {NULL} |-> c[k]]
      BY DEF Put
    <3> HIDE DEF e, c
    <3>7. e = c
      BY <3>4, <3>5, <3>6
    <3> QED BY <3>7 DEF e
  <2>3. pushed = [v EXCEPT !.children = d]
    BY <1>6
  <2>4. pushed.children = d
    BY <2>3, RevisionIs
  <2>5. PoppedBack(pushed, NULL) = [pushed EXCEPT !.children = [d EXCEPT ![NULL] = Front(@)]]
    <3> HIDE DEF d, pushed
    <3> QED BY <2>4 DEF PoppedBack
  <2> HIDE DEF d, c, pushed
  <2>6. [pushed EXCEPT !.children = c] = [v EXCEPT !.children = c]
    BY <2>3, RevisionIs
  <2> QED BY <2>2, <2>5, <2>6
<1>8. WithoutParent(WithParent(pushed, ob, NULL), ob) = pushed
  <2> DEFINE p == Put(v.parent, ob, NULL)
  <2>1. pushed.parent = v.parent /\ pushed = [is_transient |-> v.is_transient, obstates |-> v.obstates,
                             children |-> pushed.children, parent |-> v.parent]
    <3> HIDE DEF s
    <3> QED BY <1>6, RevisionIs
  <2>2. Without(p, {ob}) = v.parent
    <3>1. v.parent \in Parents
      BY RevisionIs
    <3>2. v.parent = [o \in DOMAIN v.parent |-> v.parent[o]]
      BY <3>1, ParentsAre
    <3>3. DOMAIN p \ {ob} = DOMAIN v.parent /\ \A o \in DOMAIN v.parent : p[o] = v.parent[o]
      BY DEF Put
    <3> HIDE DEF p
    <3>4. [o \in DOMAIN v.parent |-> p[o]] = [o \in DOMAIN v.parent |-> v.parent[o]]
      BY <3>3
    <3>5. Without(p, {ob}) = [o \in DOMAIN v.parent |-> p[o]]
      BY <3>3 DEF Without, Restrict
    <3> QED BY <3>2, <3>4, <3>5
  <2> HIDE DEF pushed, p
  <2>3. WithParent(pushed, ob, NULL) = [pushed EXCEPT !.parent = p]
    BY <2>1 DEF WithParent, p
  <2>4. [pushed EXCEPT !.parent = p].parent = p
    BY <2>1
  <2>5. WithoutParent([pushed EXCEPT !.parent = p], ob) = [[pushed EXCEPT !.parent = p] EXCEPT !.parent = v.parent]
    BY <2>2, <2>4 DEF WithoutParent
  <2> QED BY <2>1, <2>3, <2>5
<1>9. w \in {v, WithEntries(v, {NULL}), u}
  <2> HIDE DEF u, pushed
  <2> QED BY <1>7, <1>8 DEF AppendFailures, pushed
<1>10. CASE w = v
  BY <1>10 DEF ReadsAs
<1>11. CASE w = WithEntries(v, {NULL})
  <2>1. {NULL} \in SUBSET (Objects \cup {NULL})
    OBVIOUS
  <2> QED BY <1>11, <2>1, EntriesRead
<1> QED BY <1>5, <1>9, <1>10, <1>11

\* Revision w is v with object ob moved from place i of its list to place j of
\* the list of k.
IsMove(w, v, ob, k, before, i, j) ==
  LET old == v.parent[ob]
      new == Kids(v, k)
      ins == InsertAt(new, j, ob)
  IN /\ old \in DOMAIN v.children
     /\ i \in 1 .. Len(Kids(v, old)) /\ Kids(v, old)[i] = ob
     /\ j \in 1 .. Len(new) + 1
     /\ IF before = NULL THEN j = Len(new) + 1 ELSE j # Len(new) + 1 /\ new[j] = before
     /\ w = [v EXCEPT !.children = w.children, !.parent = w.parent]
     /\ w.parent = [v.parent EXCEPT ![ob] = k]
     /\ DOMAIN w.children = DOMAIN v.children \cup {k}
     /\ w.children = [l \in DOMAIN v.children \cup {k} |-> w.children[l]]
     /\ \A l \in DOMAIN v.children : l \notin {old, k} => w.children[l] = Kids(v, l)
     /\ k # old => w.children[k] = ins /\ w.children[old] = RemoveAt(Kids(v, old), i)
     /\ k = old => w.children[k] = RemoveAt(ins, IF j <= i THEN i + 1 ELSE i)

\* Relocated takes an object from its place in one list to its place in another,
\* or in the same.
LEMMA RelocatedMoves ==
  ASSUME NEW v \in Revisions, Linked(v), NEW ob \in DOMAIN v.parent,
         NEW k \in DOMAIN v.obstates \cup {NULL}, NEW before \in ToSet(Kids(v, k)) \cup {NULL}
  PROVE  \E i, j : IsMove(Relocated(v, ob, k, before), v, ob, k, before, i, j)
<1> DEFINE old == v.parent[ob]
           new == Kids(v, k)
           i   == IndexIn(v.children[old], ob)
           j   == IF before = NULL THEN Len(new) + 1 ELSE IndexIn(new, before)
           pos == IF k = old /\ j <= i THEN i + 1 ELSE i
           ins == InsertAt(new, j, ob)
           inserted == Put(v.children, k, ins)
           c == [inserted EXCEPT ![old] = RemoveAt(@, pos)]
           p == [v.parent EXCEPT ![ob] = k]
           w == Relocated(v, ob, k, before)
<1>1. w = [v EXCEPT !.children = c, !.parent = p]
  BY DEF Relocated
<1>2. v.children \in Lists /\ v.parent \in Parents /\ v.obstates \in Tables
  BY RevisionIs
<1>3. /\ ob \in Objects /\ old \in Objects \cup {NULL} /\ DOMAIN v.parent \in SUBSET Objects
      /\ v.parent = [o \in DOMAIN v.parent |-> v.parent[o]]
      /\ \A o \in DOMAIN v.parent : v.parent[o] \in Objects \cup {NULL}
  BY <1>2, ParentsAre
<1>4. k \in Objects \cup {NULL}
  BY <1>2, TableIs
<1>5. ListExact(v, old) /\ ListExact(v, k)
  BY <1>3, <1>4 DEF Linked
<1>6. ob \in ToSet(Kids(v, old))
  BY <1>3, <1>5 DEF ListExact
<1>7. old \in DOMAIN v.children /\ v.children[old] = Kids(v, old)
  BY <1>6, EmptyListed DEF Kids
<1>8. Kids(v, old) \in Seq(Objects) /\ new \in Seq(Objects)
  BY KidsListed
<1>9. IsInjective(Kids(v, old)) /\ IsInjective(new)
  BY <1>5 DEF ListExact
<1>10. i \in 1 .. Len(Kids(v, old)) /\ Kids(v, old)[i] = ob
  <2> HIDE DEF old, new
  <2> QED BY <1>6, <1>7, <1>8, <1>9, Found
<1>11. /\ j \in 1 .. Len(new) + 1
       /\ IF before = NULL THEN j = Len(new) + 1 ELSE j # Len(new) + 1 /\ new[j] = before
  <2>1. Len(new) \in Nat
    BY <1>8, Listed
  <2>2. CASE before = NULL
    BY <2>1, <2>2
  <2>3. CASE before # NULL
    <3>1. before \in ToSet(new)
      BY <2>3
    <3>2. IndexIn(new, before) \in 1 .. Len(new) /\ new[IndexIn(new, before)] = before
      BY <1>8, <1>9, <3>1, Found
    <3>3. j = IndexIn(new, before)
      BY <2>3
    <3> QED BY <2>1, <2>3, <3>2, <3>3
  <2> QED BY <2>2, <2>3
<1>12. ins \in Seq(Objects) /\ Len(ins) = Len(new) + 1
  <2> HIDE DEF j, new
  <2> QED BY <1>3, <1>8, <1>11, Inserted
<1>13. /\ DOMAIN inserted = DOMAIN v.children \cup {k} /\ inserted[k] = ins
       /\ \A l \in DOMAIN v.children : l # k => inserted[l] = Kids(v, l)
  <2> HIDE DEF ins
  <2> QED BY DEF Put, Kids
<1> HIDE DEF i, j, ins, inserted
<1>14. /\ DOMAIN c = DOMAIN v.children \cup {k}
       /\ c[old] = RemoveAt(inserted[old], pos)
       /\ \A l \in DOMAIN v.children \cup {k} : l # old => c[l] = inserted[l]
       /\ c = [l \in DOMAIN v.children \cup {k} |-> c[l]]
  <2> HIDE DEF pos
  <2>1. inserted = [l \in DOMAIN inserted |-> inserted[l]]
    BY DEF inserted, Put
  <2> HIDE DEF old
  <2> QED BY <1>7, <1>13, <2>1
<1> HIDE DEF c
<1> HIDE DEF p, w
<1>15. w.children = c /\ w.parent = p /\ w = [v EXCEPT !.children = w.children, !.parent = w.parent]
  BY <1>1, RevisionIs
<1>16. ASSUME k # old PROVE c[k] = ins /\ c[old] = RemoveAt(Kids(v, old), i)
  <2>1. pos = i /\ inserted[old] = Kids(v, old)
    BY <1>7, <1>13, <1>16
  <2> HIDE DEF pos, new, old
  <2> QED BY <1>13, <1>14, <1>16, <2>1
<1>17. ASSUME k = old PROVE c[k] = RemoveAt(ins, IF j <= i THEN i + 1 ELSE i)
  BY <1>13, <1>14, <1>17
<1>18. \A l \in DOMAIN v.children : l \notin {old, k} => c[l] = Kids(v, l)
  BY <1>13, <1>14
<1>19. p = [v.parent EXCEPT ![ob] = k] /\ ins = InsertAt(new, j, ob)
  BY DEF p, ins
<1>20. IsMove(w, v, ob, k, before, i, j)
  <2> HIDE DEF pos
  <2> QED BY <1>7, <1>10, <1>11, <1>14, <1>15, <1>16, <1>17, <1>18, <1>19 DEF IsMove
<1> QED BY <1>20 DEF w

(* Moving an object to another list, or to another place in its own. *)
LEMMA RelocatedLinked ==
  ASSUME NEW v \in Revisions, Linked(v), NEW ob \in DOMAIN v.parent,
         NEW k \in DOMAIN v.obstates \cup {NULL}, NEW before \in ToSet(Kids(v, k)) \cup {NULL}
  PROVE  LET w == Relocated(v, ob, k, before) IN
         /\ w \in Revisions /\ Linked(w)
         /\ w.obstates = v.obstates /\ w.is_transient = v.is_transient
         /\ DOMAIN w.parent = DOMAIN v.parent /\ w.parent[ob] = k
         /\ \A o \in DOMAIN v.parent : o # ob => w.parent[o] = v.parent[o]
<1> DEFINE old == v.parent[ob]
           new == Kids(v, k)
           w   == Relocated(v, ob, k, before)
           c   == w.children
           p   == w.parent
<1>0. PICK i, j : IsMove(w, v, ob, k, before, i, j)
  BY RelocatedMoves
<1> DEFINE ins == InsertAt(new, j, ob)
           pos == IF j <= i THEN i + 1 ELSE i
<1> HIDE DEF w
<1>1. w = [v EXCEPT !.children = c, !.parent = p] /\ p = [v.parent EXCEPT ![ob] = k]
  BY <1>0 DEF IsMove
<1>2. v.children \in Lists /\ v.parent \in Parents /\ v.obstates \in Tables
  BY RevisionIs
<1>3. /\ ob \in Objects /\ old \in Objects \cup {NULL} /\ DOMAIN v.parent \in SUBSET Objects
      /\ v.parent = [o \in DOMAIN v.parent |-> v.parent[o]]
      /\ \A o \in DOMAIN v.parent : v.parent[o] \in Objects \cup {NULL}
  BY <1>2, ParentsAre
<1>4. k \in Objects \cup {NULL}
  BY <1>2, TableIs
<1>5. ListExact(v, old) /\ ListExact(v, k)
  BY <1>3, <1>4 DEF Linked
<1>6. old \in DOMAIN v.children /\ i \in 1 .. Len(Kids(v, old)) /\ Kids(v, old)[i] = ob
  BY <1>0 DEF IsMove
<1>7. j \in 1 .. Len(new) + 1
  BY <1>0 DEF IsMove
<1>8. Kids(v, old) \in Seq(Objects) /\ new \in Seq(Objects)
  BY KidsListed
<1>9. IsInjective(Kids(v, old)) /\ IsInjective(new)
  BY <1>5 DEF ListExact
<1>10. ins \in Seq(Objects)
  <2> HIDE DEF new
  <2> QED BY <1>3, <1>7, <1>8, Inserted
<1>11. /\ DOMAIN c = DOMAIN v.children \cup {k}
       /\ c = [l \in DOMAIN v.children \cup {k} |-> c[l]]
       /\ \A l \in DOMAIN v.children : l \notin {old, k} => c[l] = Kids(v, l)
  BY <1>0 DEF IsMove
<1>12. /\ k # old => c[k] = ins /\ c[old] = RemoveAt(Kids(v, old), i)
       /\ k = old => c[k] = RemoveAt(ins, pos)
  BY <1>0 DEF IsMove
<1> HIDE DEF c, p, ins
\* The list the object leaves, the one it gets into, or both.
<1>15. ASSUME k # old
       PROVE  /\ IsInjective(c[old]) /\ ToSet(c[old]) = {o \in DOMAIN v.parent : p[o] = old}
              /\ IsInjective(c[k]) /\ ToSet(c[k]) = {o \in DOMAIN v.parent : p[o] = k}
              /\ c[old] \in Seq(Objects) /\ c[k] \in Seq(Objects)
  <2>1. c[old] = RemoveAt(Kids(v, old), i) /\ c[k] = ins
    BY <1>12, <1>15
  <2>2. /\ c[old] \in Seq(Objects) /\ IsInjective(c[old])
        /\ ToSet(c[old]) = ToSet(Kids(v, old)) \ {ob}
    <3> HIDE DEF old
    <3>1. RemoveAt(Kids(v, old), i) \in Seq(Objects)
      BY <1>6, <1>8, Erased
    <3>2. /\ IsInjective(RemoveAt(Kids(v, old), i))
          /\ ToSet(RemoveAt(Kids(v, old), i)) = ToSet(Kids(v, old)) \ {Kids(v, old)[i]}
      BY <1>6, <1>8, <1>9, ErasedListed
    <3> QED BY <1>6, <2>1, <3>1, <3>2
  <2>3. ob \notin ToSet(new)
    BY <1>5, <1>15 DEF ListExact
  <2>4. IsInjective(ins) /\ ToSet(ins) = ToSet(new) \cup {ob}
    <3> HIDE DEF new
    <3> QED BY <1>3, <1>7, <1>8, <1>9, <2>3, InsertedListed DEF ins
  <2>5. /\ c[k] \in Seq(Objects) /\ IsInjective(c[k])
        /\ ToSet(c[k]) = ToSet(new) \cup {ob}
    BY <1>10, <2>1, <2>4
  <2>6. QED
    <3>1. {o \in DOMAIN v.parent : p[o] = old} = {o \in DOMAIN v.parent : v.parent[o] = old} \ {ob}
      BY <1>1, <1>3, <1>15
    <3>2. {o \in DOMAIN v.parent : p[o] = k} = {o \in DOMAIN v.parent : v.parent[o] = k} \cup {ob}
      BY <1>1, <1>3, <1>15
    <3>3. /\ ToSet(Kids(v, old)) = {o \in DOMAIN v.parent : v.parent[o] = old}
          /\ ToSet(new) = {o \in DOMAIN v.parent : v.parent[o] = k}
      BY <1>5 DEF ListExact
    <3> HIDE DEF p, old, new
    <3> QED BY <2>2, <2>5, <3>1, <3>2, <3>3
<1>16. ASSUME k = old
       PROVE  /\ IsInjective(c[old]) /\ ToSet(c[old]) = {o \in DOMAIN v.parent : p[o] = old}
              /\ IsInjective(c[k]) /\ ToSet(c[k]) = {o \in DOMAIN v.parent : p[o] = k}
              /\ c[old] \in Seq(Objects) /\ c[k] \in Seq(Objects)
  <2>1. c[old] = RemoveAt(ins, pos)
    BY <1>12, <1>16
  <2>2. new = Kids(v, old) /\ ins = InsertAt(new, j, new[i]) /\ pos = IF j <= i THEN i + 1 ELSE i
    BY <1>6, <1>16 DEF ins
  <2>3. c[old] \in Seq(Objects) /\ IsInjective(c[old]) /\ ToSet(c[old]) = ToSet(new)
    <3> HIDE DEF pos, new, old
    <3>1. i \in 1 .. Len(new)
      BY <1>6, <2>2
    <3>2. LET x == RemoveAt(InsertAt(new, j, new[i]), pos) IN
            x \in Seq(Objects) /\ IsInjective(x) /\ ToSet(x) = ToSet(new)
      BY <1>7, <1>8, <1>9, <2>2, <3>1, MovedListed
    <3> QED BY <2>1, <2>2, <3>2
  <2>4. p = v.parent
    BY <1>1, <1>3, <1>16
  <2> QED BY <1>5, <1>16, <2>3, <2>4 DEF ListExact
<1>17. ASSUME NEW l \in {old, k}
       PROVE  /\ c[l] \in Seq(Objects) /\ IsInjective(c[l])
              /\ ToSet(c[l]) = {o \in DOMAIN v.parent : p[o] = l}
  BY <1>15, <1>16
<1> HIDE DEF old, new, pos
<1>18. c \in Lists
  <2>1. DOMAIN v.children \cup {k} \in SUBSET (Objects \cup {NULL})
    BY <1>2, <1>4, ListsAre
  <2>2. ASSUME NEW l \in DOMAIN v.children \cup {k} PROVE c[l] \in Seq(Objects)
    <3>1. CASE l \in {old, k}
      BY <1>17, <3>1
    <3>2. CASE l \notin {old, k}
      <4>1. c[l] = Kids(v, l)
        BY <1>11, <3>2
      <4> QED BY <4>1, KidsListed
    <3> QED BY <3>1, <3>2
  <2>3. c \in [DOMAIN v.children \cup {k} -> Seq(Objects)]
    BY <1>11, <2>2
  <2> QED BY <2>1, <2>3, PartialGiven DEF Lists
<1>19. /\ DOMAIN p = DOMAIN v.parent /\ p[ob] = k
       /\ \A o \in DOMAIN v.parent : o # ob => p[o] = v.parent[o]
       /\ p \in [DOMAIN v.parent -> Objects \cup {NULL}]
  BY <1>1, <1>3, <1>4
<1>20. p \in Parents
  BY <1>3, <1>19, PartialGiven DEF Parents
<1>21. /\ w.obstates = v.obstates /\ w.is_transient = v.is_transient
       /\ w.children = c /\ w.parent = p /\ w \in Revisions
  <2>1. w.children = c /\ w.parent = p
    BY DEF c, p
  <2> QED BY <1>1, <1>18, <1>20, <2>1 DEF Revisions
<1>22. ASSUME NEW l \in Objects \cup {NULL} PROVE ListExact(w, l)
  <2>1. CASE l \in {old, k}
    <3>1. Kids(w, l) = c[l]
      BY <1>6, <1>11, <1>21, <2>1 DEF Kids
    <3> QED BY <1>17, <1>19, <1>21, <2>1, <3>1 DEF ListExact
  <2>2. CASE l \notin {old, k}
    <3>1. Kids(w, l) = Kids(v, l)
      BY <1>11, <1>21, <2>2 DEF Kids
    <3>2. ListExact(v, l)
      BY DEF Linked
    <3>3. {o \in DOMAIN p : p[o] = l} = {o \in DOMAIN v.parent : v.parent[o] = l}
      BY <1>19, <2>2 DEF old
    <3> QED BY <1>21, <3>1, <3>2, <3>3 DEF ListExact
  <2> QED BY <2>1, <2>2
<1>23. \A o \in DOMAIN w.parent : w.parent[o] \in DOMAIN w.obstates \cup {NULL}
  BY <1>19, <1>21 DEF Linked
<1>24. DOMAIN w.children \in SUBSET (DOMAIN w.obstates \cup {NULL})
  BY <1>11, <1>21 DEF Linked
<1>25. Linked(w)
  BY <1>19, <1>21, <1>22, <1>23, <1>24 DEF Linked
<1> QED BY <1>19, <1>21, <1>25 DEF w

\* Without takes entries away and changes no other.
LEMMA WithoutIs ==
  ASSUME NEW f, NEW ks
  PROVE  /\ DOMAIN Without(f, ks) = DOMAIN f \ ks
         /\ \A k \in DOMAIN f \ ks : Without(f, ks)[k] = f[k]
BY DEF Without, Restrict

\* Without keeps the type of a map.
LEMMA WithoutTyped ==
  ASSUME NEW D, NEW R, NEW f \in Partial(D, R), NEW ks
  PROVE  Without(f, ks) \in Partial(D, R)
<1>1. DOMAIN f \in SUBSET D /\ \A l \in DOMAIN f : f[l] \in R
  BY PartialFunction
<1>2. Without(f, ks) \in [DOMAIN f \ ks -> R]
  BY <1>1 DEF Without, Restrict
<1> QED BY <1>1, <1>2, PartialGiven

\* Revision w is v without any set of objects.
IsRemoved(w, v, gone) ==
  /\ w \in Revisions /\ w.is_transient = v.is_transient
  /\ w.obstates = Without(v.obstates, gone)
  /\ w.parent = Without(v.parent, gone)
  /\ DOMAIN w.children = DOMAIN v.children \ gone
  /\ \A k : k \notin gone =>
       /\ Kids(w, k) \in Seq(Objects)
       /\ k \in DOMAIN v.children => Kids(w, k) = Filtered(Kids(v, k), Objects \ gone)
       /\ k \notin DOMAIN v.children => Kids(w, k) = <<>> /\ Kids(v, k) = <<>>

LEMMA RemovedIs ==
  ASSUME NEW v \in Revisions, NEW gone PROVE IsRemoved(Removed(v, gone), v, gone)
<1> DEFINE t == Without(v.obstates, gone)
           p == Without(v.parent, gone)
           c == [k \in DOMAIN v.children \ gone |-> Filtered(v.children[k], Objects \ gone)]
           w == Removed(v, gone)
<1>1. w = [v EXCEPT !.obstates = t, !.parent = p, !.children = c]
  BY DEF Removed
<1>2. t \in Tables /\ p \in Parents
  BY RevisionIs, WithoutTyped DEF Tables, Parents
<1>3. /\ DOMAIN c = DOMAIN v.children \ gone
      /\ \A k \in DOMAIN v.children \ gone : c[k] = Filtered(Kids(v, k), Objects \ gone)
  BY DEF Kids
<1>4. c \in Lists
  <2>1. DOMAIN c \in SUBSET (Objects \cup {NULL})
    BY <1>3, RevisionIs, ListsAre
  <2>2. ASSUME NEW k \in DOMAIN c PROVE c[k] \in Seq(Objects)
    <3>1. Kids(v, k) \in Seq(Objects)
      BY KidsListed
    <3>2. Filtered(Kids(v, k), Objects \ gone) \in Seq(Objects)
      BY <3>1, FilteredListed
    <3> QED BY <1>3, <3>2
  <2>3. c = [k \in DOMAIN c |-> c[k]]
    OBVIOUS
  <2> HIDE DEF c
  <2>4. c \in [DOMAIN c -> Seq(Objects)]
    BY <2>2, <2>3
  <2> QED BY <2>1, <2>4, PartialGiven DEF Lists
<1> HIDE DEF t, p, c, w
<1>5. /\ w.obstates = t /\ w.is_transient = v.is_transient
      /\ w.children = c /\ w.parent = p /\ w \in Revisions
  BY <1>1, <1>2, <1>4 DEF Revisions
<1>6. ASSUME NEW k, k \notin gone
      PROVE  /\ Kids(w, k) \in Seq(Objects)
             /\ k \in DOMAIN v.children => Kids(w, k) = Filtered(Kids(v, k), Objects \ gone)
             /\ k \notin DOMAIN v.children => Kids(w, k) = <<>> /\ Kids(v, k) = <<>>
  <2>1. Kids(w, k) \in Seq(Objects)
    BY <1>5, KidsListed
  <2>2. k \in DOMAIN v.children => Kids(w, k) = Filtered(Kids(v, k), Objects \ gone)
    BY <1>3, <1>5, <1>6 DEF Kids
  <2>3. k \notin DOMAIN v.children => Kids(w, k) = <<>> /\ Kids(v, k) = <<>>
    BY <1>3, <1>5, <1>6 DEF Kids
  <2> QED BY <2>1, <2>2, <2>3
<1>7. IsRemoved(w, v, gone)
  BY <1>3, <1>5, <1>6 DEF IsRemoved, t, p
<1> QED BY <1>7 DEF w

\* With every object of the set, what is attached to it is in the set.
Closed(v, gone) == \A ob \in DOMAIN v.parent : v.parent[ob] \in gone => ob \in gone

\* Removing a closed set of objects leaves a linked revision.
LEMMA RemovedLinked ==
  ASSUME NEW v \in Revisions, Linked(v), NEW gone \in SUBSET Objects, Closed(v, gone)
  PROVE  /\ Linked(Removed(v, gone))
         /\ \A h : Kinds(v, h) => Kinds(Removed(v, gone), h)
<1> DEFINE w == Removed(v, gone)
<1>1. /\ w \in Revisions
      /\ w.obstates = Without(v.obstates, gone)
      /\ w.parent = Without(v.parent, gone)
      /\ DOMAIN w.children = DOMAIN v.children \ gone
  BY RemovedIs DEF IsRemoved
<1>2. ASSUME NEW k, k \notin gone
      PROVE  /\ k \in DOMAIN v.children => Kids(w, k) = Filtered(Kids(v, k), Objects \ gone)
             /\ k \notin DOMAIN v.children => Kids(w, k) = <<>> /\ Kids(v, k) = <<>>
  BY <1>2, RemovedIs DEF IsRemoved
<1> HIDE DEF w
<1>3. DOMAIN w.obstates = DOMAIN v.obstates \ gone
      /\ \A ob \in DOMAIN w.obstates : w.obstates[ob] = v.obstates[ob]
  BY <1>1 DEF Without, Restrict
<1>4. DOMAIN w.parent = DOMAIN v.parent \ gone
      /\ \A ob \in DOMAIN w.parent : w.parent[ob] = v.parent[ob]
  BY <1>1 DEF Without, Restrict
<1>5. NULL \notin gone
  BY NullIsNoObject
<1>6. ASSUME NEW ob \in DOMAIN w.parent
      PROVE  w.parent[ob] \in DOMAIN w.obstates \cup {NULL}
  <2>1. ob \in DOMAIN v.parent /\ ob \notin gone /\ w.parent[ob] = v.parent[ob]
    BY <1>4
  <2>2. v.parent[ob] \notin gone
    BY <2>1 DEF Closed
  <2>3. v.parent[ob] \in DOMAIN v.obstates \cup {NULL}
    BY <2>1 DEF Linked
  <2> QED BY <1>3, <2>1, <2>2, <2>3
<1>7. ASSUME NEW k \in Objects \cup {NULL} PROVE ListExact(w, k)
  <2>1. ListExact(v, k)
    BY DEF Linked
  <2>2. Kids(v, k) \in Seq(Objects)
    BY KidsListed
  <2>3. CASE k \in gone
    <3>1. Kids(w, k) = <<>>
      BY <1>1, <2>3 DEF Kids
    <3>2. {ob \in DOMAIN w.parent : w.parent[ob] = k} = {}
      BY <1>3, <1>5, <1>6, <2>3
    <3> QED BY <3>1, <3>2, EmptyListed DEF ListExact
  <2>4. CASE k \notin gone /\ k \in DOMAIN v.children
    <3>1. Kids(w, k) = Filtered(Kids(v, k), Objects \ gone)
      BY <1>2, <2>4
    <3>2. /\ ToSet(Filtered(Kids(v, k), Objects \ gone)) = ToSet(Kids(v, k)) \cap (Objects \ gone)
          /\ IsInjective(Filtered(Kids(v, k), Objects \ gone))
      BY <2>1, <2>2, FilteredListed DEF ListExact
    <3>3. ToSet(Kids(v, k)) = {ob \in DOMAIN v.parent : v.parent[ob] = k}
      BY <2>1 DEF ListExact
    <3>4. ToSet(Kids(v, k)) \in SUBSET Objects
      BY <2>2, Listed
    <3>5. {ob \in DOMAIN w.parent : w.parent[ob] = k} = ToSet(Kids(v, k)) \cap (Objects \ gone)
      BY <1>4, <3>3, <3>4
    <3> QED BY <3>1, <3>2, <3>5 DEF ListExact
  <2>5. CASE k \notin gone /\ k \notin DOMAIN v.children
    <3>1. Kids(w, k) = <<>> /\ Kids(v, k) = <<>>
      BY <1>2, <2>5
    <3>2. {ob \in DOMAIN v.parent : v.parent[ob] = k} = {}
      BY <2>1, <3>1, EmptyListed DEF ListExact
    <3>3. {ob \in DOMAIN w.parent : w.parent[ob] = k} = {}
      BY <1>4, <3>2
    <3> QED BY <3>1, <3>3, EmptyListed DEF ListExact
  <2> QED BY <2>3, <2>4, <2>5
<1>8. Linked(w)
  <2>1. DOMAIN w.parent = DOMAIN w.obstates
    BY <1>3, <1>4 DEF Linked
  <2>2. DOMAIN w.children \in SUBSET (DOMAIN w.obstates \cup {NULL})
    BY <1>1, <1>3 DEF Linked
  <2> QED BY <1>6, <1>7, <2>1, <2>2 DEF Linked
<1>9. ASSUME NEW h, Kinds(v, h) PROVE Kinds(w, h)
  <2>1. SUFFICES ASSUME NEW ob \in DOMAIN w.parent, w.parent[ob] # NULL
                 PROVE  /\ w.parent[ob] \in DOMAIN w.obstates
                        /\ h[w.obstates[ob]].type = "text"
                        /\ h[w.obstates[w.parent[ob]]].type \in Holders
    BY DEF Kinds, KindRight
  <2>2. ob \in DOMAIN v.parent /\ w.parent[ob] = v.parent[ob] /\ KindRight(v, h, ob)
    BY <1>4, <1>9 DEF Kinds
  <2>3. w.parent[ob] \in DOMAIN w.obstates
    BY <1>6, <2>1
  <2>4. ob \in DOMAIN w.obstates
    BY <1>8 DEF Linked
  <2>5. w.obstates[ob] = v.obstates[ob] /\ w.obstates[w.parent[ob]] = v.obstates[v.parent[ob]]
    BY <1>3, <2>2, <2>3, <2>4
  <2> QED BY <2>1, <2>2, <2>3, <2>5 DEF KindRight
<1> QED BY <1>8, <1>9 DEF w

(* Nothing is attached to what is attached: a subtree is closed. *)
LEMMA SubtreeClosed ==
  ASSUME NEW v \in Revisions, Linked(v), NEW h, Kinds(v, h), NEW ob \in DOMAIN v.parent
  PROVE  Closed(v, Subtree(v, ob)) /\ Subtree(v, ob) \in SUBSET DOMAIN v.parent
<1>1. ob \in Objects
  BY RevisionIs, ParentsAre
<1>2. ToSet(Kids(v, ob)) = {o \in DOMAIN v.parent : v.parent[o] = ob}
  BY <1>1 DEF Linked, ListExact
<1>3. Subtree(v, ob) \in SUBSET DOMAIN v.parent
  BY <1>2 DEF Subtree
<1>4. ASSUME NEW o \in DOMAIN v.parent, v.parent[o] \in Subtree(v, ob) PROVE o \in Subtree(v, ob)
  <2>1. CASE v.parent[o] = ob
    BY <1>2, <2>1 DEF Subtree
  <2>2. CASE v.parent[o] # ob
    <3> DEFINE q == v.parent[o]
    <3>1. q \in DOMAIN v.parent /\ v.parent[q] = ob
      BY <1>2, <1>4, <2>2 DEF Subtree
    <3>2. q \in Objects
      BY <3>1, RevisionIs, ParentsAre
    <3>3. q # NULL /\ ob # NULL
      BY <1>1, <3>2, NullIsNoObject
    <3>4. h[v.obstates[q]].type \in Holders
      BY <3>3 DEF Kinds, KindRight
    <3>5. h[v.obstates[q]].type = "text"
      BY <3>1, <3>3 DEF Kinds, KindRight
    <3> QED BY <3>4, <3>5 DEF Holders
  <2> QED BY <2>1, <2>2
<1> QED BY <1>3, <1>4 DEF Closed

-----------------------------------------------------------------------------
(* Copies *)

\* The ids of n copies, and what the copy is attached to.
NewIds(n) == next_object_id + 1 .. next_object_id + n
CopyParent(q, ob) ==
  IF q[ob - next_object_id].at = 0 THEN NULL ELSE next_object_id + q[ob - next_object_id].at

\* The ids are there, and those of the revision are older.
CanCopy(dest, n) ==
  /\ next_object_id \in Nat /\ n \in Nat /\ next_object_id + n <= MaxObjects
  /\ DOMAIN dest.obstates \in SUBSET (1 .. next_object_id)

\* The ids of the copies are new, and each is used once.
LEMMA CopyIdsListed ==
  ASSUME NEW dest, NEW n, CanCopy(dest, n)
  PROVE  /\ CopyIds(n) \in Seq(Objects)
         /\ IsInjective(CopyIds(n))
         /\ ToSet(CopyIds(n)) = NewIds(n)
         /\ NewIds(n) \in SUBSET Objects
<1> DEFINE N == next_object_id  s == CopyIds(n)
<1>1. N \in Nat /\ n \in Nat /\ N + n <= MaxObjects /\ MaxObjects \in Nat
  BY XornAssumption DEF CanCopy
<1> HIDE DEF N
<1>2. \A k \in 1 .. n : N + k \in Objects
  BY <1>1 DEF Objects
<1>3. s = [k \in 1 .. n |-> N + k]
  BY DEF CopyIds, N
<1>4. [k \in 1 .. n |-> N + k] \in Seq(Objects)
  BY <1>1, <1>2, IsASeq
<1>5. DOMAIN s = 1 .. n /\ \A k \in 1 .. n : s[k] = N + k
  BY <1>3
<1> HIDE DEF s
<1>6. IsInjective(s)
  <2>1. \A k, l \in 1 .. n : N + k = N + l => k = l
    BY <1>1
  <2> QED BY <1>5, <2>1 DEF IsInjective
<1>7. ToSet(s) = NewIds(n)
  <2>1. ToSet(s) = {N + k : k \in 1 .. n}
    BY <1>5 DEF ToSet
  <2>2. \A i \in N + 1 .. N + n : i - N \in 1 .. n /\ N + (i - N) = i
    BY <1>1
  <2>3. \A k \in 1 .. n : N + k \in N + 1 .. N + n
    BY <1>1
  <2>4. NewIds(n) = N + 1 .. N + n
    BY DEF NewIds, N
  <2> QED BY <2>1, <2>2, <2>3, <2>4
<1>8. NewIds(n) \in SUBSET Objects
  BY <1>1 DEF NewIds, N, Objects
<1> QED BY <1>3, <1>4, <1>6, <1>7, <1>8 DEF s

\* A copy stands for a selected object and has no parent, or for what is
\* attached to a selected object and its parent is the copy of that.
LEMMA CopiesAre ==
  ASSUME NEW q, NEW src, NEW obs, GoodVisit(q, src, obs), NEW n \in 0 .. Len(q),
         NEW dest, CanCopy(dest, n), NEW ob \in NewIds(n)
  PROVE  LET i == q[ob - next_object_id] IN
         /\ ob - next_object_id \in 1 .. Len(q)
         /\ i \in Items
         /\ CopyParent(q, ob) \in NewIds(n) \cup {NULL}
         /\ i.at = 0 => CopyParent(q, ob) = NULL /\ i.of \in obs
         /\ i.at # 0 => LET o == CopyParent(q, ob)  j == q[o - next_object_id] IN
                        /\ o \in NewIds(n) /\ o # NULL
                        /\ j.at = 0 /\ j.of \in obs
                        /\ i.of \in ToSet(Kids(src, j.of))
<1> DEFINE N == next_object_id  m == ob - N  i == q[m]
<1>1. N \in Nat /\ n \in Nat /\ q \in Seq(Items) /\ Len(q) \in Nat
  BY LenProperties DEF CanCopy, GoodVisit
<1>2. NewIds(n) = N + 1 .. N + n
  BY DEF NewIds
<1> HIDE DEF N
<1>3. m \in 1 .. n /\ m \in 1 .. Len(q) /\ N + m = ob
  BY <1>1, <1>2
<1>4. GoodItem(q, m, src, obs)
  BY <1>3 DEF GoodVisit
<1>5. CopyParent(q, ob) = IF i.at = 0 THEN NULL ELSE N + i.at
  BY DEF CopyParent, N
<1>6. i \in Items /\ i.at \in Nat /\ i.at < m
  BY <1>4 DEF GoodItem, Items
<1>7. ASSUME i.at = 0 PROVE CopyParent(q, ob) = NULL /\ i.of \in obs
  BY <1>4, <1>5, <1>7 DEF GoodItem
<1>8. ASSUME i.at # 0
      PROVE  LET o == CopyParent(q, ob)  j == q[o - N] IN
             /\ o \in NewIds(n) /\ o # NULL
             /\ j.at = 0 /\ j.of \in obs
             /\ i.of \in ToSet(Kids(src, j.of))
  <2> HIDE DEF m
  <2>1. CopyParent(q, ob) = N + i.at /\ i.at \in 1 .. n /\ i.at \in 1 .. Len(q)
    BY <1>1, <1>3, <1>5, <1>6, <1>8
  <2>2. (N + i.at) - N = i.at /\ N + i.at \in N + 1 .. N + n
    BY <1>1, <2>1
  <2>3. q[i.at].at = 0 /\ i.of \in ToSet(Kids(src, q[i.at].of))
    BY <1>4, <1>8 DEF GoodItem
  <2>4. GoodItem(q, i.at, src, obs)
    BY <2>1 DEF GoodVisit
  <2>5. q[i.at].of \in obs
    BY <2>3, <2>4 DEF GoodItem
  <2>6. N + i.at # NULL
    BY <1>1, <2>1 DEF NULL
  <2> HIDE DEF i
  <2> QED BY <1>2, <2>1, <2>2, <2>3, <2>5, <2>6
<1>9. CopyParent(q, ob) \in NewIds(n) \cup {NULL}
  BY <1>7, <1>8
<1> QED BY <1>3, <1>6, <1>7, <1>8, <1>9 DEF N

\* What is copied exists.
LEMMA SourcesExist ==
  ASSUME NEW dest \in Revisions, NEW src \in Revisions, Linked(src),
         NEW q, NEW obs \in SUBSET DOMAIN src.obstates, GoodVisit(q, src, obs),
         NEW n \in 0 .. Len(q), CanCopy(dest, n), NEW ob \in NewIds(n)
  PROVE  q[ob - next_object_id].of \in DOMAIN src.obstates
<1> DEFINE N == next_object_id
           new == NewIds(n)
           i == q[ob - N]
<1>1. CopyParent(q, ob) \in new \cup {NULL} /\ i \in Items
  BY CopiesAre
<1>2. CASE i.at = 0
  <2>1. i.of \in obs
    BY <1>2, CopiesAre
  <2> QED BY <2>1
<1>3. CASE i.at # 0
  <2>1. \E o \in new : i.of \in ToSet(Kids(src, q[o - N].of)) /\ q[o - N].of \in obs
    BY <1>3, CopiesAre
  <2>2. PICK x \in DOMAIN src.obstates : i.of \in ToSet(Kids(src, x))
    BY <2>1
  <2>3. x \in Objects
    BY <2>2, RevisionIs, TableIs
  <2>4. ToSet(Kids(src, x)) = {o \in DOMAIN src.parent : src.parent[o] = x}
    BY <2>3 DEF Linked, ListExact
  <2> HIDE DEF i
  <2>5. i.of \in DOMAIN src.obstates
    BY <2>2, <2>4 DEF Linked
  <2> QED BY <2>5 DEF i
<1> QED BY <1>2, <1>3

\* w is dest with n copies.
CopyOf(w, dest, src, q, n) ==
  /\ w \in Revisions /\ w.is_transient = dest.is_transient
  /\ NewIds(n) \cap DOMAIN dest.obstates = {}
  /\ DOMAIN w.obstates = DOMAIN dest.obstates \cup NewIds(n)
  /\ \A ob \in DOMAIN dest.obstates : w.obstates[ob] = dest.obstates[ob]
  /\ \A ob \in NewIds(n) : w.obstates[ob] = src.obstates[q[ob - next_object_id].of]
  /\ DOMAIN w.parent = DOMAIN dest.parent \cup NewIds(n)
  /\ \A ob \in DOMAIN dest.parent : w.parent[ob] = dest.parent[ob]
  /\ \A ob \in NewIds(n) : w.parent[ob] = CopyParent(q, ob)
  /\ DOMAIN w.children = DOMAIN dest.children \cup {CopyParent(q, ob) : ob \in NewIds(n)}
  /\ \A k \in DOMAIN w.children :
       Kids(w, k) = Kids(dest, k) \o Filtered(CopyIds(n), {ob \in NewIds(n) : CopyParent(q, ob) = k})

\* Copied gives the copies their states and parents and lists them at the end.
LEMMA CopiedIs ==
  ASSUME NEW dest \in Revisions, NEW src \in Revisions, Linked(dest), Linked(src),
         NEW q, NEW obs \in SUBSET DOMAIN src.obstates, GoodVisit(q, src, obs),
         NEW n \in 0 .. Len(q), CanCopy(dest, n)
  PROVE  CopyOf(Copied(dest, src, q, n), dest, src, q, n)
<1> DEFINE N == next_object_id
           new == NewIds(n)
           t == Joined(dest.obstates, [ob \in new |-> src.obstates[q[ob - N].of]])
           p == Joined(dest.parent, [ob \in new |-> CopyParent(q, ob)])
           ps == {CopyParent(q, ob) : ob \in new}
           more(k) == Filtered(CopyIds(n), {ob \in new : CopyParent(q, ob) = k})
           c == [k \in DOMAIN dest.children \cup ps |-> Kids(dest, k) \o more(k)]
           w == Copied(dest, src, q, n)
<1>1. /\ CopyIds(n) \in Seq(Objects)
      /\ IsInjective(CopyIds(n))
      /\ ToSet(CopyIds(n)) = new
      /\ new \in SUBSET Objects
  BY CopyIdsListed
<1>2. w = [dest EXCEPT !.obstates = t, !.parent = p, !.children = c]
  <2>1. w = [dest EXCEPT
        !.obstates = Joined(@, [ob \in ToSet(CopyIds(n)) |-> src.obstates[q[ob - N].of]]),
        !.parent   = Joined(@, [ob \in ToSet(CopyIds(n)) |-> CopyParent(q, ob)]),
        !.children = [k \in DOMAIN @ \cup {CopyParent(q, ob) : ob \in ToSet(CopyIds(n))} |->
                        Kids(dest, k)
                          \o Filtered(CopyIds(n), {ob \in ToSet(CopyIds(n)) : CopyParent(q, ob) = k})]]
    BY DEF Copied, CopyParent
  <2> HIDE DEF new
  <2> QED BY <1>1, <2>1
<1>3. new \cap DOMAIN dest.obstates = {}
  <2>1. N \in Nat /\ n \in Nat /\ DOMAIN dest.obstates \in SUBSET (1 .. N)
    BY DEF CanCopy
  <2>2. new = N + 1 .. N + n
    BY DEF NewIds
  <2> HIDE DEF N, new
  <2> QED BY <2>1, <2>2
<1>4. DOMAIN dest.parent = DOMAIN dest.obstates
  BY DEF Linked
<1>5. ASSUME NEW ob \in new
      PROVE  /\ q[ob - N].of \in DOMAIN src.obstates
             /\ CopyParent(q, ob) \in new \cup {NULL}
  BY CopiesAre, SourcesExist
<1> HIDE DEF N
<1>6. /\ DOMAIN t = DOMAIN dest.obstates \cup new
      /\ \A ob \in DOMAIN dest.obstates : t[ob] = dest.obstates[ob]
      /\ \A ob \in new : t[ob] = src.obstates[q[ob - N].of]
  <2> HIDE DEF new
  <2> QED BY <1>3 DEF Joined
<1>7. /\ DOMAIN p = DOMAIN dest.parent \cup new
      /\ \A ob \in DOMAIN dest.parent : p[ob] = dest.parent[ob]
      /\ \A ob \in new : p[ob] = CopyParent(q, ob)
  <2> HIDE DEF new
  <2> QED BY <1>3, <1>4 DEF Joined
<1>8. t \in Tables
  <2>1. DOMAIN t \in SUBSET Objects
    BY <1>1, <1>6, RevisionIs, TableIs
  <2>2. ASSUME NEW ob \in DOMAIN t PROVE t[ob] \in Addrs
    <3>1. CASE ob \in DOMAIN dest.obstates
      <4>1. t[ob] = dest.obstates[ob] /\ dest.obstates \in Tables
        BY <1>6, <3>1, RevisionIs
      <4> HIDE DEF t
      <4> QED BY <3>1, <4>1, TableIs
    <3>2. CASE ob \in new
      <4>1. t[ob] = src.obstates[q[ob - N].of] /\ src.obstates \in Tables /\ q[ob - N].of \in DOMAIN src.obstates
        BY <1>5, <1>6, <3>2, RevisionIs DEF N
      <4> HIDE DEF t
      <4> QED BY <4>1, TableIs
    <3> HIDE DEF t, new
    <3> QED BY <1>6, <3>1, <3>2
  <2>3. t = [ob \in DOMAIN t |-> t[ob]]
    BY DEF Joined
  <2> HIDE DEF t
  <2>4. t \in [DOMAIN t -> Addrs]
    BY <2>2, <2>3
  <2> QED BY <2>1, <2>4, PartialGiven DEF Tables
<1>9. p \in Parents
  <2>1. DOMAIN p \in SUBSET Objects
    BY <1>1, <1>7, RevisionIs, ParentsAre
  <2>2. ASSUME NEW ob \in DOMAIN p PROVE p[ob] \in Objects \cup {NULL}
    <3>1. CASE ob \in DOMAIN dest.parent
      <4>1. p[ob] = dest.parent[ob] /\ dest.parent \in Parents
        BY <1>7, <3>1, RevisionIs
      <4> HIDE DEF p
      <4> QED BY <3>1, <4>1, ParentsAre
    <3>2. CASE ob \in new
      <4>1. p[ob] = CopyParent(q, ob) /\ CopyParent(q, ob) \in new \cup {NULL}
        BY <1>5, <1>7, <3>2
      <4> HIDE DEF p
      <4> QED BY <1>1, <4>1
    <3> HIDE DEF p, new
    <3> QED BY <1>7, <3>1, <3>2
  <2>3. p = [ob \in DOMAIN p |-> p[ob]]
    BY DEF Joined
  <2> HIDE DEF p
  <2>4. p \in [DOMAIN p -> Objects \cup {NULL}]
    BY <2>2, <2>3
  <2> QED BY <2>1, <2>4, PartialGiven DEF Parents
<1>10. /\ DOMAIN c = DOMAIN dest.children \cup ps
       /\ \A k \in DOMAIN c : c[k] = Kids(dest, k) \o more(k)
  <2> HIDE DEF ps, more
  <2> QED OBVIOUS
<1>11. c \in Lists
  <2>1. ps \in SUBSET (Objects \cup {NULL})
    BY <1>1, <1>5
  <2>2. DOMAIN c \in SUBSET (Objects \cup {NULL})
    BY <1>10, <2>1, RevisionIs, ListsAre
  <2>3. ASSUME NEW k \in DOMAIN c PROVE c[k] \in Seq(Objects)
    <3>1. Kids(dest, k) \in Seq(Objects)
      BY KidsListed
    <3>2. more(k) \in Seq(Objects)
      BY <1>1, FilteredListed
    <3>3. c[k] = Kids(dest, k) \o more(k)
      BY <1>10
    <3> HIDE DEF c, more
    <3> QED BY <3>1, <3>2, <3>3, ConcatProperties
  <2>4. c = [k \in DOMAIN c |-> c[k]]
    OBVIOUS
  <2> HIDE DEF c
  <2>5. c \in [DOMAIN c -> Seq(Objects)]
    BY <2>3, <2>4
  <2> QED BY <2>2, <2>5, PartialGiven DEF Lists
<1> HIDE DEF t, p, c, w
<1>12. /\ w.obstates = t /\ w.is_transient = dest.is_transient
       /\ w.children = c /\ w.parent = p /\ w \in Revisions
  BY <1>2, <1>8, <1>9, <1>11 DEF Revisions
<1>13. \A k \in DOMAIN w.children : Kids(w, k) = Kids(dest, k) \o more(k)
  <2> HIDE DEF more
  <2> QED BY <1>10, <1>12 DEF Kids
<1> QED BY <1>3, <1>6, <1>7, <1>10, <1>12, <1>13 DEF w, N, CopyOf

\* The copies are linked among themselves, and of the right kinds.
LEMMA CopiedLinked ==
  ASSUME NEW dest \in Revisions, NEW src \in Revisions, Linked(dest), Linked(src),
         NEW q, NEW obs \in SUBSET DOMAIN src.obstates, GoodVisit(q, src, obs),
         NEW n \in 0 .. Len(q), CanCopy(dest, n)
  PROVE  /\ Linked(Copied(dest, src, q, n))
         /\ \A h : Kinds(dest, h) /\ Kinds(src, h) => Kinds(Copied(dest, src, q, n), h)
<1> DEFINE w == Copied(dest, src, q, n)
           new == NewIds(n)
           N == next_object_id
           more(k) == Filtered(CopyIds(n), {ob \in new : CopyParent(q, ob) = k})
<1>1. CopyOf(w, dest, src, q, n)
  BY CopiedIs
<1> HIDE DEF w
<1>2. /\ w \in Revisions
      /\ new \cap DOMAIN dest.obstates = {}
      /\ DOMAIN w.obstates = DOMAIN dest.obstates \cup new
      /\ \A ob \in DOMAIN dest.obstates : w.obstates[ob] = dest.obstates[ob]
      /\ \A ob \in new : w.obstates[ob] = src.obstates[q[ob - N].of]
      /\ DOMAIN w.parent = DOMAIN dest.parent \cup new
      /\ \A ob \in DOMAIN dest.parent : w.parent[ob] = dest.parent[ob]
      /\ \A ob \in new : w.parent[ob] = CopyParent(q, ob)
      /\ DOMAIN w.children = DOMAIN dest.children \cup {CopyParent(q, ob) : ob \in new}
      /\ \A k \in DOMAIN w.children : Kids(w, k) = Kids(dest, k) \o more(k)
  BY <1>1 DEF CopyOf
<1>3. /\ CopyIds(n) \in Seq(Objects)
      /\ IsInjective(CopyIds(n))
      /\ ToSet(CopyIds(n)) = new
      /\ new \in SUBSET Objects
  BY CopyIdsListed
<1>4. DOMAIN dest.parent = DOMAIN dest.obstates
  BY DEF Linked
<1>5. ASSUME NEW ob \in new PROVE CopyParent(q, ob) \in new \cup {NULL}
  BY CopiesAre
<1> HIDE DEF new
<1>6. \A ob \in DOMAIN w.parent : w.parent[ob] \in DOMAIN w.obstates \cup {NULL}
  <2>1. ASSUME NEW ob \in DOMAIN dest.parent PROVE w.parent[ob] \in DOMAIN w.obstates \cup {NULL}
    <3>1. dest.parent[ob] \in DOMAIN dest.obstates \cup {NULL}
      BY DEF Linked
    <3> QED BY <1>2, <3>1
  <2>2. ASSUME NEW ob \in new PROVE w.parent[ob] \in DOMAIN w.obstates \cup {NULL}
    BY <1>2, <1>5
  <2> QED BY <1>2, <2>1, <2>2
<1>7. ASSUME NEW k \in Objects \cup {NULL} PROVE ListExact(w, k)
  <2>1. ListExact(dest, k) /\ Kids(dest, k) \in Seq(Objects)
    BY KidsListed DEF Linked
  <2>2. ToSet(Kids(dest, k)) = {ob \in DOMAIN dest.parent : dest.parent[ob] = k}
    BY <2>1 DEF ListExact
  <2> DEFINE here == {ob \in new : CopyParent(q, ob) = k}
  <2>3. {ob \in DOMAIN w.parent : w.parent[ob] = k} = ToSet(Kids(dest, k)) \cup here
    <3>1. ASSUME NEW ob \in DOMAIN dest.parent PROVE w.parent[ob] = dest.parent[ob]
      BY <1>2
    <3>2. ASSUME NEW ob \in new PROVE w.parent[ob] = CopyParent(q, ob)
      BY <1>2
    <3>3. DOMAIN w.parent = DOMAIN dest.parent \cup new
      BY <1>2
    <3> QED BY <2>2, <3>1, <3>2, <3>3
  <2>4. CASE k \in DOMAIN w.children
    <3>1. /\ more(k) \in Seq(Objects) /\ ToSet(more(k)) = new \cap here /\ IsInjective(more(k))
      <4> HIDE DEF here
      <4>1. /\ Filtered(CopyIds(n), here) \in Seq(Objects)
            /\ ToSet(Filtered(CopyIds(n), here)) = ToSet(CopyIds(n)) \cap here
            /\ IsInjective(Filtered(CopyIds(n), here))
        BY <1>3, FilteredListed
      <4>2. more(k) = Filtered(CopyIds(n), here)
        BY DEF here
      <4> QED BY <1>3, <4>1, <4>2
    <3>2. ToSet(more(k)) = here
      <4> HIDE DEF more
      <4> QED BY <3>1
    <3>3. ToSet(Kids(dest, k)) \cap here = {}
      BY <1>2, <1>4, <2>2
    <3>4. Kids(w, k) = Kids(dest, k) \o more(k)
      BY <1>2, <2>4
    <3> HIDE DEF more, here
    <3>5. IsInjective(Kids(dest, k))
      BY <2>1 DEF ListExact
    <3>6. /\ ToSet(Kids(w, k)) = ToSet(Kids(dest, k)) \cup here
          /\ IsInjective(Kids(w, k))
      <4>1. ToSet(Kids(dest, k)) \cap ToSet(more(k)) = {}
        BY <3>2, <3>3
      <4>2. /\ ToSet(Kids(dest, k) \o more(k)) = ToSet(Kids(dest, k)) \cup ToSet(more(k))
            /\ IsInjective(Kids(dest, k) \o more(k))
        BY <2>1, <3>1, <3>5, <4>1, ConcatListed
      <4> QED BY <3>2, <3>4, <4>2
    <3> QED BY <2>3, <3>6 DEF ListExact
  <2>5. CASE k \notin DOMAIN w.children
    <3>1. Kids(w, k) = <<>> /\ Kids(dest, k) = <<>>
      BY <1>2, <2>5 DEF Kids
    <3>2. here = {}
      BY <1>2, <2>5
    <3>3. {ob \in DOMAIN w.parent : w.parent[ob] = k} = {}
      BY <2>3, <3>1, <3>2, EmptyListed
    <3> QED BY <3>1, <3>3, EmptyListed DEF ListExact
  <2> QED BY <2>4, <2>5
<1>8. Linked(w)
  <2>1. DOMAIN w.parent = DOMAIN w.obstates
    BY <1>2, <1>4
  <2>2. DOMAIN w.children \in SUBSET (DOMAIN w.obstates \cup {NULL})
    <3>1. DOMAIN dest.children \in SUBSET (DOMAIN dest.obstates \cup {NULL})
      BY DEF Linked
    <3>2. {CopyParent(q, ob) : ob \in new} \in SUBSET (new \cup {NULL})
      BY <1>5
    <3> QED BY <1>2, <3>1, <3>2
  <2> QED BY <1>6, <1>7, <2>1, <2>2 DEF Linked
<1>9. ASSUME NEW h, Kinds(dest, h), Kinds(src, h), NEW ob \in DOMAIN w.parent
      PROVE  KindRight(w, h, ob)
  <2>1. CASE ob \in DOMAIN dest.parent
    <3>1. KindRight(dest, h, ob) /\ w.parent[ob] = dest.parent[ob] /\ w.obstates[ob] = dest.obstates[ob]
      BY <1>2, <1>4, <1>9, <2>1 DEF Kinds
    <3> QED BY <1>2, <3>1 DEF KindRight
  <2>2. CASE ob \in new
    <3> DEFINE i == q[ob - N]  o == CopyParent(q, ob)  j == q[o - N]
    <3>1. SUFFICES ASSUME o # NULL
                   PROVE  /\ o \in DOMAIN w.obstates
                          /\ h[w.obstates[ob]].type = "text"
                          /\ h[w.obstates[o]].type \in Holders
      <4>1. w.parent[ob] = o
        BY <1>2, <2>2
      <4> HIDE DEF o
      <4> QED BY <4>1 DEF KindRight
    <3>2. i.at = 0 => o = NULL
      BY <2>2, CopiesAre DEF new
    <3>3. o \in new /\ j.of \in obs /\ i.of \in ToSet(Kids(src, j.of))
      <4>1. i.at # 0
        BY <3>1, <3>2
      <4> QED BY <2>2, <4>1, CopiesAre DEF new
    <3>4. w.obstates[ob] = src.obstates[i.of] /\ w.obstates[o] = src.obstates[j.of] /\ o \in DOMAIN w.obstates
      BY <1>2, <2>2, <3>3
    <3> HIDE DEF i, j, o
    <3>5. j.of \in Objects /\ j.of # NULL
      BY <3>3, NullIsNoObject, RevisionIs, TableIs
    <3>6. i.of \in DOMAIN src.parent /\ src.parent[i.of] = j.of
      BY <3>3, <3>5 DEF Linked, ListExact
    <3>7. h[src.obstates[i.of]].type = "text" /\ h[src.obstates[j.of]].type \in Holders
      BY <1>9, <3>5, <3>6 DEF Kinds, KindRight
    <3> QED BY <3>4, <3>7
  <2> QED BY <1>2, <2>1, <2>2
<1> QED BY <1>8, <1>9 DEF w, Kinds

(* Deleting the copies again leaves a revision that reads as before. *)
LEMMA UndoneReads ==
  ASSUME NEW dest \in Revisions, NEW src \in Revisions, Linked(dest), Linked(src),
         NEW q, NEW obs \in SUBSET DOMAIN src.obstates, GoodVisit(q, src, obs),
         NEW n \in 0 .. Len(q), CanCopy(dest, n)
  PROVE  LET u == CopiesDeleted(Copied(dest, src, q, n), n) IN
         /\ u \in Revisions
         /\ ReadsAs(u, dest)
         /\ DOMAIN u.children \in SUBSET (DOMAIN dest.children \cup {NULL})
<1> DEFINE w == Copied(dest, src, q, n)
           new == NewIds(n)
           u == Removed(w, new)
           more(k) == Filtered(CopyIds(n), {ob \in new : CopyParent(q, ob) = k})
<1>1. CopyOf(w, dest, src, q, n)
  BY CopiedIs
<1> HIDE DEF w
<1>2. /\ w \in Revisions /\ w.is_transient = dest.is_transient
      /\ new \cap DOMAIN dest.obstates = {}
      /\ DOMAIN w.obstates = DOMAIN dest.obstates \cup new
      /\ \A ob \in DOMAIN dest.obstates : w.obstates[ob] = dest.obstates[ob]
      /\ DOMAIN w.parent = DOMAIN dest.parent \cup new
      /\ \A ob \in DOMAIN dest.parent : w.parent[ob] = dest.parent[ob]
      /\ DOMAIN w.children = DOMAIN dest.children \cup {CopyParent(q, ob) : ob \in new}
      /\ \A k \in DOMAIN w.children : Kids(w, k) = Kids(dest, k) \o more(k)
  BY <1>1 DEF CopyOf
<1>3. /\ CopyIds(n) \in Seq(Objects)
      /\ ToSet(CopyIds(n)) = new
      /\ new \in SUBSET Objects
  BY CopyIdsListed
<1>4. DOMAIN dest.parent = DOMAIN dest.obstates
  BY DEF Linked
<1>5. ASSUME NEW ob \in new PROVE CopyParent(q, ob) \in new \cup {NULL}
  BY CopiesAre
<1>6. CopiesDeleted(w, n) = u
  BY <1>3 DEF CopiesDeleted
<1> HIDE DEF new
<1>13. IsRemoved(u, w, new)
  BY <1>2, RemovedIs
<1> HIDE DEF u
<1>7. /\ u \in Revisions /\ u.is_transient = w.is_transient
      /\ u.obstates = Without(w.obstates, new)
      /\ u.parent = Without(w.parent, new)
      /\ DOMAIN u.children = DOMAIN w.children \ new
  BY <1>13 DEF IsRemoved
<1>8. ASSUME NEW k, k \notin new
      PROVE  /\ k \in DOMAIN w.children => Kids(u, k) = Filtered(Kids(w, k), Objects \ new)
             /\ k \notin DOMAIN w.children => Kids(u, k) = <<>> /\ Kids(w, k) = <<>>
  BY <1>8, <1>13 DEF IsRemoved
<1>9. u.obstates = dest.obstates
  <2>1. DOMAIN w.obstates \ new = DOMAIN dest.obstates
    BY <1>2
  <2>2. Without(w.obstates, new) = [ob \in DOMAIN dest.obstates |-> w.obstates[ob]]
    BY <2>1 DEF Without, Restrict
  <2>3. [ob \in DOMAIN dest.obstates |-> w.obstates[ob]]
          = [ob \in DOMAIN dest.obstates |-> dest.obstates[ob]]
    BY <1>2
  <2>4. dest.obstates = [ob \in DOMAIN dest.obstates |-> dest.obstates[ob]]
    BY RevisionIs, TableIs
  <2> QED BY <1>7, <2>2, <2>3, <2>4
<1>10. u.parent = dest.parent
  <2>1. DOMAIN w.parent \ new = DOMAIN dest.parent
    BY <1>2, <1>4
  <2>2. Without(w.parent, new) = [ob \in DOMAIN dest.parent |-> w.parent[ob]]
    BY <2>1 DEF Without, Restrict
  <2>3. [ob \in DOMAIN dest.parent |-> w.parent[ob]]
          = [ob \in DOMAIN dest.parent |-> dest.parent[ob]]
    BY <1>2
  <2>4. dest.parent = [ob \in DOMAIN dest.parent |-> dest.parent[ob]]
    BY RevisionIs, ParentsAre
  <2> QED BY <1>7, <2>2, <2>3, <2>4
<1>11. ASSUME NEW k \in Objects \cup {NULL} PROVE Kids(u, k) = Kids(dest, k)
  <2>1. Kids(dest, k) \in Seq(Objects) /\ ListExact(dest, k)
    BY KidsListed DEF Linked
  <2>2. ToSet(Kids(dest, k)) = {ob \in DOMAIN dest.parent : dest.parent[ob] = k}
    BY <2>1 DEF ListExact
  <2>3. CASE k \in new
    <3>1. Kids(u, k) = <<>>
      BY <1>7, <2>3 DEF Kids
    <3>2. k \notin DOMAIN dest.children
      <4>1. k # NULL
        BY <1>3, <2>3, NullIsNoObject
      <4> QED BY <1>2, <2>3, <4>1 DEF Linked
    <3> QED BY <3>1, <3>2 DEF Kids
  <2>4. CASE k \notin new /\ k \in DOMAIN w.children
    <3>1. Kids(w, k) = Kids(dest, k) \o more(k)
      BY <1>2, <2>4
    <3>2. more(k) \in Seq(Objects) /\ ToSet(more(k)) \in SUBSET new
      BY <1>3, FilteredListed
    <3> HIDE DEF more
    <3>3. ToSet(Kids(dest, k)) \in SUBSET (Objects \ new)
      <4>1. ToSet(Kids(dest, k)) \in SUBSET Objects
        BY <2>1, Listed
      <4> QED BY <1>2, <1>4, <2>2, <4>1
    <3>4. ToSet(more(k)) \cap (Objects \ new) = {}
      BY <3>2
    <3>5. Filtered(Kids(dest, k) \o more(k), Objects \ new) = Kids(dest, k)
      BY <2>1, <3>2, <3>3, <3>4, FilteredConcat
    <3> QED BY <1>8, <2>4, <3>1, <3>5
  <2>5. CASE k \notin new /\ k \notin DOMAIN w.children
    <3>1. k \notin DOMAIN dest.children
      BY <1>2, <2>5
    <3> QED BY <1>8, <2>5, <3>1 DEF Kids
  <2> QED BY <2>3, <2>4, <2>5
<1>12. DOMAIN u.children \in SUBSET (DOMAIN dest.children \cup {NULL})
  <2>1. {CopyParent(q, ob) : ob \in new} \in SUBSET (new \cup {NULL})
    BY <1>5
  <2> QED BY <1>2, <1>7, <2>1
<1> QED BY <1>2, <1>6, <1>7, <1>9, <1>10, <1>11, <1>12 DEF w, ReadsAs

-----------------------------------------------------------------------------
(* The inductive invariant *)

\* A revision only has objects whose ids have been handed out, and its tree
\* agrees with its object states.
GoodRevision(v, h, N) == DOMAIN v.obstates \in SUBSET (1 .. N) /\ Linked(v) /\ Kinds(v, h)

Consistent(lv, h, N) ==
  /\ lv \in Partial(Revs, Revisions)
  /\ h \in Heaps
  /\ N \in 0 .. MaxObjects
  /\ Exact(States(lv), h)
  /\ \A r \in DOMAIN lv : GoodRevision(lv[r], h, N)

Inv == Consistent(live, heap, next_object_id) /\ result \in {"ok", "error", "uncaught"}

OthersKept(lv, lv2, r) ==
  \A q \in Revs : q # r => (q \in DOMAIN lv2 <=> q \in DOMAIN lv) /\ (q \in DOMAIN lv => lv2[q] = lv[q])

RowChanges(row, row2, out, in) ==
  /\ DOMAIN out \in SUBSET DOMAIN row
  /\ \A ob \in DOMAIN out : out[ob] = row[ob]
  /\ DOMAIN in \cap (DOMAIN row \ DOMAIN out) = {}
  /\ DOMAIN row2 = (DOMAIN row \ DOMAIN out) \cup DOMAIN in
  /\ \A ob \in DOMAIN in : row2[ob] = in[ob]
  /\ \A ob \in DOMAIN row \ DOMAIN out : row2[ob] = row[ob]

\* The empty table has no objects and points nowhere.
LEMMA NoObjects == <<>> \in Tables /\ DOMAIN <<>> = {} /\ \A a : Pointers(<<>>, a) = 0
<1>1. DOMAIN <<>> = {}
  OBVIOUS
<1>2. <<>> \in [{} -> Addrs] /\ {} \in SUBSET Objects
  OBVIOUS
<1>3. <<>> \in Tables
  BY <1>2, PartialGiven DEF Tables
<1>4. ASSUME NEW a PROVE Pointers(<<>>, a) = 0
  <2>1. {ob \in DOMAIN <<>> : <<>>[ob] = a} = {}
    BY <1>1
  <2> QED BY <2>1, FS_EmptySet DEF Pointers
<1> QED BY <1>1, <1>3, <1>4

\* The allocated revisions have addresses and types.
LEMMA LiveIs ==
  ASSUME NEW lv \in Partial(Revs, Revisions)
  PROVE  /\ DOMAIN lv \in SUBSET Revs
         /\ \A r \in DOMAIN lv : lv[r] \in Revisions /\ r \in Revs
         /\ lv = [r \in DOMAIN lv |-> lv[r]]
BY PartialFunction

\* The object tables of all revisions have their types.
LEMMA StatesTyped ==
  ASSUME NEW lv \in Partial(Revs, Revisions)
  PROVE  /\ States(lv) \in [Revs -> Tables]
         /\ \A r \in DOMAIN lv : r \in Revs /\ States(lv)[r] = lv[r].obstates
         /\ \A r \in Revs : r \notin DOMAIN lv => States(lv)[r] = <<>>
<1>1. \A r \in DOMAIN lv : r \in Revs /\ lv[r].obstates \in Tables
  BY LiveIs, RevisionIs
<1>2. <<>> \in Tables
  BY NoObjects
<1> QED BY <1>1, <1>2 DEF States

\* The states of all objects are allocated.
LEMMA AddressesPresent ==
  ASSUME NEW lv \in Partial(Revs, Revisions), NEW h, Exact(States(lv), h), NEW r \in DOMAIN lv
  PROVE  \A ob \in DOMAIN lv[r].obstates : lv[r].obstates[ob] \in DOMAIN h
<1>1. r \in Revs /\ States(lv)[r] = lv[r].obstates
  BY StatesTyped
<1> QED BY <1>1 DEF Exact, AllPresent

\* While states are not changed in place, what is attached stays of the right kind.
LEMMA KindsKept ==
  ASSUME NEW v \in Revisions, Linked(v), NEW h, NEW h2, Kinds(v, h), SameStates(h, h2),
         \A ob \in DOMAIN v.obstates : v.obstates[ob] \in DOMAIN h /\ v.obstates[ob] \in DOMAIN h2
  PROVE  Kinds(v, h2)
<1>1. ASSUME NEW ob \in DOMAIN v.obstates PROVE h2[v.obstates[ob]].type = h[v.obstates[ob]].type
  BY DEF SameStates, SameState
<1>2. DOMAIN v.parent = DOMAIN v.obstates
  BY DEF Linked
<1>3. ASSUME NEW ob \in DOMAIN v.parent PROVE KindRight(v, h2, ob)
  BY <1>1, <1>2 DEF KindRight, Kinds
<1> QED BY <1>3 DEF Kinds

\* The invariant survives any step on one revision that takes the references
\* of the new entries of its table and then drops those of the old ones.
LEMMA Changed ==
  ASSUME NEW lv, NEW lv2 \in Partial(Revs, Revisions), NEW h, NEW h1 \in Heaps,
         NEW N, NEW N2 \in 0 .. MaxObjects, N <= N2, Consistent(lv, h, N),
         NEW r \in Revs, OthersKept(lv, lv2, r),
         NEW out \in Tables, NEW in \in Tables,
         RowChanges(States(lv)[r], States(lv2)[r], out, in), ReferencesAdded(h, h1, in),
         r \in DOMAIN lv2 => GoodRevision(lv2[r], h1, N2)
  PROVE  Consistent(lv2, Dropped(h1, out), N2) /\ SameStates(h, Dropped(h1, out))
<1> DEFINE h2 == Dropped(h1, out)
<1>1. lv \in Partial(Revs, Revisions) /\ h \in Heaps /\ Exact(States(lv), h) /\ N \in Nat /\ N2 \in Nat
      /\ MaxObjects \in Nat
  BY XornAssumption DEF Consistent
<1>2. States(lv) \in [Revs -> Tables] /\ States(lv2) \in [Revs -> Tables]
  BY <1>1, StatesTyped
<1>3. ASSUME NEW q \in Revs, q # r PROVE States(lv2)[q] = States(lv)[q]
  BY <1>3 DEF States, OthersKept
<1>4. TableChanges(States(lv), States(lv2), r, out, in)
  BY <1>3 DEF TableChanges, RowChanges
<1>5. h2 \in Heaps /\ Exact(States(lv2), h2) /\ SameStates(h, h2)
  BY <1>1, <1>2, <1>4, ExactStep
<1>6. DOMAIN h2 \in SUBSET DOMAIN h1 /\ SameStates(h1, h2)
  <2>1. DOMAIN h2 \in SUBSET DOMAIN h1 /\ \A a \in DOMAIN h2 : SameState(h1, h2, a)
    BY DroppedIs
  <2> HIDE DEF h2
  <2> QED BY <2>1 DEF SameStates
<1> HIDE DEF h2
<1>7. ASSUME NEW q \in DOMAIN lv2 PROVE GoodRevision(lv2[q], h2, N2)
  <2>1. lv2[q] \in Revisions /\ q \in Revs
    BY LiveIs
  <2>2. \A ob \in DOMAIN lv2[q].obstates : lv2[q].obstates[ob] \in DOMAIN h2
    BY <1>5, AddressesPresent
  <2>3. CASE q = r
    <3>1. GoodRevision(lv2[q], h1, N2)
      BY <2>3
    <3>2. \A ob \in DOMAIN lv2[q].obstates :
            lv2[q].obstates[ob] \in DOMAIN h1 /\ lv2[q].obstates[ob] \in DOMAIN h2
      BY <1>6, <2>2
    <3>3. Linked(lv2[q]) /\ Kinds(lv2[q], h1)
      BY <3>1 DEF GoodRevision
    <3>4. Kinds(lv2[q], h2)
      BY <1>6, <2>1, <3>2, <3>3, KindsKept
    <3> QED BY <3>1, <3>4 DEF GoodRevision
  <2>4. CASE q # r
    <3>1. q \in DOMAIN lv /\ lv2[q] = lv[q]
      BY <2>1, <2>4 DEF OthersKept
    <3>2. GoodRevision(lv2[q], h, N)
      BY <3>1 DEF Consistent
    <3>3. \A ob \in DOMAIN lv[q].obstates : lv[q].obstates[ob] \in DOMAIN h
      BY <1>1, <3>1, AddressesPresent
    <3>4. \A ob \in DOMAIN lv2[q].obstates :
            lv2[q].obstates[ob] \in DOMAIN h /\ lv2[q].obstates[ob] \in DOMAIN h2
      BY <2>2, <3>1, <3>3
    <3>5. Linked(lv2[q]) /\ Kinds(lv2[q], h)
      BY <3>2 DEF GoodRevision
    <3>6. Kinds(lv2[q], h2)
      BY <1>5, <2>1, <3>4, <3>5, KindsKept
    <3>7. DOMAIN lv2[q].obstates \in SUBSET (1 .. N2)
      <4>1. DOMAIN lv2[q].obstates \in SUBSET (1 .. N)
        BY <3>2 DEF GoodRevision
      <4>2. 1 .. N \in SUBSET (1 .. N2)
        BY <1>1
      <4> QED BY <4>1, <4>2
    <3> QED BY <3>5, <3>6, <3>7 DEF GoodRevision
  <2> QED BY <2>3, <2>4
<1> QED BY <1>5, <1>7 DEF Consistent, h2

(* Only what is read, or whether a revision is transient, changes. *)
LEMMA ReadChanged ==
  ASSUME NEW lv, NEW h, NEW N, NEW N2 \in 0 .. MaxObjects, N <= N2, Consistent(lv, h, N),
         NEW r \in DOMAIN lv, NEW w \in Revisions, w.obstates = lv[r].obstates,
         Linked(w), Kinds(w, h)
  PROVE  Consistent([lv EXCEPT ![r] = w], h, N2)
<1> DEFINE lv2 == [lv EXCEPT ![r] = w]
<1>1. /\ lv \in Partial(Revs, Revisions) /\ h \in Heaps /\ Exact(States(lv), h)
      /\ N \in Nat /\ N2 \in Nat
  BY XornAssumption DEF Consistent
<1>2. lv = [q \in DOMAIN lv |-> lv[q]] /\ DOMAIN lv \in SUBSET Revs
      /\ \A q \in DOMAIN lv : lv[q] \in Revisions
  BY <1>1, LiveIs
<1>3. lv2 \in [DOMAIN lv -> Revisions] /\ DOMAIN lv2 = DOMAIN lv /\ lv2[r] = w
      /\ \A q \in DOMAIN lv : q # r => lv2[q] = lv[q]
  BY <1>2
<1> HIDE DEF lv2
<1>4. lv2 \in Partial(Revs, Revisions)
  BY <1>2, <1>3, PartialGiven
<1>5. States(lv2) = States(lv)
  <2>1. \A q \in DOMAIN lv : lv2[q].obstates = lv[q].obstates
    BY <1>3
  <2> QED BY <1>3, <2>1 DEF States
<1>6. ASSUME NEW q \in DOMAIN lv2 PROVE GoodRevision(lv2[q], h, N2)
  <2>1. q \in DOMAIN lv /\ GoodRevision(lv[q], h, N)
    BY <1>3 DEF Consistent
  <2>2. DOMAIN lv[q].obstates \in SUBSET (1 .. N2)
    BY <1>1, <2>1 DEF GoodRevision
  <2>3. CASE q = r
    BY <1>3, <2>2, <2>3 DEF GoodRevision
  <2>4. CASE q # r
    BY <1>3, <2>1, <2>2, <2>4 DEF GoodRevision
  <2> QED BY <2>3, <2>4
<1> QED BY <1>1, <1>4, <1>5, <1>6 DEF Consistent, lv2

(* An operation on one revision that changes its table. *)
LEMMA RevisionChanged ==
  ASSUME NEW lv, NEW h, NEW h1 \in Heaps, NEW N, NEW N2 \in 0 .. MaxObjects, N <= N2,
         Consistent(lv, h, N), NEW r \in DOMAIN lv, NEW w \in Revisions,
         NEW out \in Tables, NEW in \in Tables,
         RowChanges(lv[r].obstates, w.obstates, out, in), ReferencesAdded(h, h1, in),
         GoodRevision(w, h1, N2)
  PROVE  /\ Consistent([lv EXCEPT ![r] = w], Dropped(h1, out), N2)
         /\ SameStates(h, Dropped(h1, out))
<1> DEFINE lv2 == [lv EXCEPT ![r] = w]
<1>1. lv \in Partial(Revs, Revisions)
  BY DEF Consistent
<1>2. lv = [q \in DOMAIN lv |-> lv[q]] /\ DOMAIN lv \in SUBSET Revs
      /\ \A q \in DOMAIN lv : lv[q] \in Revisions
  BY <1>1, LiveIs
<1>3. lv2 \in [DOMAIN lv -> Revisions] /\ DOMAIN lv2 = DOMAIN lv /\ lv2[r] = w
      /\ \A q \in DOMAIN lv : q # r => lv2[q] = lv[q]
  BY <1>2
<1> HIDE DEF lv2
<1>4. lv2 \in Partial(Revs, Revisions)
  BY <1>2, <1>3, PartialGiven
<1>5. OthersKept(lv, lv2, r)
  BY <1>3 DEF OthersKept
<1>6. States(lv)[r] = lv[r].obstates /\ States(lv2)[r] = w.obstates /\ r \in Revs
  BY <1>1, <1>3, <1>4, StatesTyped
<1>7. RowChanges(States(lv)[r], States(lv2)[r], out, in)
  BY <1>6
<1>8. GoodRevision(lv2[r], h1, N2)
  BY <1>3
<1>9. Consistent(lv2, Dropped(h1, out), N2) /\ SameStates(h, Dropped(h1, out))
  BY <1>4, <1>5, <1>6, <1>7, <1>8, Changed
<1> QED BY <1>9 DEF lv2

\* A heap is itself with no references added.
LEMMA NothingAdded ==
  ASSUME NEW h \in Heaps
  PROVE  ReferencesAdded(h, h, <<>>)
<1>1. \A a \in DOMAIN h : h[a].refcnt \in Nat
  BY HeapRecord
<1>2. DOMAIN <<>> = {} /\ \A a : Pointers(<<>>, a) = 0
  BY NoObjects
<1>3. \A a \in DOMAIN h : SameState(h, h, a)
  BY DEF SameState
<1> QED BY <1>1, <1>2, <1>3 DEF ReferencesAdded

\* Dropping no references changes nothing.
LEMMA NothingDropped ==
  ASSUME NEW h \in Heaps, \A a \in DOMAIN h : h[a].refcnt > 0
  PROVE  Dropped(h, <<>>) = h
<1>1. \A a \in DOMAIN h : h[a] \in ObstateRecs /\ h[a].refcnt \in Nat
  BY HeapRecord
<1>2. \A a : Pointers(<<>>, a) = 0
  BY NoObjects
<1>3. {a \in DOMAIN h : h[a].refcnt # Pointers(<<>>, a)} = DOMAIN h
  BY <1>1, <1>2
<1>4. ASSUME NEW a \in DOMAIN h
      PROVE  [h[a] EXCEPT !.refcnt = @ - Pointers(<<>>, a)] = h[a]
  <2>1. h[a] \in ObstateRecs /\ h[a].refcnt - Pointers(<<>>, a) = h[a].refcnt
    BY <1>1, <1>2
  <2>2. [h[a] EXCEPT !.refcnt = h[a].refcnt] = h[a]
    BY <2>1 DEF ObstateRecs
  <2> QED BY <2>1, <2>2
<1>5. h = [a \in DOMAIN h |-> h[a]]
  BY PartialFunction DEF Heaps
<1>6. Dropped(h, <<>>) = [a \in DOMAIN h |-> [h[a] EXCEPT !.refcnt = @ - Pointers(<<>>, a)]]
  BY <1>3 DEF Dropped
<1>7. [a \in DOMAIN h |-> [h[a] EXCEPT !.refcnt = @ - Pointers(<<>>, a)]] = [a \in DOMAIN h |-> h[a]]
  BY <1>4
<1> QED BY <1>5, <1>6, <1>7

\* Retained counts up and changes nothing else.
IsRetained(g, h, f) ==
  /\ g \in Heaps /\ DOMAIN g = DOMAIN h
  /\ \A a \in DOMAIN h : /\ g[a].refcnt = h[a].refcnt + Pointers(f, a)
                         /\ SameState(h, g, a)
                         /\ g[a] = [h[a] EXCEPT !.refcnt = @ + Pointers(f, a)]

LEMMA RetainedIs ==
  ASSUME NEW h \in Heaps, NEW f \in Tables PROVE IsRetained(Retained(h, f), h, f)
<1> DEFINE g == Retained(h, f)
<1>1. DOMAIN g = DOMAIN h /\ g = [a \in DOMAIN h |-> g[a]]
  BY DEF Retained
<1>2. ASSUME NEW a \in DOMAIN h
      PROVE  /\ g[a].refcnt = h[a].refcnt + Pointers(f, a)
             /\ SameState(h, g, a)
             /\ g[a] = [h[a] EXCEPT !.refcnt = @ + Pointers(f, a)]
             /\ g[a] \in ObstateRecs
  <2>1. g[a] = [h[a] EXCEPT !.refcnt = @ + Pointers(f, a)]
    BY DEF Retained
  <2>2. h[a] \in ObstateRecs /\ h[a].refcnt \in Nat
    BY HeapRecord
  <2>3. Pointers(f, a) \in Nat
    BY UsesCounted
  <2>4. h[a].refcnt + Pointers(f, a) \in Nat
    BY <2>2, <2>3
  <2> HIDE DEF g
  <2>5. g[a].refcnt = h[a].refcnt + Pointers(f, a)
    BY <2>1, <2>2 DEF ObstateRecs
  <2>6. SameState(h, g, a)
    BY <2>1, <2>2 DEF ObstateRecs, SameState
  <2>7. g[a] \in ObstateRecs
    BY <2>1, <2>2, <2>4 DEF ObstateRecs
  <2> QED BY <2>1, <2>5, <2>6, <2>7
<1> HIDE DEF g
<1>3. g \in Heaps
  <2>1. DOMAIN h \in SUBSET Addrs
    BY PartialFunction DEF Heaps
  <2>2. g \in [DOMAIN h -> ObstateRecs]
    BY <1>1, <1>2
  <2> QED BY <2>1, <2>2, PartialGiven DEF Heaps
<1>4. IsRetained(g, h, f)
  BY <1>1, <1>2, <1>3 DEF IsRetained
<1> QED BY <1>4 DEF g

\* Retained adds the references of a table whose states are allocated.
LEMMA RetainedAdds ==
  ASSUME NEW h \in Heaps, NEW f \in Tables, \A ob \in DOMAIN f : f[ob] \in DOMAIN h
  PROVE  ReferencesAdded(h, Retained(h, f), f)
<1>1. IsRetained(Retained(h, f), h, f)
  BY RetainedIs
<1> QED BY <1>1, Zenon DEF ReferencesAdded, IsRetained

(* Dropping what was just taken leaves the heap as it was. *)
LEMMA TakenBack ==
  ASSUME NEW h \in Heaps, NEW f \in Tables, \A a \in DOMAIN h : h[a].refcnt > 0
  PROVE  Dropped(Retained(h, f), f) = h
<1> DEFINE g == Retained(h, f)  d == Dropped(g, f)
<1>1. IsRetained(g, h, f)
  BY RetainedIs
<1> HIDE DEF g
<1>2. \A a \in DOMAIN h : h[a] \in ObstateRecs /\ h[a].refcnt \in Nat /\ Pointers(f, a) \in Nat
  BY HeapRecord, UsesCounted
<1>3. {a \in DOMAIN g : g[a].refcnt # Pointers(f, a)} = DOMAIN h
  <2>1. ASSUME NEW a \in DOMAIN h PROVE g[a].refcnt # Pointers(f, a)
    <3>1. g[a].refcnt = h[a].refcnt + Pointers(f, a) /\ h[a].refcnt > 0
      BY <1>1 DEF IsRetained
    <3>2. h[a].refcnt \in Nat /\ Pointers(f, a) \in Nat
      BY <1>2
    <3> QED BY <3>1, <3>2
  <2> QED BY <1>1, <2>1, Zenon DEF IsRetained
<1>4. d = [a \in DOMAIN h |-> [g[a] EXCEPT !.refcnt = @ - Pointers(f, a)]]
  BY <1>3 DEF Dropped
<1>5. ASSUME NEW a \in DOMAIN h PROVE [g[a] EXCEPT !.refcnt = @ - Pointers(f, a)] = h[a]
  <2>1. h[a] \in ObstateRecs /\ h[a].refcnt \in Nat /\ Pointers(f, a) \in Nat
    BY <1>2
  <2>2. g[a] = [h[a] EXCEPT !.refcnt = @ + Pointers(f, a)] /\ g[a].refcnt = h[a].refcnt + Pointers(f, a)
    BY <1>1 DEF IsRetained
  <2>3. (h[a].refcnt + Pointers(f, a)) - Pointers(f, a) = h[a].refcnt
    BY <2>1
  <2>4. g[a].refcnt - Pointers(f, a) = h[a].refcnt
    BY <2>2, <2>3
  <2>5. [g[a] EXCEPT !.refcnt = h[a].refcnt] = h[a]
    BY <2>1, <2>2 DEF ObstateRecs
  <2> QED BY <2>4, <2>5
<1>6. h = [a \in DOMAIN h |-> h[a]]
  BY PartialFunction DEF Heaps
<1> HIDE DEF d
<1>7. d = h
  BY <1>4, <1>5, <1>6
<1> QED BY <1>7 DEF d, g

(* A new state at a free address, for one object. *)
LEMMA NewState ==
  ASSUME NEW h \in Heaps, NEW a \in Addrs, a \notin DOMAIN h, NEW ob \in Objects,
         NEW type \in Types, NEW data \in Data
  PROVE  LET g == Put(h, a, Obstate(type, data))  in == [o \in {ob} |-> a] IN
         /\ g \in Heaps /\ in \in Tables /\ ReferencesAdded(h, g, in)
         /\ g[a].type = type
<1> DEFINE g == Put(h, a, Obstate(type, data))  in == [o \in {ob} |-> a]
<1>1. Obstate(type, data) \in ObstateRecs /\ Obstate(type, data).refcnt = 1
      /\ Obstate(type, data).type = type
  BY DEF Obstate, ObstateRecs
<1>2. g \in Heaps
  BY <1>1, PutTyped DEF Heaps
<1>3. in \in Tables
  <2>1. in \in [{ob} -> Addrs] /\ {ob} \in SUBSET Objects
    OBVIOUS
  <2> HIDE DEF in
  <2> QED BY <2>1, PartialGiven DEF Tables
<1>4. DOMAIN g = DOMAIN h \cup {a} /\ g[a] = Obstate(type, data)
      /\ \A b \in DOMAIN h : g[b] = h[b]
  <2>1. a \notin DOMAIN h
    OBVIOUS
  <2> QED BY <2>1 DEF Put
<1>5. Pointers(in, a) = 1
  <2>1. {o \in DOMAIN in : in[o] = a} = {ob}
    OBVIOUS
  <2> QED BY <2>1, FS_Singleton DEF Pointers
<1>6. ASSUME NEW b \in DOMAIN h PROVE Pointers(in, b) = 0
  <2>1. b # a
    OBVIOUS
  <2>2. {o \in DOMAIN in : in[o] = b} = {}
    BY <2>1
  <2> QED BY <2>2, FS_EmptySet DEF Pointers
<1>7. \A o \in DOMAIN in : in[o] = a
  OBVIOUS
<1> HIDE DEF g, in
<1>8. ASSUME NEW b \in DOMAIN h
      PROVE  g[b].refcnt = h[b].refcnt + Pointers(in, b) /\ SameState(h, g, b)
  <2>1. h[b].refcnt \in Nat
    BY HeapRecord
  <2> QED BY <1>4, <1>6, <2>1 DEF SameState
<1>9. \A b \in DOMAIN g : b \notin DOMAIN h => g[b].refcnt = Pointers(in, b)
  BY <1>1, <1>4, <1>5
<1>10. ReferencesAdded(h, g, in)
  BY <1>4, <1>7, <1>8, <1>9 DEF ReferencesAdded
<1> QED BY <1>1, <1>2, <1>3, <1>4, <1>10 DEF g, in

\* Restrict to a set of keys has these keys.
LEMMA RestrictIs ==
  ASSUME NEW f, NEW S
  PROVE  /\ DOMAIN Restrict(f, S) = S
         /\ \A x \in S : Restrict(f, S)[x] = f[x]
BY DEF Restrict

\* A part of an object table is an object table.
LEMMA RestrictTyped ==
  ASSUME NEW f \in Tables, NEW S \in SUBSET DOMAIN f
  PROVE  Restrict(f, S) \in Tables
<1>1. DOMAIN f \in SUBSET Objects /\ \A ob \in DOMAIN f : f[ob] \in Addrs
  BY TableIs
<1>2. S \in SUBSET Objects /\ Restrict(f, S) \in [S -> Addrs]
  BY <1>1 DEF Restrict
<1> QED BY <1>2, PartialGiven DEF Tables

\* Giving one object a new state, and dropping the old one, keeps the invariant.
LEMMA StateSet ==
  ASSUME NEW lv, NEW h, NEW N, NEW N2 \in 0 .. MaxObjects, N <= N2, Consistent(lv, h, N),
         NEW r \in DOMAIN lv, NEW ob \in 1 .. N2, NEW a \in Addrs, a \notin DOMAIN h,
         NEW type \in Types, NEW data \in Data,
         NEW w \in Revisions, w.obstates = Put(lv[r].obstates, ob, a),
         Linked(w), Kinds(w, Put(h, a, Obstate(type, data)))
  PROVE  LET h2 == Dropped(Put(h, a, Obstate(type, data)),
                           Restrict(lv[r].obstates, {ob} \cap DOMAIN lv[r].obstates))
         IN Consistent([lv EXCEPT ![r] = w], h2, N2) /\ SameStates(h, h2)
<1> DEFINE t == lv[r].obstates
           g == Put(h, a, Obstate(type, data))
           in == [o \in {ob} |-> a]
           out == Restrict(t, {ob} \cap DOMAIN t)
<1>1. /\ lv \in Partial(Revs, Revisions) /\ h \in Heaps /\ N \in Nat /\ N2 \in Nat /\ MaxObjects \in Nat
      /\ GoodRevision(lv[r], h, N) /\ N2 <= MaxObjects
  BY XornAssumption DEF Consistent
<1>2. t \in Tables
  BY <1>1, LiveIs, RevisionIs
<1>3. ob \in Objects
  BY <1>1 DEF Objects
<1>4. g \in Heaps /\ in \in Tables /\ ReferencesAdded(h, g, in)
  BY <1>1, <1>3, NewState
<1>5. out \in Tables
  <2> HIDE DEF t
  <2> QED BY <1>2, RestrictTyped
<1>6. RowChanges(t, Put(t, ob, a), out, in)
  <2> HIDE DEF t
  <2>1. DOMAIN out = {ob} \cap DOMAIN t /\ \A o \in DOMAIN out : out[o] = t[o]
    BY DEF Restrict
  <2>2. DOMAIN in = {ob} /\ in[ob] = a
    OBVIOUS
  <2>3. DOMAIN Put(t, ob, a) = DOMAIN t \cup {ob} /\ Put(t, ob, a)[ob] = a
        /\ \A o \in DOMAIN t : o # ob => Put(t, ob, a)[o] = t[o]
    BY DEF Put
  <2> HIDE DEF out, in
  <2> QED BY <2>1, <2>2, <2>3 DEF RowChanges
<1>7. GoodRevision(w, g, N2)
  <2>1. DOMAIN w.obstates = DOMAIN t \cup {ob}
    BY DEF Put
  <2>2. DOMAIN t \in SUBSET (1 .. N2)
    BY <1>1 DEF GoodRevision
  <2> QED BY <2>1, <2>2 DEF GoodRevision
<1> HIDE DEF in, out, g
<1>8. Consistent([lv EXCEPT ![r] = w], Dropped(g, out), N2) /\ SameStates(h, Dropped(g, out))
  BY <1>4, <1>5, <1>6, <1>7, RevisionChanged
<1> QED BY <1>8 DEF g, out

(* An object that exists gets another state; its type may change where that *)
(* does no harm to what it is attached to or what is attached to it.        *)
LEMMA ChangedInPlace ==
  ASSUME NEW v \in Revisions, Linked(v), NEW h \in Heaps, Kinds(v, h),
         \A o \in DOMAIN v.obstates : v.obstates[o] \in DOMAIN h,
         NEW ob \in DOMAIN v.parent, NEW a \in Addrs, a \notin DOMAIN h,
         NEW type, NEW data,
         type \in Holders \/ Kids(v, ob) = <<>>,
         type = "text" \/ v.parent[ob] = NULL
  PROVE  LET w == [v EXCEPT !.obstates = Put(@, ob, a)] IN
         /\ w \in Revisions /\ w.obstates = Put(v.obstates, ob, a)
         /\ Linked(w) /\ Kinds(w, Put(h, a, Obstate(type, data)))
<1> DEFINE w == [v EXCEPT !.obstates = Put(@, ob, a)]
           g == Put(h, a, Obstate(type, data))
<1>1. ob \in Objects /\ ob \in DOMAIN v.obstates
  BY RevisionIs, ParentsAre DEF Linked
<1>2. /\ w \in Revisions
      /\ w.obstates = Put(v.obstates, ob, a)
      /\ w.parent = v.parent /\ w.children = v.children
      /\ \A k : Kids(w, k) = Kids(v, k)
  BY <1>1, TablePut
<1> HIDE DEF w
<1>3. DOMAIN w.obstates = DOMAIN v.obstates /\ w.obstates[ob] = a
      /\ \A o \in DOMAIN v.obstates : o # ob => w.obstates[o] = v.obstates[o]
  BY <1>1, <1>2 DEF Put
<1>4. \A k \in Objects \cup {NULL} : ListExact(v, k) => ListExact(w, k)
  BY <1>2 DEF ListExact
<1>5. Linked(w)
  BY <1>2, <1>3, <1>4 DEF Linked
<1>6. g[a].type = type /\ \A b \in DOMAIN h : g[b] = h[b]
  <2>1. g[a] = Obstate(type, data)
    BY DEF Put
  <2>2. \A b \in DOMAIN h : b # a
    OBVIOUS
  <2> QED BY <2>1, <2>2 DEF Put, Obstate
<1> HIDE DEF g
<1>7. ASSUME NEW o \in DOMAIN w.parent, w.parent[o] # NULL
      PROVE  /\ w.parent[o] \in DOMAIN w.obstates
             /\ g[w.obstates[o]].type = "text"
             /\ g[w.obstates[w.parent[o]]].type \in Holders
  <2> DEFINE q == v.parent[o]
  <2>1. o \in DOMAIN v.parent /\ w.parent[o] = q /\ q # NULL /\ o \in DOMAIN v.obstates
    BY <1>2, <1>7 DEF Linked
  <2>2. /\ q \in DOMAIN v.obstates
        /\ h[v.obstates[o]].type = "text"
        /\ h[v.obstates[q]].type \in Holders
    BY <2>1 DEF Kinds, KindRight
  <2>3. g[v.obstates[o]] = h[v.obstates[o]] /\ g[v.obstates[q]] = h[v.obstates[q]]
    BY <1>6, <2>1, <2>2
  <2> HIDE DEF q
  <2>4. g[w.obstates[o]].type = "text"
    <3>1. CASE o = ob
      BY <1>3, <1>6, <2>1, <3>1 DEF q
    <3>2. CASE o # ob
      BY <1>3, <2>1, <2>2, <2>3, <3>2
    <3> QED BY <3>1, <3>2
  <2>5. g[w.obstates[q]].type \in Holders
    <3>1. CASE q = ob
      <4>1. o \in ToSet(Kids(v, ob))
        <5>1. ToSet(Kids(v, ob)) = {x \in DOMAIN v.parent : v.parent[x] = ob}
          BY <1>1 DEF Linked, ListExact
        <5> QED BY <2>1, <3>1, <5>1 DEF q
      <4>2. Kids(v, ob) # <<>>
        BY <4>1, EmptyListed
      <4> QED BY <1>3, <1>6, <3>1, <4>2
    <3>2. CASE q # ob
      BY <1>3, <2>2, <2>3, <3>2
    <3> QED BY <3>1, <3>2
  <2> QED BY <1>3, <2>1, <2>2, <2>4, <2>5
<1>8. Kinds(w, g)
  BY <1>7 DEF Kinds, KindRight
<1> QED BY <1>2, <1>5, <1>8 DEF w, g

(* A new object, or one that is added again. *)
LEMMA AddedAtEnd ==
  ASSUME NEW v \in Revisions, Linked(v), NEW h \in Heaps, Kinds(v, h),
         \A o \in DOMAIN v.obstates : v.obstates[o] \in DOMAIN h,
         NEW ob \in Objects, ob \notin DOMAIN v.parent, NEW a \in Addrs, a \notin DOMAIN h,
         NEW type, NEW data
  PROVE  LET w == [Attached(v, ob) EXCEPT !.obstates = Put(@, ob, a)] IN
         /\ w \in Revisions /\ w.obstates = Put(v.obstates, ob, a)
         /\ Linked(w) /\ Kinds(w, Put(h, a, Obstate(type, data)))
<1> DEFINE u == Attached(v, ob)
           w == [u EXCEPT !.obstates = Put(@, ob, a)]
           g == Put(h, a, Obstate(type, data))
<1>1. u \in Revisions /\ u.obstates = v.obstates /\ u.parent = Put(v.parent, ob, NULL)
  BY AttachedIs
<1>2. Linked(w)
  BY AttachedLinked
<1> HIDE DEF u
<1>3. w \in Revisions /\ w.obstates = Put(v.obstates, ob, a) /\ w.parent = u.parent
  BY <1>1, TablePut
<1> HIDE DEF w
<1>4. /\ DOMAIN w.parent = DOMAIN v.parent \cup {ob} /\ w.parent[ob] = NULL
      /\ \A o \in DOMAIN v.parent : w.parent[o] = v.parent[o]
  BY <1>1, <1>3 DEF Put
<1>5. DOMAIN w.obstates = DOMAIN v.obstates \cup {ob}
      /\ \A o \in DOMAIN v.obstates : w.obstates[o] = v.obstates[o]
  <2>1. ob \notin DOMAIN v.obstates
    BY DEF Linked
  <2> QED BY <1>3, <2>1 DEF Put
<1>6. \A b \in DOMAIN h : g[b] = h[b]
  <2>1. \A b \in DOMAIN h : b # a
    OBVIOUS
  <2> QED BY <2>1 DEF Put
<1> HIDE DEF g
<1>7. ASSUME NEW o \in DOMAIN w.parent PROVE KindRight(w, g, o)
  <2>1. CASE o = ob
    BY <1>4, <2>1 DEF KindRight
  <2>2. CASE o # ob
    <3>1. o \in DOMAIN v.parent /\ w.parent[o] = v.parent[o] /\ o \in DOMAIN v.obstates
          /\ KindRight(v, h, o)
      BY <1>4, <2>2 DEF Linked, Kinds
    <3> QED BY <1>5, <1>6, <3>1 DEF KindRight
  <2> QED BY <2>1, <2>2
<1> QED BY <1>2, <1>3, <1>7 DEF Kinds, w, u, g

-----------------------------------------------------------------------------
(* What every call does *)

\* A call keeps the invariant and changes no state in place; it changes only
\* the revision rev, and not if that is finalized; if it fails, all revisions
\* read as before.
StepRight(rev) ==
  /\ Inv'
  /\ SameStates(heap, heap')
  /\ \A q \in DOMAIN live \cap DOMAIN live' : q # rev => live'[q] = live[q]
  /\ rev \in DOMAIN live \cap DOMAIN live' /\ ~live[rev].is_transient => live'[rev] = live[rev]
  /\ result' = "error" => /\ DOMAIN live' = DOMAIN live
                          /\ \A q \in DOMAIN live : ReadsAs(live'[q], live[q])

\* The parts of the invariant the steps use.
LEMMA InvFacts ==
  ASSUME Inv
  PROVE  /\ live \in Partial(Revs, Revisions) /\ heap \in Heaps /\ Exact(States(live), heap)
         /\ next_object_id \in 0 .. MaxObjects /\ next_object_id \in Nat /\ MaxObjects \in Nat
         /\ DOMAIN live \in SUBSET Revs /\ live = [r \in DOMAIN live |-> live[r]]
         /\ \A r \in DOMAIN live :
              /\ r \in Revs /\ live[r] \in Revisions
              /\ GoodRevision(live[r], heap, next_object_id)
              /\ Linked(live[r]) /\ Kinds(live[r], heap)
              /\ DOMAIN live[r].obstates \in SUBSET (1 .. next_object_id)
              /\ \A ob \in DOMAIN live[r].obstates : live[r].obstates[ob] \in DOMAIN heap
         /\ \A a \in DOMAIN heap : heap[a].refcnt > 0
<1>1. Consistent(live, heap, next_object_id)
  BY DEF Inv
<1>2. /\ live \in Partial(Revs, Revisions) /\ heap \in Heaps /\ Exact(States(live), heap)
      /\ next_object_id \in 0 .. MaxObjects
  BY <1>1 DEF Consistent
<1>3. DOMAIN live \in SUBSET Revs /\ live = [r \in DOMAIN live |-> live[r]]
      /\ \A r \in DOMAIN live : r \in Revs /\ live[r] \in Revisions
  BY <1>2, LiveIs
<1>4. ASSUME NEW r \in DOMAIN live
      PROVE  /\ GoodRevision(live[r], heap, next_object_id)
             /\ Linked(live[r]) /\ Kinds(live[r], heap)
             /\ DOMAIN live[r].obstates \in SUBSET (1 .. next_object_id)
             /\ \A ob \in DOMAIN live[r].obstates : live[r].obstates[ob] \in DOMAIN heap
  <2>1. GoodRevision(live[r], heap, next_object_id)
    BY <1>1 DEF Consistent
  <2>2. \A ob \in DOMAIN live[r].obstates : live[r].obstates[ob] \in DOMAIN heap
    BY <1>2, AddressesPresent
  <2> QED BY <2>1, <2>2 DEF GoodRevision
<1>5. \A a \in DOMAIN heap : heap[a].refcnt > 0
  BY <1>2 DEF Exact, CountExact
<1>6. next_object_id \in Nat /\ MaxObjects \in Nat
  BY <1>2, XornAssumption
<1> QED BY <1>2, <1>3, <1>4, <1>5, <1>6

\* Nothing changes in place where nothing changes.
LEMMA SameStatesRefl == \A h : SameStates(h, h)
BY DEF SameStates, SameState

\* A revision reads like itself.
LEMMA ReadsAsRefl == \A v : ReadsAs(v, v)
BY DEF ReadsAs

\* A call that is refused does what it should.
LEMMA StepRefused ==
  ASSUME Inv, Refused, NEW rev
  PROVE  StepRight(rev)
<1>1. live' = live /\ heap' = heap /\ next_object_id' = next_object_id /\ result' = "error"
  BY DEF Refused, Fails
<1>2. Inv'
  BY <1>1 DEF Inv
<1>3. SameStates(heap, heap')
  BY <1>1, SameStatesRefl
<1>4. \A q \in DOMAIN live : ReadsAs(live'[q], live[q])
  BY <1>1, ReadsAsRefl
<1> QED BY <1>1, <1>2, <1>3, <1>4 DEF StepRight

\* A call that succeeds on one transient revision does.
LEMMA StepDone ==
  ASSUME Inv, NEW rev \in DOMAIN live, live[rev].is_transient, NEW w,
         live' = [live EXCEPT ![rev] = w],
         Consistent(live', heap', next_object_id'), SameStates(heap, heap'),
         result' = "ok"
  PROVE  StepRight(rev)
<1>1. Inv'
  BY DEF Inv
<1>2. \A q \in DOMAIN live \cap DOMAIN live' : q # rev => live'[q] = live[q]
  BY InvFacts
<1> QED BY <1>1, <1>2 DEF StepRight

\* A call that fails does if the revision reads as before and no reference is lost.
LEMMA StepFailed ==
  ASSUME Inv, NEW rev \in DOMAIN live, live[rev].is_transient, NEW w \in Revisions,
         ReadsAs(w, live[rev]),
         DOMAIN w.children \in
           SUBSET (DOMAIN live[rev].children \cup DOMAIN live[rev].obstates \cup {NULL}),
         live' = [live EXCEPT ![rev] = w], heap' = heap,
         next_object_id' \in 0 .. MaxObjects, next_object_id <= next_object_id',
         result' \in {"ok", "error", "uncaught"}
  PROVE  StepRight(rev)
<1>1. Consistent(live, heap, next_object_id)
  BY DEF Inv
<1>2. live[rev] \in Revisions /\ Linked(live[rev]) /\ Kinds(live[rev], heap)
  BY InvFacts
<1>3. Linked(w) /\ Kinds(w, heap)
  BY <1>2, ReadsAsLinked
<1>4. w.obstates = live[rev].obstates
  BY DEF ReadsAs
<1>5. Consistent([live EXCEPT ![rev] = w], heap, next_object_id')
  BY <1>1, <1>3, <1>4, ReadChanged
<1>6. Inv'
  BY <1>5 DEF Inv
<1>7. SameStates(heap, heap')
  BY SameStatesRefl
<1>8. live = [r \in DOMAIN live |-> live[r]]
  BY InvFacts
<1>9. DOMAIN live' = DOMAIN live /\ live'[rev] = w
      /\ \A q \in DOMAIN live : q # rev => live'[q] = live[q]
  BY <1>8
<1>10. \A q \in DOMAIN live : ReadsAs(live'[q], live[q])
  BY <1>9, ReadsAsRefl
<1> QED BY <1>6, <1>7, <1>9, <1>10 DEF StepRight

-----------------------------------------------------------------------------
(* The calls, one by one *)

\* A new revision is consistent.
LEMMA EmptyRevisionRight ==
  ASSUME NEW h, NEW N
  PROVE  EmptyRevision \in Revisions /\ GoodRevision(EmptyRevision, h, N)
<1>1. <<>> \in Tables /\ DOMAIN <<>> = {}
  BY NoObjects
<1>2. <<>> \in [{} -> Seq(Objects)] /\ <<>> \in [{} -> Objects \cup {NULL}]
  OBVIOUS
<1>3. {} \in SUBSET (Objects \cup {NULL}) /\ {} \in SUBSET Objects
  OBVIOUS
<1>4. <<>> \in Lists /\ <<>> \in Parents
  BY <1>2, <1>3, PartialGiven DEF Lists, Parents
<1> DEFINE v == EmptyRevision
<1>5. /\ v.obstates = <<>> /\ v.children = <<>> /\ v.parent = <<>>
      /\ v \in Revisions
  BY <1>1, <1>4 DEF EmptyRevision, Revisions
<1> HIDE DEF v
<1>6. ASSUME NEW k \in Objects \cup {NULL} PROVE ListExact(v, k)
  <2>1. Kids(v, k) = <<>>
    BY <1>1, <1>5 DEF Kids
  <2>2. {ob \in DOMAIN v.parent : v.parent[ob] = k} = {}
    BY <1>1, <1>5
  <2> QED BY <2>1, <2>2, EmptyListed DEF ListExact
<1>7. Linked(v) /\ Kinds(v, h) /\ DOMAIN v.obstates \in SUBSET (1 .. N)
  BY <1>1, <1>5, <1>6 DEF Linked, Kinds
<1> QED BY <1>5, <1>7 DEF v, GoodRevision

\* xorn_new_revision without a revision to copy (revision.cc:56).
LEMMA StepNewRevision ==
  ASSUME Inv, NEW r \in Revs, xorn_new_revision(r)
  PROVE  StepRight(r)
<1>1. CASE Refused
  BY <1>1, StepRefused
<1>2. CASE live' = Put(live, r, EmptyRevision) /\ Succeeds /\ UNCHANGED <<heap, next_object_id>>
  <2>1. /\ r \notin DOMAIN live /\ live' = Put(live, r, EmptyRevision) /\ result' = "ok"
        /\ heap' = heap /\ next_object_id' = next_object_id
    BY <1>2 DEF xorn_new_revision, Succeeds
  <2>2. Consistent(live, heap, next_object_id)
    BY DEF Inv
  <2>3. EmptyRevision \in Revisions /\ GoodRevision(EmptyRevision, heap, next_object_id)
    BY EmptyRevisionRight
  <2>4. live \in Partial(Revs, Revisions) /\ heap \in Heaps
        /\ next_object_id \in 0 .. MaxObjects /\ next_object_id <= next_object_id
        /\ \A a \in DOMAIN heap : heap[a].refcnt > 0
    BY InvFacts
  <2>5. live' \in Partial(Revs, Revisions)
    BY <2>1, <2>3, <2>4, PutTyped
  <2>6. DOMAIN live' = DOMAIN live \cup {r} /\ live'[r] = EmptyRevision
        /\ \A q \in DOMAIN live : q # r => live'[q] = live[q]
    BY <2>1 DEF Put
  <2>7. OthersKept(live, live', r)
    BY <2>6 DEF OthersKept
  <2>8. EmptyRevision.obstates = <<>>
    BY DEF EmptyRevision
  <2>9. States(live)[r] = <<>> /\ States(live')[r] = <<>>
    BY <2>1, <2>4, <2>5, <2>6, <2>8, StatesTyped
  <2>10. RowChanges(States(live)[r], States(live')[r], <<>>, <<>>)
    BY <2>9, NoObjects DEF RowChanges
  <2>11. <<>> \in Tables /\ ReferencesAdded(heap, heap, <<>>) /\ Dropped(heap, <<>>) = heap
    BY <2>4, NoObjects, NothingAdded, NothingDropped
  <2>12. GoodRevision(live'[r], heap, next_object_id)
    BY <2>3, <2>6
  <2>13. Consistent(live', Dropped(heap, <<>>), next_object_id) /\ SameStates(heap, Dropped(heap, <<>>))
    BY <2>2, <2>4, <2>5, <2>7, <2>10, <2>11, <2>12, Changed
  <2>14. Inv' /\ SameStates(heap, heap')
    BY <2>1, <2>11, <2>13 DEF Inv
  <2> QED BY <2>1, <2>6, <2>14 DEF StepRight
<1> QED BY <1>1, <1>2 DEF xorn_new_revision

\* xorn_new_revision with a revision to copy: all its states are shared.
LEMMA StepCopyRevision ==
  ASSUME Inv, NEW r \in Revs, NEW rev \in DOMAIN live, CopyRevision(r, rev)
  PROVE  StepRight(r)
<1> DEFINE v == live[rev]  w == [v EXCEPT !.is_transient = TRUE]  f == v.obstates
<1>1. CASE Refused
  BY <1>1, StepRefused
<1>2. CASE ~Refused
  <2>1. /\ r \notin DOMAIN live /\ live' = Put(live, r, w) /\ result' = "ok"
        /\ heap' = Retained(heap, f) /\ next_object_id' = next_object_id
    BY <1>2 DEF CopyRevision, Succeeds
  <2>2. Consistent(live, heap, next_object_id)
    BY DEF Inv
  <2>3. live \in Partial(Revs, Revisions) /\ heap \in Heaps
        /\ next_object_id \in 0 .. MaxObjects /\ next_object_id <= next_object_id
        /\ \A a \in DOMAIN heap : heap[a].refcnt > 0
    BY InvFacts
  <2>4. v \in Revisions /\ GoodRevision(v, heap, next_object_id)
        /\ \A ob \in DOMAIN f : f[ob] \in DOMAIN heap
    BY InvFacts
  <2>5. f \in Tables
    BY <2>4, RevisionIs
  <2> HIDE DEF v
  <2>6. /\ w \in Revisions /\ w.obstates = v.obstates /\ w.parent = v.parent
        /\ w.children = v.children
    BY <2>4 DEF Revisions
  <2> HIDE DEF w
  <2>7. \A k : Kids(w, k) = Kids(v, k)
    BY <2>6 DEF Kids
  <2>8. \A k : ListExact(v, k) => ListExact(w, k)
    BY <2>6, <2>7 DEF ListExact
  <2>9. Linked(v) /\ Kinds(v, heap) /\ DOMAIN v.obstates \in SUBSET (1 .. next_object_id)
    BY <2>4 DEF GoodRevision
  <2>10. Linked(w)
    BY <2>6, <2>8, <2>9 DEF Linked
  <2> DEFINE g == Retained(heap, f)
  <2>11. g \in Heaps /\ ReferencesAdded(heap, g, f)
    BY <2>3, <2>4, <2>5, RetainedIs, RetainedAdds DEF IsRetained
  <2>12. DOMAIN g = DOMAIN heap /\ SameStates(heap, g)
    BY <2>3, <2>5, RetainedIs DEF SameStates, IsRetained
  <2>13. \A a \in DOMAIN g : g[a].refcnt > 0
    <3>1. ASSUME NEW a \in DOMAIN heap PROVE g[a].refcnt > 0
      <4>1. g[a].refcnt = heap[a].refcnt + Pointers(f, a)
        <5> HIDE DEF f
        <5>1. heap \in Heaps /\ f \in Tables
          BY <2>3, <2>5
        <5>2. \A b \in DOMAIN heap : Retained(heap, f)[b].refcnt = heap[b].refcnt + Pointers(f, b)
          BY <5>1, RetainedIs DEF IsRetained
        <5> QED BY <3>1, <5>2
      <4>2. heap[a].refcnt \in Nat /\ heap[a].refcnt > 0 /\ Pointers(f, a) \in Nat
        BY <2>3, <2>5, HeapRecord, UsesCounted
      <4> HIDE DEF g
      <4> QED BY <4>1, <4>2
    <3> QED BY <2>12, <3>1
  <2> HIDE DEF g
  <2>14. Kinds(v, g)
    BY <2>4, <2>9, <2>12, KindsKept
  <2>15. Kinds(w, g)
    BY <2>6, <2>14 DEF Kinds, KindRight
  <2>16. GoodRevision(w, g, next_object_id)
    BY <2>6, <2>9, <2>10, <2>15 DEF GoodRevision
  <2>17. live' \in Partial(Revs, Revisions)
    BY <2>1, <2>3, <2>6, PutTyped
  <2>18. DOMAIN live' = DOMAIN live \cup {r} /\ live'[r] = w
        /\ \A q \in DOMAIN live : q # r => live'[q] = live[q]
    BY <2>1 DEF Put
  <2>19. OthersKept(live, live', r)
    BY <2>18 DEF OthersKept
  <2>20. States(live)[r] = <<>> /\ States(live')[r] = f
    <3>1. States(live)[r] = <<>>
      BY <2>1, <2>3, StatesTyped
    <3>2. States(live')[r] = live'[r].obstates
      BY <2>17, <2>18, StatesTyped
    <3> QED BY <2>6, <2>18, <3>1, <3>2
  <2>21. RowChanges(States(live)[r], States(live')[r], <<>>, f)
    <3> HIDE DEF f
    <3> QED BY <2>20, NoObjects DEF RowChanges
  <2>22. <<>> \in Tables /\ Dropped(g, <<>>) = g
    BY <2>11, <2>13, NoObjects, NothingDropped
  <2>23. GoodRevision(live'[r], g, next_object_id)
    BY <2>16, <2>18
  <2> HIDE DEF f
  <2>24. Consistent(live', Dropped(g, <<>>), next_object_id) /\ SameStates(heap, Dropped(g, <<>>))
    BY <2>2, <2>3, <2>5, <2>11, <2>17, <2>19, <2>21, <2>22, <2>23, Changed
  <2>25. heap' = g
    BY <2>1 DEF g
  <2>26. Inv' /\ SameStates(heap, heap')
    BY <2>1, <2>22, <2>24, <2>25 DEF Inv
  <2> QED BY <2>1, <2>18, <2>26 DEF StepRight
<1> QED BY <1>1, <1>2

\* Finalizing changes nothing that can be read.
LEMMA StepFinalize ==
  ASSUME Inv, NEW rev \in DOMAIN live, xorn_finalize_revision(rev)
  PROVE  StepRight(rev)
<1> DEFINE v == live[rev]  w == [v EXCEPT !.is_transient = FALSE]
<1>1. /\ live' = [live EXCEPT ![rev] = w] /\ result' = "ok"
      /\ heap' = heap /\ next_object_id' = next_object_id
  BY DEF xorn_finalize_revision, Succeeds
<1>2. Consistent(live, heap, next_object_id)
  BY DEF Inv
<1>3. v \in Revisions /\ Linked(v) /\ Kinds(v, heap)
  BY InvFacts
<1>4. next_object_id \in 0 .. MaxObjects /\ next_object_id <= next_object_id
  BY InvFacts
<1>5. live = [r \in DOMAIN live |-> live[r]]
  BY InvFacts
<1> HIDE DEF v
<1>6. /\ w \in Revisions /\ w.obstates = v.obstates /\ w.parent = v.parent
      /\ w.children = v.children
  BY <1>3 DEF Revisions
<1>7. ~v.is_transient => w = v
  <2>1. v.is_transient \in BOOLEAN /\ v = [is_transient |-> v.is_transient, obstates |-> v.obstates,
                 children |-> v.children, parent |-> v.parent]
    BY <1>3, RevisionIs
  <2> QED BY <2>1
<1> HIDE DEF w
<1>8. \A k : Kids(w, k) = Kids(v, k)
  BY <1>6 DEF Kids
<1>9. \A k : ListExact(v, k) => ListExact(w, k)
  BY <1>6, <1>8 DEF ListExact
<1>10. Linked(w)
  BY <1>3, <1>6, <1>9 DEF Linked
<1>11. Kinds(w, heap)
  BY <1>3, <1>6 DEF Kinds, KindRight
<1>12. Consistent([live EXCEPT ![rev] = w], heap, next_object_id)
  BY <1>2, <1>4, <1>6, <1>10, <1>11, ReadChanged DEF v
<1>13. Inv'
  BY <1>1, <1>12 DEF Inv
<1>14. SameStates(heap, heap')
  BY <1>1, SameStatesRefl
<1>15. \A q \in DOMAIN live : q # rev => live'[q] = live[q]
  BY <1>1, <1>5
<1>16. ~live[rev].is_transient => live'[rev] = live[rev]
  <2>1. live'[rev] = w
    BY <1>1, <1>5
  <2> QED BY <1>7, <2>1 DEF v
<1> QED BY <1>1, <1>13, <1>14, <1>15, <1>16 DEF StepRight

\* Freeing a revision drops the references of all its objects.
LEMMA StepFree ==
  ASSUME Inv, NEW rev \in DOMAIN live, xorn_free_revision(rev)
  PROVE  StepRight(rev)
<1> DEFINE f == live[rev].obstates
<1>1. /\ live' = Without(live, {rev}) /\ result' = "ok"
      /\ heap' = Dropped(heap, f) /\ next_object_id' = next_object_id
  BY DEF xorn_free_revision, Succeeds
<1>2. Consistent(live, heap, next_object_id)
  BY DEF Inv
<1>3. live \in Partial(Revs, Revisions) /\ heap \in Heaps /\ rev \in Revs
      /\ next_object_id \in 0 .. MaxObjects /\ next_object_id <= next_object_id
  BY InvFacts
<1>4. f \in Tables
  BY InvFacts, RevisionIs
<1>5. States(live)[rev] = f
  BY <1>3, StatesTyped
<1> HIDE DEF f
<1>6. live' \in Partial(Revs, Revisions)
  BY <1>1, <1>3, WithoutTyped
<1>7. DOMAIN live' = DOMAIN live \ {rev} /\ \A q \in DOMAIN live \ {rev} : live'[q] = live[q]
  BY <1>1, WithoutIs
<1>8. OthersKept(live, live', rev)
  BY <1>7 DEF OthersKept
<1>9. States(live')[rev] = <<>>
  BY <1>3, <1>6, <1>7, StatesTyped
<1>10. RowChanges(States(live)[rev], States(live')[rev], f, <<>>)
  BY <1>5, <1>9, NoObjects DEF RowChanges
<1>11. <<>> \in Tables /\ ReferencesAdded(heap, heap, <<>>)
  BY <1>3, NoObjects, NothingAdded
<1>12. Consistent(live', Dropped(heap, f), next_object_id) /\ SameStates(heap, Dropped(heap, f))
  <2>1. rev \notin DOMAIN live'
    BY <1>7
  <2> QED BY <1>2, <1>3, <1>4, <1>6, <1>8, <1>10, <1>11, <2>1, Changed
<1>13. Inv' /\ SameStates(heap, heap')
  BY <1>1, <1>12 DEF Inv
<1> QED BY <1>1, <1>7, <1>13 DEF StepRight

(* set_object_data, whether the object is there or has just been attached. *)
LEMMA StepStateSet ==
  ASSUME Inv, NEW rev \in DOMAIN live, live[rev].is_transient,
         next_object_id' \in 0 .. MaxObjects, next_object_id <= next_object_id',
         NEW ob \in 1 .. next_object_id', NEW type \in Types, NEW data \in Data,
         NEW at, at.obstates = live[rev].obstates,
         \A a \in Addrs : a \notin DOMAIN heap =>
           LET w == [at EXCEPT !.obstates = Put(@, ob, a)] IN
           /\ w \in Revisions /\ w.obstates = Put(live[rev].obstates, ob, a)
           /\ Linked(w) /\ Kinds(w, Put(heap, a, Obstate(type, data))),
         set_object_data(rev, at, ob, type, data), result' = "ok"
  PROVE  StepRight(rev)
<1>1. PICK a \in FreeAddrs :
        /\ heap' = Replaced(at, ob, a, type, data)
        /\ live' = [live EXCEPT ![rev] = [at EXCEPT !.obstates = Put(@, ob, a)]]
  BY DEF set_object_data
<1>2. a \in Addrs /\ a \notin DOMAIN heap
  BY <1>1 DEF FreeAddrs
<1> DEFINE w == [at EXCEPT !.obstates = Put(@, ob, a)]
<1>3. /\ w \in Revisions /\ w.obstates = Put(live[rev].obstates, ob, a)
      /\ Linked(w) /\ Kinds(w, Put(heap, a, Obstate(type, data)))
  BY <1>2
<1>4. live' = [live EXCEPT ![rev] = w]
  BY <1>1
<1> HIDE DEF w
<1>5. heap' = Dropped(Put(heap, a, Obstate(type, data)),
                      Restrict(live[rev].obstates, {ob} \cap DOMAIN live[rev].obstates))
  BY <1>1 DEF Replaced
<1>6. Consistent(live, heap, next_object_id)
  BY DEF Inv
<1> DEFINE h2 == Dropped(Put(heap, a, Obstate(type, data)),
                      Restrict(live[rev].obstates, {ob} \cap DOMAIN live[rev].obstates))
           N == next_object_id  N2 == next_object_id'
<1>7. N2 \in 0 .. MaxObjects /\ N <= N2 /\ ob \in 1 .. N2 /\ Consistent(live, heap, N)
  BY <1>6
<1> HIDE DEF N, N2
<1>8. Consistent([live EXCEPT ![rev] = w], h2, N2) /\ SameStates(heap, h2)
  BY <1>2, <1>3, <1>7, StateSet
<1>9. Consistent(live', heap', next_object_id') /\ SameStates(heap, heap')
  BY <1>4, <1>5, <1>8 DEF N2
<1> QED BY <1>4, <1>9, StepDone

\* Running out of memory while an object is appended leaves no trace.
LEMMA StepAppendFails ==
  ASSUME Inv, NEW rev \in DOMAIN live, live[rev].is_transient,
         next_object_id' \in 0 .. MaxObjects, next_object_id <= next_object_id',
         NEW ob \in Objects, ob \notin DOMAIN live[rev].parent,
         NEW w \in AppendFailures(live[rev], ob), live' = [live EXCEPT ![rev] = w],
         heap' = heap, result' = "error"
  PROVE  StepRight(rev)
<1>1. live[rev] \in Revisions
  BY InvFacts
<1>2. /\ w \in Revisions /\ ReadsAs(w, live[rev])
      /\ DOMAIN w.children \in SUBSET (DOMAIN live[rev].children \cup {NULL})
  BY <1>1, AppendFailuresRead
<1>3. DOMAIN w.children \in
           SUBSET (DOMAIN live[rev].children \cup DOMAIN live[rev].obstates \cup {NULL})
  BY <1>2
<1> QED BY <1>2, <1>3, StepFailed

\* Adding an object uses up an id, whether it succeeds or not.
LEMMA StepAddObject ==
  ASSUME Inv, NEW rev \in DOMAIN live, NEW type \in Types, NEW data \in Data \cup {INVALID},
         xorn_add_object(rev, type, data)
  PROVE  StepRight(rev)
<1> DEFINE v == live[rev]  ob == next_object_id + 1
<1>1. CASE ~v.is_transient \/ data = INVALID
  BY <1>1, StepRefused DEF xorn_add_object
<1>2. CASE ~(~v.is_transient \/ data = INVALID)
  <2>1. /\ ob \in Objects /\ next_object_id' = ob
        /\ \/ set_object_data(rev, Attached(v, ob), ob, type, data) /\ result' = "ok"
           \/ /\ \E w \in AppendFailures(v, ob) : live' = [live EXCEPT ![rev] = w]
              /\ result' = "error" /\ heap' = heap
    BY <1>2 DEF xorn_add_object, Succeeds, Fails, Attached
  <2>2. /\ v \in Revisions /\ Linked(v) /\ Kinds(v, heap) /\ heap \in Heaps
        /\ DOMAIN v.obstates \in SUBSET (1 .. next_object_id) /\ next_object_id \in Nat
        /\ \A o \in DOMAIN v.obstates : v.obstates[o] \in DOMAIN heap
    BY InvFacts
  <2>3. next_object_id' \in 0 .. MaxObjects /\ next_object_id <= next_object_id'
        /\ ob \in 1 .. next_object_id'
    BY <2>1, <2>2, XornAssumption DEF Objects
  <2>4. ob \notin DOMAIN v.parent
    <3>1. DOMAIN v.parent = DOMAIN v.obstates
      BY <2>2 DEF Linked
    <3> QED BY <2>2, <3>1
  <2>5. v.is_transient /\ data \in Data
    BY <1>2
  <2> HIDE DEF ob
  <2>6. Attached(v, ob).obstates = v.obstates
    BY <2>1, <2>2, AttachedIs
  <2> HIDE DEF v
  <2>7. ASSUME NEW a \in Addrs, a \notin DOMAIN heap
        PROVE  LET w == [Attached(v, ob) EXCEPT !.obstates = Put(@, ob, a)] IN
               /\ w \in Revisions /\ w.obstates = Put(v.obstates, ob, a)
               /\ Linked(w) /\ Kinds(w, Put(heap, a, Obstate(type, data)))
    BY <2>1, <2>2, <2>4, <2>7, AddedAtEnd
  <2>8. ASSUME set_object_data(rev, Attached(v, ob), ob, type, data), result' = "ok"
        PROVE  StepRight(rev)
    <3> USE DEF v
    <3> QED BY <2>3, <2>5, <2>6, <2>7, <2>8, StepStateSet
  <2>9. ASSUME NEW w \in AppendFailures(v, ob), live' = [live EXCEPT ![rev] = w],
               result' = "error", heap' = heap
        PROVE  StepRight(rev)
    BY <2>1, <2>3, <2>4, <2>5, <2>9, StepAppendFails DEF v
  <2> QED BY <2>1, <2>8, <2>9
<1> QED BY <1>1, <1>2

\* Changing an object, or adding it again.
LEMMA StepSetObjectData ==
  ASSUME Inv, NEW rev \in DOMAIN live, NEW type \in Types, NEW data \in Data \cup {INVALID},
         NEW ob \in Issued, xorn_set_object_data(rev, ob, type, data)
  PROVE  StepRight(rev)
<1> DEFINE v   == live[rev]
           add == ob \notin DOMAIN v.parent
           refused == \/ ~v.is_transient
                      \/ data = INVALID
                      \/ type \notin Holders /\ Kids(v, ob) # <<>>
                      \/ type # "text" /\ ~add /\ v.parent[ob] # NULL
           at  == IF add THEN Attached(v, ob) ELSE v
<1>1. CASE refused
  BY <1>1, StepRefused DEF xorn_set_object_data
<1>2. CASE ~refused
  <2>1. /\ next_object_id' = next_object_id
        /\ \/ set_object_data(rev, at, ob, type, data) /\ result' = "ok"
           \/ /\ \E w \in IF add THEN AppendFailures(v, ob) ELSE {v} : live' = [live EXCEPT ![rev] = w]
              /\ result' = "error" /\ heap' = heap
    BY <1>2 DEF xorn_set_object_data, Succeeds, Fails, Attached
  <2>2. /\ v \in Revisions /\ Linked(v) /\ Kinds(v, heap) /\ heap \in Heaps
        /\ next_object_id \in Nat /\ next_object_id \in 0 .. MaxObjects /\ MaxObjects \in Nat
        /\ \A o \in DOMAIN v.obstates : v.obstates[o] \in DOMAIN heap
    BY InvFacts
  <2>3. next_object_id' \in 0 .. MaxObjects /\ next_object_id <= next_object_id'
        /\ ob \in 1 .. next_object_id' /\ ob \in Objects
    BY <2>1, <2>2 DEF Objects, Issued
  <2>4. v.is_transient /\ data \in Data
    BY <1>2
  <2>5. at.obstates = v.obstates
    BY <2>2, <2>3, AttachedIs
  <2>6. ASSUME NEW a \in Addrs, a \notin DOMAIN heap
        PROVE  LET w == [at EXCEPT !.obstates = Put(@, ob, a)] IN
               /\ w \in Revisions /\ w.obstates = Put(v.obstates, ob, a)
               /\ Linked(w) /\ Kinds(w, Put(heap, a, Obstate(type, data)))
    <3>1. ASSUME add
          PROVE  LET w == [Attached(v, ob) EXCEPT !.obstates = Put(@, ob, a)] IN
                 /\ w \in Revisions /\ w.obstates = Put(v.obstates, ob, a)
                 /\ Linked(w) /\ Kinds(w, Put(heap, a, Obstate(type, data)))
      <4> HIDE DEF v
      <4> QED BY <2>2, <2>3, <2>6, <3>1, AddedAtEnd
    <3>2. ASSUME ~add
          PROVE  LET w == [v EXCEPT !.obstates = Put(@, ob, a)] IN
                 /\ w \in Revisions /\ w.obstates = Put(v.obstates, ob, a)
                 /\ Linked(w) /\ Kinds(w, Put(heap, a, Obstate(type, data)))
      <4>1. /\ ob \in DOMAIN v.parent
            /\ type \in Holders \/ Kids(v, ob) = <<>>
            /\ type = "text" \/ v.parent[ob] = NULL
        BY <1>2, <3>2
      <4> HIDE DEF v
      <4> QED BY <2>2, <2>6, <4>1, ChangedInPlace
    <3> QED BY <3>1, <3>2
  <2>7. ASSUME set_object_data(rev, at, ob, type, data), result' = "ok"
        PROVE  StepRight(rev)
    <3> HIDE DEF at
    <3> QED BY <2>3, <2>4, <2>5, <2>6, <2>7, StepStateSet
  <2>8. ASSUME add, NEW w \in AppendFailures(v, ob), live' = [live EXCEPT ![rev] = w],
               result' = "error", heap' = heap
        PROVE  StepRight(rev)
    BY <2>3, <2>4, <2>8, StepAppendFails
  <2>9. ASSUME live' = [live EXCEPT ![rev] = v], result' = "error", heap' = heap
         PROVE  StepRight(rev)
    <3>1. ReadsAs(v, live[rev]) /\ DOMAIN v.children \in
            SUBSET (DOMAIN live[rev].children \cup DOMAIN live[rev].obstates \cup {NULL})
      BY ReadsAsRefl
    <3> QED BY <2>2, <2>3, <2>4, <2>9, <3>1, StepFailed
  <2> HIDE DEF at, v
  <2> QED BY <2>1, <2>7, <2>8, <2>9
<1> QED BY <1>1, <1>2

\* Moving an object, also when an exception leaves the library.
LEMMA StepRelocateObject ==
  ASSUME Inv, NEW rev \in DOMAIN live, NEW ob \in Issued, NEW attach_to \in Issued \cup {NULL},
         xorn_relocate_object(rev, ob, attach_to)
  PROVE  StepRight(rev)
<1> DEFINE v == live[rev]
<1>1. CASE ~CanRelocate(v, ob, attach_to)
  BY <1>1, StepRefused DEF xorn_relocate_object
<1>2. CASE CanRelocate(v, ob, attach_to)
  <2>1. /\ \/ result' = "uncaught" /\ live' = live
           \/ live' = [live EXCEPT ![rev] = WithEntries(v, {attach_to})] /\ result' = "error"
           \/ /\ \E before \in ToSet(Kids(v, attach_to)) \cup {NULL} :
                   live' = [live EXCEPT ![rev] = Relocated(v, ob, attach_to, before)]
              /\ result' = "ok"
        /\ heap' = heap /\ next_object_id' = next_object_id
    BY <1>2 DEF xorn_relocate_object, Succeeds, Fails
  <2>2. /\ v \in Revisions /\ Linked(v) /\ Kinds(v, heap) /\ heap \in Heaps
        /\ next_object_id \in Nat /\ next_object_id \in 0 .. MaxObjects /\ MaxObjects \in Nat
        /\ next_object_id <= next_object_id
    BY InvFacts
  <2>3. Consistent(live, heap, next_object_id) /\ result \in {"ok", "error", "uncaught"}
    BY DEF Inv
  <2>4. /\ v.is_transient /\ ob \in DOMAIN v.parent
        /\ attach_to \in DOMAIN v.obstates \cup {NULL}
        /\ attach_to # NULL => /\ heap[v.obstates[ob]].type = "text"
                               /\ heap[v.obstates[attach_to]].type \in Holders
    BY <1>2, <2>2 DEF CanRelocate, Linked, Exists, TypeOf
  <2>5. attach_to \in Objects \cup {NULL}
    BY <2>2 DEF Objects, Issued
  <2>6. v.is_transient /\ ob \in DOMAIN v.parent
    BY <2>4
  <2>7. attach_to \in DOMAIN v.obstates \cup {NULL}
    BY <2>4
  <2>8. next_object_id' \in 0 .. MaxObjects /\ next_object_id <= next_object_id'
    BY <2>1, <2>2
  <2>9. ASSUME result' = "uncaught", live' = live
        PROVE  StepRight(rev)
    <3>1. Inv' /\ SameStates(heap, heap')
      BY <2>1, <2>3, <2>9, SameStatesRefl DEF Inv
    <3> QED BY <2>9, <3>1 DEF StepRight
  <2>10. ASSUME live' = [live EXCEPT ![rev] = WithEntries(v, {attach_to})], result' = "error"
        PROVE  StepRight(rev)
    <3> DEFINE w == WithEntries(v, {attach_to})
    <3>1. w \in Revisions /\ ReadsAs(w, v) /\ DOMAIN w.children = DOMAIN v.children \cup {attach_to}
      <4> HIDE DEF v
      <4> QED BY <2>2, <2>5, EntriesRead
    <3> HIDE DEF w
    <3>2. DOMAIN w.children \in SUBSET (DOMAIN v.children \cup DOMAIN v.obstates \cup {NULL})
      BY <2>7, <3>1
    <3>3. live' = [live EXCEPT ![rev] = w] /\ heap' = heap
      BY <2>1, <2>10 DEF w
    <3> QED BY <2>10, <2>6, <2>8, <3>1, <3>2, <3>3, StepFailed
  <2>11. ASSUME NEW before \in ToSet(Kids(v, attach_to)) \cup {NULL},
               live' = [live EXCEPT ![rev] = Relocated(v, ob, attach_to, before)], result' = "ok"
        PROVE  StepRight(rev)
    <3> DEFINE w == Relocated(v, ob, attach_to, before)
    <3>1. /\ w \in Revisions /\ Linked(w) /\ w.obstates = v.obstates
          /\ DOMAIN w.parent = DOMAIN v.parent /\ w.parent[ob] = attach_to
          /\ \A o \in DOMAIN v.parent : o # ob => w.parent[o] = v.parent[o]
      <4>1. v \in Revisions /\ Linked(v)
        BY <2>2
      <4>2. ob \in DOMAIN v.parent /\ attach_to \in DOMAIN v.obstates \cup {NULL}
        BY <2>6, <2>7
      <4>3. before \in ToSet(Kids(v, attach_to)) \cup {NULL}
        OBVIOUS
      <4> HIDE DEF v
      <4> QED BY <4>1, <4>2, <4>3, RelocatedLinked
    <3> HIDE DEF w
    <3>2. ASSUME NEW o \in DOMAIN w.parent
          PROVE  KindRight(w, heap, o)
      <4>1. CASE o = ob
        <5>1. /\ attach_to # NULL => /\ heap[v.obstates[ob]].type = "text"
                                     /\ heap[v.obstates[attach_to]].type \in Holders
          BY <2>4
        <5>2. w.parent[o] = attach_to /\ w.obstates = v.obstates
          BY <3>1, <4>1
        <5> HIDE DEF v
        <5>3. attach_to # NULL => attach_to \in DOMAIN v.obstates
          BY <2>7
        <5> QED BY <4>1, <5>1, <5>2, <5>3 DEF KindRight
      <4>2. CASE o # ob
        <5>1. KindRight(v, heap, o) /\ w.parent[o] = v.parent[o]
          BY <2>2, <3>1, <4>2 DEF Kinds
        <5> QED BY <3>1, <5>1 DEF KindRight
      <4> QED BY <4>1, <4>2
    <3>3. Kinds(w, heap)
      BY <3>2 DEF Kinds
    <3>4. live' = [live EXCEPT ![rev] = w]
      BY <2>11 DEF w
    <3>5. Consistent([live EXCEPT ![rev] = w], heap, next_object_id)
      BY <2>2, <2>3, <3>1, <3>3, ReadChanged
    <3>6. Consistent(live', heap', next_object_id') /\ SameStates(heap, heap')
      BY <2>1, <3>4, <3>5, SameStatesRefl
    <3> QED BY <2>11, <2>6, <3>4, <3>6, StepDone
  <2> HIDE DEF v
  <2> QED BY <2>1, <2>9, <2>10, <2>11
<1> QED BY <1>1, <1>2

\* Deleting a closed set of objects.
LEMMA StepDelete ==
  ASSUME Inv, NEW rev \in DOMAIN live, live[rev].is_transient,
         NEW gone \in SUBSET DOMAIN live[rev].parent, Closed(live[rev], gone), Delete(rev, gone)
  PROVE  StepRight(rev)
<1> DEFINE v == live[rev]  w == Removed(v, gone)  out == Restrict(v.obstates, gone)
<1>1. /\ live' = [live EXCEPT ![rev] = w] /\ heap' = Dropped(heap, out)
      /\ result' = "ok" /\ next_object_id' = next_object_id
  BY DEF Delete, Succeeds
<1>2. /\ v \in Revisions /\ Linked(v) /\ Kinds(v, heap) /\ heap \in Heaps
      /\ next_object_id \in 0 .. MaxObjects /\ next_object_id <= next_object_id
      /\ DOMAIN v.obstates \in SUBSET (1 .. next_object_id)
  BY InvFacts
<1>3. Consistent(live, heap, next_object_id)
  BY DEF Inv
<1>4. gone \in SUBSET DOMAIN v.parent /\ Closed(v, gone) /\ v.is_transient
  OBVIOUS
<1> HIDE DEF v
<1>5. v.obstates \in Tables /\ DOMAIN v.parent = DOMAIN v.obstates
  BY <1>2, RevisionIs DEF Linked
<1>6. gone \in SUBSET DOMAIN v.obstates /\ gone \in SUBSET Objects
  BY <1>4, <1>5, TableIs
<1>7. /\ w \in Revisions /\ w.obstates = Without(v.obstates, gone)
  BY <1>2, RemovedIs DEF IsRemoved
<1>8. Linked(w) /\ Kinds(w, heap)
  BY <1>2, <1>4, <1>6, RemovedLinked
<1> HIDE DEF w
<1>9. DOMAIN w.obstates = DOMAIN v.obstates \ gone
      /\ \A ob \in DOMAIN v.obstates \ gone : w.obstates[ob] = v.obstates[ob]
  <2> DEFINE f == v.obstates
  <2>1. DOMAIN Without(f, gone) = DOMAIN f \ gone
        /\ \A ob \in DOMAIN f \ gone : Without(f, gone)[ob] = f[ob]
    <3> HIDE DEF f
    <3> QED BY WithoutIs
  <2> QED BY <1>7, <2>1
<1>10. GoodRevision(w, heap, next_object_id)
  BY <1>2, <1>8, <1>9 DEF GoodRevision
<1>11. out \in Tables
  BY <1>5, <1>6, RestrictTyped
<1>12. DOMAIN out = gone /\ \A ob \in gone : out[ob] = v.obstates[ob]
  BY RestrictIs
<1> HIDE DEF out
<1>13. RowChanges(v.obstates, w.obstates, out, <<>>)
  BY <1>6, <1>9, <1>12, NoObjects DEF RowChanges
<1>14. <<>> \in Tables /\ ReferencesAdded(heap, heap, <<>>)
  BY <1>2, NoObjects, NothingAdded
<1>15. Consistent([live EXCEPT ![rev] = w], Dropped(heap, out), next_object_id)
       /\ SameStates(heap, Dropped(heap, out))
  BY <1>2, <1>3, <1>7, <1>10, <1>11, <1>13, <1>14, RevisionChanged DEF v
<1>16. Consistent(live', heap', next_object_id') /\ SameStates(heap, heap')
  BY <1>1, <1>15
<1> QED BY <1>1, <1>4, <1>16, StepDone DEF v

\* Deleting an object deletes what is attached to it.
LEMMA StepDeleteObject ==
  ASSUME Inv, NEW rev \in DOMAIN live, NEW ob \in Issued, xorn_delete_object(rev, ob)
  PROVE  StepRight(rev)
<1> DEFINE v == live[rev]
<1>1. CASE ~v.is_transient \/ ob \notin DOMAIN v.parent
  BY <1>1, StepRefused DEF xorn_delete_object
<1>2. CASE ~(~v.is_transient \/ ob \notin DOMAIN v.parent)
  <2>1. Delete(rev, Subtree(v, ob)) /\ v.is_transient /\ ob \in DOMAIN v.parent
    BY <1>2 DEF xorn_delete_object
  <2>2. v \in Revisions /\ Linked(v) /\ Kinds(v, heap)
    BY InvFacts
  <2>3. Closed(v, Subtree(v, ob)) /\ Subtree(v, ob) \in SUBSET DOMAIN v.parent
    BY <2>1, <2>2, SubtreeClosed
  <2> QED BY <2>1, <2>3, StepDelete
<1> QED BY <1>1, <1>2

\* The union of the subtrees of a selection is closed.
LEMMA StepDeleteSelectedObjects ==
  ASSUME Inv, NEW rev \in DOMAIN live, NEW sel, xorn_delete_selected_objects(rev, sel)
  PROVE  StepRight(rev)
<1> DEFINE v == live[rev]
           gone == UNION {Subtree(v, ob) : ob \in sel \cap DOMAIN v.parent}
<1>1. CASE ~v.is_transient
  BY <1>1, StepRefused DEF xorn_delete_selected_objects
<1>2. CASE v.is_transient
  <2>1. Delete(rev, gone)
    BY <1>2 DEF xorn_delete_selected_objects
  <2>2. v \in Revisions /\ Linked(v) /\ Kinds(v, heap)
    BY InvFacts
  <2>3. \A ob \in DOMAIN v.parent :
          Closed(v, Subtree(v, ob)) /\ Subtree(v, ob) \in SUBSET DOMAIN v.parent
    BY <2>2, SubtreeClosed
  <2>4. gone \in SUBSET DOMAIN v.parent
    BY <2>3
  <2>5. ASSUME NEW ob \in DOMAIN v.parent, v.parent[ob] \in gone
        PROVE  ob \in gone
    <3>1. PICK top \in sel \cap DOMAIN v.parent : v.parent[ob] \in Subtree(v, top)
      BY <2>5
    <3>2. ob \in Subtree(v, top)
      BY <2>3, <3>1 DEF Closed
    <3> QED BY <3>1, <3>2
  <2>6. Closed(v, gone)
    BY <2>5 DEF Closed
  <2> HIDE DEF gone
  <2> QED BY <1>2, <2>1, <2>4, <2>6, StepDelete
<1> QED BY <1>1, <1>2

(* The references the copies take are those of states that exist. *)
LEMMA CopiedStates ==
  ASSUME NEW dest \in Revisions, NEW src \in Revisions, Linked(dest), Linked(src),
         NEW q, NEW obs \in SUBSET DOMAIN src.obstates, GoodVisit(q, src, obs),
         NEW n \in 0 .. Len(q), CanCopy(dest, n), NEW h,
         \A o \in DOMAIN dest.obstates : dest.obstates[o] \in DOMAIN h,
         \A o \in DOMAIN src.obstates : src.obstates[o] \in DOMAIN h
  PROVE  LET w == Copied(dest, src, q, n)  in == Restrict(w.obstates, ToSet(CopyIds(n))) IN
         /\ in \in Tables
         /\ \A ob \in DOMAIN in : in[ob] \in DOMAIN h
         /\ \A ob \in DOMAIN w.obstates : w.obstates[ob] \in DOMAIN h
         /\ RowChanges(dest.obstates, w.obstates, <<>>, in)
<1> DEFINE w == Copied(dest, src, q, n)  new == ToSet(CopyIds(n))  in == Restrict(w.obstates, new)
<1>1. CopyOf(w, dest, src, q, n)
  BY CopiedIs
<1>2. new = NewIds(n)
  BY CopyIdsListed
<1> HIDE DEF w, new
<1>3. /\ w \in Revisions /\ new \cap DOMAIN dest.obstates = {}
      /\ DOMAIN w.obstates = DOMAIN dest.obstates \cup new
      /\ \A ob \in DOMAIN dest.obstates : w.obstates[ob] = dest.obstates[ob]
      /\ \A ob \in new : w.obstates[ob] = src.obstates[q[ob - next_object_id].of]
  BY <1>1, <1>2 DEF CopyOf
<1>4. w.obstates \in Tables
  BY <1>3, RevisionIs
<1>5. ASSUME NEW ob \in DOMAIN w.obstates PROVE w.obstates[ob] \in DOMAIN h
  <2>1. CASE ob \in DOMAIN dest.obstates
    BY <1>3, <2>1
  <2>2. CASE ob \in new
    <3>1. q[ob - next_object_id].of \in DOMAIN src.obstates
      BY <1>2, <2>2, SourcesExist
    <3> QED BY <1>3, <2>2, <3>1
  <2> QED BY <1>3, <2>1, <2>2
<1>6. new \in SUBSET DOMAIN w.obstates
  BY <1>3
<1>7. in \in Tables /\ DOMAIN in = new /\ \A ob \in new : in[ob] = w.obstates[ob]
  <2> DEFINE f == w.obstates
  <2>1. f \in Tables /\ new \in SUBSET DOMAIN f
    BY <1>4, <1>6
  <2> HIDE DEF f
  <2>2. Restrict(f, new) \in Tables /\ DOMAIN Restrict(f, new) = new
        /\ \A ob \in new : Restrict(f, new)[ob] = f[ob]
    BY <2>1, RestrictTyped, RestrictIs
  <2> QED BY <2>2 DEF f
<1> HIDE DEF in
<1>8. \A ob \in DOMAIN in : in[ob] \in DOMAIN h
  BY <1>5, <1>6, <1>7
<1>9. RowChanges(dest.obstates, w.obstates, <<>>, in)
  BY <1>3, <1>7, NoObjects DEF RowChanges
<1> QED BY <1>5, <1>7, <1>8, <1>9 DEF in, w, new

\* Retained leaves every count above zero.
LEMMA RetainedPositive ==
  ASSUME NEW h \in Heaps, NEW f \in Tables, \A a \in DOMAIN h : h[a].refcnt > 0
  PROVE  \A a \in DOMAIN Retained(h, f) : Retained(h, f)[a].refcnt > 0
<1> SUFFICES ASSUME NEW a \in DOMAIN Retained(h, f) PROVE Retained(h, f)[a].refcnt > 0
  OBVIOUS
<1>1. a \in DOMAIN h /\ Retained(h, f)[a].refcnt = h[a].refcnt + Pointers(f, a)
  <2>1. IsRetained(Retained(h, f), h, f)
    BY RetainedIs
  <2> QED BY <2>1, Zenon DEF IsRetained
<1>2. h[a].refcnt \in Nat /\ h[a].refcnt > 0
  BY <1>1, HeapRecord
<1>3. Pointers(f, a) \in Nat
  BY UsesCounted
<1> QED BY <1>1, <1>2, <1>3

\* Copying, all of it or undone after any number of copies.
LEMMA StepCopy ==
  ASSUME Inv, NEW dest \in DOMAIN live, NEW rev \in DOMAIN live, live[dest].is_transient,
         NEW obs \in SUBSET DOMAIN live[rev].obstates, NEW selection, Copy(dest, rev, obs, selection)
  PROVE  StepRight(dest)
<1> DEFINE d == live[dest]  s == live[rev]  q == Visited(s, obs)  all == Len(q)
           After(n) == Copied(d, s, q, n)
           in(n) == Restrict(After(n).obstates, ToSet(CopyIds(n)))
           N == next_object_id
<1>1. /\ N + all <= MaxObjects
      /\ \/ /\ live' = [live EXCEPT ![dest] = After(all)]
            /\ heap' = Retained(heap, in(all))
            /\ next_object_id' = N + all
            /\ result' = "ok"
         \/ \E n \in 0 .. all :
              /\ \E ks \in SUBSET {NULL} :
                   live' = [live EXCEPT ![dest] = WithEntries(CopiesDeleted(After(n), n), ks)]
              /\ heap' = Dropped(Retained(heap, in(n)), in(n))
              /\ next_object_id' = N + (IF n < all THEN n + 1 ELSE n)
              /\ result' = "error"
  BY DEF Copy, Succeeds, Fails
<1>2. /\ d \in Revisions /\ Linked(d) /\ Kinds(d, heap)
      /\ DOMAIN d.obstates \in SUBSET (1 .. N)
      /\ \A o \in DOMAIN d.obstates : d.obstates[o] \in DOMAIN heap
  BY InvFacts
<1>3. /\ s \in Revisions /\ Linked(s) /\ Kinds(s, heap)
      /\ \A o \in DOMAIN s.obstates : s.obstates[o] \in DOMAIN heap
  BY InvFacts
<1>4. /\ heap \in Heaps /\ N \in Nat /\ N <= MaxObjects /\ MaxObjects \in Nat
      /\ \A a \in DOMAIN heap : heap[a].refcnt > 0
  BY InvFacts
<1>5. GoodVisit(q, s, obs)
  <2>1. \A n \in Objects : Kids(s, n) \in Seq(Objects)
    BY <1>3, KidsListed
  <2> HIDE DEF s
  <2> QED BY <1>4, <2>1, VisitedGood
<1>6. all \in Nat
  <2>1. q \in Seq(Items)
    BY <1>5 DEF GoodVisit
  <2> HIDE DEF q
  <2> QED BY <2>1
<1>7. \A n \in 0 .. all : CanCopy(d, n)
  <2> HIDE DEF d, q
  <2>1. \A n \in 0 .. Len(q) : n \in Nat /\ N + n <= MaxObjects
    BY <1>1, <1>4, <1>6
  <2> QED BY <1>2, <1>4, <2>1 DEF CanCopy
<1>8. obs \in SUBSET DOMAIN s.obstates /\ d.is_transient
  OBVIOUS
<1> HIDE DEF d, s, q
<1>9. ASSUME NEW n \in 0 .. all
      PROVE  /\ in(n) \in Tables
             /\ \A ob \in DOMAIN in(n) : in(n)[ob] \in DOMAIN heap
             /\ \A ob \in DOMAIN After(n).obstates : After(n).obstates[ob] \in DOMAIN heap
             /\ RowChanges(d.obstates, After(n).obstates, <<>>, in(n))
  BY <1>2, <1>3, <1>5, <1>7, <1>8, CopiedStates
<1>10. ASSUME live' = [live EXCEPT ![dest] = After(all)], heap' = Retained(heap, in(all)),
              next_object_id' = N + all, result' = "ok"
       PROVE  StepRight(dest)
  <2> DEFINE w == After(all)  f == in(all)  g == Retained(heap, f)
  <2>1. all \in 0 .. all
    BY <1>6
  <2>2. /\ f \in Tables
        /\ \A ob \in DOMAIN f : f[ob] \in DOMAIN heap
        /\ \A ob \in DOMAIN w.obstates : w.obstates[ob] \in DOMAIN heap
        /\ RowChanges(d.obstates, w.obstates, <<>>, f)
    BY <1>9, <2>1
  <2>3. CopyOf(w, d, s, q, all)
    BY <1>2, <1>3, <1>5, <1>7, <1>8, <2>1, CopiedIs
  <2>4. Linked(w) /\ Kinds(w, heap)
    BY <1>2, <1>3, <1>5, <1>7, <1>8, <2>1, CopiedLinked
  <2>5. live' = [live EXCEPT ![dest] = w] /\ heap' = g
    BY <1>10
  <2> HIDE DEF w, f
  <2>6. w \in Revisions /\ DOMAIN w.obstates = DOMAIN d.obstates \cup NewIds(all)
    BY <2>3 DEF CopyOf
  <2>7. g \in Heaps /\ DOMAIN g = DOMAIN heap /\ SameStates(heap, g) /\ ReferencesAdded(heap, g, f)
    BY <1>4, <2>2, RetainedIs, RetainedAdds DEF SameStates, IsRetained
  <2>8. Dropped(g, <<>>) = g
    BY <1>4, <2>2, <2>7, RetainedPositive, NothingDropped
  <2> HIDE DEF g
  <2>9. Kinds(w, g)
    BY <2>2, <2>4, <2>6, <2>7, KindsKept
  <2>10. next_object_id' \in 0 .. MaxObjects /\ N <= next_object_id'
    BY <1>1, <1>4, <1>6, <1>10
  <2>11. DOMAIN w.obstates \in SUBSET (1 .. next_object_id')
    <3>1. NewIds(all) \in SUBSET (1 .. N + all) /\ 1 .. N \in SUBSET (1 .. N + all)
      BY <1>4, <1>6 DEF NewIds
    <3> QED BY <1>2, <1>10, <2>6, <3>1
  <2>12. GoodRevision(w, g, next_object_id')
    BY <2>4, <2>9, <2>11 DEF GoodRevision
  <2>13. Consistent(live, heap, N) /\ <<>> \in Tables
    BY NoObjects DEF Inv
  <2> DEFINE N2 == next_object_id'
  <2>14. N2 \in 0 .. MaxObjects /\ N <= N2 /\ GoodRevision(w, g, N2)
    BY <2>10, <2>12
  <2> HIDE DEF N, N2
  <2>15. Consistent([live EXCEPT ![dest] = w], Dropped(g, <<>>), N2) /\ SameStates(heap, Dropped(g, <<>>))
    BY <2>2, <2>6, <2>7, <2>13, <2>14, RevisionChanged DEF d
  <2>16. Consistent(live', heap', next_object_id') /\ SameStates(heap, heap')
    BY <2>5, <2>8, <2>15 DEF N2
  <2> QED BY <1>8, <1>10, <2>5, <2>16, StepDone DEF d
<1>11. ASSUME NEW n \in 0 .. all, NEW ks \in SUBSET {NULL},
              live' = [live EXCEPT ![dest] = WithEntries(CopiesDeleted(After(n), n), ks)],
              heap' = Dropped(Retained(heap, in(n)), in(n)),
              next_object_id' = N + (IF n < all THEN n + 1 ELSE n),
              result' = "error"
       PROVE  StepRight(dest)
  <2> DEFINE u == CopiesDeleted(After(n), n)  w == WithEntries(u, ks)
  <2>1. /\ u \in Revisions /\ ReadsAs(u, d)
        /\ DOMAIN u.children \in SUBSET (DOMAIN d.children \cup {NULL})
    BY <1>2, <1>3, <1>5, <1>7, <1>8, UndoneReads
  <2>2. ks \in SUBSET (Objects \cup {NULL})
    OBVIOUS
  <2>3. live' = [live EXCEPT ![dest] = w]
    BY <1>11
  <2> HIDE DEF u
  <2>4. /\ w \in Revisions /\ ReadsAs(w, u)
        /\ DOMAIN w.children = DOMAIN u.children \cup ks
    BY <2>1, <2>2, EntriesRead
  <2> HIDE DEF w
  <2>5. ReadsAs(w, d)
    BY <2>1, <2>4 DEF ReadsAs
  <2>6. DOMAIN w.children \in SUBSET (DOMAIN d.children \cup DOMAIN d.obstates \cup {NULL})
    BY <2>1, <2>4
  <2>7. heap' = heap
    BY <1>4, <1>9, <1>11, TakenBack
  <2>8. next_object_id' \in 0 .. MaxObjects /\ N <= next_object_id'
    BY <1>1, <1>4, <1>6, <1>11
  <2> QED BY <1>8, <1>11, <2>3, <2>4, <2>5, <2>6, <2>7, <2>8, StepFailed DEF d
<1> HIDE DEF in, After
<1> QED BY <1>1, <1>10, <1>11

\* Copying one object.
LEMMA StepCopyObject ==
  ASSUME Inv, NEW dest \in DOMAIN live, NEW src \in DOMAIN live, NEW ob \in Issued,
         xorn_copy_object(dest, src, ob)
  PROVE  StepRight(dest)
<1>1. CASE ~live[dest].is_transient \/ ~Exists(live[src], ob)
  BY <1>1, StepRefused DEF xorn_copy_object
<1>2. CASE ~(~live[dest].is_transient \/ ~Exists(live[src], ob))
  <2>1. Copy(dest, src, {ob}, FALSE) /\ live[dest].is_transient /\ ob \in DOMAIN live[src].obstates
    BY <1>2 DEF xorn_copy_object, Exists
  <2> QED BY <2>1, StepCopy
<1> QED BY <1>1, <1>2

\* Copying a selection.
LEMMA StepCopyObjects ==
  ASSUME Inv, NEW dest \in DOMAIN live, NEW src \in DOMAIN live, NEW sel,
         xorn_copy_objects(dest, src, sel)
  PROVE  StepRight(dest)
<1>1. CASE ~live[dest].is_transient
  BY <1>1, StepRefused DEF xorn_copy_objects
<1>2. CASE live[dest].is_transient
  <2>1. Copy(dest, src, sel \cap DOMAIN live[src].obstates, TRUE)
    BY <1>2 DEF xorn_copy_objects
  <2> QED BY <1>2, <2>1, StepCopy
<1> QED BY <1>1, <1>2

(* The objects affected get new states at addresses of their own; a new   *)
(* state has the type of the old one.                                     *)
AreNew(h1, a, v, obs) ==
  /\ a \in Tables /\ h1 \in Heaps /\ ReferencesAdded(heap, h1, a)
  /\ \A b \in DOMAIN heap : h1[b] = heap[b]
  /\ \A ob \in obs : h1[a[ob]].type = TypeOf(v, ob)

LEMMA NewStates ==
  ASSUME NEW v \in Revisions, NEW obs \in SUBSET DOMAIN v.obstates,
         heap \in Heaps, \A ob \in DOMAIN v.obstates : v.obstates[ob] \in DOMAIN heap,
         NEW value, obs # {} => value \in Data,
         NEW a \in [obs -> FreeAddrs], IsInjective(a)
  PROVE  LET new == [b \in Range(a) |-> Obstate(TypeOf(v, AntiFunction(a)[b]), value)]
         IN  AreNew(Joined(heap, new), a, v, obs)
<1> DEFINE new == [b \in Range(a) |-> Obstate(TypeOf(v, AntiFunction(a)[b]), value)]
           h1  == Joined(heap, new)
<1>1. /\ DOMAIN a = obs /\ \A ob \in obs : a[ob] \in Addrs /\ a[ob] \notin DOMAIN heap
      /\ \A o1, o2 \in obs : a[o1] = a[o2] => o1 = o2
  BY DEF FreeAddrs, IsInjective
<1>2. v.obstates \in Tables
  BY RevisionIs
<1>3. obs \in SUBSET Objects
  BY <1>2, TableIs
<1>4. a \in Tables
  <2>1. a \in [obs -> Addrs]
    BY DEF FreeAddrs
  <2> QED BY <1>3, <2>1, PartialGiven DEF Tables
<1>5. Range(a) = {a[ob] : ob \in obs}
  BY <1>1 DEF Range
<1>6. \A ob \in obs : AntiFunction(a)[a[ob]] = ob
  <2>1. SUFFICES ASSUME NEW ob \in obs PROVE AntiFunction(a)[a[ob]] = ob
    OBVIOUS
  <2>2. a[ob] \in Range(a)
    BY <1>5
  <2>3. AntiFunction(a)[a[ob]] = CHOOSE s \in DOMAIN a : a[ob] \in Range(a) => a[s] = a[ob]
    BY <2>2 DEF AntiFunction, Inverse
  <2>4. AntiFunction(a)[a[ob]] = CHOOSE s \in obs : a[s] = a[ob]
    BY <1>1, <2>2, <2>3
  <2>5. \E s \in obs : a[s] = a[ob]
    OBVIOUS
  <2> DEFINE o == CHOOSE s \in obs : a[s] = a[ob]
  <2>6. o \in obs /\ a[o] = a[ob]
    BY <2>5
  <2> HIDE DEF o
  <2>7. o = ob
    BY <1>1, <2>6
  <2> QED BY <2>4, <2>7 DEF o
<1>7. DOMAIN new = Range(a)
      /\ \A ob \in obs : new[a[ob]] = Obstate(TypeOf(v, ob), value)
  BY <1>5, <1>6
<1>8. ASSUME NEW ob \in obs PROVE Obstate(TypeOf(v, ob), value) \in ObstateRecs
  <2>1. v.obstates[ob] \in DOMAIN heap
    OBVIOUS
  <2>2. heap[v.obstates[ob]] \in ObstateRecs
    BY <2>1, HeapRecord
  <2>3. TypeOf(v, ob) \in Types
    BY <2>2 DEF TypeOf, ObstateRecs
  <2>4. value \in Data
    OBVIOUS
  <2> QED BY <2>3, <2>4 DEF Obstate, ObstateRecs
<1> HIDE DEF new
<1>9. /\ DOMAIN h1 = DOMAIN heap \cup Range(a)
      /\ \A b \in DOMAIN heap : h1[b] = heap[b]
      /\ \A ob \in obs : h1[a[ob]] = Obstate(TypeOf(v, ob), value)
      /\ h1 = [b \in DOMAIN heap \cup Range(a) |-> h1[b]]
  <2>1. Range(a) \cap DOMAIN heap = {}
    BY <1>1, <1>5
  <2>2. h1 = [b \in DOMAIN heap \cup Range(a) |-> IF b \in DOMAIN heap THEN heap[b] ELSE new[b]]
    BY <1>7 DEF Joined
  <2>3. /\ DOMAIN h1 = DOMAIN heap \cup Range(a)
        /\ h1 = [b \in DOMAIN heap \cup Range(a) |-> h1[b]]
        /\ \A b \in DOMAIN heap : h1[b] = heap[b]
        /\ \A b \in Range(a) : b \notin DOMAIN heap => h1[b] = new[b]
    <3> HIDE DEF h1
    <3> QED BY <2>2
  <2> HIDE DEF h1
  <2>4. \A ob \in obs : a[ob] \in Range(a) /\ a[ob] \notin DOMAIN heap
    BY <1>1, <1>5
  <2>5. \A ob \in obs : h1[a[ob]] = Obstate(TypeOf(v, ob), value)
    BY <1>7, <2>3, <2>4
  <2> QED BY <2>3, <2>5
<1> HIDE DEF h1
<1>10. h1 \in Heaps
  <2>1. DOMAIN heap \in SUBSET Addrs
    BY PartialFunction DEF Heaps
  <2>2. Range(a) \in SUBSET Addrs
    BY <1>1, <1>5
  <2>3. ASSUME NEW b \in DOMAIN heap \cup Range(a) PROVE h1[b] \in ObstateRecs
    <3>1. CASE b \in DOMAIN heap
      BY <1>9, <3>1, HeapRecord
    <3>2. CASE b \in Range(a)
      <4>1. PICK ob \in obs : b = a[ob]
        BY <1>5, <3>2
      <4> QED BY <1>8, <1>9, <4>1
    <3> QED BY <3>1, <3>2
  <2>4. h1 \in [DOMAIN heap \cup Range(a) -> ObstateRecs]
    BY <1>9, <2>3
  <2>5. DOMAIN heap \cup Range(a) \in SUBSET Addrs
    BY <2>1, <2>2
  <2> QED BY <2>4, <2>5, PartialGiven DEF Heaps
<1>11. \A b \in DOMAIN heap : Pointers(a, b) = 0
  <2>1. ASSUME NEW b \in DOMAIN heap PROVE Pointers(a, b) = 0
    <3>1. {ob \in DOMAIN a : a[ob] = b} = {}
      BY <1>1
    <3> QED BY <3>1, FS_EmptySet DEF Pointers
  <2> QED BY <2>1
<1>12. \A ob \in obs : Pointers(a, a[ob]) = 1
  <2>1. ASSUME NEW ob \in obs PROVE Pointers(a, a[ob]) = 1
    <3>1. {o \in DOMAIN a : a[o] = a[ob]} = {ob}
      BY <1>1
    <3> QED BY <3>1, FS_Singleton DEF Pointers
  <2> QED BY <2>1
<1>13. ASSUME NEW b \in DOMAIN heap
       PROVE  h1[b].refcnt = heap[b].refcnt + Pointers(a, b) /\ SameState(heap, h1, b)
  <2>1. h1[b] = heap[b] /\ Pointers(a, b) = 0 /\ heap[b].refcnt \in Nat
    BY <1>9, <1>11, HeapRecord
  <2> QED BY <2>1 DEF SameState
<1>14. ASSUME NEW b \in DOMAIN h1, b \notin DOMAIN heap
       PROVE  h1[b].refcnt = Pointers(a, b)
  <2>1. PICK ob \in obs : b = a[ob]
    BY <1>5, <1>9, <1>14
  <2>2. h1[b] = Obstate(TypeOf(v, ob), value) /\ Pointers(a, b) = 1
    BY <1>9, <1>12, <2>1
  <2> QED BY <2>2 DEF Obstate
<1>15. ReferencesAdded(heap, h1, a)
  <2>1. \A ob \in DOMAIN a : a[ob] \in DOMAIN h1
    BY <1>1, <1>5, <1>9
  <2>2. DOMAIN heap \in SUBSET DOMAIN h1
    BY <1>9
  <2>3. \A b \in DOMAIN heap : h1[b].refcnt = heap[b].refcnt + Pointers(a, b) /\ SameState(heap, h1, b)
    BY <1>13
  <2>4. \A b \in DOMAIN h1 : b \notin DOMAIN heap => h1[b].refcnt = Pointers(a, b)
    BY <1>14
  <2> QED BY <2>1, <2>2, <2>3, <2>4 DEF ReferencesAdded
<1>16. \A ob \in obs : h1[a[ob]].type = TypeOf(v, ob)
  <2>1. SUFFICES ASSUME NEW ob \in obs PROVE h1[a[ob]].type = TypeOf(v, ob)
    OBVIOUS
  <2>2. h1[a[ob]] = Obstate(TypeOf(v, ob), value)
    BY <1>9
  <2>3. Obstate(TypeOf(v, ob), value).type = TypeOf(v, ob)
    BY DEF Obstate
  <2> QED BY <2>2, <2>3
<1>17. AreNew(h1, a, v, obs)
  BY <1>4, <1>9, <1>10, <1>15, <1>16 DEF AreNew
<1> QED BY <1>17 DEF h1, new

\* Setting an attribute of all objects of a selection at once.
LEMMA StepSetAttr ==
  ASSUME Inv, NEW rev \in DOMAIN live, NEW sel, NEW value \in Data \cup {INVALID},
         set_attr(rev, sel, value)
  PROVE  StepRight(rev)
<1> DEFINE v == live[rev]  obs == Affected(v, sel, value)  t == v.obstates
           New(a) == [b \in Range(a) |-> Obstate(TypeOf(v, AntiFunction(a)[b]), value)]
           out == Restrict(t, obs)
<1>1. CASE Refused
  BY <1>1, StepRefused
<1>2. CASE ~Refused
  <2>1. PICK a \in [obs -> FreeAddrs] :
          /\ IsInjective(a)
          /\ live' = [live EXCEPT ![rev].obstates = Joined(a, @)]
          /\ heap' = Dropped(Joined(heap, New(a)), out)
    BY <1>2 DEF set_attr
  <2>2. v.is_transient /\ result' = "ok" /\ next_object_id' = next_object_id
    BY <1>2 DEF set_attr, Succeeds
  <2> DEFINE w == [v EXCEPT !.obstates = Joined(a, t)]  h1 == Joined(heap, New(a))
  <2>3. live' = [live EXCEPT ![rev] = w] /\ heap' = Dropped(h1, out)
    BY <2>1
  <2>4. /\ v \in Revisions /\ Linked(v) /\ Kinds(v, heap) /\ heap \in Heaps
        /\ next_object_id \in 0 .. MaxObjects /\ next_object_id <= next_object_id
        /\ DOMAIN v.obstates \in SUBSET (1 .. next_object_id)
        /\ \A ob \in DOMAIN v.obstates : v.obstates[ob] \in DOMAIN heap
    BY InvFacts
  <2>5. obs \in SUBSET DOMAIN v.obstates /\ (obs # {} => value \in Data)
    BY DEF Affected
  <2>6. Consistent(live, heap, next_object_id)
    BY DEF Inv
  <2> HIDE DEF v, obs
  <2>7. /\ a \in Tables /\ h1 \in Heaps /\ ReferencesAdded(heap, h1, a)
        /\ \A b \in DOMAIN heap : h1[b] = heap[b]
        /\ \A ob \in obs : h1[a[ob]].type = TypeOf(v, ob)
    <3>1. AreNew(h1, a, v, obs)
      BY <2>1, <2>4, <2>5, NewStates
    <3> QED BY <3>1 DEF AreNew
  <2> HIDE DEF h1
  <2>8. t \in Tables /\ DOMAIN t \in SUBSET Objects
    BY <2>4, RevisionIs, TableIs
  <2>9. DOMAIN a = obs
    BY <2>1
  <2>10. /\ DOMAIN Joined(a, t) = DOMAIN t
         /\ \A ob \in obs : Joined(a, t)[ob] = a[ob]
         /\ \A ob \in DOMAIN t \ obs : Joined(a, t)[ob] = t[ob]
         /\ Joined(a, t) = [ob \in DOMAIN t |-> Joined(a, t)[ob]]
    <3> HIDE DEF t
    <3>1. obs \in SUBSET DOMAIN t
      BY <2>5 DEF t
    <3>2. DOMAIN a \cup DOMAIN t = DOMAIN t
      BY <2>9, <3>1
    <3> QED BY <2>9, <3>1, <3>2 DEF Joined
  <2>11. Joined(a, t) \in Tables
    <3> DEFINE j == Joined(a, t)
    <3>1. \A ob \in DOMAIN t : t[ob] \in Addrs
      BY <2>8, TableIs
    <3>2. \A ob \in obs : a[ob] \in Addrs
      BY <2>7, <2>9, TableIs
    <3>3. \A ob \in DOMAIN t : j[ob] \in Addrs
      BY <2>10, <3>1, <3>2
    <3> HIDE DEF j
    <3>4. j = [ob \in DOMAIN t |-> j[ob]]
      BY <2>10 DEF j
    <3>5. j \in [DOMAIN t -> Addrs]
      BY <3>3, <3>4
    <3>6. j \in Tables
      BY <2>8, <3>5, PartialGiven DEF Tables
    <3> QED BY <3>6 DEF j
  <2>12. /\ w \in Revisions /\ w.obstates = Joined(a, t) /\ w.parent = v.parent
         /\ w.children = v.children
    BY <2>4, <2>11 DEF Revisions
  <2> HIDE DEF w
  <2>13. Linked(w)
    <3>1. \A k : Kids(w, k) = Kids(v, k)
      BY <2>12 DEF Kids
    <3>2. \A k : ListExact(v, k) => ListExact(w, k)
      BY <2>12, <3>1 DEF ListExact
    <3>3. DOMAIN w.obstates = DOMAIN v.obstates
      BY <2>10, <2>12
    <3> QED BY <2>4, <2>12, <3>2, <3>3 DEF Linked
  <2>14. \A ob \in DOMAIN t : h1[w.obstates[ob]].type = heap[t[ob]].type
    <3> SUFFICES ASSUME NEW ob \in DOMAIN t
                 PROVE  h1[w.obstates[ob]].type = heap[t[ob]].type
      OBVIOUS
    <3>1. CASE ob \in obs
      <4>1. w.obstates[ob] = a[ob]
        BY <2>10, <2>12, <3>1
      <4>2. h1[a[ob]].type = heap[t[ob]].type
        BY <2>7, <3>1 DEF TypeOf, t
      <4> QED BY <4>1, <4>2
    <3>2. CASE ob \notin obs
      <4>1. w.obstates[ob] = t[ob]
        BY <2>10, <2>12, <3>2
      <4>2. t[ob] \in DOMAIN heap
        BY <2>4 DEF t
      <4> QED BY <2>7, <4>1, <4>2
    <3> QED BY <3>1, <3>2
  <2>15. Kinds(w, h1)
    <3>1. ASSUME NEW ob \in DOMAIN w.parent PROVE KindRight(w, h1, ob)
      <4>1. ob \in DOMAIN t /\ KindRight(v, heap, ob) /\ DOMAIN w.obstates = DOMAIN t
        BY <2>4, <2>10, <2>12, <3>1 DEF Kinds, Linked
      <4> QED BY <2>12, <2>14, <4>1 DEF KindRight
    <3> QED BY <3>1 DEF Kinds
  <2>16. DOMAIN w.obstates \in SUBSET (1 .. next_object_id)
    BY <2>4, <2>10, <2>12
  <2>17. GoodRevision(w, h1, next_object_id)
    BY <2>13, <2>15, <2>16 DEF GoodRevision
  <2>18. out \in Tables /\ DOMAIN out = obs /\ \A ob \in obs : out[ob] = t[ob]
    <3>1. obs \in SUBSET DOMAIN t
      BY <2>5
    <3> HIDE DEF t
    <3> QED BY <2>8, <3>1, RestrictTyped, RestrictIs
  <2> HIDE DEF out
  <2>19. RowChanges(t, w.obstates, out, a)
    <3>1. obs \in SUBSET DOMAIN t
      BY <2>5
    <3> HIDE DEF t
    <3> QED BY <2>9, <2>10, <2>12, <2>18, <3>1 DEF RowChanges
  <2>20. Consistent([live EXCEPT ![rev] = w], Dropped(h1, out), next_object_id)
         /\ SameStates(heap, Dropped(h1, out))
    BY <2>4, <2>6, <2>7, <2>12, <2>17, <2>18, <2>19, RevisionChanged DEF v
  <2>21. Consistent(live', heap', next_object_id') /\ SameStates(heap, heap')
    BY <2>2, <2>3, <2>20
  <2> QED BY <2>2, <2>3, <2>21, StepDone DEF v
<1> QED BY <1>1, <1>2

-----------------------------------------------------------------------------
(* The theorems *)

\* Every call does what it should to some revision.
LEMMA NextIsRight ==
  ASSUME Inv, Next
  PROVE  \E rev : StepRight(rev)
<1>1. ASSUME NEW r \in Revs, xorn_new_revision(r) PROVE \E rev : StepRight(rev)
  BY <1>1, StepNewRevision
<1>2. ASSUME NEW r \in Revs, NEW rev \in DOMAIN live, CopyRevision(r, rev)
      PROVE  \E q : StepRight(q)
  BY <1>2, StepCopyRevision
<1>3. ASSUME NEW rev \in DOMAIN live, xorn_finalize_revision(rev) PROVE \E q : StepRight(q)
  BY <1>3, StepFinalize
<1>4. ASSUME NEW rev \in DOMAIN live, xorn_free_revision(rev) PROVE \E q : StepRight(q)
  BY <1>4, StepFree
<1>5. ASSUME NEW rev \in DOMAIN live, NEW type \in Types, NEW data \in Data \cup {INVALID},
             xorn_add_object(rev, type, data)
      PROVE  \E q : StepRight(q)
  BY <1>5, StepAddObject
<1>6. ASSUME NEW rev \in DOMAIN live, NEW type \in Types, NEW data \in Data \cup {INVALID},
             NEW ob \in Issued, xorn_set_object_data(rev, ob, type, data)
      PROVE  \E q : StepRight(q)
  BY <1>6, StepSetObjectData
<1>7. ASSUME NEW rev \in DOMAIN live, NEW ob \in Issued, NEW attach_to \in Issued \cup {NULL},
             xorn_relocate_object(rev, ob, attach_to)
      PROVE  \E q : StepRight(q)
  BY <1>7, StepRelocateObject
<1>8. ASSUME NEW rev \in DOMAIN live, NEW ob \in Issued, xorn_delete_object(rev, ob)
      PROVE  \E q : StepRight(q)
  BY <1>8, StepDeleteObject
<1>9. ASSUME NEW rev \in DOMAIN live, NEW sel \in SUBSET Issued,
             xorn_delete_selected_objects(rev, sel)
      PROVE  \E q : StepRight(q)
  BY <1>9, StepDeleteSelectedObjects
<1>10. ASSUME NEW rev \in DOMAIN live, NEW src \in DOMAIN live, NEW ob \in Issued,
              xorn_copy_object(rev, src, ob)
       PROVE  \E q : StepRight(q)
  BY <1>10, StepCopyObject
<1>11. ASSUME NEW rev \in DOMAIN live, NEW src \in DOMAIN live, NEW sel \in SUBSET Issued,
              xorn_copy_objects(rev, src, sel)
       PROVE  \E q : StepRight(q)
  BY <1>11, StepCopyObjects
<1>12. ASSUME NEW rev \in DOMAIN live, NEW sel \in SUBSET Issued,
              NEW value \in Data \cup {INVALID}, set_attr(rev, sel, value)
       PROVE  \E q : StepRight(q)
  BY <1>12, StepSetAttr
<1> QED BY <1>1, <1>2, <1>3, <1>4, <1>5, <1>6, <1>7, <1>8, <1>9, <1>10, <1>11, <1>12 DEF Next

\* The invariant holds of the empty storage.
LEMMA InvInit == Init => Inv
<1> SUFFICES ASSUME Init PROVE Inv
  OBVIOUS
<1>1. live = <<>> /\ heap = <<>> /\ next_object_id = 0 /\ result = "ok"
  BY DEF Init
<1>2. DOMAIN live = {} /\ DOMAIN heap = {}
  BY <1>1
<1>3. live \in Partial(Revs, Revisions)
  <2>1. live \in [DOMAIN live -> Revisions]
    BY <1>1, <1>2
  <2> QED BY <1>2, <2>1, PartialGiven
<1>4. heap \in Heaps
  <2>1. heap \in [DOMAIN heap -> ObstateRecs]
    BY <1>1, <1>2
  <2> QED BY <1>2, <2>1, PartialGiven DEF Heaps
<1>5. next_object_id \in 0 .. MaxObjects
  BY <1>1, XornAssumption
<1>6. Exact(States(live), heap)
  <2>1. \A r \in Revs : States(live)[r] = <<>>
    BY <1>2 DEF States
  <2>2. AllPresent(States(live), heap)
    BY <2>1, NoObjects DEF AllPresent
  <2> QED BY <1>2, <2>2 DEF Exact
<1> QED BY <1>1, <1>2, <1>3, <1>4, <1>5, <1>6 DEF Inv, Consistent

\* Every step keeps the invariant.
LEMMA InvNext == Inv /\ [Next]_vars => Inv'
<1> SUFFICES ASSUME Inv, [Next]_vars PROVE Inv'
  OBVIOUS
<1>1. CASE Next
  BY <1>1, NextIsRight DEF StepRight
<1>2. CASE UNCHANGED vars
  BY <1>2 DEF vars, Inv
<1> QED BY <1>1, <1>2

\* The invariant has the types.
LEMMA InvTyped == Inv => TypeOK
<1> SUFFICES ASSUME Inv PROVE TypeOK
  OBVIOUS
<1>1. DOMAIN live \in SUBSET Revs /\ heap \in Heaps /\ next_object_id \in 0 .. MaxObjects
  BY InvFacts
<1>2. result \in {"ok", "error", "uncaught"}
  BY DEF Inv
<1>3. DOMAIN heap \in SUBSET Addrs /\ heap \in [DOMAIN heap -> ObstateRecs]
  BY <1>1, PartialFunction DEF Heaps
<1>4. Range(heap) \in SUBSET [refcnt : Nat, type : Types, data : Data]
  BY <1>3 DEF Range, ObstateRecs
<1>5. ASSUME NEW r \in DOMAIN live
      PROVE  LET v == live[r] IN
             /\ v.is_transient \in BOOLEAN
             /\ DOMAIN v.obstates \subseteq Objects /\ Range(v.obstates) \subseteq Addrs
             /\ DOMAIN v.children \subseteq Objects \cup {NULL}
             /\ Range(v.children) \subseteq Seq(Objects)
             /\ DOMAIN v.parent \subseteq Objects
             /\ Range(v.parent) \subseteq Objects \cup {NULL}
  <2> DEFINE v == live[r]
  <2>1. v \in Revisions
    BY InvFacts
  <2> HIDE DEF v
  <2>2. v.is_transient \in BOOLEAN /\ v.obstates \in Tables /\ v.children \in Lists
        /\ v.parent \in Parents
    BY <2>1, RevisionIs
  <2>3. DOMAIN v.obstates \in SUBSET Objects /\ Range(v.obstates) \in SUBSET Addrs
    BY <2>2, TableIs DEF Range
  <2>4. DOMAIN v.children \in SUBSET (Objects \cup {NULL}) /\ Range(v.children) \in SUBSET Seq(Objects)
    BY <2>2, ListsAre DEF Range
  <2>5. DOMAIN v.parent \in SUBSET Objects /\ Range(v.parent) \in SUBSET (Objects \cup {NULL})
    BY <2>2, ParentsAre DEF Range
  <2> QED BY <2>2, <2>3, <2>4, <2>5 DEF v
<1> QED BY <1>1, <1>2, <1>3, <1>4, <1>5 DEF TypeOK

\* The invariant has the reference counts.
LEMMA InvCounted == Inv => RefcountExact
<1> SUFFICES ASSUME Inv PROVE RefcountExact
  OBVIOUS
<1>1. live \in Partial(Revs, Revisions) /\ Exact(States(live), heap)
      /\ DOMAIN live \in SUBSET Revs
  BY InvFacts
<1>2. ASSUME NEW r \in DOMAIN live PROVE Range(live[r].obstates) \subseteq DOMAIN heap
  BY <1>1, AddressesPresent DEF Range
<1>3. ASSUME NEW a \in DOMAIN heap
      PROVE  /\ heap[a].refcnt > 0
             /\ heap[a].refcnt = Cardinality({p \in (DOMAIN live) \X Objects :
                              /\ p[2] \in DOMAIN live[p[1]].obstates
                              /\ live[p[1]].obstates[p[2]] = a})
  <2> DEFINE U == {p \in (DOMAIN live) \X Objects :
                              /\ p[2] \in DOMAIN live[p[1]].obstates
                              /\ live[p[1]].obstates[p[2]] = a}
  <2>1. heap[a].refcnt > 0 /\ heap[a].refcnt = Cardinality(Users(States(live), a))
    BY <1>1 DEF Exact, CountExact
  <2>2. ASSUME NEW p \in Users(States(live), a) PROVE p \in U
    <3>1. p \in Revs \X Objects /\ p[2] \in DOMAIN States(live)[p[1]]
          /\ States(live)[p[1]][p[2]] = a
      BY DEF Users
    <3>2. p[1] \in DOMAIN live
      BY <1>1, <3>1, NoObjects, StatesTyped
    <3>3. States(live)[p[1]] = live[p[1]].obstates
      BY <1>1, <3>2, StatesTyped
    <3> QED BY <3>1, <3>2, <3>3
  <2>3. ASSUME NEW p \in U PROVE p \in Users(States(live), a)
    <3>1. States(live)[p[1]] = live[p[1]].obstates /\ p[1] \in Revs
      BY <1>1, StatesTyped
    <3> QED BY <3>1 DEF Users
  <2>4. Users(States(live), a) = U
    BY <2>2, <2>3
  <2> QED BY <2>1, <2>4
<1> QED BY <1>2, <1>3 DEF RefcountExact

\* The invariant has the agreement of the three maps.
LEMMA InvTree == Inv => TreeConsistent
<1> SUFFICES ASSUME Inv, NEW r \in DOMAIN live
             PROVE  LET v == live[r] IN
    /\ DOMAIN v.parent = DOMAIN v.obstates
    /\ DOMAIN v.children \subseteq DOMAIN v.obstates \cup {NULL}
    /\ \A k \in DOMAIN v.obstates \cup {NULL} :
         /\ IsInjective(Kids(v, k))
         /\ ToSet(Kids(v, k)) = {ob \in DOMAIN v.parent : v.parent[ob] = k}
    /\ \A ob \in DOMAIN v.parent :
         v.parent[ob] # NULL => /\ Exists(v, v.parent[ob])
                                /\ TypeOf(v, ob) = "text"
                                /\ TypeOf(v, v.parent[ob]) \in Holders
  BY DEF TreeConsistent
<1> DEFINE v == live[r]
<1>1. v \in Revisions /\ Linked(v) /\ Kinds(v, heap)
  BY InvFacts
<1> HIDE DEF v
<1>2. DOMAIN v.obstates \in SUBSET Objects
  BY <1>1, RevisionIs, TableIs
<1>3. \A k \in DOMAIN v.obstates \cup {NULL} : ListExact(v, k)
  BY <1>1, <1>2 DEF Linked
<1>4. DOMAIN v.parent = DOMAIN v.obstates
      /\ DOMAIN v.children \subseteq DOMAIN v.obstates \cup {NULL}
  BY <1>1 DEF Linked
<1>5. \A ob \in DOMAIN v.parent : KindRight(v, heap, ob)
  BY <1>1 DEF Kinds
<1> QED BY <1>3, <1>4, <1>5 DEF v, ListExact, KindRight, Exists, TypeOf

(* What reads the same, with the same states, has the same contents. *)
LEMMA ContentsKept ==
  ASSUME Inv, Inv', SameStates(heap, heap'), NEW r \in DOMAIN live \cap DOMAIN live',
         ReadsAs(live'[r], live[r])
  PROVE  r \notin Altered
<1> DEFINE v == live[r]  w == live'[r]
<1>1. v \in Revisions /\ \A ob \in DOMAIN v.obstates : v.obstates[ob] \in DOMAIN heap
  BY InvFacts
<1>2. \A ob \in DOMAIN w.obstates : w.obstates[ob] \in DOMAIN heap'
  <2>1. live' \in Partial(Revs, Revisions) /\ Exact(States(live'), heap')
    BY DEF Inv, Consistent
  <2> QED BY <2>1, AddressesPresent
<1>3. ReadsAs(w, v)
  OBVIOUS
<1>4. Contents(r)' = [states |-> [ob \in DOMAIN w.obstates |-> [type |-> heap'[w.obstates[ob]].type,
                                                               data |-> heap'[w.obstates[ob]].data]],
                      tree   |-> [k \in DOMAIN w.obstates \cup {NULL} |-> Kids(w, k)],
                      parent |-> w.parent]
  BY DEF Contents
<1>5. Contents(r) = [states |-> [ob \in DOMAIN v.obstates |-> [type |-> heap[v.obstates[ob]].type,
                                                              data |-> heap[v.obstates[ob]].data]],
                     tree   |-> [k \in DOMAIN v.obstates \cup {NULL} |-> Kids(v, k)],
                     parent |-> v.parent]
  BY DEF Contents
<1> HIDE DEF v, w
<1>6. w.obstates = v.obstates /\ w.parent = v.parent
      /\ \A k \in Objects \cup {NULL} : Kids(w, k) = Kids(v, k)
  BY <1>3 DEF ReadsAs
<1>7. DOMAIN v.obstates \in SUBSET Objects
  BY <1>1, RevisionIs, TableIs
<1>8. \A k \in DOMAIN v.obstates \cup {NULL} : Kids(w, k) = Kids(v, k)
  BY <1>6, <1>7
<1>9. \A ob \in DOMAIN v.obstates : /\ heap'[v.obstates[ob]].type = heap[v.obstates[ob]].type
                                    /\ heap'[v.obstates[ob]].data = heap[v.obstates[ob]].data
  BY <1>1, <1>2, <1>6 DEF SameStates, SameState
<1>10. Contents(r)' = Contents(r)
  <2>1. [k \in DOMAIN w.obstates \cup {NULL} |-> Kids(w, k)]
          = [k \in DOMAIN v.obstates \cup {NULL} |-> Kids(v, k)]
    BY <1>6, <1>8
  <2>2. [ob \in DOMAIN w.obstates |-> [type |-> heap'[w.obstates[ob]].type,
                                       data |-> heap'[w.obstates[ob]].data]]
          = [ob \in DOMAIN v.obstates |-> [type |-> heap[v.obstates[ob]].type,
                                           data |-> heap[v.obstates[ob]].data]]
    BY <1>6, <1>9
  <2> QED BY <1>4, <1>5, <1>6, <2>1, <2>2
<1> QED BY <1>10 DEF Altered

\* Only the revision of the call is altered, and only if it is transient and
\* the call does not fail.
LEMMA OthersUnaltered ==
  ASSUME Inv, NEW rev, StepRight(rev)
  PROVE  /\ Altered \in SUBSET {rev}
         /\ rev \in DOMAIN live \cap DOMAIN live' /\ ~live[rev].is_transient => rev \notin Altered
         /\ result' = "error" => Altered = {}
<1>1. Inv' /\ SameStates(heap, heap')
  BY DEF StepRight
<1>2. ASSUME NEW q \in Altered PROVE q \in DOMAIN live \cap DOMAIN live'
  BY DEF Altered
<1>3. ASSUME NEW q \in Altered, q # rev PROVE FALSE
  <2>1. q \in DOMAIN live \cap DOMAIN live' /\ live'[q] = live[q]
    BY <1>2, <1>3 DEF StepRight
  <2>2. ReadsAs(live'[q], live[q])
    BY <2>1, ReadsAsRefl
  <2> QED BY <1>1, <2>1, <2>2, ContentsKept
<1>4. ASSUME rev \in DOMAIN live \cap DOMAIN live', ~live[rev].is_transient
      PROVE  rev \notin Altered
  <2>1. live'[rev] = live[rev]
    BY <1>4 DEF StepRight
  <2>2. ReadsAs(live'[rev], live[rev])
    BY <2>1, ReadsAsRefl
  <2> QED BY <1>1, <1>4, <2>2, ContentsKept
<1>5. ASSUME result' = "error", NEW q \in Altered PROVE FALSE
  <2>1. q \in DOMAIN live \cap DOMAIN live' /\ ReadsAs(live'[q], live[q])
    BY <1>2, <1>5 DEF StepRight
  <2> QED BY <1>1, <2>1, ContentsKept
<1> QED BY <1>3, <1>4, <1>5

\* RevisionsIndependent, of one step.
LEMMA StepIndependent ==
  ASSUME Inv, [Next]_vars
  PROVE  [/\ Cardinality(Altered) <= 1
          /\ \A r \in DOMAIN live \cap DOMAIN live' :
               ~live[r].is_transient => r \notin Altered /\ ~live'[r].is_transient]_vars
<1>1. CASE Next
  <2>1. PICK rev : StepRight(rev)
    BY <1>1, NextIsRight
  <2>2. Altered \in SUBSET {rev}
    BY <2>1, OthersUnaltered
  <2>3. Cardinality(Altered) <= 1
    <3>1. IsFiniteSet({rev}) /\ Cardinality({rev}) = 1
      BY FS_Singleton
    <3>2. Cardinality(Altered) <= Cardinality({rev})
      BY <2>2, <3>1, FS_Subset
    <3> QED BY <3>1, <3>2
  <2>4. ASSUME NEW r \in DOMAIN live \cap DOMAIN live', ~live[r].is_transient
        PROVE  r \notin Altered /\ ~live'[r].is_transient
    <3>1. CASE r = rev
      <4>1. r \notin Altered
        BY <2>1, <2>4, <3>1, OthersUnaltered
      <4>2. live'[r] = live[r]
        BY <2>1, <2>4, <3>1 DEF StepRight
      <4> QED BY <2>4, <4>1, <4>2
    <3>2. CASE r # rev
      <4>1. live'[r] = live[r]
        BY <2>1, <2>4, <3>2 DEF StepRight
      <4> QED BY <2>2, <2>4, <3>2, <4>1
    <3> QED BY <3>1, <3>2
  <2> QED BY <2>3, <2>4
<1>2. CASE UNCHANGED vars
  BY <1>2
<1> QED BY <1>1, <1>2

\* FailedCallChangesNothing, of one step.
LEMMA StepFailsCleanly ==
  ASSUME Inv, [Next]_vars
  PROVE  [result' = "error" => DOMAIN live' = DOMAIN live /\ Altered = {}]_vars
<1>1. CASE Next
  <2>1. PICK rev : StepRight(rev)
    BY <1>1, NextIsRight
  <2>2. result' = "error" => Altered = {}
    BY <2>1, OthersUnaltered
  <2>3. result' = "error" => DOMAIN live' = DOMAIN live
    BY <2>1 DEF StepRight
  <2> QED BY <2>2, <2>3
<1>2. CASE UNCHANGED vars
  BY <1>2
<1> QED BY <1>1, <1>2

\* Revision w has ob in the list of k, in front of `before` or at the end, and
\* all other objects where v has them.
PlacedRight(w, v, ob, k, before) ==
  LET at     == IndexIn(w.children[k], ob)
      others == Objects \ {ob}
  IN /\ \A l \in DOMAIN w.children :
          Filtered(w.children[l], others) = Filtered(Kids(v, l), others)
     /\ IF before = NULL THEN at = Len(w.children[k])
                         ELSE w.children[k][at + 1] = before
     /\ \A i \in DOMAIN w.children[k] : w.children[k][i] = ob => i = at

LEMMA RelocatedPlaced ==
  ASSUME NEW v \in Revisions, Linked(v), NEW ob \in DOMAIN v.parent,
         NEW k \in DOMAIN v.obstates \cup {NULL},
         NEW before \in ToSet(Kids(v, k)) \cup {NULL}, before # ob
  PROVE  PlacedRight(Relocated(v, ob, k, before), v, ob, k, before)
<1> DEFINE old    == v.parent[ob]
           new    == Kids(v, k)
           from   == Kids(v, old)
           w      == Relocated(v, ob, k, before)
           c      == w.children
           at     == IndexIn(c[k], ob)
           others == Objects \ {ob}
<1>1. PICK i, j : IsMove(w, v, ob, k, before, i, j)
  BY RelocatedMoves
<1>2. w \in Revisions /\ Linked(w) /\ DOMAIN w.parent = DOMAIN v.parent /\ w.parent[ob] = k
  BY RelocatedLinked
<1> HIDE DEF w
<1>3. v.parent \in Parents /\ v.obstates \in Tables
  BY RevisionIs
<1>4. ob \in Objects /\ k \in Objects \cup {NULL} /\ ob \notin others
  BY <1>3, ParentsAre, TableIs
<1>5. /\ i \in 1 .. Len(from) /\ from[i] = ob
      /\ j \in 1 .. Len(new) + 1
      /\ IF before = NULL THEN j = Len(new) + 1 ELSE j # Len(new) + 1 /\ new[j] = before
      /\ DOMAIN c = DOMAIN v.children \cup {k}
      /\ \A l \in DOMAIN v.children : l \notin {old, k} => c[l] = Kids(v, l)
      /\ k # old => c[k] = InsertAt(new, j, ob) /\ c[old] = RemoveAt(from, i)
      /\ k = old => c[k] = RemoveAt(InsertAt(new, j, ob), IF j <= i THEN i + 1 ELSE i)
  BY <1>1 DEF IsMove
<1>6. from \in Seq(Objects) /\ new \in Seq(Objects)
  BY KidsListed
<1>7. c[k] \in Seq(Objects) /\ IsInjective(c[k]) /\ ob \in ToSet(c[k])
  <2>1. Kids(w, k) = c[k]
    BY <1>5 DEF Kids
  <2>2. ListExact(w, k)
    BY <1>2, <1>4 DEF Linked
  <2>3. Kids(w, k) \in Seq(Objects)
    BY <1>2, KidsListed
  <2> HIDE DEF c
  <2> QED BY <1>2, <2>1, <2>2, <2>3 DEF ListExact
<1>8. k = old => from = new
  OBVIOUS
<1> HIDE DEF c, old, new, from, others
<1>9. at \in 1 .. Len(c[k]) /\ c[k][at] = ob
  BY <1>7, Found
<1>10. DOMAIN c[k] = 1 .. Len(c[k]) /\ Len(c[k]) \in Nat /\ Len(new) \in Nat
  BY <1>6, <1>7, Listed
<1> HIDE DEF at
\* The object is in its new list just once.
<1>11. ASSUME NEW q \in DOMAIN c[k], c[k][q] = ob PROVE q = at
  BY <1>7, <1>9, <1>10, <1>11 DEF IsInjective
<1>12. ASSUME k # old
       PROVE  /\ IF before = NULL THEN at = Len(c[k]) ELSE c[k][at + 1] = before
              /\ Filtered(c[k], others) = Filtered(new, others)
              /\ Filtered(c[old], others) = Filtered(from, others)
  <2>1. /\ Len(c[k]) = Len(new) + 1
        /\ \A q \in 1 .. Len(new) + 1 :
             c[k][q] = IF q < j THEN new[q] ELSE IF q = j THEN ob ELSE new[q - 1]
    <3>1. /\ Len(InsertAt(new, j, ob)) = Len(new) + 1
          /\ \A q \in 1 .. Len(new) + 1 :
               InsertAt(new, j, ob)[q] = IF q < j THEN new[q] ELSE IF q = j THEN ob ELSE new[q - 1]
      BY <1>4, <1>5, <1>6, Inserted
    <3> QED BY <1>5, <1>12, <3>1
  <2>2. at = j
    <3>1. c[k][j] = ob
      BY <1>5, <1>10, <2>1
    <3> QED BY <1>5, <1>10, <1>11, <2>1, <3>1
  <2>3. ASSUME before # NULL PROVE c[k][at + 1] = before
    <3>1. j + 1 \in 1 .. Len(new) + 1 /\ ~(j + 1 < j) /\ j + 1 # j /\ (j + 1) - 1 = j /\ new[j] = before
      BY <1>5, <1>10, <2>3
    <3> QED BY <2>1, <2>2, <3>1
  <2>4. Filtered(InsertAt(new, j, ob), others) = Filtered(new, others)
    BY <1>4, <1>5, <1>6, FilteredInserted
  <2>5. Filtered(RemoveAt(from, i), others) = Filtered(from, others)
    BY <1>4, <1>5, <1>6, FilteredErased
  <2> QED BY <1>5, <1>12, <2>1, <2>2, <2>3, <2>4, <2>5
<1>13. ASSUME k = old
       PROVE  /\ IF before = NULL THEN at = Len(c[k]) ELSE c[k][at + 1] = before
              /\ Filtered(c[k], others) = Filtered(new, others)
  <2>1. i \in 1 .. Len(new) /\ new[i] = ob
    BY <1>5, <1>8, <1>13
  <2>2. j # i
    BY <1>5, <1>10, <2>1
  <2> DEFINE to == IF j <= i THEN j ELSE j - 1
             pos == IF j <= i THEN i + 1 ELSE i
  <2>3. c[k] = RemoveAt(InsertAt(new, j, new[i]), pos) /\ new[i] \notin others
    BY <1>4, <1>5, <1>13, <2>1
  <2>4. to = IF j <= i THEN j ELSE j - 1
    OBVIOUS
  <2>5. pos = IF j <= i THEN i + 1 ELSE i
    OBVIOUS
  <2>6. j \in 1 .. Len(new) + 1
    BY <1>5
  <2> HIDE DEF to, pos
  <2>7. /\ Len(c[k]) = Len(new) /\ to \in 1 .. Len(new) /\ c[k][to] = new[i]
        /\ IF j = Len(new) + 1 THEN to = Len(new)
           ELSE to + 1 \in 1 .. Len(new) /\ c[k][to + 1] = new[j]
        /\ Filtered(c[k], others) = Filtered(new, others)
    BY <1>6, <2>1, <2>2, <2>3, <2>4, <2>5, <2>6, MovedPlaced, SMTT(40)
  <2>8. at = to
    BY <1>10, <1>11, <2>1, <2>7
  <2> QED BY <1>5, <2>7, <2>8
<1>14. ASSUME NEW l \in DOMAIN c PROVE Filtered(c[l], others) = Filtered(Kids(v, l), others)
  <2>1. CASE l = k
    BY <1>12, <1>13, <2>1 DEF new
  <2>2. CASE l # k /\ l = old
    BY <1>12, <2>2 DEF from
  <2>3. CASE l \notin {old, k}
    <3>1. c[l] = Kids(v, l)
      BY <1>5, <2>3
    <3> QED BY <3>1
  <2> QED BY <2>1, <2>2, <2>3
<1>15. IF before = NULL THEN at = Len(c[k]) ELSE c[k][at + 1] = before
  BY <1>12, <1>13
<1> QED BY <1>11, <1>14, <1>15 DEF PlacedRight, w, c, at, others

LEMMA InvPlaces == Inv => RelocatePlaces
<1> SUFFICES ASSUME Inv, NEW r \in DOMAIN live, NEW ob \in Issued, NEW k \in Issued \cup {NULL},
                    CanRelocate(live[r], ob, k),
                    NEW before \in (ToSet(Kids(live[r], k)) \ {ob}) \cup {NULL}
             PROVE  PlacedRight(Relocated(live[r], ob, k, before), live[r], ob, k, before)
  BY DEF RelocatePlaces, PlacedRight
<1> DEFINE v == live[r]
<1>1. v \in Revisions /\ Linked(v)
  BY InvFacts
<1>2. ob \in DOMAIN v.parent /\ k \in DOMAIN v.obstates \cup {NULL}
  BY <1>1 DEF CanRelocate, Linked, Exists
<1>3. before \in ToSet(Kids(v, k)) \cup {NULL} /\ before # ob
  BY DEF Issued, NULL
<1> HIDE DEF v
<1>4. PlacedRight(Relocated(v, ob, k, before), v, ob, k, before)
  BY <1>1, <1>2, <1>3, RelocatedPlaced
<1> QED BY <1>4 DEF v

\* Whatever is called, and wherever memory runs out, the reference counts, the
\* object tables and the object trees of all revisions agree.
THEOREM InvHolds == Spec => []Inv
BY InvInit, InvNext, PTL DEF Spec

\* The maps of every revision only ever have objects as keys, and no more ids
\* are handed out than there are (internal.h:45-47).
THEOREM TypeCorrect == Spec => []TypeOK
BY InvHolds, InvTyped, PTL

\* For any number of revisions, objects and states: no state is freed while an
\* object of some revision has it, and none stays behind without an object,
\* whichever allocation of manipulate.cc, revision.cc or attributes.cc failed.
THEOREM RefcountAlwaysExact == Spec => []RefcountExact
BY InvHolds, InvCounted, PTL

\* The three maps of every revision agree after every call, so xorn_get_objects
\* never writes past its array and xorn_relocate_object finds what it looks for
\* (object.cc:168, manipulate.cc:374).
THEOREM TreeAlwaysConsistent == Spec => []TreeConsistent
BY InvHolds, InvTree, PTL

\* For any tree: an object that may be moved gets where the call asked for, in
\* front of the successor or at the end, is nowhere else, and all other objects
\* keep their order, whichever side of the old entry the new one is inserted
\* on (manipulate.cc:382-407).
THEOREM RelocateAlwaysPlaces == Spec => []RelocatePlaces
BY InvHolds, InvPlaces, PTL

\* No call alters a second revision through the states they share, and none
\* alters a finalized one or makes it transient again.
THEOREM RevisionsAlwaysIndependent == Spec => RevisionsIndependent
BY InvHolds, StepIndependent, PTL DEF Spec, RevisionsIndependent

\* Every catch block puts back all that can be read: a call that returns an
\* error has altered no revision.
THEOREM FailedCallsChangeNothing == Spec => FailedCallChangesNothing
BY InvHolds, StepFailsCleanly, PTL DEF Spec, FailedCallChangesNothing
=============================================================================
