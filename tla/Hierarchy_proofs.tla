--------------------------- MODULE Hierarchy_proofs ---------------------------
(***************************************************************************)
(* What holds of the pages of a window and their links, whatever is opened, *)
(* closed, reverted, gone down or up to, numbered or searched: the window    *)
(* shows the current page, a file is in one page, the way up leads back, and *)
(* there is no circle of links unless undo or reverting has relinked a page. *)
(***************************************************************************)
EXTENDS Hierarchy, Lists_proofs

-----------------------------------------------------------------------------
(* Walks.  The loops of module Hierarchy are functions on 0 .. N, each value *)
(* made from the one before.                                                 *)

(* The steps of all loops, by name, with what a loop does not change in p; so
   that loops have to be shown to exist just once.                           *)
Step(k, p, x, n) ==
  CASE k = "dive"    -> Dive(x)
    [] k = "visit"   -> Visit(x)
    [] k = "subpage" -> Loaded(x, p.files[n], p.page)
    [] OTHER         -> load_source(x, p.files[n], p.create)

WalkFrom(k, p, base, N, g) ==
  [n \in 0 .. N |-> IF n = 0 THEN base ELSE Step(k, p, g[n - 1], n)]

\* The values g[0], g[1], ... of a walk.
IsWalk(g, k, p, base, N) ==
  /\ g[0] = base
  /\ \A n \in 1 .. N : g[n] = Step(k, p, g[n - 1], n)

\* The recursive function by which a walk is defined exists.
LEMMA WalkExists ==
  ASSUME NEW N \in Nat, NEW k, NEW p, NEW base
  PROVE  \E g : g = WalkFrom(k, p, base, N, g)
<1> DEFINE upto(m, g) == [n \in 0 .. m |-> IF n = 0 THEN base ELSE Step(k, p, g[n - 1], n)]
           G == {m \in 0 .. N : \E g : g = upto(m, g)}
<1>1. 0 \in G
  <2> DEFINE h == [n \in 0 .. 0 |-> base]
  <2>1. h = upto(0, h) /\ 0 \in 0 .. N
    OBVIOUS
  <2> HIDE DEF h, upto
  <2> QED BY <2>1
<1>2. ASSUME NEW m \in 0 .. N - 1, m \in G PROVE m + 1 \in G
  <2>1. PICK f : f = upto(m, f)
    BY <1>2
  <2> DEFINE M == m + 1
             h == [n \in 0 .. M |-> IF n = M THEN Step(k, p, f[m], M) ELSE f[n]]
             u == upto(M, h)
  <2>2. M \in 1 .. N /\ m \in 0 .. m /\ \A n \in 0 .. M : n = M \/ n \in 0 .. m
    OBVIOUS
  <2>3. \A n \in 0 .. m : f[n] = IF n = 0 THEN base ELSE Step(k, p, f[n - 1], n)
    BY <2>1
  <2>4. ASSUME NEW n \in 0 .. M PROVE h[n] = u[n]
    <3>1. CASE n = M
      <4>1. n # 0 /\ n - 1 = m /\ m \in 0 .. M /\ m # M
        BY <2>2, <3>1
      <4>2. h[n] = Step(k, p, f[m], M) /\ h[m] = f[m]
        BY <3>1, <4>1
      <4>3. u[n] = Step(k, p, h[n - 1], n)
        <5> HIDE DEF h
        <5> QED BY <4>1
      <4> QED BY <3>1, <4>1, <4>2, <4>3
    <3>2. CASE n = 0 /\ n # M
      <4>1. h[n] = f[n] /\ f[n] = base
        BY <2>2, <2>3, <3>2
      <4>2. u[n] = base
        <5> HIDE DEF h
        <5> QED BY <3>2
      <4> QED BY <4>1, <4>2
    <3>3. CASE n # 0 /\ n # M
      <4>1. n \in 0 .. m /\ n - 1 \in 0 .. M /\ n - 1 # M
        BY <2>2, <3>3
      <4>2. h[n] = f[n] /\ h[n - 1] = f[n - 1]
        BY <3>3, <4>1
      <4>3. u[n] = Step(k, p, h[n - 1], n)
        <5> HIDE DEF h
        <5> QED BY <3>3
      <4> QED BY <2>3, <3>3, <4>1, <4>2, <4>3
    <3> QED BY <3>1, <3>2, <3>3
  <2>5. h = [n \in 0 .. M |-> h[n]] /\ u = [n \in 0 .. M |-> u[n]]
    <3>1. h = [n \in 0 .. M |-> h[n]]
      OBVIOUS
    <3>2. u = [n \in 0 .. M |-> u[n]]
      <4> HIDE DEF h
      <4> QED OBVIOUS
    <3> QED BY <3>1, <3>2
  <2> HIDE DEF h, u
  <2>6. h = u
    BY <2>4, <2>5
  <2>7. h = upto(M, h)
    BY <2>6 DEF u
  <2> HIDE DEF upto
  <2> QED BY <2>2, <2>7
<1> HIDE DEF G
<1>3. N \in G
  <2>1. \A n \in 0 .. N : n \in G
    BY <1>1, <1>2, UpTo
  <2> QED BY <2>1
<1> QED BY <1>3 DEF G, WalkFrom

\* It goes from each value to the next.
LEMMA WalkSteps ==
  ASSUME NEW N \in Nat, NEW k, NEW p, NEW base, NEW g, g = WalkFrom(k, p, base, N, g)
  PROVE  IsWalk(g, k, p, base, N)
<1>1. \A n \in 0 .. N : g[n] = IF n = 0 THEN base ELSE Step(k, p, g[n - 1], n)
  BY DEF WalkFrom
<1> QED BY <1>1 DEF IsWalk

\* The rounds of the loops over components, one after the other.
LEMMA DiveWalk ==
  ASSUME NEW t, NEW p
  PROVE  \E g : /\ IsWalk(g, "dive", 0, Traverse([top |-> t, pages |-> <<>>, todo |-> <<>>], p),
                          MaxVisits)
                /\ s_hierarchy_traversepages(t, p) = g[MaxVisits]
<1> DEFINE base == Traverse([top |-> t, pages |-> <<>>, todo |-> <<>>], p)
           a == CHOOSE g : g = [n \in 0 .. MaxVisits |-> IF n = 0 THEN base ELSE Dive(g[n - 1])]
<1>1. MaxVisits \in Nat
  BY BoundsAssumption
<1> HIDE DEF base
<1>2. \A g : WalkFrom("dive", 0, base, MaxVisits, g)
               = [n \in 0 .. MaxVisits |-> IF n = 0 THEN base ELSE Dive(g[n - 1])]
  BY DEF WalkFrom, Step
<1>3. \E g : g = WalkFrom("dive", 0, base, MaxVisits, g)
  BY <1>1, WalkExists
<1>4. a = WalkFrom("dive", 0, base, MaxVisits, a)
  BY <1>2, <1>3
<1>5. s_hierarchy_traversepages(t, p) = a[MaxVisits]
  BY DEF s_hierarchy_traversepages, base
<1> HIDE DEF a
<1>6. IsWalk(a, "dive", 0, base, MaxVisits)
  BY <1>1, <1>4, WalkSteps
<1> QED BY <1>5, <1>6 DEF base

\* The rounds of a search, one after the other.
LEMMA VisitWalk ==
  ASSUME NEW t, NEW pages
  PROVE  \E g : /\ IsWalk(g, "visit", 0, [top |-> t, input |-> pages, output |-> <<>>], MaxVisits)
                /\ get_pages(t, pages) = g[MaxVisits]
<1> DEFINE base == [top |-> t, input |-> pages, output |-> <<>>]
           a == CHOOSE g : g = [n \in 0 .. MaxVisits |-> IF n = 0 THEN base ELSE Visit(g[n - 1])]
<1>1. MaxVisits \in Nat
  BY BoundsAssumption
<1> HIDE DEF base
<1>2. \A g : WalkFrom("visit", 0, base, MaxVisits, g)
               = [n \in 0 .. MaxVisits |-> IF n = 0 THEN base ELSE Visit(g[n - 1])]
  BY DEF WalkFrom, Step
<1>3. \E g : g = WalkFrom("visit", 0, base, MaxVisits, g)
  BY <1>1, WalkExists
<1>4. a = WalkFrom("visit", 0, base, MaxVisits, a)
  BY <1>2, <1>3
<1>5. get_pages(t, pages) = a[MaxVisits]
  BY DEF get_pages, base
<1> HIDE DEF a
<1>6. IsWalk(a, "visit", 0, base, MaxVisits)
  BY <1>1, <1>4, WalkSteps
<1> QED BY <1>5, <1>6 DEF base

\* The files named by the components of a page
FilesBelow(t, p) ==
  LET components == WithSource(t.page[p].content)
  IN  FlattenSeq([i \in DOMAIN components |-> components[i].source[1]])

\* The subpages of a page, one after the other.
LEMMA SubpageWalk ==
  ASSUME NEW t, NEW p, Len(FilesBelow(t, p)) \in Nat
  PROVE  \E g : /\ IsWalk(g, "subpage", [files |-> FilesBelow(t, p), page |-> p],
                          [top |-> t, pages |-> <<>>], Len(FilesBelow(t, p)))
                /\ get_subpages(t, p) = g[Len(FilesBelow(t, p))]
<1> DEFINE base == [top |-> t, pages |-> <<>>]
           f == FilesBelow(t, p)
           N == Len(f)
           c == [files |-> f, page |-> p]
           a == CHOOSE g : g = [n \in 0 .. N |-> IF n = 0 THEN base ELSE Loaded(g[n - 1], f[n], p)]
<1>5. get_subpages(t, p) = a[N]
  BY DEF get_subpages, FilesBelow
<1>1. N \in Nat
  OBVIOUS
<1>0. c.files = f /\ c.page = p
  OBVIOUS
<1> HIDE DEF base, f, N, c
<1>2. \A g : WalkFrom("subpage", c, base, N, g)
               = [n \in 0 .. N |-> IF n = 0 THEN base ELSE Loaded(g[n - 1], f[n], p)]
  BY <1>0 DEF WalkFrom, Step
<1>3. \E g : g = WalkFrom("subpage", c, base, N, g)
  BY <1>1, WalkExists
<1>4. a = WalkFrom("subpage", c, base, N, a)
  BY <1>2, <1>3
<1> HIDE DEF a
<1>6. IsWalk(a, "subpage", c, base, N)
  BY <1>1, <1>4, WalkSteps
<1> QED BY <1>5, <1>6 DEF base, N, f, c

\* What the walk down into the sources of a component begins with.
Above(t) == [top |-> t, page_control |-> 0, first_page |-> None]

\* The sources of a component, one after the other.
LEMMA SourceWalk ==
  ASSUME NEW t, NEW c, NEW create, Len(FlattenSeq(c.source)) \in Nat
  PROVE  \E g : LET f == FlattenSeq(c.source)
                    s == g[Len(f)]
                IN  /\ IsWalk(g, "source", [files |-> f, create |-> create], Above(t), Len(f))
                    /\ x_hierarchy_down_schematic(t, c, create) =
                         IF s.first_page = None THEN s.top
                         ELSE x_window_set_current_page(s.top, s.first_page)
<1> DEFINE base == Above(t)
           f == FlattenSeq(c.source)
           N == Len(f)
           p == [files |-> f, create |-> create]
           a == CHOOSE g : g = [n \in 0 .. N |-> IF n = 0 THEN base
                                                 ELSE load_source(g[n - 1], f[n], create)]
<1>5. x_hierarchy_down_schematic(t, c, create) =
        IF a[N].first_page = None THEN a[N].top
        ELSE x_window_set_current_page(a[N].top, a[N].first_page)
  BY DEF x_hierarchy_down_schematic, Above
<1>1. N \in Nat
  OBVIOUS
<1>0. p.files = f /\ p.create = create
  OBVIOUS
<1> HIDE DEF base, f, N, p
<1>2. \A g : WalkFrom("source", p, base, N, g)
               = [n \in 0 .. N |-> IF n = 0 THEN base ELSE load_source(g[n - 1], f[n], create)]
  BY <1>0 DEF WalkFrom, Step
<1>3. \E g : g = WalkFrom("source", p, base, N, g)
  BY <1>1, WalkExists
<1>4. a = WalkFrom("source", p, base, N, a)
  BY <1>2, <1>3
<1> HIDE DEF a
<1>6. IsWalk(a, "source", p, base, N)
  BY <1>1, <1>4, WalkSteps
<1> QED BY <1>5, <1>6 DEF base, N, f, p

-----------------------------------------------------------------------------
(* Pages *)

IsTop(t) ==
  /\ t = [page |-> t.page, page_current |-> t.page_current, view |-> t.view,
          global_pid |-> t.global_pid, page_control_counter |-> t.page_control_counter]
  /\ t.page = [p \in DOMAIN t.page |-> t.page[p]]
  /\ t.global_pid \in Nat /\ t.page_control_counter \in Nat
  /\ Pages(t) \subseteq 0 .. t.global_pid - 1

\* A set of numbers has a least one.
LEMMA LeastIs ==
  ASSUME NEW S \in SUBSET Nat, S # {}
  PROVE  \E x \in S : \A y \in S : x <= y
<1> DEFINE G == {n \in Nat : \A y \in S : n <= y}
<1>1. PICK x \in S : TRUE
  OBVIOUS
<1>2. x \in Nat /\ 0 \in G
  OBVIOUS
<1>3. \E n \in 0 .. x : n \in G /\ n + 1 \notin G
  <2> SUFFICES ASSUME \A n \in 0 .. x : n \in G => n + 1 \in G PROVE FALSE
    OBVIOUS
  <2>1. x + 1 \in Nat /\ 0 .. (x + 1) - 1 = 0 .. x
    BY <1>2
  <2> HIDE DEF G
  <2>2. \A n \in 0 .. x + 1 : n \in G
    BY <1>2, <2>1, UpTo
  <2>3. x + 1 \in G
    BY <1>2, <2>2
  <2>4. x + 1 <= x
    BY <2>3 DEF G
  <2> QED BY <1>2, <2>4
<1>4. PICK n \in Nat : n \in G /\ n + 1 \notin G
  BY <1>3
<1>5. PICK y \in S : ~(n + 1 <= y)
  BY <1>4
<1> QED BY <1>4, <1>5

\* A set of numbers has a first one, and a last one if there is an upper bound.
LEMMA FirstIs ==
  ASSUME NEW S \in SUBSET Nat
  PROVE  FirstOf(S) \in S \cup {None} /\ (FirstOf(S) = None <=> S = {})
<1>1. CASE S = {}
  BY <1>1 DEF FirstOf
<1>2. CASE S # {}
  <2>1. Min1(S) \in S
    BY <1>2, LeastIs DEF Min1
  <2> QED BY <1>2, <2>1 DEF FirstOf, None
<1> QED BY <1>1, <1>2

LEMMA LastIs ==
  ASSUME NEW m \in Nat, NEW S \in SUBSET (0 .. m)
  PROVE  LastOf(S) \in S \cup {None} /\ (LastOf(S) = None <=> S = {})
<1>1. CASE S = {}
  BY <1>1 DEF LastOf
<1>2. CASE S # {}
  <2> DEFINE R == {m - y : y \in S}
  <2>1. R \in SUBSET Nat /\ R # {}
    <3>1. PICK y \in S : TRUE
      BY <1>2
    <3>2. m - y \in R /\ \A z \in S : z \in 0 .. m
      OBVIOUS
    <3>3. \A r \in R : r \in Nat
      BY <3>2
    <3> QED BY <3>2, <3>3
  <2>2. \E r \in R : \A z \in R : r <= z
    <3> HIDE DEF R
    <3> QED BY <2>1, LeastIs
  <2>3. PICK x \in S : \A z \in S : m - x <= m - z
    BY <2>2
  <2>4. \A z \in S : x >= z
    BY <2>3
  <2>5. Max1(S) \in S
    BY <2>4 DEF Max1
  <2> QED BY <1>2, <2>5 DEF LastOf, None
<1> QED BY <1>1, <1>2

\* A page is found by its pid.
LEMMA ParentIs ==
  ASSUME NEW t, IsTop(t), NEW p \in Pages(t)
  PROVE  /\ Parent(t, p) = IF t.page[p].up \in Pages(t) THEN t.page[p].up ELSE None
         /\ Parent(t, p) \in Pages(t) \cup {None}
         /\ None \notin Pages(t) /\ p # None
BY DEF IsTop, Parent, s_page_search_by_page_id, None

-----------------------------------------------------------------------------
(* The way up *)

\* The pages above p are the smallest set that has p and is closed upwards.
LEMMA ChainIs ==
  ASSUME NEW t, IsTop(t), NEW p \in Pages(t)
  PROVE  /\ Chain(t, p) \in SUBSET Pages(t) /\ p \in Chain(t, p)
         /\ ClosedUpwards(t, Chain(t, p))
         /\ \A S \in SUBSET Pages(t) : p \in S /\ ClosedUpwards(t, S) => Chain(t, p) \subseteq S
<1>1. Chain(t, p) \in SUBSET Pages(t) /\ p \in Chain(t, p)
  BY DEF Chain
<1>2. ASSUME NEW S \in SUBSET Pages(t), p \in S, ClosedUpwards(t, S)
      PROVE  Chain(t, p) \subseteq S
  BY <1>2 DEF Chain
<1>3. ASSUME NEW q \in Chain(t, p) PROVE Parent(t, q) \in Chain(t, p) \cup {None}
  <2>1. q \in Pages(t) /\ \A S \in SUBSET Pages(t) : p \in S /\ ClosedUpwards(t, S) => q \in S
    BY DEF Chain
  <2>2. Parent(t, q) \in Pages(t) \cup {None}
    BY <2>1, ParentIs
  <2>3. ASSUME NEW S \in SUBSET Pages(t), p \in S, ClosedUpwards(t, S)
        PROVE  Parent(t, q) \in S \cup {None}
    BY <2>1, <2>3 DEF ClosedUpwards
  <2> QED BY <2>2, <2>3 DEF Chain
<1> QED BY <1>1, <1>2, <1>3 DEF ClosedUpwards

Circular(t, p) == Parent(t, p) # None /\ p \in Chain(t, Parent(t, p))

NoCircle(t) ==
  \A p \in Pages(t) : Circular(t, p) => \E q \in Chain(t, p) : t.page[q].relinked

\* Every page of a circle is above all others.
LEMMA CircleTurns ==
  ASSUME NEW t, IsTop(t), NEW p \in Pages(t), Circular(t, p), NEW q \in Chain(t, p)
  PROVE  q \in Pages(t) /\ Circular(t, q)
<1> DEFINE C == {r \in Chain(t, p) : Parent(t, r) # None /\ p \in Chain(t, Parent(t, r))}
<1>1. Chain(t, p) \in SUBSET Pages(t) /\ p \in Chain(t, p)
  BY ChainIs
<1>2. p \in C
  BY <1>1 DEF Circular
<1>3. ASSUME NEW r \in C PROVE Parent(t, r) \in C
  <2> DEFINE s == Parent(t, r)
  <2>1. r \in Pages(t) /\ s # None /\ p \in Chain(t, s)
    BY <1>1
  <2>2. s \in Chain(t, p)
    BY <2>1, ChainIs DEF ClosedUpwards
  <2>3. s \in Pages(t)
    BY <1>1, <2>2
  <2>4. Parent(t, s) # None /\ p \in Chain(t, Parent(t, s))
    <3>1. CASE s = p
      BY <3>1 DEF Circular
    <3>2. CASE s # p
      <4> DEFINE S == {s} \cup Chain(t, Parent(t, s))
      <4>1. CASE Parent(t, s) = None
        <5>1. {s} \in SUBSET Pages(t) /\ ClosedUpwards(t, {s})
          BY <2>3, <4>1 DEF ClosedUpwards
        <5>2. Chain(t, s) \subseteq {s}
          BY <2>3, <5>1, ChainIs
        <5> QED BY <2>1, <3>2, <5>2
      <4>2. CASE Parent(t, s) # None
        <5>1. Parent(t, s) \in Pages(t)
          BY <2>3, <4>2, ParentIs
        <5>2. /\ Chain(t, Parent(t, s)) \in SUBSET Pages(t) /\ Parent(t, s) \in Chain(t, Parent(t, s))
              /\ ClosedUpwards(t, Chain(t, Parent(t, s)))
          BY <5>1, ChainIs
        <5>3. S \in SUBSET Pages(t) /\ s \in S /\ ClosedUpwards(t, S)
          BY <2>3, <5>2 DEF ClosedUpwards
        <5>4. Chain(t, s) \subseteq S
          BY <2>3, <5>3, ChainIs
        <5> QED BY <2>1, <3>2, <4>2, <5>4
      <4> QED BY <4>1, <4>2
    <3> QED BY <3>1, <3>2
  <2> QED BY <2>2, <2>4
<1>4. Chain(t, p) \subseteq C
  <2>1. C \in SUBSET Pages(t)
    BY <1>1
  <2>2. ClosedUpwards(t, C)
    BY <1>3 DEF ClosedUpwards
  <2> HIDE DEF C
  <2> QED BY <1>2, <2>1, <2>2, ChainIs
<1>5. q \in Pages(t) /\ Parent(t, q) # None /\ p \in Chain(t, Parent(t, q))
  BY <1>1, <1>4
<1>6. Parent(t, q) \in Pages(t)
  BY <1>5, ParentIs
<1>7. Chain(t, p) \subseteq Chain(t, Parent(t, q))
  BY <1>5, <1>6, ChainIs
<1> QED BY <1>5, <1>7 DEF Circular

\* If nothing but the link of page x is new, or links are gone, every circle has
\* a relinked page, provided that x is one, or that its parent is not below it.
LEMMA CirclesKept ==
  ASSUME NEW t, IsTop(t), NoCircle(t), NEW u, IsTop(u), NEW x,
         \A q \in Pages(u) \ {x} :
           /\ q \in Pages(t) /\ Parent(u, q) \in {Parent(t, q), None}
           /\ t.page[q].relinked => u.page[q].relinked,
         \/ x \notin Pages(u) \/ u.page[x].relinked \/ Parent(u, x) = None
         \/ \E T \in SUBSET Pages(u) : x \notin T /\ Parent(u, x) \in T /\ ClosedUpwards(u, T)
  PROVE  NoCircle(u)
<1> SUFFICES ASSUME NEW p \in Pages(u), Circular(u, p)
             PROVE  \E q \in Chain(u, p) : u.page[q].relinked
  BY DEF NoCircle
<1> DEFINE C == Chain(u, p)
<1>1. C \in SUBSET Pages(u) /\ p \in C /\ ClosedUpwards(u, C)
  BY ChainIs
<1>2. \A q \in C : Circular(u, q) /\ Parent(u, q) \in C
  BY <1>1, CircleTurns DEF Circular, ClosedUpwards
<1>3. CASE x \in C
  <2>1. Circular(u, x) /\ x \in Pages(u)
    BY <1>1, <1>2, <1>3
  <2>2. ASSUME NEW T \in SUBSET Pages(u), Parent(u, x) \in T, ClosedUpwards(u, T)
        PROVE  x \in T
    <3>1. Chain(u, Parent(u, x)) \subseteq T
      BY <2>2, ChainIs
    <3> QED BY <2>1, <3>1 DEF Circular
  <2>3. u.page[x].relinked
    BY <2>1, <2>2 DEF Circular
  <2> QED BY <1>3, <2>3
<1>4. CASE x \notin C
  <2>1. ASSUME NEW q \in C
        PROVE  /\ q \in Pages(t) /\ Parent(t, q) = Parent(u, q)
               /\ t.page[q].relinked => u.page[q].relinked
    BY <1>1, <1>2, <1>4, ParentIs
  <2>2. C \in SUBSET Pages(t) /\ ClosedUpwards(t, C)
    BY <1>1, <2>1 DEF ClosedUpwards
  <2>3. Chain(t, p) \subseteq C
    BY <1>1, <2>2, ChainIs
  <2>4. Parent(t, p) # None /\ Parent(t, p) \in Pages(t) /\ Parent(t, p) = Parent(u, p)
    BY <1>1, <1>2, <2>1, <2>2, ParentIs
  <2>5. ASSUME NEW S \in SUBSET Pages(t), Parent(t, p) \in S, ClosedUpwards(t, S)
        PROVE  p \in S
    <3>1. S \cap C \in SUBSET Pages(u) /\ Parent(u, p) \in S \cap C
      BY <1>1, <1>2, <2>4, <2>5
    <3>2. ClosedUpwards(u, S \cap C)
      BY <1>2, <2>1, <2>5, <3>1, ParentIs DEF ClosedUpwards
    <3>3. Chain(u, Parent(u, p)) \subseteq S \cap C
      BY <3>1, <3>2, ChainIs
    <3> QED BY <3>3 DEF Circular
  <2>6. p \in Pages(t) /\ Circular(t, p)
    BY <1>1, <2>1, <2>4, <2>5 DEF Circular, Chain
  <2>7. PICK q \in Chain(t, p) : t.page[q].relinked
    BY <2>6 DEF NoCircle
  <2> QED BY <2>1, <2>3, <2>7
<1> QED BY <1>3, <1>4
-----------------------------------------------------------------------------
(* What a page may hold *)

SymbolPages(t) == {p \in Pages(t) : t.page[p].file \in Symbols}

\* Links lead to pages that are or were there, and are no symbols.
Ups(t) == {NoParent} \cup {u \in 0 .. t.global_pid - 1 : u \notin SymbolPages(t)}

Nodes(t) ==
  [content : Seq(Component), page_control : 0 .. t.page_control_counter, up : Ups(t),
   CHANGED : BOOLEAN]

IsPage(t, q) ==
  /\ q = [file |-> q.file, is_untitled |-> q.is_untitled, content |-> q.content,
          CHANGED |-> q.CHANGED, up |-> q.up, page_control |-> q.page_control,
          undo |-> q.undo, at |-> q.at, came_from |-> q.came_from,
          relinked |-> q.relinked, named |-> q.named]
  /\ q.file \in Files \cup {Untitled} /\ q.is_untitled = (q.file = Untitled)
  /\ q.content \in Seq(Component) /\ q.CHANGED \in BOOLEAN
  /\ q.up \in Ups(t) /\ q.page_control \in 0 .. t.page_control_counter
  /\ q.undo \in Seq(Nodes(t)) /\ q.at \in 0 .. Len(q.undo) /\ (q.at = 0 => q.undo = <<>>)
  /\ q.came_from \in {None} \cup 0 .. t.global_pid - 1
  /\ q.relinked \in BOOLEAN /\ q.named \in BOOLEAN
  /\ q.file \in Symbols =>
       q.content = <<>> /\ \A i \in DOMAIN q.undo : q.undo[i].content = <<>>
  /\ q.is_untitled =>
       q.up = NoParent /\ \A i \in DOMAIN q.undo : q.undo[i].up = NoParent

PagesOK(t) == \A p \in Pages(t) : IsPage(t, t.page[p])

OnePage(t) ==
  \A p, q \in Pages(t) :
    /\ t.page[p].file = t.page[q].file /\ t.page[p].file \in Files
    /\ ~t.page[p].named /\ ~t.page[q].named
    => p = q

ComesBack(t) ==
  \A p \in Pages(t) :
    t.page[p].came_from \in Pages(t) /\ ~t.page[p].relinked
      => t.page[p].up = t.page[p].came_from

Good(t) == IsTop(t) /\ PagesOK(t) /\ OnePage(t) /\ ComesBack(t) /\ NoCircle(t)

\* A list of members of A is one of members of any B around it.
LEMMA SeqGrows ==
  ASSUME NEW A, NEW B, A \subseteq B, NEW s \in Seq(A)
  PROVE  s \in Seq(B)
<1>1. Len(s) \in Nat /\ s \in [1 .. Len(s) -> A]
  BY LenProperties
<1>2. s \in [1 .. Len(s) -> B]
  BY <1>1
<1> QED BY <1>1, <1>2, SeqDef

\* u has what a page of t may refer to.
Grown(t, u) ==
  /\ t.global_pid <= u.global_pid /\ t.page_control_counter <= u.page_control_counter
  /\ \A p \in SymbolPages(u) : p \in SymbolPages(t) \/ p >= t.global_pid

LEMMA NodesGrow ==
  ASSUME NEW t, IsTop(t), NEW u, IsTop(u), Grown(t, u)
  PROVE  Ups(t) \subseteq Ups(u) /\ Nodes(t) \subseteq Nodes(u)
<1>1. Ups(t) \subseteq Ups(u)
  BY DEF Ups, Grown, IsTop
<1>2. 0 .. t.page_control_counter \subseteq 0 .. u.page_control_counter
  BY DEF Grown, IsTop
<1> QED BY <1>1, <1>2 DEF Nodes

\* A page stays what it must be when pages and page controls are added.
LEMMA PageGrows ==
  ASSUME NEW t, IsTop(t), NEW u, IsTop(u), Grown(t, u), NEW q, IsPage(t, q)
  PROVE  IsPage(u, q)
<1>1. q.undo \in Seq(Nodes(u)) /\ q.up \in Ups(u)
  BY NodesGrow, SeqGrows DEF IsPage
<1>2. /\ q.page_control \in 0 .. u.page_control_counter
      /\ q.came_from \in {None} \cup 0 .. u.global_pid - 1
  BY DEF IsPage, Grown, IsTop
<1> QED BY <1>1, <1>2 DEF IsPage

\* What a page must be for the pages to stay good: x in u.
Fits(u, x) ==
  LET q == u.page[x]
  IN  /\ IsPage(u, q)
      /\ q.file \in Files /\ ~q.named =>
           \A p \in Pages(u) \ {x} : u.page[p].file # q.file \/ u.page[p].named
      /\ q.came_from \in Pages(u) /\ ~q.relinked => q.up = q.came_from

\* x is in no circle.
Apart(u, x) ==
  \/ Parent(u, x) = None
  \/ \E T \in SUBSET Pages(u) : x \notin T /\ Parent(u, x) \in T /\ ClosedUpwards(u, T)

\* Only page x is new, gone, or another.
OnlyPage(t, u, x) ==
  /\ \A q \in Pages(u) \ {x} : q \in Pages(t) /\ u.page[q] = t.page[q]
  /\ x \in Pages(t) \/ x >= t.global_pid

\* The link of x is the old one.
SameLink(t, u, x) ==
  /\ x \in Pages(t) /\ u.page[x].up = t.page[x].up
  /\ t.page[x].relinked => u.page[x].relinked

\* Pages stay good if one page is added, removed or changed.
LEMMA PageChanged ==
  ASSUME NEW t, Good(t), NEW u, IsTop(u), Grown(t, u), NEW x, OnlyPage(t, u, x),
         x \in Pages(u) =>
           Fits(u, x) /\ (u.page[x].relinked \/ Apart(u, x) \/ SameLink(t, u, x))
  PROVE  Good(u)
<1>1. IsTop(t) /\ PagesOK(t) /\ OnePage(t) /\ ComesBack(t) /\ NoCircle(t)
  BY DEF Good
<1>2. ASSUME NEW q \in Pages(u) \ {x}
      PROVE  /\ q \in Pages(t) /\ u.page[q] = t.page[q] /\ IsPage(t, t.page[q])
             /\ IsPage(u, u.page[q])
  BY <1>1, PageGrows DEF OnlyPage, PagesOK
<1>3. PagesOK(u)
  BY <1>2 DEF PagesOK, Fits
<1>4. OnePage(u)
  BY <1>1, <1>2 DEF OnePage, Fits
<1>5. ASSUME NEW r \in 0 .. t.global_pid - 1, r \in Pages(u) PROVE r \in Pages(t)
  BY <1>1, <1>2, <1>5 DEF OnlyPage, IsTop
<1>6. ComesBack(u)
  <2> SUFFICES ASSUME NEW p \in Pages(u), u.page[p].came_from \in Pages(u), ~u.page[p].relinked
               PROVE  u.page[p].up = u.page[p].came_from
    BY DEF ComesBack
  <2>1. CASE p = x
    BY <2>1 DEF Fits
  <2>2. CASE p # x
    <3>1. p \in Pages(t) /\ u.page[p] = t.page[p] /\ IsPage(t, t.page[p])
      BY <1>2, <2>2
    <3>2. u.page[p].came_from \in 0 .. t.global_pid - 1
      <4>1. u.page[p].came_from # None
        BY ParentIs
      <4> QED BY <3>1, <4>1 DEF IsPage
    <3>3. t.page[p].came_from \in Pages(t)
      BY <1>5, <3>1, <3>2
    <3> QED BY <1>1, <3>1, <3>3 DEF ComesBack
  <2> QED BY <2>1, <2>2
<1>7. ASSUME NEW q \in Pages(u), q \in Pages(t), u.page[q].up = t.page[q].up
      PROVE  Parent(u, q) \in {Parent(t, q), None}
  <2>1. t.page[q].up \in Ups(t)
    BY <1>1, <1>7 DEF PagesOK, IsPage
  <2>2. u.page[q].up \in Pages(u) => u.page[q].up \in Pages(t)
    <3>1. CASE u.page[q].up = NoParent
      BY <3>1 DEF IsTop, NoParent
    <3>2. CASE u.page[q].up \in 0 .. t.global_pid - 1
      BY <1>5, <3>2
    <3> QED BY <1>7, <2>1, <3>1, <3>2 DEF Ups
  <2>3. /\ Parent(t, q) = IF t.page[q].up \in Pages(t) THEN t.page[q].up ELSE None
        /\ Parent(u, q) = IF u.page[q].up \in Pages(u) THEN u.page[q].up ELSE None
    BY <1>1, <1>7, ParentIs
  <2> QED BY <1>7, <2>2, <2>3
<1>8. ASSUME NEW q \in Pages(u), q # x \/ SameLink(t, u, x)
      PROVE  /\ q \in Pages(t) /\ Parent(u, q) \in {Parent(t, q), None}
             /\ t.page[q].relinked => u.page[q].relinked
  <2>1. CASE q # x
    BY <1>2, <1>7, <2>1
  <2>2. CASE q = x
    BY <1>7, <1>8, <2>2 DEF SameLink
  <2> QED BY <2>1, <2>2
<1>9. NoCircle(u)
  <2>1. CASE x \in Pages(u) /\ SameLink(t, u, x)
    <3>1. None \notin Pages(u)
      BY DEF IsTop, None
    <3> QED BY <1>1, <1>8, <2>1, <3>1, CirclesKept
  <2>2. CASE ~(x \in Pages(u) /\ SameLink(t, u, x))
    <3>1. \/ x \notin Pages(u) \/ u.page[x].relinked \/ Parent(u, x) = None
          \/ \E T \in SUBSET Pages(u) : x \notin T /\ Parent(u, x) \in T /\ ClosedUpwards(u, T)
      BY <2>2 DEF Apart
    <3> QED BY <1>1, <1>8, <3>1, CirclesKept
  <2> QED BY <2>1, <2>2
<1> QED BY <1>3, <1>4, <1>6, <1>9 DEF Good
-----------------------------------------------------------------------------
(* s_page.c, f_basic.c and o_undo.c *)

\* u shows and makes current what t does.
SameView(t, u) == u.view = t.view /\ u.page_current = t.page_current

\* Two windows with the same pages.
SamePages(t, u) ==
  /\ u.page = t.page /\ u.global_pid = t.global_pid
  /\ u.page_control_counter = t.page_control_counter

LEMMA SamePagesGood ==
  ASSUME NEW t, Good(t), NEW u, IsTop(u), SamePages(t, u)
  PROVE  Good(u) /\ Grown(t, u)
<1>1. Grown(t, u)
  BY DEF Grown, SamePages, SymbolPages, Pages, IsTop, Good
<1>2. OnlyPage(t, u, t.global_pid) /\ t.global_pid \notin Pages(u)
  BY DEF OnlyPage, SamePages, Pages, Good, IsTop
<1> QED BY <1>1, <1>2, PageChanged

\* u has one page more than t, with the next pid.
OneMore(t, u, q) ==
  /\ t.global_pid \notin Pages(t) /\ Pages(u) = Pages(t) \cup {t.global_pid}
  /\ u.page[t.global_pid] = q /\ \A p \in Pages(t) : u.page[p] = t.page[p]

Unnamed(t, q) ==
  q.file \in Files /\ ~q.named =>
    \A p \in Pages(t) : t.page[p].file # q.file \/ t.page[p].named

LEMMA PageAdded ==
  ASSUME NEW t, Good(t), NEW u, IsTop(u), NEW q, OneMore(t, u, q),
         u.global_pid = t.global_pid + 1, u.page_control_counter >= t.page_control_counter,
         IsPage(t, q), q.up = NoParent, q.came_from = None, Unnamed(t, q)
  PROVE  Good(u) /\ Grown(t, u)
<1> DEFINE x == t.global_pid
<1>1. IsTop(t)
  BY DEF Good
<1>2. Grown(t, u)
  BY <1>1 DEF Grown, SymbolPages, OneMore, IsTop
<1>3. OnlyPage(t, u, x)
  BY <1>1 DEF OnlyPage, OneMore, IsTop
<1>4. Fits(u, x)
  <2>1. None \notin Pages(u)
    BY DEF IsTop, None
  <2>2. IsPage(u, q)
    BY <1>1, <1>2, PageGrows
  <2> QED BY <2>1, <2>2 DEF Fits, OneMore, Unnamed
<1>5. Apart(u, x)
  <2>1. x \in Pages(u) /\ u.page[x].up = NoParent /\ NoParent \notin Pages(u)
    BY DEF OneMore, IsTop, NoParent
  <2> QED BY <2>1, ParentIs DEF Apart
<1> QED BY <1>2, <1>3, <1>4, <1>5, PageChanged

\* Page x has become q.
PageIs(t, u, x, q) == u.page = [t.page EXCEPT ![x] = q] /\ u.global_pid = t.global_pid

\* A page that keeps its name and its link may change otherwise.
LEMMA PageSet ==
  ASSUME NEW t, Good(t), NEW u, IsTop(u), NEW x \in Pages(t), NEW q, PageIs(t, u, x, q),
         u.page_control_counter >= t.page_control_counter,
         IsPage(u, q), q.file = t.page[x].file,
         q.up = t.page[x].up, q.came_from = t.page[x].came_from,
         t.page[x].relinked => q.relinked, t.page[x].named => q.named
  PROVE  Good(u) /\ Grown(t, u)
<1>1. IsTop(t) /\ OnePage(t) /\ ComesBack(t)
  BY DEF Good
<1>2. /\ Pages(u) = Pages(t) /\ u.page[x] = q
      /\ \A p \in Pages(t) \ {x} : u.page[p] = t.page[p]
  BY <1>1 DEF PageIs, Pages
<1>3. Grown(t, u)
  BY <1>1, <1>2 DEF Grown, SymbolPages, PageIs, IsTop
<1>4. OnlyPage(t, u, x)
  BY <1>2 DEF OnlyPage
<1>5. Fits(u, x)
  BY <1>1, <1>2 DEF Fits, OnePage, ComesBack
<1>6. SameLink(t, u, x)
  BY <1>2 DEF SameLink
<1> QED BY <1>3, <1>4, <1>5, <1>6, PageChanged

\* A page may get a new link if it has been relinked since, or if its parent is
\* not below it.
LEMMA PageLinked ==
  ASSUME NEW t, Good(t), NEW u, IsTop(u), NEW x \in Pages(t), NEW q, PageIs(t, u, x, q),
         u.page_control_counter >= t.page_control_counter,
         IsPage(u, q), q.file = t.page[x].file, t.page[x].named => q.named,
         q.relinked \/ (Apart(u, x) /\ (q.came_from = q.up \/ q.came_from \notin Pages(u)))
  PROVE  Good(u) /\ Grown(t, u)
<1>1. IsTop(t) /\ OnePage(t)
  BY DEF Good
<1>2. /\ Pages(u) = Pages(t) /\ u.page[x] = q
      /\ \A p \in Pages(t) \ {x} : u.page[p] = t.page[p]
  BY <1>1 DEF PageIs, Pages
<1>3. Grown(t, u)
  BY <1>1, <1>2 DEF Grown, SymbolPages, PageIs, IsTop
<1>4. OnlyPage(t, u, x)
  BY <1>2 DEF OnlyPage
<1>5. Fits(u, x)
  BY <1>1, <1>2 DEF Fits, OnePage
<1>6. u.page[x].relinked \/ Apart(u, x)
  BY <1>2
<1> QED BY <1>3, <1>4, <1>5, <1>6, PageChanged

\* Deleting a page breaks no link but those to it.
LEMMA PageRemoved ==
  ASSUME NEW t, Good(t), NEW p \in Pages(t)
  PROVE  LET u == s_page_delete(t, p)
         IN  /\ Good(u) /\ Grown(t, u) /\ Pages(u) = Pages(t) \ {p}
             /\ \A q \in Pages(u) : u.page[q] = t.page[q]
             /\ u.global_pid = t.global_pid /\ u.page_control_counter = t.page_control_counter
             /\ u.view = IF t.view = p THEN None ELSE t.view
             /\ u.page_current = IF t.page_current = p THEN None ELSE t.page_current
<1> DEFINE u == s_page_delete(t, p)
<1>1. IsTop(t)
  BY DEF Good
<1>0. t = [page |-> t.page, page_current |-> t.page_current, view |-> t.view,
           global_pid |-> t.global_pid, page_control_counter |-> t.page_control_counter]
  BY <1>1 DEF IsTop
<1> DEFINE g == [q \in Pages(t) \ {p} |-> t.page[q]]
           c == IF t.page_current = p THEN None ELSE t.page_current
           v == IF t.view = p THEN None ELSE t.view
<1>2. u = [page |-> g, page_current |-> c, view |-> v,
           global_pid |-> t.global_pid, page_control_counter |-> t.page_control_counter]
  <2>1. u = [t EXCEPT !.page = g, !.page_current = c, !.view = v]
    BY DEF s_page_delete
  <2> HIDE DEF u, g, c, v
  <2> QED BY <1>0, <2>1
<1> HIDE DEF u
<1>3. /\ Pages(u) = Pages(t) \ {p} /\ \A q \in Pages(u) : u.page[q] = t.page[q]
      /\ IsTop(u)
  <2>1. u.page = g /\ u.global_pid = t.global_pid
        /\ u.page_control_counter = t.page_control_counter
    BY <1>2
  <2> HIDE DEF c, v
  <2> QED BY <1>1, <1>2, <2>1 DEF Pages, IsTop
<1>4. Grown(t, u) /\ OnlyPage(t, u, p) /\ p \notin Pages(u)
  BY <1>1, <1>2, <1>3 DEF Grown, OnlyPage, SymbolPages, IsTop
<1>5. Good(u)
  BY <1>3, <1>4, PageChanged
<1> QED BY <1>2, <1>3, <1>4, <1>5 DEF u

\* u is t with page x set to q, and the counter of page controls to c.
IsSet(t, u, x, q, c) == c \in Nat /\ u = [t EXCEPT !.page[x] = q, !.page_control_counter = c]

LEMMA SetTop ==
  ASSUME NEW t, IsTop(t), NEW x \in Pages(t), NEW q, NEW c, NEW u, IsSet(t, u, x, q, c)
  PROVE  IsTop(u) /\ PageIs(t, u, x, q) /\ u.page_control_counter = c /\ SameView(t, u)
<1> DEFINE g == [t.page EXCEPT ![x] = q]
<1>1. t = [page |-> t.page, page_current |-> t.page_current, view |-> t.view,
           global_pid |-> t.global_pid, page_control_counter |-> t.page_control_counter]
  BY DEF IsTop
<1>2. u = [page |-> g, page_current |-> t.page_current, view |-> t.view,
           global_pid |-> t.global_pid, page_control_counter |-> c]
  <2>1. u = [t EXCEPT !.page = g, !.page_control_counter = c]
    BY <1>1 DEF IsSet
  <2> HIDE DEF g
  <2> QED BY <1>1, <2>1
<1>3. g = [p \in DOMAIN g |-> g[p]] /\ DOMAIN g = Pages(t)
  BY DEF Pages, IsTop
<1> HIDE DEF g
<1>4. /\ u.page = g /\ u.page_current = t.page_current /\ u.view = t.view
      /\ u.global_pid = t.global_pid /\ u.page_control_counter = c
  BY <1>2
<1>5. IsTop(u)
  <2>1. c \in Nat
    BY DEF IsSet
  <2> QED BY <1>2, <1>3, <1>4, <2>1 DEF IsTop, Pages
<1> QED BY <1>4, <1>5 DEF g, PageIs, SameView

LEMMA SetPage ==
  ASSUME NEW t, IsTop(t), NEW x \in Pages(t), NEW q
  PROVE  LET u == [t EXCEPT !.page[x] = q]
         IN  /\ IsTop(u) /\ PageIs(t, u, x, q) /\ SameView(t, u)
             /\ u.page_control_counter = t.page_control_counter
<1> DEFINE u == [t EXCEPT !.page[x] = q]
           c == t.page_control_counter
           w == [t EXCEPT !.page[x] = q, !.page_control_counter = c]
<1>1. IsSet(t, w, x, q, c)
  BY DEF IsTop, IsSet
<1>2. u = w
  <2>1. t = [page |-> t.page, page_current |-> t.page_current, view |-> t.view,
             global_pid |-> t.global_pid, page_control_counter |-> t.page_control_counter]
    BY DEF IsTop
  <2> QED BY <2>1
<1>3. IsTop(w) /\ PageIs(t, w, x, q) /\ w.page_control_counter = c /\ SameView(t, w)
  <2> HIDE DEF c, w
  <2> QED BY <1>1, SetTop
<1> HIDE DEF u, w
<1> QED BY <1>2, <1>3 DEF u

\* What is in the page changes, and its undo list, but no link.
Touched(t, u, x) ==
  LET p == t.page[x]
      q == u.page[x]
  IN  /\ PageIs(t, u, x, q)
      /\ u.page_control_counter = t.page_control_counter /\ SameView(t, u)
      /\ q.file = p.file /\ q.is_untitled = p.is_untitled /\ q.up = p.up
      /\ q.page_control = p.page_control /\ q.came_from = p.came_from
      /\ q.relinked = p.relinked /\ q.named = p.named

\* What is done to a page without changing its file and links keeps all pages good.
LEMMA TouchedGood ==
  ASSUME NEW t, Good(t), NEW u, IsTop(u), NEW x \in Pages(t), Touched(t, u, x),
         IsPage(t, u.page[x])
  PROVE  Good(u) /\ Grown(t, u)
<1> DEFINE q == u.page[x]
<1>1. /\ PageIs(t, u, x, q) /\ u.page_control_counter = t.page_control_counter
      /\ q.file = t.page[x].file /\ q.up = t.page[x].up /\ q.came_from = t.page[x].came_from
      /\ q.relinked = t.page[x].relinked /\ q.named = t.page[x].named
  BY DEF Touched
<1>2. IsTop(t)
  BY DEF Good
<1>3. /\ Pages(u) = Pages(t)
      /\ \A p \in Pages(t) \ {x} : u.page[p] = t.page[p]
  BY <1>1, <1>2 DEF PageIs, Pages
<1>4. Grown(t, u)
  BY <1>1, <1>2, <1>3 DEF Grown, SymbolPages, PageIs, IsTop
<1>5. IsPage(u, q)
  BY <1>2, <1>4, PageGrows
<1>6. u.page_control_counter >= t.page_control_counter
  BY <1>1, <1>2 DEF IsTop
<1> HIDE DEF q
<1> QED BY <1>1, <1>5, <1>6, PageSet

\* Files have components; symbols have none.
DiskOK ==
  /\ DOMAIN disk = Files
  /\ \A f \in Files : disk[f] \in {NONE} \cup Seq(Component)
  /\ \A f \in Symbols : disk[f] \in {NONE, <<>>}

LEMMA NewIs ==
  ASSUME NEW t, IsTop(t), NEW q
  PROVE  LET u == s_page_new(t, q)
         IN  /\ IsTop(u) /\ OneMore(t, u, q) /\ u.global_pid = t.global_pid + 1
             /\ u.page_control_counter = t.page_control_counter /\ SameView(t, u)
<1> DEFINE u == s_page_new(t, q)
           g == [p \in Pages(t) \cup {t.global_pid} |->
                   IF p = t.global_pid THEN q ELSE t.page[p]]
           n == t.global_pid + 1
<1>1. t = [page |-> t.page, page_current |-> t.page_current, view |-> t.view,
           global_pid |-> t.global_pid, page_control_counter |-> t.page_control_counter]
  BY DEF IsTop
<1>2. u = [page |-> g, page_current |-> t.page_current, view |-> t.view,
           global_pid |-> n, page_control_counter |-> t.page_control_counter]
  <2>1. u = [t EXCEPT !.page = g, !.global_pid = n]
    BY <1>1 DEF s_page_new
  <2> HIDE DEF u, g, n
  <2> QED BY <1>1, <2>1
<1>3. /\ g = [p \in DOMAIN g |-> g[p]] /\ DOMAIN g = Pages(t) \cup {t.global_pid}
      /\ g[t.global_pid] = q /\ \A p \in Pages(t) : p # t.global_pid => g[p] = t.page[p]
  OBVIOUS
<1> HIDE DEF u, g
<1>4. /\ u.page = g /\ u.page_current = t.page_current /\ u.view = t.view
      /\ u.global_pid = n /\ u.page_control_counter = t.page_control_counter
  BY <1>2
<1>5. t.global_pid \in Nat /\ t.page_control_counter \in Nat
      /\ \A p \in Pages(t) : p \in 0 .. t.global_pid - 1
  BY DEF IsTop
<1>6. IsTop(u)
  <2>1. Pages(u) \subseteq 0 .. u.global_pid - 1
    BY <1>3, <1>4, <1>5 DEF Pages
  <2> QED BY <1>2, <1>3, <1>4, <1>5, <2>1 DEF IsTop, Pages
<1>7. OneMore(t, u, q)
  BY <1>3, <1>4, <1>5 DEF OneMore, Pages
<1> QED BY <1>4, <1>6, <1>7 DEF u, SameView

LEMMA OpenTouches ==
  ASSUME NEW t, Good(t), NEW p \in Pages(t), t.page[p].file \in Files, DiskOK
  PROVE  LET u == f_open(t, p)
         IN  Good(u) /\ Touched(t, u, p) /\ u.page[p].undo = t.page[p].undo
<1> DEFINE q == t.page[p]
           c == disk[q.file]
           r == [q EXCEPT !.content = c, !.CHANGED = FALSE]
           w == [t EXCEPT !.page[p] = r]
<1>1. IsTop(t) /\ IsPage(t, q)
  BY DEF Good, PagesOK
<1>2. CASE Readable(q.file)
  <2>1. f_open(t, p) = w
    <3>1. t = [page |-> t.page, page_current |-> t.page_current, view |-> t.view,
               global_pid |-> t.global_pid, page_control_counter |-> t.page_control_counter]
      BY <1>1 DEF IsTop
    <3> QED BY <1>2, <3>1 DEF f_open
  <2>2. /\ IsTop(w) /\ PageIs(t, w, p, r) /\ SameView(t, w)
        /\ w.page_control_counter = t.page_control_counter
    <3> HIDE DEF r
    <3> QED BY <1>1, SetPage
  <2>3. w.page[p] = r
    <3> HIDE DEF r, w
    <3> QED BY <2>2 DEF PageIs, Pages
  <2>4. c \in Seq(Component) /\ (q.file \in Symbols => c = <<>>)
    <3>1. disk[q.file] # NONE
      BY <1>2 DEF Readable, Exists
    <3> QED BY <3>1 DEF DiskOK
  <2>5. /\ r = [file |-> q.file, is_untitled |-> q.is_untitled, content |-> c,
                CHANGED |-> FALSE, up |-> q.up, page_control |-> q.page_control,
                undo |-> q.undo, at |-> q.at, came_from |-> q.came_from,
                relinked |-> q.relinked, named |-> q.named]
    <3>1. r = [q EXCEPT !.content = c, !.CHANGED = FALSE]
      OBVIOUS
    <3> HIDE DEF c, q, r
    <3> QED BY <1>1, <3>1 DEF IsPage
  <2> HIDE DEF r, w, c, q
  <2>6. IsPage(t, r)
    BY <1>1, <2>4, <2>5 DEF IsPage
  <2>7. Touched(t, w, p) /\ w.page[p].undo = q.undo
    BY <2>2, <2>3, <2>5 DEF Touched, q
  <2>8. Good(w)
    BY <2>2, <2>3, <2>6, <2>7, TouchedGood
  <2> QED BY <2>1, <2>7, <2>8 DEF q
<1>3. CASE ~Readable(q.file)
  <2>1. f_open(t, p) = t
    BY <1>3 DEF f_open
  <2>2. t.page = [t.page EXCEPT ![p] = t.page[p]]
    BY <1>1 DEF IsTop, Pages
  <2> QED BY <2>1, <2>2 DEF Touched, PageIs, SameView
<1> QED BY <1>2, <1>3

\* The undo list is cut at the current entry and gets an entry for the page.
LEMMA StateSaved ==
  ASSUME NEW t, Good(t), NEW p \in Pages(t)
  PROVE  LET u == o_undo_savestate(t, p)
         IN  /\ Good(u) /\ Touched(t, u, p)
             /\ u.page[p].content = t.page[p].content /\ u.page[p].CHANGED = t.page[p].CHANGED
<1> DEFINE q == t.page[p]
           l == Append(SubSeq(q.undo, 1, q.at), Node(q))
           a == q.at + 1
           r == [q EXCEPT !.undo = l, !.at = a]
           w == [t EXCEPT !.page[p] = r]
<1>1. IsTop(t) /\ IsPage(t, q)
  BY DEF Good, PagesOK
<1>2. o_undo_savestate(t, p) = w
  BY DEF o_undo_savestate
<1>3. r = [file |-> q.file, is_untitled |-> q.is_untitled, content |-> q.content,
           CHANGED |-> q.CHANGED, up |-> q.up, page_control |-> q.page_control,
           undo |-> l, at |-> a, came_from |-> q.came_from,
           relinked |-> q.relinked, named |-> q.named]
  <2>1. r = [q EXCEPT !.undo = l, !.at = a]
    OBVIOUS
  <2> HIDE DEF l, a, q, r
  <2> QED BY <1>1, <2>1 DEF IsPage
<1>4. /\ IsTop(w) /\ PageIs(t, w, p, r) /\ SameView(t, w)
      /\ w.page_control_counter = t.page_control_counter
  <2> HIDE DEF r
  <2> QED BY <1>1, SetPage
<1>5. w.page[p] = r
  <2> HIDE DEF r, w
  <2> QED BY <1>4 DEF PageIs, Pages
<1>6. /\ l \in Seq(Nodes(t)) /\ a \in 0 .. Len(l) /\ a # 0
      /\ q.file \in Symbols => \A i \in DOMAIN l : l[i].content = <<>>
      /\ q.is_untitled => \A i \in DOMAIN l : l[i].up = NoParent
  <2>1. q.undo \in Seq(Nodes(t)) /\ q.at \in 0 .. Len(q.undo) /\ Len(q.undo) \in Nat
    BY <1>1, LenProperties DEF IsPage
  <2> DEFINE s == SubSeq(q.undo, 1, q.at)  n == Node(q)
             Fine(m) == /\ q.file \in Symbols => m.content = <<>>
                        /\ q.is_untitled => m.up = NoParent
  <2>2. n \in Nodes(t) /\ Fine(n)
    BY <1>1 DEF IsPage, Node, Nodes
  <2>3. s \in Seq(Nodes(t)) /\ Len(s) = q.at /\ \A i \in 1 .. q.at : s[i] = q.undo[i]
    <3> HIDE DEF q
    <3> QED BY <2>1, SubSeqProperties
  <2>4. \A i \in 1 .. q.at : Fine(s[i])
    <3>1. \A i \in 1 .. q.at : i \in DOMAIN q.undo
      BY <2>1, LenProperties
    <3>2. \A i \in DOMAIN q.undo : Fine(q.undo[i])
      BY <1>1 DEF IsPage
    <3> HIDE DEF Fine, s
    <3> QED BY <2>3, <3>1, <3>2
  <2>5. l = Append(s, n)
    OBVIOUS
  <2> HIDE DEF n, s, q, l, Fine
  <2>6. /\ l \in Seq(Nodes(t)) /\ Len(l) = q.at + 1 /\ l[q.at + 1] = n
        /\ \A i \in 1 .. q.at : l[i] = s[i]
    <3>1. /\ Append(s, n) \in Seq(Nodes(t)) /\ Len(Append(s, n)) = Len(s) + 1
          /\ \A i \in 1 .. Len(s) : Append(s, n)[i] = s[i]
          /\ Append(s, n)[Len(s) + 1] = n
      BY <2>2, <2>3, AppendProperties
    <3> QED BY <2>3, <2>5, <3>1
  <2>7. \A i \in DOMAIN l : i \in 1 .. q.at \/ i = q.at + 1
    BY <2>1, <2>6, LenProperties
  <2>8. \A i \in DOMAIN l : Fine(l[i])
    BY <2>2, <2>4, <2>6, <2>7
  <2>9. l \in Seq(Nodes(t)) /\ a \in 0 .. Len(l) /\ a # 0
    BY <2>1, <2>6
  <2> QED BY <2>8, <2>9 DEF Fine
<1> HIDE DEF r, w, l, a, q
<1>7. IsPage(t, r)
  BY <1>1, <1>3, <1>6 DEF IsPage
<1>8. Touched(t, w, p)
  BY <1>3, <1>4, <1>5 DEF Touched, q
<1>9. Good(w)
  BY <1>4, <1>5, <1>7, <1>8, TouchedGood
<1>10. r.content = q.content /\ r.CHANGED = q.CHANGED
  BY <1>3
<1> QED BY <1>2, <1>5, <1>8, <1>9, <1>10 DEF q

\* Undo and redo give the page the link of an entry, and mark it if that is new.
LEMMA CalledBack ==
  ASSUME NEW t, Good(t), NEW p \in Pages(t), NEW i \in 1 .. Len(t.page[p].undo)
  PROVE  LET u == o_undo_callback(t, p, i)
         IN  Good(u) /\ Pages(u) = Pages(t) /\ SameView(t, u)
<1> DEFINE q == t.page[p]
           n == q.undo[i]
           k == q.relinked \/ q.up # n.up
           r == [q EXCEPT !.content = n.content, !.page_control = n.page_control,
                          !.up = n.up, !.CHANGED = n.CHANGED, !.at = i, !.relinked = k]
           w == [t EXCEPT !.page[p] = r]
<1>1. IsTop(t) /\ IsPage(t, q)
  BY DEF Good, PagesOK
<1>2. o_undo_callback(t, p, i) = w
  <2>1. t = [page |-> t.page, page_current |-> t.page_current, view |-> t.view,
             global_pid |-> t.global_pid, page_control_counter |-> t.page_control_counter]
    BY <1>1 DEF IsTop
  <2>2. r = [q EXCEPT !.content = n.content, !.page_control = n.page_control,
                      !.up = n.up, !.CHANGED = n.CHANGED, !.at = i,
                      !.relinked = @ \/ q.up # n.up]
    OBVIOUS
  <2>3. o_undo_callback(t, p, i) = [t EXCEPT !.page[p] = r]
    <3> HIDE DEF r
    <3> QED BY <2>2 DEF o_undo_callback
  <2> QED BY <2>3
<1>3. r = [file |-> q.file, is_untitled |-> q.is_untitled, content |-> n.content,
           CHANGED |-> n.CHANGED, up |-> n.up, page_control |-> n.page_control,
           undo |-> q.undo, at |-> i, came_from |-> q.came_from,
           relinked |-> k, named |-> q.named]
  <2>1. r = [q EXCEPT !.content = n.content, !.page_control = n.page_control,
                      !.up = n.up, !.CHANGED = n.CHANGED, !.at = i, !.relinked = k]
    OBVIOUS
  <2> HIDE DEF n, k, q, r
  <2> QED BY <1>1, <2>1 DEF IsPage
<1>4. /\ IsTop(w) /\ PageIs(t, w, p, r) /\ SameView(t, w)
      /\ w.page_control_counter = t.page_control_counter
  <2> HIDE DEF r
  <2> QED BY <1>1, SetPage
<1>5. /\ n \in Nodes(t) /\ i \in 0 .. Len(q.undo) /\ i # 0
      /\ q.file \in Symbols => n.content = <<>>
      /\ q.is_untitled => n.up = NoParent
  <2>1. q.undo \in Seq(Nodes(t)) /\ i \in 1 .. Len(q.undo) /\ Len(q.undo) \in Nat
    BY <1>1, LenProperties DEF IsPage
  <2>2. i \in DOMAIN q.undo
    BY <2>1, LenProperties
  <2>3. n \in Nodes(t)
    <3> HIDE DEF q
    <3> QED BY <2>1, LenProperties
  <2> QED BY <1>1, <2>1, <2>2, <2>3 DEF IsPage
<1>6. Pages(w) = Pages(t)
  <2> HIDE DEF r, w
  <2> QED BY <1>4 DEF PageIs, Pages
<1> HIDE DEF r, w, n
<1>7. IsPage(t, r)
  <2> HIDE DEF q
  <2>1. k \in BOOLEAN
    BY <1>1 DEF IsPage
  <2> HIDE DEF k
  <2> QED BY <1>1, <1>3, <1>5, <2>1 DEF IsPage, Nodes
<1>8. IsPage(w, r)
  <2>1. Grown(t, w)
    <3>1. r.file = q.file
      BY <1>3
    <3>2. \A x \in Pages(t) : w.page[x].file = t.page[x].file
      BY <1>1, <1>4, <3>1 DEF PageIs, Pages
    <3> QED BY <1>1, <1>4, <1>6, <3>2 DEF Grown, SymbolPages, PageIs, IsTop
  <2> QED BY <1>1, <1>4, <1>7, <2>1, PageGrows
<1>9. Good(w)
  <2>1. w.page_control_counter >= t.page_control_counter
    BY <1>1, <1>4 DEF IsTop
  <2>2. r.file = q.file /\ r.named = q.named /\ r.relinked = k /\ r.up = n.up
        /\ r.came_from = q.came_from
    BY <1>3
  <2>3. CASE k
    BY <1>4, <1>8, <2>1, <2>2, <2>3, PageLinked
  <2>4. CASE ~k
    <3>1. r.up = q.up /\ (q.relinked => r.relinked)
      BY <2>2, <2>4
    <3> QED BY <1>4, <1>8, <2>1, <2>2, <3>1, PageSet
  <2> QED BY <2>3, <2>4
<1> QED BY <1>2, <1>4, <1>6, <1>9

-----------------------------------------------------------------------------
(* x_window.c and x_lowlevel.c *)

LEMMA WentTo ==
  ASSUME NEW t, Good(t), NEW p
  PROVE  LET u == s_page_goto(t, p)
         IN  Good(u) /\ SamePages(t, u) /\ u.view = t.view /\ u.page_current = p
<1> DEFINE u == s_page_goto(t, p)
<1>1. IsTop(t)
  BY DEF Good
<1>2. t = [page |-> t.page, page_current |-> t.page_current, view |-> t.view,
           global_pid |-> t.global_pid, page_control_counter |-> t.page_control_counter]
  BY <1>1 DEF IsTop
<1>3. u = [page |-> t.page, page_current |-> p, view |-> t.view,
           global_pid |-> t.global_pid, page_control_counter |-> t.page_control_counter]
  BY <1>2 DEF s_page_goto
<1> HIDE DEF u
<1>4. SamePages(t, u) /\ IsTop(u) /\ u.view = t.view /\ u.page_current = p
  BY <1>1, <1>3 DEF IsTop, SamePages, Pages
<1>5. Good(u)
  BY <1>4, SamePagesGood
<1> QED BY <1>4, <1>5 DEF u

\* The window shows a page or none, and so does the toplevel.
Shows(t) == t.view \in Pages(t) \cup {None} /\ t.page_current \in Pages(t) \cup {None}

\* Unless the window shows another page than the current one, it now shows p.
LEMMA Showed ==
  ASSUME NEW t, Good(t), NEW p
  PROVE  LET u == x_window_set_current_page(t, p)
         IN  /\ Good(u) /\ SamePages(t, u)
             /\ p # None /\ t.view \in {None, t.page_current}
                  => u.view = p /\ u.page_current = p
<1> DEFINE u == x_window_set_current_page(t, p)
           v == [t EXCEPT !.view = p]
           w == s_page_goto(v, p)
<1>1. CASE (p = t.page_current /\ t.view # None) \/ p = t.view
  <2>1. u = t
    BY <1>1 DEF x_window_set_current_page
  <2> HIDE DEF u
  <2> QED BY <1>1, <2>1 DEF SamePages, u
<1>2. CASE ~((p = t.page_current /\ t.view # None) \/ p = t.view)
  <2>1. u = w
    BY <1>2 DEF x_window_set_current_page
  <2>2. IsTop(t)
    BY DEF Good
  <2>3. t = [page |-> t.page, page_current |-> t.page_current, view |-> t.view,
             global_pid |-> t.global_pid, page_control_counter |-> t.page_control_counter]
    BY <2>2 DEF IsTop
  <2>4. v = [page |-> t.page, page_current |-> t.page_current, view |-> p,
             global_pid |-> t.global_pid, page_control_counter |-> t.page_control_counter]
    BY <2>3
  <2> HIDE DEF v
  <2>5. SamePages(t, v) /\ IsTop(v) /\ v.view = p
    BY <2>2, <2>4 DEF IsTop, SamePages, Pages
  <2>6. Good(v)
    BY <2>5, SamePagesGood
  <2>7. Good(w) /\ SamePages(v, w) /\ w.view = v.view /\ w.page_current = p
    BY <2>6, WentTo
  <2> HIDE DEF w, u
  <2> QED BY <2>1, <2>5, <2>7 DEF SamePages, u
<1> QED BY <1>1, <1>2

\* t has become u, with page x added to its pages, unless it is None.
WithPage(t, u, x) ==
  /\ Good(u) /\ Grown(t, u) /\ t.global_pid <= u.global_pid
  /\ Pages(u) = Pages(t) \cup ({x} \ {None})
  /\ \A q \in Pages(t) : u.page[q] = t.page[q]
  /\ u.page_control_counter = t.page_control_counter /\ u.view = t.view
  /\ u.page_current = IF t.page_current = None /\ x \notin Pages(t)
                      THEN x ELSE t.page_current

\* x is None, or the page for file f, new or found, which is nobody's subpage
\* if it is new.
IsFor(t, u, x, f) ==
  x # None =>
    /\ u.page[x].file = f
    /\ x \in Pages(t) =>
         ~t.page[x].is_untitled
    /\ x \notin Pages(t) =>
         /\ x = t.global_pid /\ u.page[x].up = NoParent /\ u.page[x].came_from = None
         /\ u.page[x].relinked = FALSE

\* q is a page that was just made for f.
IsBlank(q, f, k) ==
  k \in BOOLEAN /\ q = [NewPage(f) EXCEPT !.is_untitled = f = Untitled, !.named = k]

LEMMA BlankPage ==
  ASSUME NEW t, IsTop(t), NEW f \in Files \cup {Untitled}, NEW k, NEW q, IsBlank(q, f, k)
  PROVE  /\ IsPage(t, q) /\ q.file = f /\ q.named = k /\ q.up = NoParent
         /\ q.came_from = None /\ q.relinked = FALSE
<1>1. q = [file |-> f, is_untitled |-> (f = Untitled), content |-> <<>>,
           CHANGED |-> FALSE, up |-> NoParent, page_control |-> 0, undo |-> <<>>, at |-> 0,
           came_from |-> None, relinked |-> FALSE, named |-> k]
  <2> DEFINE n == NewPage(f)  d == (f = Untitled)
  <2>1. n = [file |-> f, is_untitled |-> FALSE, content |-> <<>>,
             CHANGED |-> FALSE, up |-> NoParent, page_control |-> 0, undo |-> <<>>, at |-> 0,
             came_from |-> None, relinked |-> FALSE, named |-> FALSE]
    BY DEF NewPage
  <2>2. q = [n EXCEPT !.is_untitled = d, !.named = k]
    BY DEF IsBlank
  <2> HIDE DEF n, d
  <2>3. q = [file |-> f, is_untitled |-> d, content |-> <<>>,
             CHANGED |-> FALSE, up |-> NoParent, page_control |-> 0, undo |-> <<>>, at |-> 0,
             came_from |-> None, relinked |-> FALSE, named |-> k]
    BY <2>1, <2>2
  <2> QED BY <2>3 DEF d
<1>3. <<>> \in Seq(Nodes(t)) /\ <<>> \in Seq(Component) /\ Len(<<>>) = 0 /\ DOMAIN <<>> = {}
  OBVIOUS
<1>2. k \in BOOLEAN
  BY DEF IsBlank
<1>4. IsPage(t, q)
  BY <1>1, <1>2, <1>3 DEF IsPage, Ups, IsTop
<1> QED BY <1>1, <1>4

\* A page that was just made and made current gets an undo entry, and what was
\* current becomes current again.
LEMMA EnteredIs ==
  ASSUME NEW t, Good(t), NEW p \in Pages(t), NEW saved \in {None} \cup Pages(t)
  PROVE  LET u == Entered(t, p, saved)
         IN  /\ Good(u) /\ PageIs(t, u, p, u.page[p])
             /\ u.page_control_counter = t.page_control_counter /\ u.view = t.view
             /\ u.page_current = IF saved = None THEN p ELSE saved
             /\ u.page[p].file = t.page[p].file /\ u.page[p].up = t.page[p].up
             /\ u.page[p].came_from = t.page[p].came_from
             /\ u.page[p].relinked = t.page[p].relinked /\ u.page[p].named = t.page[p].named
<1> DEFINE g == s_page_goto(t, p)
           s == o_undo_savestate(g, p)
           b == Back(s, saved)
<1>1. Good(g) /\ SamePages(t, g) /\ g.view = t.view /\ g.page_current = p
  BY WentTo
<1>2. Good(s) /\ Touched(g, s, p)
  <2>1. p \in Pages(g)
    BY <1>1 DEF SamePages, Pages
  <2> HIDE DEF g
  <2> QED BY <1>1, <2>1, StateSaved
<1>3. Good(b) /\ SamePages(s, b) /\ b.view = s.view
      /\ b.page_current = IF saved = None THEN s.page_current ELSE saved
  <2> HIDE DEF s
  <2>1. CASE saved = None
    BY <1>2, <2>1 DEF Back, SamePages
  <2>2. CASE saved # None
    <3>1. b = s_page_goto(s, saved)
      BY <2>2 DEF Back
    <3> QED BY <1>2, <2>2, <3>1, WentTo
  <2> QED BY <2>1, <2>2
<1>4. Entered(t, p, saved) = b
  BY DEF Entered
<1> HIDE DEF g, s, b
<1>5. /\ PageIs(t, b, p, b.page[p]) /\ b.page_control_counter = t.page_control_counter
      /\ b.view = t.view /\ s.page_current = p
  BY <1>1, <1>2, <1>3 DEF Touched, SamePages, SameView, PageIs
<1>6. /\ b.page[p].file = t.page[p].file /\ b.page[p].up = t.page[p].up
      /\ b.page[p].came_from = t.page[p].came_from
      /\ b.page[p].relinked = t.page[p].relinked /\ b.page[p].named = t.page[p].named
  BY <1>1, <1>2, <1>3 DEF Touched, SamePages
<1> QED BY <1>3, <1>4, <1>5, <1>6

\* A page added by s_page_new and entered
LEMMA NewEntered ==
  ASSUME NEW t, Good(t), Shows(t), NEW q, IsPage(t, q), Unnamed(t, q),
         q.up = NoParent, q.came_from = None, q.relinked = FALSE,
         NEW n, Good(n), OneMore(t, n, n.page[t.global_pid]),
         n.global_pid = t.global_pid + 1, n.page_control_counter = t.page_control_counter,
         SameView(t, n), n.page[t.global_pid].file = q.file,
         n.page[t.global_pid].up = NoParent, n.page[t.global_pid].came_from = None,
         n.page[t.global_pid].relinked = FALSE
  PROVE  LET u == Entered(n, t.global_pid, t.page_current)
         IN  WithPage(t, u, t.global_pid) /\ IsFor(t, u, t.global_pid, q.file)
<1> DEFINE x == t.global_pid
           u == Entered(n, x, t.page_current)
<1>1. x \in Pages(n) /\ t.page_current \in {None} \cup Pages(n)
  BY DEF OneMore, Shows
<1>2. /\ Good(u) /\ PageIs(n, u, x, u.page[x])
      /\ u.page_control_counter = n.page_control_counter /\ u.view = n.view
      /\ u.page_current = IF t.page_current = None THEN x ELSE t.page_current
      /\ u.page[x].file = n.page[x].file /\ u.page[x].up = n.page[x].up
      /\ u.page[x].came_from = n.page[x].came_from
      /\ u.page[x].relinked = n.page[x].relinked /\ u.page[x].named = n.page[x].named
  <2> HIDE DEF x
  <2> QED BY <1>1, EnteredIs
<1> HIDE DEF u
<1>3. IsTop(t) /\ IsTop(n) /\ IsTop(u) /\ x \notin Pages(t) /\ x # None
  BY <1>2 DEF Good, IsTop, None
<1>4. /\ Pages(u) = Pages(t) \cup {x} /\ u.global_pid = t.global_pid + 1
      /\ \A p \in Pages(t) : u.page[p] = t.page[p]
  BY <1>2, <1>3 DEF PageIs, OneMore, Pages
<1>5. Grown(t, u)
  BY <1>2, <1>3, <1>4 DEF Grown, SymbolPages, IsTop
<1>6. WithPage(t, u, x)
  BY <1>2, <1>3, <1>4, <1>5 DEF WithPage, SameView, IsTop
<1>7. IsFor(t, u, x, q.file)
  BY <1>2, <1>3 DEF IsFor
<1> QED BY <1>6, <1>7 DEF u

\* A file is searched for in the pages that have a name.
LEMMA Searched ==
  ASSUME NEW t, Good(t), NEW f
  PROVE  LET p == s_page_search(t, f)
         IN  /\ p \in Pages(t) \cup {None}
             /\ p # None => t.page[p].file = f /\ ~t.page[p].is_untitled
             /\ p = None /\ f \in Files => \A q \in Pages(t) : t.page[q].file # f
<1> DEFINE S == {p \in Pages(t) : ~t.page[p].is_untitled /\ t.page[p].file = f}
<1>1. IsTop(t) /\ PagesOK(t) /\ S \in SUBSET Nat
  BY DEF Good, IsTop
<1>2. s_page_search(t, f) = FirstOf(S)
  BY DEF s_page_search
<1>3. FirstOf(S) \in S \cup {None} /\ (FirstOf(S) = None <=> S = {})
  <2> HIDE DEF S
  <2> QED BY <1>1, FirstIs
<1>4. f \in Files => \A q \in Pages(t) : t.page[q].file = f => ~t.page[q].is_untitled
  <2> SUFFICES ASSUME f \in Files, NEW q \in Pages(t), t.page[q].file = f
               PROVE  ~t.page[q].is_untitled
    OBVIOUS
  <2>1. IsPage(t, t.page[q])
    BY <1>1 DEF PagesOK
  <2>2. t.page[q].is_untitled = (t.page[q].file = Untitled)
    BY <2>1 DEF IsPage
  <2>3. f # Untitled
    BY FilesAssumption
  <2> QED BY <2>2, <2>3
<1> QED BY <1>2, <1>3, <1>4

LEMMA SameIsWith ==
  ASSUME NEW t, Good(t), NEW p \in Pages(t) \cup {None}
  PROVE  WithPage(t, t, p)
<1>1. IsTop(t)
  BY DEF Good
<1>2. Grown(t, t)
  BY <1>1 DEF Grown, IsTop
<1> QED BY <1>1, <1>2 DEF WithPage, IsTop

\* x_lowlevel_new_page adds a page, or does nothing.
LEMMA NewPageIs ==
  ASSUME NEW t, Good(t), Shows(t), NEW f \in Files \cup {Untitled}
  PROVE  LET r == x_lowlevel_new_page(t, f)
         IN  /\ WithPage(t, r.top, r.page) /\ IsFor(t, r.top, r.page, f)
             /\ r.page \in {None, t.global_pid}
             /\ f = Untitled \/ ~Exists(f) => r.page # None
<1> DEFINE k == f # Untitled
           q == [NewPage(f) EXCEPT !.is_untitled = f = Untitled, !.named = k]
           n == s_page_new(t, q)
           x == t.global_pid
           u == Entered(n, x, t.page_current)
           r == x_lowlevel_new_page(t, f)
<1>0. IsTop(t) /\ x # None
  BY DEF Good, IsTop, None
<1>1. CASE f # Untitled /\ Exists(f)
  <2>1. r.top = t /\ r.page = None
    BY <1>1 DEF x_lowlevel_new_page, Result
  <2> HIDE DEF r
  <2> QED BY <1>1, <2>1, SameIsWith DEF IsFor, r
<1>2. CASE ~(f # Untitled /\ Exists(f))
  <2>1. r = Result(u, x)
    BY <1>2 DEF x_lowlevel_new_page
  <2>2. r.top = u /\ r.page = x
    BY <2>1 DEF Result
  <2>3. /\ IsPage(t, q) /\ q.file = f /\ q.named = k /\ q.up = NoParent
        /\ q.came_from = None /\ q.relinked = FALSE
    <3>1. IsBlank(q, f, k)
      BY DEF IsBlank
    <3> HIDE DEF k, q
    <3>2. \A c, blank : IsBlank(blank, f, c) =>
            /\ IsPage(t, blank) /\ blank.file = f /\ blank.named = c /\ blank.up = NoParent
            /\ blank.came_from = None /\ blank.relinked = FALSE
      BY <1>0, BlankPage
    <3> QED BY <3>1, <3>2
  <2>4. Unnamed(t, q)
    <3> HIDE DEF q
    <3> QED BY <2>3, FilesAssumption DEF Unnamed
  <2> HIDE DEF q, r, u, k
  <2>5. IsTop(n) /\ OneMore(t, n, q) /\ n.global_pid = t.global_pid + 1
        /\ n.page_control_counter = t.page_control_counter /\ SameView(t, n)
    BY <1>0, NewIs
  <2> HIDE DEF n
  <2>6. n.page_control_counter >= t.page_control_counter
    BY <1>0, <2>5 DEF IsTop
  <2>7. Good(n)
    BY <1>0, <2>3, <2>4, <2>5, <2>6, PageAdded
  <2>8. n.page[x] = q /\ OneMore(t, n, n.page[x])
    BY <2>5 DEF OneMore
  <2>9. WithPage(t, u, x) /\ IsFor(t, u, x, q.file)
    BY <2>3, <2>4, <2>5, <2>7, <2>8, NewEntered DEF u
  <2> QED BY <1>0, <2>2, <2>3, <2>9 DEF r
<1> QED BY <1>1, <1>2

\* A page for f, which no page is for, and its content
LEMMA NewFileIs ==
  ASSUME NEW t, Good(t), NEW f \in Files, \A p \in Pages(t) : t.page[p].file # f, DiskOK
  PROVE  LET n == s_page_new(t, NewPage(f))
             o == f_open(n, t.global_pid)
         IN  /\ IsPage(t, NewPage(f)) /\ Unnamed(t, NewPage(f))
             /\ Good(n) /\ Grown(t, n) /\ Good(o) /\ Grown(t, o)
             /\ OneMore(t, n, NewPage(f))
             /\ n.global_pid = t.global_pid + 1
             /\ n.page_control_counter = t.page_control_counter /\ SameView(t, n)
             /\ Touched(n, o, t.global_pid)
             /\ OneMore(t, o, o.page[t.global_pid]) /\ o.global_pid = t.global_pid + 1
             /\ o.page_control_counter = t.page_control_counter /\ SameView(t, o)
             /\ o.page[t.global_pid].file = f /\ o.page[t.global_pid].up = NoParent
             /\ o.page[t.global_pid].came_from = None
             /\ o.page[t.global_pid].relinked = FALSE
<1> DEFINE q == NewPage(f)
           n == s_page_new(t, q)
           x == t.global_pid
           o == f_open(n, x)
<1>0. IsTop(t)
  BY DEF Good
<1>1. IsPage(t, q) /\ q.file = f /\ ~q.named /\ q.up = NoParent /\ q.came_from = None
      /\ q.relinked = FALSE
  <2> DEFINE d == (f = Untitled)
  <2>0. d = FALSE
    BY FilesAssumption
  <2> HIDE DEF d
  <2>1. q = [file |-> f, is_untitled |-> d, content |-> <<>>,
             CHANGED |-> FALSE, up |-> NoParent, page_control |-> 0, undo |-> <<>>, at |-> 0,
             came_from |-> None, relinked |-> FALSE, named |-> FALSE]
    BY <2>0 DEF NewPage
  <2>2. /\ <<>> \in Seq(Nodes(t)) /\ <<>> \in Seq(Component) /\ Len(<<>>) = 0
        /\ DOMAIN <<>> = {} /\ f # Untitled
    BY FilesAssumption
  <2> HIDE DEF q
  <2>3. IsPage(t, q)
    <3>1. q.is_untitled = (q.file = Untitled)
      BY <2>1 DEF d
    <3> QED BY <1>0, <2>1, <2>2, <3>1 DEF IsPage, Ups, IsTop
  <2> QED BY <2>1, <2>3
<1>2. Unnamed(t, q)
  BY <1>1 DEF Unnamed
<1> HIDE DEF q
<1>3. IsTop(n) /\ OneMore(t, n, q) /\ n.global_pid = t.global_pid + 1
      /\ n.page_control_counter = t.page_control_counter /\ SameView(t, n)
  BY <1>0, NewIs
<1> HIDE DEF n
<1>4. n.page_control_counter >= t.page_control_counter
  BY <1>0, <1>3 DEF IsTop
<1>5. Good(n) /\ Grown(t, n)
  BY <1>0, <1>1, <1>2, <1>3, <1>4, PageAdded
<1>6. x \in Pages(n) /\ n.page[x] = q
  BY <1>3 DEF OneMore
<1>7. Good(o) /\ Touched(n, o, x)
  <2> HIDE DEF x, o
  <2>1. n.page[x].file \in Files
    BY <1>1, <1>6
  <2> QED BY <1>5, <1>6, <2>1, OpenTouches DEF o
<1> HIDE DEF o
<1>8. OneMore(t, o, o.page[x])
  <2>1. IsTop(n) /\ IsTop(o)
    BY <1>5, <1>7 DEF Good
  <2>2. Pages(o) = Pages(n) /\ \A p \in Pages(n) \ {x} : o.page[p] = n.page[p]
    BY <1>6, <1>7, <2>1 DEF Touched, PageIs, Pages
  <2> QED BY <1>3, <2>2 DEF OneMore
<1>9. /\ o.global_pid = t.global_pid + 1
      /\ o.page_control_counter = t.page_control_counter /\ SameView(t, o)
      /\ o.page[x].file = f /\ o.page[x].up = NoParent
      /\ o.page[x].came_from = None /\ o.page[x].relinked = FALSE
  BY <1>1, <1>3, <1>6, <1>7 DEF Touched, PageIs, SameView
<1>10. Grown(t, o)
  <2>1. IsTop(o) /\ x = t.global_pid
    BY <1>7 DEF Good
  <2> QED BY <1>0, <1>8, <1>9, <2>1 DEF Grown, SymbolPages, OneMore, IsTop
<1> QED BY <1>1, <1>2, <1>3, <1>5, <1>7, <1>8, <1>9, <1>10 DEF q, n, o

\* A page that was just made and is removed again
LEMMA NotKept ==
  ASSUME NEW t, Good(t), NEW n, Good(n), NEW q, OneMore(t, n, q),
         n.global_pid = t.global_pid + 1, n.page_control_counter = t.page_control_counter
  PROVE  LET d == s_page_delete(n, t.global_pid)
         IN  /\ Good(d) /\ Grown(t, d) /\ Pages(d) = Pages(t)
             /\ \A p \in Pages(t) : d.page[p] = t.page[p]
             /\ d.global_pid = t.global_pid + 1
             /\ d.page_control_counter = t.page_control_counter
             /\ n.view # t.global_pid => d.view = n.view
             /\ d.page_current = IF n.page_current = t.global_pid THEN None ELSE n.page_current
<1> DEFINE x == t.global_pid
           d == s_page_delete(n, x)
<1>1. x \in Pages(n)
  BY DEF OneMore
<1>2. /\ Good(d) /\ Grown(n, d) /\ Pages(d) = Pages(n) \ {x}
      /\ \A p \in Pages(d) : d.page[p] = n.page[p]
      /\ d.global_pid = n.global_pid /\ d.page_control_counter = n.page_control_counter
      /\ d.view = IF n.view = x THEN None ELSE n.view
      /\ d.page_current = IF n.page_current = x THEN None ELSE n.page_current
  <2> HIDE DEF x, d
  <2> QED BY <1>1, PageRemoved DEF d
<1> HIDE DEF d
<1>3. Pages(d) = Pages(t) /\ \A p \in Pages(t) : d.page[p] = t.page[p]
  BY <1>2 DEF OneMore
<1>4. Grown(t, d)
  <2>1. IsTop(t)
    BY DEF Good
  <2> QED BY <1>2, <1>3, <2>1 DEF Grown, SymbolPages, IsTop
<1> QED BY <1>2, <1>3, <1>4 DEF d

\* x_lowlevel_open_page finds a page or adds one, and no more.
LEMMA OpenPageIs ==
  ASSUME NEW t, Good(t), Shows(t), NEW f \in Files, DiskOK
  PROVE  LET r == x_lowlevel_open_page(t, f)
         IN  /\ WithPage(t, r.top, r.page) /\ IsFor(t, r.top, r.page, f)
             /\ r.page \in Pages(t) \cup {None, t.global_pid}
<1> DEFINE found == s_page_search(t, f)
           x == t.global_pid
           n == s_page_new(t, NewPage(f))
           o == f_open(n, x)
           u == Entered(o, x, t.page_current)
           g == s_page_goto(n, x)
           d == s_page_delete(g, x)
           b == Back(d, t.page_current)
           r == x_lowlevel_open_page(t, f)
<1>1. IsTop(t) /\ x # None /\ x \notin Pages(t)
  BY DEF Good, IsTop, None
<1>2. /\ found \in Pages(t) \cup {None}
      /\ found # None => t.page[found].file = f /\ ~t.page[found].is_untitled
      /\ found = None => \A q \in Pages(t) : t.page[q].file # f
  BY Searched
<1>3. CASE found # None
  <2>1. r = Result(t, found)
    BY <1>3 DEF x_lowlevel_open_page
  <2>2. r.top = t /\ r.page = found
    BY <2>1 DEF Result
  <2> HIDE DEF found, r
  <2> QED BY <1>2, <1>3, <2>2, SameIsWith DEF IsFor, r
<1>4. ASSUME found = None
      PROVE  /\ IsPage(t, NewPage(f)) /\ Unnamed(t, NewPage(f))
             /\ Good(n) /\ Good(o)
             /\ OneMore(t, n, NewPage(f))
             /\ n.global_pid = t.global_pid + 1
             /\ n.page_control_counter = t.page_control_counter /\ SameView(t, n)
             /\ OneMore(t, o, o.page[x]) /\ o.global_pid = t.global_pid + 1
             /\ o.page_control_counter = t.page_control_counter /\ SameView(t, o)
             /\ o.page[x].file = f /\ o.page[x].up = NoParent
             /\ o.page[x].came_from = None /\ o.page[x].relinked = FALSE
  <2>1. \A p \in Pages(t) : t.page[p].file # f
    BY <1>2, <1>4
  <2> HIDE DEF found
  <2> QED BY <2>1, NewFileIs
<1>5. CASE found = None /\ Readable(f)
  <2>1. r = Result(u, x)
    BY <1>5 DEF x_lowlevel_open_page
  <2>2. r.top = u /\ r.page = x
    BY <2>1 DEF Result
  <2> HIDE DEF found, o, n, r
  <2>3. /\ NewPage(f).file = f /\ NewPage(f).up = NoParent /\ NewPage(f).came_from = None
        /\ NewPage(f).relinked = FALSE
    BY DEF NewPage
  <2>4. WithPage(t, u, x) /\ IsFor(t, u, x, f)
    <3> DEFINE q == NewPage(f)
    <3>1. IsPage(t, q) /\ Unnamed(t, q) /\ q.up = NoParent /\ q.came_from = None
          /\ q.relinked = FALSE /\ q.file = f
      BY <1>4, <1>5, <2>3
    <3> HIDE DEF q
    <3>2. WithPage(t, u, x) /\ IsFor(t, u, x, q.file)
      BY <1>4, <1>5, <3>1, NewEntered
    <3> QED BY <3>1, <3>2
  <2> QED BY <2>2, <2>4 DEF r
<1>6. CASE found = None /\ ~Readable(f)
  <2>1. r = Result(b, None)
    BY <1>6 DEF x_lowlevel_open_page
  <2>2. r.top = b /\ r.page = None
    BY <2>1 DEF Result
  <2> HIDE DEF found, o, n, r
  <2>3. Good(g) /\ SamePages(n, g) /\ g.view = n.view /\ g.page_current = x
    BY <1>4, <1>6, WentTo
  <2> HIDE DEF g
  <2>4. OneMore(t, g, NewPage(f)) /\ g.global_pid = t.global_pid + 1
        /\ g.page_control_counter = t.page_control_counter
    BY <1>4, <1>6, <2>3 DEF SamePages, OneMore, Pages
  <2>5. g.view # x /\ g.view = t.view
    BY <1>1, <1>4, <1>6, <2>3 DEF SameView, Shows
  <2>6. /\ Good(d) /\ Grown(t, d) /\ Pages(d) = Pages(t)
        /\ \A p \in Pages(t) : d.page[p] = t.page[p]
        /\ d.global_pid = t.global_pid + 1
        /\ d.page_control_counter = t.page_control_counter
        /\ d.view = t.view /\ d.page_current = None
    BY <2>3, <2>4, <2>5, NotKept
  <2> HIDE DEF d
  <2>7. Good(b) /\ SamePages(d, b) /\ b.view = d.view /\ b.page_current = t.page_current
    <3>1. CASE t.page_current = None
      BY <2>6, <3>1 DEF Back, SamePages
    <3>2. CASE t.page_current # None
      <4>1. b = s_page_goto(d, t.page_current)
        BY <3>2 DEF Back
      <4> QED BY <2>6, <3>2, <4>1, WentTo
    <3> QED BY <3>1, <3>2
  <2> HIDE DEF b
  <2>8. Grown(t, b)
    BY <2>6, <2>7 DEF SamePages, Grown, SymbolPages, Pages
  <2>9. WithPage(t, b, None)
    BY <1>1, <2>6, <2>7, <2>8 DEF WithPage, SamePages, Pages, IsTop
  <2> QED BY <2>2, <2>9 DEF IsFor, r
<1> QED BY <1>3, <1>5, <1>6

\* The window shows the current page, and there is one.
Alive(t) == t.view = t.page_current /\ t.page_current \in Pages(t)

LEMMA GrownOn ==
  ASSUME NEW t, IsTop(t), NEW u, IsTop(u), NEW w, IsTop(w), Grown(t, u), Grown(u, w)
  PROVE  Grown(t, w)
<1>1. \A p \in SymbolPages(w) : p \in Nat
  BY DEF SymbolPages, IsTop
<1>2. t.global_pid \in Nat /\ u.global_pid \in Nat /\ w.global_pid \in Nat
      /\ t.page_control_counter \in Nat /\ u.page_control_counter \in Nat
      /\ w.page_control_counter \in Nat
  BY DEF IsTop
<1> QED BY <1>1, <1>2 DEF Grown

\* A page may be closed that is not its own parent; the others stay.
LEMMA Closed ==
  ASSUME NEW t, Good(t), Alive(t), NEW p \in Pages(t), t.page[p].up # p
  PROVE  LET u == x_lowlevel_close_page(t, p)
         IN  /\ Good(u) /\ Alive(u)
             /\ \A q \in Pages(t) \ {p} : q \in Pages(u) /\ u.page[q] = t.page[q]
<1> DEFINE parent == s_page_search_by_page_id(t, t.page[p].up)
           L == {q \in Pages(t) : q < p}
           H == {q \in Pages(t) : q > p}
           prev == LastOf(L)
           next == FirstOf(H)
           beside == IF prev # None THEN prev ELSE next
           c == IF parent # None THEN parent ELSE beside
           d == s_page_delete(t, p)
           new == x_lowlevel_new_page(d, Untitled)
           u == x_lowlevel_close_page(t, p)
<1>1. IsTop(t) /\ Pages(t) \subseteq 0 .. t.global_pid - 1 /\ t.global_pid \in Nat /\ p \in Nat
      /\ None \notin Pages(t)
  BY DEF Good, IsTop, None
<1>2. c \in (Pages(t) \ {p}) \cup {None}
  <2>1. parent \in (Pages(t) \ {p}) \cup {None}
    BY DEF s_page_search_by_page_id
  <2>2. prev \in L \cup {None}
    <3>1. L \in SUBSET (0 .. t.global_pid) /\ t.global_pid \in Nat
      BY <1>1
    <3> HIDE DEF L
    <3> QED BY <3>1, LastIs
  <2>3. next \in H \cup {None}
    <3>1. H \in SUBSET Nat
      BY <1>1
    <3> HIDE DEF H
    <3> QED BY <3>1, FirstIs
  <2>4. L \subseteq Pages(t) \ {p} /\ H \subseteq Pages(t) \ {p}
    BY <1>1
  <2> HIDE DEF parent, L, H, prev, next
  <2> QED BY <2>1, <2>2, <2>3, <2>4
<1>3. u = CASE p # t.page_current -> d
            [] p = t.page_current /\ c # None -> x_window_set_current_page(d, c)
            [] OTHER -> x_window_set_current_page(new.top, new.page)
  BY DEF x_lowlevel_close_page
<1> HIDE DEF u, c
<1>4. /\ Good(d) /\ Grown(t, d) /\ Pages(d) = Pages(t) \ {p}
      /\ \A q \in Pages(d) : d.page[q] = t.page[q]
      /\ d.view = IF t.view = p THEN None ELSE t.view
      /\ d.page_current = IF t.page_current = p THEN None ELSE t.page_current
  BY PageRemoved
<1> HIDE DEF d
<1>5. Shows(d)
  BY <1>4 DEF Shows, Alive
<1>6. CASE p # t.page_current
  <2>1. u = d
    BY <1>3, <1>6
  <2> QED BY <1>4, <1>6, <2>1 DEF Alive, u
<1>7. CASE p = t.page_current /\ c # None
  <2>1. u = x_window_set_current_page(d, c)
    BY <1>3, <1>7
  <2>2. c \in Pages(d) /\ d.view = None
    BY <1>2, <1>4, <1>7 DEF Alive
  <2>3. Good(u) /\ SamePages(d, u) /\ u.view = c /\ u.page_current = c
    BY <1>4, <1>7, <2>1, <2>2, Showed
  <2> QED BY <1>4, <2>2, <2>3 DEF Alive, SamePages, Pages, u
<1>8. CASE p = t.page_current /\ c = None
  <2>1. u = x_window_set_current_page(new.top, new.page)
    BY <1>3, <1>8
  <2> DEFINE n == new.top  x == new.page
  <2>2. WithPage(d, n, x) /\ x # None
    BY <1>4, <1>5, NewPageIs
  <2> HIDE DEF n, x
  <2>3. d.view = None /\ d.page_current = None
    BY <1>4, <1>8 DEF Alive
  <2>4. n.view = None /\ Good(n) /\ x \in Pages(n)
    BY <2>2, <2>3 DEF WithPage
  <2>5. Good(u) /\ SamePages(n, u) /\ u.view = x /\ u.page_current = x
    BY <2>1, <2>2, <2>4, Showed DEF n, x
  <2>6. \A q \in Pages(t) \ {p} : q \in Pages(n) /\ n.page[q] = t.page[q]
    BY <1>4, <2>2 DEF WithPage
  <2> QED BY <2>4, <2>5, <2>6 DEF Alive, SamePages, Pages, u
<1> QED BY <1>6, <1>7, <1>8

\* u is o with the links of the page old in page x.
TakesOver(o, d, x, old, u) ==
  u = [o EXCEPT !.page[x] =
        [o.page[x] EXCEPT !.page_control = old.page_control, !.up = old.up,
                          !.came_from = old.came_from,
                          !.relinked = old.relinked \/ x \in Pages(d),
                          !.named = @ \/ old.named]]

\* A page that is read anew keeps its links.
LEMMA Relinked ==
  ASSUME NEW t, Good(t), NEW p \in Pages(t), NEW d, Good(d), Grown(t, d),
         Pages(d) = Pages(t) \ {p}, \A q \in Pages(d) : d.page[q] = t.page[q],
         d.global_pid = t.global_pid, d.page_control_counter = t.page_control_counter,
         NEW o, NEW x, x # None, NEW f \in Files, WithPage(d, o, x), IsFor(d, o, x, f),
         NEW old, old = t.page[p], NEW u, TakesOver(o, d, x, old, u)
  PROVE  Good(u) /\ Pages(u) = Pages(o) /\ SameView(o, u)
<1> DEFINE q == o.page[x]
           k == old.relinked \/ x \in Pages(d)
           m == q.named \/ old.named
           r == [q EXCEPT !.page_control = old.page_control, !.up = old.up,
                          !.came_from = old.came_from, !.relinked = k, !.named = m]
           w == [o EXCEPT !.page[x] = r]
<1>1. Good(o) /\ Grown(d, o) /\ x \in Pages(o) /\ IsTop(o) /\ IsTop(t) /\ IsTop(d)
  BY DEF WithPage, Good
<1>2. IsPage(o, q) /\ IsPage(t, old)
  BY <1>1 DEF Good, PagesOK
<1>3. u = w
  <2>1. r = [o.page[x] EXCEPT !.page_control = old.page_control, !.up = old.up,
                              !.came_from = old.came_from,
                              !.relinked = old.relinked \/ x \in Pages(d),
                              !.named = @ \/ old.named]
    OBVIOUS
  <2> HIDE DEF r
  <2> QED BY <2>1 DEF TakesOver
<1>4. r = [file |-> q.file, is_untitled |-> q.is_untitled, content |-> q.content,
           CHANGED |-> q.CHANGED, up |-> old.up, page_control |-> old.page_control,
           undo |-> q.undo, at |-> q.at, came_from |-> old.came_from,
           relinked |-> k, named |-> m]
  <2>1. r = [q EXCEPT !.page_control = old.page_control, !.up = old.up,
                      !.came_from = old.came_from, !.relinked = k, !.named = m]
    OBVIOUS
  <2> HIDE DEF q, k, m, r
  <2> QED BY <1>2, <2>1 DEF IsPage
<1>5. /\ IsTop(w) /\ PageIs(o, w, x, r) /\ SameView(o, w)
      /\ w.page_control_counter = o.page_control_counter
  <2> HIDE DEF r
  <2> QED BY <1>1, SetPage
<1>6. k \in BOOLEAN /\ m \in BOOLEAN
  BY <1>2 DEF IsPage
<1>7. q.file = f /\ f \notin {Untitled}
  BY FilesAssumption DEF IsFor
<1> HIDE DEF w, r, q
<1>8. Pages(w) = Pages(o) /\ \A y \in Pages(o) : y # x => w.page[y] = o.page[y]
  BY <1>1, <1>5 DEF PageIs, Pages, IsTop
<1>9. w.page[x] = r /\ r.file = q.file
  BY <1>1, <1>4, <1>5 DEF PageIs, Pages
<1>10. Grown(o, w)
  <2>1. \A y \in Pages(o) : w.page[y].file = o.page[y].file
    BY <1>8, <1>9 DEF q
  <2> QED BY <1>1, <1>5, <1>8, <2>1 DEF Grown, SymbolPages, PageIs, IsTop
<1>11. Grown(t, w)
  BY <1>1, <1>5, <1>10, GrownOn
<1>12. IsPage(w, q) /\ IsPage(w, old)
  BY <1>1, <1>2, <1>5, <1>10, <1>11, PageGrows
<1>13. IsPage(w, r)
  <2> HIDE DEF k, m
  <2> QED BY <1>4, <1>6, <1>7, <1>12 DEF IsPage
<1>14. r.relinked \/ (Apart(w, x) /\ (r.came_from = r.up \/ r.came_from \notin Pages(w)))
  <2> SUFFICES ASSUME ~k
               PROVE  Apart(w, x) /\ (r.came_from = r.up \/ r.came_from \notin Pages(w))
    BY <1>4
  <2>1. x \notin Pages(d) /\ x = t.global_pid /\ ~old.relinked
    BY DEF IsFor
  <2>2. Pages(w) = Pages(d) \cup {x} /\ \A y \in Pages(d) : w.page[y] = t.page[y]
    BY <1>8, <2>1 DEF WithPage
  <2>3. /\ \A y \in Pages(t) : t.page[y].up # x /\ t.page[y].came_from # x
        /\ x \in Nat /\ \A y \in Pages(t) : y # x
    <3>1. t.global_pid \in Nat /\ \A y \in Pages(t) : y \in 0 .. t.global_pid - 1
      BY <1>1 DEF IsTop
    <3>2. ASSUME NEW y \in Pages(t)
          PROVE  /\ t.page[y].up \in {NoParent} \cup 0 .. t.global_pid - 1
                 /\ t.page[y].came_from \in {None} \cup 0 .. t.global_pid - 1
      BY DEF Good, PagesOK, IsPage, Ups
    <3> QED BY <2>1, <3>1, <3>2 DEF None, NoParent
  <2>4. r.up = old.up /\ r.came_from = old.came_from
    BY <1>4
  <2>5. r.came_from = r.up \/ r.came_from \notin Pages(w)
    <3>1. old.came_from \in Pages(t) => old.up = old.came_from
      BY <2>1 DEF Good, ComesBack
    <3> QED BY <2>2, <2>3, <2>4, <3>1
  <2>6. \A y \in Pages(w) : w.page[y].up # x
    BY <1>9, <2>2, <2>3, <2>4
  <2>7. \A y \in Pages(w) : Parent(w, y) \in Pages(d) \cup {None}
    BY <1>5, <2>2, <2>6, ParentIs
  <2>8. Pages(d) \in SUBSET Pages(w) /\ ClosedUpwards(w, Pages(d)) /\ x \in Pages(w)
    BY <2>2, <2>7 DEF ClosedUpwards
  <2> QED BY <2>1, <2>5, <2>7, <2>8 DEF Apart
<1>15. Good(w)
  <2>1. w.page_control_counter >= o.page_control_counter
    BY <1>1, <1>5 DEF IsTop
  <2>2. q.named => r.named
    BY <1>4
  <2> QED BY <1>1, <1>5, <1>9, <1>13, <1>14, <2>1, <2>2, PageLinked DEF q
<1> QED BY <1>3, <1>5, <1>8, <1>15

\* The page that takes over the links is good, and a page is shown.
LEMMA Reverted ==
  ASSUME NEW t, Good(t), Alive(t), NEW p \in Pages(t), t.page[p].file \in Files, DiskOK
  PROVE  LET u == x_lowlevel_revert_page(t, p) IN Good(u) /\ Alive(u)
<1> DEFINE old == t.page[p]
           d == s_page_delete(t, p)
           r == x_lowlevel_open_page(d, old.file)
           o == r.top
           x == r.page
           read == o.page[x]
           kept == [o EXCEPT !.page[x] =
                     [read EXCEPT !.page_control = old.page_control, !.up = old.up,
                                  !.came_from = old.came_from,
                                  !.relinked = old.relinked \/ x \in Pages(d),
                                  !.named = @ \/ old.named]]
           first == FirstOf(Pages(d))
           new == x_lowlevel_new_page(o, Untitled)
           u == x_lowlevel_revert_page(t, p)
<1>1. u = CASE x # None /\ t.page_current = p -> x_window_set_current_page(kept, x)
            [] x # None /\ t.page_current # p -> kept
            [] x = None /\ o.page_current # None -> o
            [] x = None /\ o.page_current = None /\ first # None ->
                 x_window_set_current_page(o, first)
            [] OTHER -> x_window_set_current_page(new.top, new.page)
  BY DEF x_lowlevel_revert_page
<1> HIDE DEF u
<1>2. /\ Good(d) /\ Grown(t, d) /\ Pages(d) = Pages(t) \ {p}
      /\ \A q \in Pages(d) : d.page[q] = t.page[q]
      /\ d.global_pid = t.global_pid /\ d.page_control_counter = t.page_control_counter
      /\ d.view = IF t.view = p THEN None ELSE t.view
      /\ d.page_current = IF t.page_current = p THEN None ELSE t.page_current
  BY PageRemoved
<1> HIDE DEF d
<1>3. Shows(d)
  BY <1>2 DEF Shows, Alive
<1>4. WithPage(d, o, x) /\ IsFor(d, o, x, old.file) /\ x \in Pages(d) \cup {None, d.global_pid}
  BY <1>2, <1>3, OpenPageIs
<1> HIDE DEF r
<1>5. x # None => Good(kept) /\ Pages(kept) = Pages(o) /\ SameView(o, kept)
  <2> SUFFICES ASSUME x # None PROVE Good(kept) /\ Pages(kept) = Pages(o) /\ SameView(o, kept)
    OBVIOUS
  <2> DEFINE f == old.file
  <2>1. old = t.page[p] /\ f \in Files /\ IsFor(d, o, x, f)
    BY <1>4
  <2>2. TakesOver(o, d, x, old, kept)
    BY DEF TakesOver
  <2> HIDE DEF old, o, x, f, kept
  <2> QED BY <1>2, <1>4, <2>1, <2>2, Relinked
<1> HIDE DEF old, o, x, kept
<1>6. /\ Good(o) /\ Pages(o) = Pages(d) \cup ({x} \ {None})
      /\ o.view = d.view
      /\ o.page_current = IF d.page_current = None /\ x \notin Pages(d)
                          THEN x ELSE d.page_current
  BY <1>4 DEF WithPage
<1>7. None \notin Pages(d) /\ Pages(d) \in SUBSET Nat
  BY <1>2 DEF Good, IsTop, None
<1>8. CASE x # None /\ t.page_current = p
  <2>1. u = x_window_set_current_page(kept, x) /\ kept.view = None /\ x \in Pages(kept)
    BY <1>1, <1>2, <1>5, <1>6, <1>8 DEF SameView, Alive
  <2> QED BY <1>5, <1>8, <2>1, Showed DEF Alive, SamePages, Pages, u
<1>9. CASE x # None /\ t.page_current # p
  <2>1. u = kept
    BY <1>1, <1>9
  <2>2. o.view = t.view /\ o.page_current = t.page_current /\ t.page_current \in Pages(o)
    BY <1>2, <1>6, <1>7, <1>9 DEF Alive
  <2> QED BY <1>5, <1>9, <2>1, <2>2 DEF Alive, SameView, u
<1>10. CASE x = None /\ o.page_current # None
  <2>1. u = o
    BY <1>1, <1>10
  <2>2. d.page_current # None
    BY <1>6, <1>10
  <2> QED BY <1>2, <1>6, <1>10, <2>1, <2>2 DEF Alive, u
<1>11. CASE x = None /\ o.page_current = None
  <2>1. o.view = None
    BY <1>2, <1>6, <1>7, <1>11 DEF Alive
  <2>2. CASE first # None
    <3>1. u = x_window_set_current_page(o, first)
      BY <1>1, <1>11, <2>2
    <3>2. first \in Pages(o)
      BY <1>6, <1>7, <2>2, FirstIs
    <3> HIDE DEF first
    <3>3. Good(u) /\ SamePages(o, u) /\ u.view = first /\ u.page_current = first
      BY <1>6, <2>1, <2>2, <3>1, Showed
    <3> QED BY <3>2, <3>3 DEF Alive, SamePages, Pages, u
  <2>3. CASE first = None
    <3>1. u = x_window_set_current_page(new.top, new.page)
      BY <1>1, <1>11, <2>3
    <3>2. Shows(o)
      BY <1>11, <2>1 DEF Shows
    <3> DEFINE n == new.top  y == new.page
    <3>3. WithPage(o, n, y) /\ y # None
      BY <1>6, <3>2, NewPageIs
    <3> HIDE DEF n, y
    <3>4. n.view = None /\ Good(n) /\ y \in Pages(n)
      BY <2>1, <3>3 DEF WithPage
    <3>5. Good(u) /\ SamePages(n, u) /\ u.view = y /\ u.page_current = y
      BY <3>1, <3>3, <3>4, Showed DEF n, y
    <3> QED BY <3>4, <3>5 DEF Alive, SamePages, Pages, u
  <2> QED BY <2>2, <2>3
<1> QED BY <1>8, <1>9, <1>10, <1>11

\* A page that is saved keeps its name or is named by the user.
LEMMA SavedIs ==
  ASSUME NEW t, Good(t), NEW p \in Pages(t), NEW f \in Files,
         f \in Symbols <=> t.page[p].file \in Symbols
  PROVE  LET u == Saved(t, p, f)
         IN  /\ Good(u) /\ Pages(u) = Pages(t) /\ SameView(t, u)
             /\ \A q \in Pages(t) : u.page[q].up = t.page[q].up
<1> DEFINE q == t.page[p]
           k == Renamed(q, f)
           g == IF k THEN f ELSE q.file
           m == q.named \/ k
           r == [q EXCEPT !.file = g, !.is_untitled = FALSE, !.CHANGED = FALSE, !.named = m]
           w == [t EXCEPT !.page[p] = r]
<1>1. IsTop(t) /\ IsPage(t, q)
  BY DEF Good, PagesOK
<1>2. Saved(t, p, f) = w
  <2>1. r = [q EXCEPT !.file = IF Renamed(q, f) THEN f ELSE @, !.is_untitled = FALSE,
                      !.CHANGED = FALSE, !.named = @ \/ Renamed(q, f)]
    OBVIOUS
  <2> HIDE DEF r
  <2> QED BY <2>1 DEF Saved
<1>3. r = [file |-> g, is_untitled |-> FALSE, content |-> q.content,
           CHANGED |-> FALSE, up |-> q.up, page_control |-> q.page_control,
           undo |-> q.undo, at |-> q.at, came_from |-> q.came_from,
           relinked |-> q.relinked, named |-> m]
  <2>1. r = [q EXCEPT !.file = g, !.is_untitled = FALSE, !.CHANGED = FALSE, !.named = m]
    OBVIOUS
  <2> HIDE DEF q, g, m, r
  <2> QED BY <1>1, <2>1 DEF IsPage
<1>4. /\ IsTop(w) /\ PageIs(t, w, p, r) /\ SameView(t, w)
      /\ w.page_control_counter = t.page_control_counter
  <2> HIDE DEF r
  <2> QED BY <1>1, SetPage
<1>5. /\ g \in Files /\ (g \in Symbols <=> q.file \in Symbols) /\ m \in BOOLEAN
      /\ ~m => g = q.file /\ ~q.named
  <2>1. ~k => q.file # Untitled
    BY <1>1 DEF Renamed, IsPage
  <2>2. k \in BOOLEAN /\ m \in BOOLEAN
    BY DEF Renamed
  <2> HIDE DEF k
  <2> QED BY <1>1, <2>1, <2>2 DEF IsPage
<1> HIDE DEF r, w, g, m, q
<1>6. /\ Pages(w) = Pages(t) /\ w.page[p] = r
      /\ \A y \in Pages(t) : y # p => w.page[y] = t.page[y]
  BY <1>1, <1>4 DEF PageIs, Pages, IsTop
<1>7. r.file = g /\ r.up = q.up /\ r.came_from = q.came_from /\ r.relinked = q.relinked
      /\ r.named = m
  BY <1>3
<1>8. Grown(t, w)
  <2>1. \A y \in Pages(t) : w.page[y].file \in Symbols => t.page[y].file \in Symbols
    BY <1>5, <1>6, <1>7 DEF q
  <2> QED BY <1>1, <1>4, <1>6, <2>1 DEF Grown, SymbolPages, PageIs, IsTop
<1>9. IsPage(w, q)
  BY <1>1, <1>4, <1>8, PageGrows
<1>10. IsPage(w, r)
  <2> DEFINE d == FALSE
  <2>1. d = (g = Untitled) /\ d \in BOOLEAN
    BY <1>5, FilesAssumption
  <2>2. r = [file |-> g, is_untitled |-> d, content |-> q.content,
             CHANGED |-> FALSE, up |-> q.up, page_control |-> q.page_control,
             undo |-> q.undo, at |-> q.at, came_from |-> q.came_from,
             relinked |-> q.relinked, named |-> m]
    BY <1>3
  <2>3. ~d
    OBVIOUS
  <2> HIDE DEF d
  <2> QED BY <1>5, <1>9, <2>1, <2>2, <2>3 DEF IsPage
<1>11. Fits(w, p)
  <2>1. r.file \in Files /\ ~r.named =>
          \A y \in Pages(w) \ {p} : w.page[y].file # r.file \/ w.page[y].named
    BY <1>5, <1>6, <1>7 DEF Good, OnePage, q
  <2>2. r.came_from \in Pages(w) /\ ~r.relinked => r.up = r.came_from
    BY <1>6, <1>7 DEF Good, ComesBack, q
  <2> QED BY <1>6, <1>10, <2>1, <2>2 DEF Fits
<1>12. OnlyPage(t, w, p) /\ SameLink(t, w, p)
  BY <1>6, <1>7 DEF OnlyPage, SameLink, q
<1>13. Good(w)
  BY <1>4, <1>8, <1>11, <1>12, PageChanged
<1>14. \A y \in Pages(t) : w.page[y].up = t.page[y].up
  BY <1>6, <1>7 DEF q
<1> QED BY <1>2, <1>4, <1>6, <1>13, <1>14

\* What is saved is fit for the file.
LEMMA WrittenIs ==
  ASSUME Good(top), DiskOK, NEW p \in Pages(top), NEW f \in Files,
         f \in Symbols <=> top.page[p].file \in Symbols, disk' = Written(p, f)
  PROVE  DiskOK'
<1> DEFINE c == top.page[p].content
<1>1. c \in Seq(Component) /\ (f \in Symbols => c = <<>>)
  BY DEF Good, PagesOK, IsPage
<1>2. disk' = [disk EXCEPT ![f] = c]
  BY DEF Written
<1> HIDE DEF c
<1> QED BY <1>1, <1>2 DEF DiskOK

-----------------------------------------------------------------------------
(* s_hierarchy.c *)

\* What u has of t: its pages, with the same files.
Has(t, u) ==
  /\ Good(u) /\ Grown(t, u) /\ Pages(t) \subseteq Pages(u) /\ u.view = t.view
  /\ \A q \in Pages(t) : u.page[q].file = t.page[q].file

\* Pages that stay, stay.
LEMMA HasOn ==
  ASSUME NEW t, Good(t), NEW u, NEW w, Has(t, u), Has(u, w)
  PROVE  Has(t, w)
<1>1. IsTop(t) /\ IsTop(u) /\ IsTop(w)
  BY DEF Has, Good
<1>2. Grown(t, w)
  BY <1>1, GrownOn DEF Has
<1> QED BY <1>2 DEF Has

LEMMA HasItself == ASSUME NEW t, Good(t) PROVE Has(t, t)
<1>1. IsTop(t)
  BY DEF Good
<1> QED BY <1>1 DEF Has, Grown, IsTop

\* A page with a name gets a link to a page that is not below it.
LinkedTo(t, u, p, control, parent, c) ==
  u = [t EXCEPT !.page[p] = Link(t.page[p], control, parent), !.page_control_counter = c]

\* Linking a page to a parent that is not below it closes no circle.
LEMMA LinkedIs ==
  ASSUME NEW t, Good(t), NEW p \in Pages(t), ~t.page[p].is_untitled,
         NEW parent \in Pages(t), t.page[parent].file \notin Symbols,
         NEW c \in Nat, t.page_control_counter <= c, NEW control \in 0 .. c,
         NEW T \in SUBSET Pages(t), p \notin T, parent \in T, ClosedUpwards(t, T),
         NEW u, LinkedTo(t, u, p, control, parent, c)
  PROVE  /\ Has(t, u) /\ Pages(u) = Pages(t) /\ SameView(t, u)
         /\ u.page_control_counter = c /\ u.page[p].up = parent
         /\ \A q \in Pages(t) \ {p} : u.page[q] = t.page[q]
<1> DEFINE q == t.page[p]
           r == Link(q, control, parent)
           w == [t EXCEPT !.page[p] = r, !.page_control_counter = c]
<1>1. IsTop(t) /\ IsPage(t, q)
  BY DEF Good, PagesOK
<1>2. u = w
  BY DEF LinkedTo
<1>3. r = [file |-> q.file, is_untitled |-> q.is_untitled, content |-> q.content,
           CHANGED |-> q.CHANGED, up |-> parent, page_control |-> control,
           undo |-> q.undo, at |-> q.at, came_from |-> parent,
           relinked |-> FALSE, named |-> q.named]
  <2>1. r = [q EXCEPT !.page_control = control, !.up = parent, !.came_from = parent,
                      !.relinked = FALSE]
    BY DEF Link
  <2> HIDE DEF q, r
  <2> QED BY <1>1, <2>1 DEF IsPage
<1>4. /\ IsTop(w) /\ PageIs(t, w, p, r) /\ SameView(t, w) /\ w.page_control_counter = c
  <2>1. IsSet(t, w, p, r, c)
    BY DEF IsSet
  <2> HIDE DEF r, w
  <2> QED BY <1>1, <2>1, SetTop
<1> HIDE DEF r, w, q
<1>5. /\ Pages(w) = Pages(t) /\ w.page[p] = r
      /\ \A y \in Pages(t) : y # p => w.page[y] = t.page[y]
  BY <1>1, <1>4 DEF PageIs, Pages, IsTop
<1>6. r.file = q.file /\ r.up = parent /\ r.came_from = parent /\ r.named = q.named
  BY <1>3
<1>7. \A y \in Pages(t) : w.page[y].file = t.page[y].file
  BY <1>5, <1>6 DEF q
<1>8. Grown(t, w)
  BY <1>1, <1>4, <1>5, <1>7 DEF Grown, SymbolPages, PageIs, IsTop
<1>9. IsPage(w, q)
  BY <1>1, <1>4, <1>8, PageGrows
<1>10. parent \in Ups(w) /\ parent \in {None} \cup 0 .. w.global_pid - 1
  <2>1. parent \notin SymbolPages(w)
    BY <1>7 DEF SymbolPages
  <2>2. parent \in 0 .. w.global_pid - 1
    BY <1>4, <1>5 DEF IsTop
  <2> QED BY <2>1, <2>2 DEF Ups
<1>11. IsPage(w, r)
  <2>1. control \in 0 .. w.page_control_counter
    BY <1>4
  <2>2. ~q.is_untitled
    BY DEF q
  <2> QED BY <1>3, <1>9, <1>10, <2>1, <2>2 DEF IsPage
<1>12. Apart(w, p)
  <2>1. Parent(w, p) = parent
    BY <1>4, <1>5, <1>6, ParentIs
  <2>2. \A y \in T : Parent(w, y) = Parent(t, y)
    BY <1>1, <1>4, <1>5, ParentIs
  <2>3. ClosedUpwards(w, T)
    BY <2>2 DEF ClosedUpwards
  <2> QED BY <1>5, <2>1, <2>3 DEF Apart
<1>13. Good(w)
  BY <1>4, <1>6, <1>11, <1>12, PageLinked DEF q
<1> QED BY <1>2, <1>4, <1>5, <1>6, <1>7, <1>8, <1>13 DEF Has, SameView

LEMMA WithSourceIs ==
  ASSUME NEW content \in Seq(Component)
  PROVE  /\ WithSource(content) \in Seq(Component)
         /\ \A i \in DOMAIN WithSource(content) :
              /\ WithSource(content)[i] \in Component /\ WithSource(content)[i].source # <<>>
              /\ content # <<>>
<1> DEFINE S == {c \in ToSet(content) : c.source # <<>>}
           w == Filtered(content, S)
<1>1. w \in Seq(Component) /\ ToSet(w) = ToSet(content) \cap S
  <2> HIDE DEF S
  <2> QED BY FilteredListed
<1>2. \A i \in DOMAIN w : w[i] \in ToSet(w) /\ w[i] \in Component
  <2> HIDE DEF w
  <2> QED BY <1>1, Listed
<1>3. WithSource(content) = w
  BY DEF WithSource
<1> HIDE DEF w
<1>4. \A x \in ToSet(w) : x.source # <<>>
  BY <1>1
<1>5. ToSet(w) \subseteq ToSet(content)
  BY <1>1
<1>6. content = <<>> => DOMAIN w = {}
  BY <1>2, <1>5, EmptyListed
<1> QED BY <1>1, <1>2, <1>3, <1>4, <1>6

LEMMA FirstSource ==
  ASSUME NEW c \in Component, c.source # <<>>
  PROVE  c.source[1] \in Seq(Schematics) /\ SourceOf(c) \in Schematics \cup {NONE}
<1>1. c.source \in Seq(Seq(Schematics))
  BY DEF Component
<1>2. c.source[1] \in Seq(Schematics)
  <2>1. Len(c.source) \in Nat /\ Len(c.source) # 0
    BY <1>1, EmptySeq, LenProperties
  <2>2. 1 \in 1 .. Len(c.source)
    BY <2>1
  <2> HIDE DEF Component
  <2> QED BY <1>1, <2>2, Listed
<1>3. Len(c.source[1]) = 1 => c.source[1][1] \in Schematics
  BY <1>2, LenProperties
<1> QED BY <1>2, <1>3 DEF SourceOf

\* For a parent that is no symbol: the page found gets the link, unless it is
\* above the parent, or a page is made.
LEMMA SingleIs ==
  ASSUME NEW t, Good(t), DiskOK, NEW parent \in Pages(t), t.page[parent].file \notin Symbols,
         NEW f \in Schematics \cup {NONE}
  PROVE  LET r == s_hierarchy_down_schematic_single(t, f, parent)
         IN  Has(t, r.top) /\ r.page \in Pages(r.top) \cup {None}
<1> DEFINE found == s_page_search(t, f)
           x == t.global_pid
           n == s_page_new(t, NewPage(f))
           o == f_open(n, x)
           g == s_page_goto(t, found)
           k == t.page[found].page_control
           m == t.page_control_counter + 1
           Linked(u, p, control) ==
             [u EXCEPT !.page[p] =
               [@ EXCEPT !.page_control = control, !.up = parent, !.came_from = parent,
                         !.relinked = FALSE],
               !.page_control_counter = IF found = None THEN control ELSE @]
           r == s_hierarchy_down_schematic_single(t, f, parent)
           missing == f = NONE \/ ~Exists(f)
           circular == found # None /\ found \in Forebears(t, parent)
<1>0. IsTop(t) /\ parent # None /\ None \notin Pages(t) /\ x \notin Pages(t)
  BY DEF Good, IsTop, None
<1>1. r = CASE missing \/ circular -> Result(t, None)
            [] ~missing /\ ~circular /\ found # None -> Result(Linked(g, found, k), found)
            [] OTHER -> Result(Linked(o, x, m), x)
  BY DEF s_hierarchy_down_schematic_single
<1>2. CASE missing \/ circular
  <2>1. r.top = t /\ r.page = None
    BY <1>1, <1>2 DEF Result
  <2> QED BY <2>1, HasItself
<1>3. CASE ~(missing \/ circular)
  <2>1. f \in Schematics /\ f \in Files /\ f # Untitled /\ f \notin Symbols
    BY <1>3, FilesAssumption DEF Files
  <2>2. /\ found \in Pages(t) \cup {None}
        /\ found # None => t.page[found].file = f /\ ~t.page[found].is_untitled
        /\ found = None => \A q \in Pages(t) : t.page[q].file # f
    BY <2>1, Searched
  <2>3. CASE found # None
    <3> DEFINE T == Chain(t, parent)
               u == Linked(g, found, k)
               c == t.page_control_counter
    <3>1. found \notin T /\ r = Result(u, found)
      BY <1>1, <1>3, <2>3 DEF Forebears
    <3>2. r.top = u /\ r.page = found
      BY <3>1 DEF Result
    <3>3. /\ Good(g) /\ SamePages(t, g) /\ g.view = t.view
      BY WentTo
    <3>4. T \in SUBSET Pages(t) /\ parent \in T /\ ClosedUpwards(t, T)
      BY <1>0, ChainIs
    <3>5. LinkedTo(g, u, found, k, parent, c)
      <4>1. g.page_control_counter = c
        BY <3>3 DEF SamePages
      <4> HIDE DEF g, c, found
      <4> QED BY <2>3, <4>1 DEF LinkedTo, Link
    <3> HIDE DEF g, u, T, found, r, k, n, o
    <3>6. k \in 0 .. c
      BY <2>2, <2>3 DEF Good, PagesOK, IsPage, k
    <3>7. IsTop(g) /\ Pages(g) = Pages(t) /\ g.page = t.page /\ g.page_control_counter = c
          /\ c \in Nat
      BY <1>0, <3>3 DEF Good, SamePages, Pages, IsTop
    <3>8. ClosedUpwards(g, T)
      <4>1. \A y \in T : Parent(g, y) = Parent(t, y)
        BY <1>0, <3>4, <3>7, ParentIs
      <4> QED BY <3>4, <4>1 DEF ClosedUpwards
    <3>9. Has(g, u) /\ Pages(u) = Pages(g)
      <4> HIDE DEF c
      <4>1. g.page_control_counter <= c
        BY <3>7
      <4> QED BY <2>2, <2>3, <3>1, <3>3, <3>4, <3>5, <3>6, <3>7, <3>8, <4>1, LinkedIs
    <3>10. Has(t, g)
      BY <3>3, <3>7, SamePagesGood DEF Has
    <3> QED BY <2>2, <3>2, <3>7, <3>9, <3>10, HasOn DEF r
  <2>4. CASE found = None
    <3> DEFINE u == Linked(o, x, m)
    <3>1. r = Result(u, x)
      BY <1>1, <1>3, <2>4
    <3>2. r.top = u /\ r.page = x
      BY <3>1 DEF Result
    <3>3. /\ Good(o) /\ Grown(t, o) /\ OneMore(t, o, o.page[x]) /\ o.global_pid = x + 1
          /\ o.page_control_counter = t.page_control_counter /\ SameView(t, o)
          /\ o.page[x].file = f
      <4>1. \A p \in Pages(t) : t.page[p].file # f
        BY <2>2, <2>4
      <4> HIDE DEF o, n, found
      <4> QED BY <2>1, <4>1, NewFileIs DEF o, n
    <3>4. LinkedTo(o, u, x, m, parent, m)
      <4> HIDE DEF o, m, x, found
      <4> QED BY <2>4 DEF LinkedTo, Link
    <3> HIDE DEF o, u, found, r, n
    <3>5. /\ IsTop(o) /\ Pages(o) = Pages(t) \cup {x}
          /\ \A p \in Pages(t) : o.page[p] = t.page[p]
      BY <3>3 DEF Good, OneMore
    <3>6. ClosedUpwards(o, Pages(t))
      <4>1. \A y \in Pages(t) : o.page[y].up # x
        <5>1. \A y \in Pages(t) : t.page[y].up \in {NoParent} \cup 0 .. t.global_pid - 1
          BY DEF Good, PagesOK, IsPage, Ups
        <5> QED BY <1>0, <3>5, <5>1 DEF NoParent, IsTop
      <4>2. \A y \in Pages(t) : Parent(o, y) \in Pages(t) \cup {None}
        BY <3>5, <4>1, ParentIs
      <4> QED BY <4>2 DEF ClosedUpwards
    <3>7. m \in Nat /\ o.page_control_counter <= m /\ m \in 0 .. m
      BY <1>0, <3>3 DEF IsTop
    <3>8. ~o.page[x].is_untitled
      BY <2>1, <3>3, <3>5 DEF Good, PagesOK, IsPage
    <3>9. Has(o, u) /\ Pages(u) = Pages(o)
      <4> HIDE DEF m
      <4> DEFINE T == Pages(t)
      <4>1. T \in SUBSET Pages(o) /\ x \notin T /\ parent \in T /\ ClosedUpwards(o, T)
        BY <1>0, <3>5, <3>6
      <4>2. parent \in Pages(o) /\ o.page[parent].file \notin Symbols /\ x \in Pages(o)
        BY <3>5
      <4> HIDE DEF T, x
      <4> QED BY <3>3, <3>4, <3>7, <3>8, <4>1, <4>2, LinkedIs
    <3>10. Has(t, o)
      BY <3>3, <3>5 DEF Has, SameView
    <3>11. Has(t, u)
      BY <3>9, <3>10, HasOn
    <3> QED BY <3>2, <3>5, <3>9, <3>11 DEF r
  <2> QED BY <2>3, <2>4
<1> QED BY <1>2, <1>3

\* What a traversal may have to look at: a component of a page that is no symbol.
ToDo(t) ==
  [component : {c \in Component : c.source # <<>>},
   parent : {q \in Pages(t) : t.page[q].file \notin Symbols}]

\* s is where a traversal that began in t may be.
Traversing(t, s) ==
  /\ s = [top |-> s.top, pages |-> s.pages, todo |-> s.todo]
  /\ Has(t, s.top) /\ s.todo \in Seq(ToDo(s.top))

LEMMA ToDoGrows ==
  ASSUME NEW t, NEW u, Has(t, u), NEW l \in Seq(ToDo(t))
  PROVE  l \in Seq(ToDo(u))
<1>1. ToDo(t) \subseteq ToDo(u)
  BY DEF ToDo, Has
<1> HIDE DEF ToDo
<1> QED BY <1>1, SeqGrows

LEMMA TraverseIs ==
  ASSUME NEW t, Good(t), NEW s, Traversing(t, s), NEW p \in Pages(s.top)
  PROVE  Traversing(t, Traverse(s, p))
<1> DEFINE u == s.top
           content == u.page[p].content
           w == WithSource(content)
           l == [i \in DOMAIN w |-> [component |-> w[i], parent |-> p]]
           pages == Append(s.pages, p)
           todo == l \o s.todo
           r == [s EXCEPT !.pages = pages, !.todo = todo]
<1>1. CASE Visited(p, s.pages)
  BY <1>1 DEF Traverse
<1>2. CASE ~Visited(p, s.pages)
  <2>1. Traverse(s, p) = r
    BY <1>2 DEF Traverse
  <2>2. Good(u) /\ IsPage(u, u.page[p]) /\ content \in Seq(Component)
        /\ (u.page[p].file \in Symbols => content = <<>>)
    BY DEF Traversing, Has, Good, PagesOK, IsPage
  <2>3. /\ w \in Seq(Component)
        /\ \A i \in DOMAIN w : w[i] \in Component /\ w[i].source # <<>> /\ content # <<>>
    <3> HIDE DEF content
    <3> QED BY <2>2, WithSourceIs
  <2>4. l \in Seq(ToDo(u))
    <3> HIDE DEF w
    <3>1. \A i \in DOMAIN w : [component |-> w[i], parent |-> p] \in ToDo(u)
      BY <2>2, <2>3 DEF ToDo
    <3>2. DOMAIN w = 1 .. Len(w) /\ Len(w) \in Nat
      BY <2>3, Listed
    <3>3. l \in [1 .. Len(w) -> ToDo(u)]
      BY <3>1, <3>2
    <3> HIDE DEF l
    <3> QED BY <3>2, <3>3, SeqDef
  <2>5. todo \in Seq(ToDo(u))
    <3> HIDE DEF l, u
    <3> QED BY <2>4, ConcatListed DEF Traversing, u
  <2>6. r = [top |-> u, pages |-> pages, todo |-> todo]
    <3>1. r = [s EXCEPT !.pages = pages, !.todo = todo]
      OBVIOUS
    <3>2. s = [top |-> s.top, pages |-> s.pages, todo |-> s.todo]
      BY DEF Traversing
    <3> HIDE DEF pages, todo, r
    <3> QED BY <3>1, <3>2
  <2> HIDE DEF r, pages, todo, u
  <2> QED BY <2>1, <2>5, <2>6 DEF Traversing, u
<1> QED BY <1>1, <1>2

\* A round of the traversal loses no page and leaves work on pages that exist.
LEMMA DiveIs ==
  ASSUME NEW t, Good(t), DiskOK, NEW s, Traversing(t, s)
  PROVE  Traversing(t, Dive(s))
<1> DEFINE next == Head(s.todo)
           r == s_hierarchy_down_schematic_single(s.top, SourceOf(next.component), next.parent)
           u == r.top
           l == Tail(s.todo)
           rest == [s EXCEPT !.top = u, !.todo = l]
<1>1. Dive(s) = CASE s.todo = <<>> -> s
                  [] s.todo # <<>> /\ r.page = None -> rest
                  [] OTHER -> Traverse(rest, r.page)
  <2>1. rest = [s EXCEPT !.top = r.top, !.todo = Tail(@)]
    OBVIOUS
  <2> HIDE DEF rest
  <2> QED BY <2>1 DEF Dive
<1>2. CASE s.todo = <<>>
  BY <1>1, <1>2
<1>3. CASE s.todo # <<>>
  <2>1. s.todo \in Seq(ToDo(s.top)) /\ Has(t, s.top) /\ Good(s.top)
    BY DEF Traversing, Has
  <2>2. next \in ToDo(s.top) /\ l \in Seq(ToDo(s.top))
    <3> HIDE DEF ToDo
    <3> QED BY <1>3, <2>1, HeadTailProperties
  <2>3. /\ next.component \in Component /\ next.component.source # <<>>
        /\ next.parent \in Pages(s.top) /\ s.top.page[next.parent].file \notin Symbols
    BY <2>2 DEF ToDo
  <2>4. Has(s.top, u) /\ r.page \in Pages(u) \cup {None}
    <3> DEFINE f == SourceOf(next.component)  q == next.parent
    <3>1. f \in Schematics \cup {NONE}
      BY <2>3, FirstSource
    <3>2. r = s_hierarchy_down_schematic_single(s.top, f, q) /\ q \in Pages(s.top)
          /\ s.top.page[q].file \notin Symbols
      BY <2>3
    <3> HIDE DEF f, next, r, q
    <3> QED BY <2>1, <3>1, <3>2, SingleIs
  <2>5. rest = [top |-> u, pages |-> s.pages, todo |-> l]
    <3>1. rest = [s EXCEPT !.top = u, !.todo = l]
      OBVIOUS
    <3>2. s = [top |-> s.top, pages |-> s.pages, todo |-> s.todo]
      BY DEF Traversing
    <3> HIDE DEF u, l, rest
    <3> QED BY <3>1, <3>2
  <2> HIDE DEF r, rest, l
  <2>6. Traversing(t, rest)
    <3>1. Has(t, u)
      BY <2>1, <2>4, HasOn
    <3>2. l \in Seq(ToDo(u))
      BY <2>2, <2>4, ToDoGrows
    <3> HIDE DEF u
    <3> QED BY <2>5, <3>1, <3>2 DEF Traversing
  <2>7. CASE r.page = None
    BY <1>1, <1>3, <2>6, <2>7
  <2>8. CASE r.page # None
    <3>1. r.page \in Pages(rest.top)
      BY <2>4, <2>5, <2>8
    <3> QED BY <1>1, <1>3, <2>6, <2>8, <3>1, TraverseIs
  <2> QED BY <2>7, <2>8
<1> QED BY <1>2, <1>3

\* The traversal loses no page and closes no circle.
LEMMA TraversalIs ==
  ASSUME NEW t, Good(t), DiskOK, NEW p \in Pages(t)
  PROVE  Has(t, s_hierarchy_traversepages(t, p).top)
<1> DEFINE base == Traverse([top |-> t, pages |-> <<>>, todo |-> <<>>], p)
<1>1. Traversing(t, base)
  <2> DEFINE s == [top |-> t, pages |-> <<>>, todo |-> <<>>]
  <2>1. Traversing(t, s)
    <3>1. <<>> \in Seq(ToDo(t))
      OBVIOUS
    <3> QED BY <3>1, HasItself DEF Traversing
  <2>2. s.top = t
    OBVIOUS
  <2> HIDE DEF s
  <2>3. Traversing(t, Traverse(s, p))
    BY <2>1, <2>2, TraverseIs
  <2> QED BY <2>3 DEF s
<1>2. PICK g : /\ IsWalk(g, "dive", 0, base, MaxVisits)
               /\ s_hierarchy_traversepages(t, p) = g[MaxVisits]
  BY DiveWalk
<1> HIDE DEF base
<1> DEFINE G == {n \in 0 .. MaxVisits : Traversing(t, g[n])}
<1>3. MaxVisits \in Nat
  BY BoundsAssumption
<1>4. g[0] = base /\ \A n \in 1 .. MaxVisits : g[n] = Dive(g[n - 1])
  BY <1>2 DEF IsWalk, Step
<1>5. 0 \in G
  BY <1>1, <1>3, <1>4
<1>6. ASSUME NEW n \in 0 .. MaxVisits - 1, n \in G PROVE n + 1 \in G
  <2>1. n + 1 \in 1 .. MaxVisits /\ n + 1 \in 0 .. MaxVisits /\ (n + 1) - 1 = n
    BY <1>3
  <2>2. g[n + 1] = Dive(g[n])
    BY <1>4, <2>1
  <2>3. Traversing(t, g[n + 1])
    BY <1>6, <2>2, DiveIs
  <2> QED BY <2>1, <2>3
<1>7. MaxVisits \in G
  <2> HIDE DEF G
  <2>1. \A n \in 0 .. MaxVisits : n \in G
    BY <1>3, <1>5, <1>6, UpTo
  <2> QED BY <1>3, <2>1
<1> QED BY <1>2, <1>7 DEF Traversing

-----------------------------------------------------------------------------
(* The search for text *)

LEMMA SubpageIs ==
  ASSUME NEW t, Good(t), Alive(t), DiskOK, NEW f \in Schematics, NEW p
  PROVE  LET r == s_hierarchy_load_subpage(t, f, p)
         IN  Has(t, r.top) /\ Alive(r.top) /\ r.page \in Pages(r.top) \cup {None}
<1> DEFINE found == s_page_search(t, f)
           x == t.global_pid
           n == s_page_new(t, NewPage(f))
           o == f_open(n, x)
           m == t.page_control_counter + 1
           d == s_page_delete(o, x)
           w == [o EXCEPT !.page[x].page_control = m, !.page_control_counter = m]
           r == s_hierarchy_load_subpage(t, f, p)
<1>0. IsTop(t) /\ x \notin Pages(t) /\ x # None /\ f \in Files /\ f \notin Symbols
  BY FilesAssumption DEF Good, IsTop, None, Files
<1>1. r = CASE ~Exists(f) -> Result(t, None)
            [] Exists(f) /\ found # None -> Result(t, found)
            [] Exists(f) /\ found = None /\ f \in Unreadable -> Result(d, None)
            [] OTHER -> Result(w, x)
  BY DEF s_hierarchy_load_subpage
<1>2. /\ found \in Pages(t) \cup {None}
      /\ found = None => \A q \in Pages(t) : t.page[q].file # f
  BY <1>0, Searched
<1> HIDE DEF found
<1>3. CASE ~Exists(f)
  <2>1. r.top = t /\ r.page = None
    BY <1>1, <1>3 DEF Result
  <2> QED BY <2>1, HasItself
<1>4. CASE Exists(f) /\ found # None
  <2>1. r.top = t /\ r.page = found
    BY <1>1, <1>4 DEF Result
  <2> QED BY <1>2, <2>1, HasItself
<1>5. ASSUME found = None
      PROVE  /\ Good(o) /\ Grown(t, o) /\ OneMore(t, o, o.page[x]) /\ o.global_pid = x + 1
             /\ o.page_control_counter = t.page_control_counter /\ SameView(t, o)
             /\ o.page[x].file = f
  <2>1. \A q \in Pages(t) : t.page[q].file # f
    BY <1>2, <1>5
  <2> HIDE DEF o, n
  <2> QED BY <1>0, <2>1, NewFileIs DEF o, n
<1> HIDE DEF o
<1>6. CASE Exists(f) /\ found = None /\ f \in Unreadable
  <2>1. r.top = d /\ r.page = None
    BY <1>1, <1>6 DEF Result
  <2> DEFINE q == o.page[x]
  <2>2. OneMore(t, o, q)
    BY <1>5, <1>6
  <2> HIDE DEF q
  <2>3. /\ Good(d) /\ Grown(t, d) /\ Pages(d) = Pages(t)
        /\ \A y \in Pages(t) : d.page[y] = t.page[y]
        /\ o.view # x => d.view = o.view
        /\ d.page_current = IF o.page_current = x THEN None ELSE o.page_current
    BY <1>5, <1>6, <2>2, NotKept
  <2> HIDE DEF d
  <2>4. d.view = t.view /\ d.page_current = t.page_current
    BY <1>0, <1>5, <1>6, <2>3 DEF SameView, Alive
  <2> QED BY <2>1, <2>3, <2>4 DEF Has, Alive, r
<1>7. CASE Exists(f) /\ found = None /\ f \notin Unreadable
  <2> DEFINE q == o.page[x]
             s == [q EXCEPT !.page_control = m]
  <2>1. r.top = w /\ r.page = x
    BY <1>1, <1>7 DEF Result
  <2>2. /\ Good(o) /\ Grown(t, o) /\ OneMore(t, o, o.page[x]) /\ o.global_pid = x + 1
        /\ o.page_control_counter = t.page_control_counter /\ SameView(t, o)
        /\ o.page[x].file = f
    BY <1>5, <1>7
  <2>3. IsTop(o) /\ IsPage(o, q) /\ x \in Pages(o)
    BY <2>2 DEF Good, PagesOK, OneMore
  <2>4. m \in Nat /\ m > o.page_control_counter /\ o.page_control_counter \in Nat
    BY <1>0, <2>2 DEF IsTop
  <2>5. IsSet(o, w, x, s, m)
    <3> HIDE DEF m
    <3>1. o = [page |-> o.page, page_current |-> o.page_current, view |-> o.view,
               global_pid |-> o.global_pid, page_control_counter |-> o.page_control_counter]
      BY <2>3 DEF IsTop
    <3> QED BY <2>4, <3>1 DEF IsSet
  <2>6. s = [file |-> q.file, is_untitled |-> q.is_untitled, content |-> q.content,
             CHANGED |-> q.CHANGED, up |-> q.up, page_control |-> m,
             undo |-> q.undo, at |-> q.at, came_from |-> q.came_from,
             relinked |-> q.relinked, named |-> q.named]
    <3>1. s = [q EXCEPT !.page_control = m]
      OBVIOUS
    <3> HIDE DEF q, s, m
    <3> QED BY <2>3, <3>1 DEF IsPage
  <2> HIDE DEF w, s, m, q, r
  <2>7. IsTop(w) /\ PageIs(o, w, x, s) /\ w.page_control_counter = m /\ SameView(o, w)
    BY <2>3, <2>5, SetTop
  <2>8. /\ Pages(w) = Pages(o) /\ w.page[x] = s
        /\ \A y \in Pages(o) : y # x => w.page[y] = o.page[y]
    BY <2>3, <2>7 DEF PageIs, Pages, IsTop
  <2>9. s.file = q.file /\ s.up = q.up /\ s.came_from = q.came_from
        /\ s.relinked = q.relinked /\ s.named = q.named
    BY <2>6
  <2>10. Grown(o, w)
    <3>1. \A y \in Pages(o) : w.page[y].file = o.page[y].file
      BY <2>8, <2>9 DEF q
    <3> QED BY <2>3, <2>4, <2>7, <2>8, <3>1 DEF Grown, SymbolPages, PageIs, IsTop
  <2>11. IsPage(w, q)
    BY <2>3, <2>7, <2>10, PageGrows
  <2>12. IsPage(w, s)
    <3>1. m \in 0 .. w.page_control_counter
      BY <2>4, <2>7
    <3> QED BY <2>6, <2>11, <3>1 DEF IsPage
  <2>13. Good(w)
    <3>1. w.page_control_counter >= o.page_control_counter
      BY <2>4, <2>7
    <3> QED BY <2>2, <2>3, <2>7, <2>9, <2>12, <3>1, PageSet DEF q
  <2>14. Has(t, w)
    <3>1. Grown(t, w)
      BY <1>0, <2>2, <2>3, <2>7, <2>10, GrownOn
    <3> QED BY <1>0, <2>2, <2>7, <2>8, <2>13, <3>1 DEF Has, OneMore, SameView
  <2>15. w.page_current = t.page_current /\ x \in Pages(w)
    BY <2>2, <2>3, <2>7, <2>8 DEF SameView
  <2> QED BY <2>1, <2>14, <2>15 DEF Alive, Has, r
<1> QED BY <1>3, <1>4, <1>6, <1>7

\* a is what a search of the subpages of a page of t may have found so far.
Collecting(t, a) ==
  /\ a = [top |-> a.top, pages |-> a.pages]
  /\ Has(t, a.top) /\ Alive(a.top) /\ a.pages \in Seq(Pages(a.top))

LEMMA PagesGrow ==
  ASSUME NEW t, NEW u, Has(t, u), NEW l \in Seq(Pages(t))
  PROVE  l \in Seq(Pages(u))
<1>1. Pages(t) \subseteq Pages(u)
  BY DEF Has
<1> QED BY <1>1, SeqGrows

LEMMA LoadedIs ==
  ASSUME NEW t, Good(t), DiskOK, NEW a, Collecting(t, a), NEW f \in Schematics, NEW p
  PROVE  Collecting(t, Loaded(a, f, p))
<1> DEFINE r == s_hierarchy_load_subpage(a.top, f, p)
           u == r.top
           x == r.page
           l == IF x = None THEN a.pages ELSE Append(a.pages, x)
<1>1. Good(a.top) /\ Has(t, a.top) /\ Alive(a.top) /\ a.pages \in Seq(Pages(a.top))
  BY DEF Collecting, Has
<1>2. Has(a.top, u) /\ Alive(u) /\ x \in Pages(u) \cup {None}
  BY <1>1, SubpageIs
<1>3. Loaded(a, f, p) = [top |-> u, pages |-> l]
  BY DEF Loaded
<1> HIDE DEF r, u, x
<1>4. l \in Seq(Pages(u))
  <2>1. a.pages \in Seq(Pages(u))
    BY <1>1, <1>2, PagesGrow
  <2>2. x # None => Append(a.pages, x) \in Seq(Pages(u))
    BY <1>2, <2>1, AppendListed
  <2> QED BY <2>1, <2>2
<1>5. Has(t, u)
  BY <1>1, <1>2, HasOn
<1> HIDE DEF l
<1> QED BY <1>2, <1>3, <1>4, <1>5 DEF Collecting

LEMMA FilesBelowIs ==
  ASSUME NEW t, Good(t), NEW p \in Pages(t)
  PROVE  FilesBelow(t, p) \in Seq(Schematics)
<1> DEFINE content == t.page[p].content
           w == WithSource(content)
           l == [i \in DOMAIN w |-> w[i].source[1]]
<1>1. content \in Seq(Component)
  BY DEF Good, PagesOK, IsPage
<1>2. /\ w \in Seq(Component) /\ \A i \in DOMAIN w : w[i] \in Component /\ w[i].source # <<>>
  <2> HIDE DEF content
  <2> QED BY <1>1, WithSourceIs
<1>3. FilesBelow(t, p) = FlattenSeq(l)
  BY DEF FilesBelow
<1> HIDE DEF w
<1>4. \A i \in DOMAIN w : w[i].source[1] \in Seq(Schematics)
  BY <1>2, FirstSource
<1>5. DOMAIN w = 1 .. Len(w) /\ Len(w) \in Nat
  BY <1>2, Listed
<1>6. l \in [1 .. Len(w) -> Seq(Schematics)]
  BY <1>4, <1>5
<1> HIDE DEF l
<1>7. l \in Seq(Seq(Schematics))
  BY <1>5, <1>6, SeqDef
<1> QED BY <1>3, <1>7, FlattenListed

LEMMA SubpagesAre ==
  ASSUME NEW t, Good(t), Alive(t), DiskOK, NEW p \in Pages(t)
  PROVE  Collecting(t, get_subpages(t, p))
<1> DEFINE f == FilesBelow(t, p)
           N == Len(f)
           c == [files |-> f, page |-> p]
           base == [top |-> t, pages |-> <<>>]
<1>1. f \in Seq(Schematics) /\ N \in Nat /\ \A n \in 1 .. N : f[n] \in Schematics
  <2>1. f \in Seq(Schematics)
    BY FilesBelowIs
  <2> HIDE DEF f
  <2> QED BY <2>1, Listed
<1>2. PICK g : IsWalk(g, "subpage", c, base, N) /\ get_subpages(t, p) = g[N]
  BY <1>1, SubpageWalk
<1>3. Collecting(t, base)
  <2>1. <<>> \in Seq(Pages(t))
    OBVIOUS
  <2> QED BY <2>1, HasItself DEF Collecting
<1>4. c.files = f /\ c.page = p
  OBVIOUS
<1> HIDE DEF base, f, N, c
<1> DEFINE G == {n \in 0 .. N : Collecting(t, g[n])}
<1>5. g[0] = base /\ \A n \in 1 .. N : g[n] = Loaded(g[n - 1], f[n], p)
  BY <1>2, <1>4 DEF IsWalk, Step
<1>6. 0 \in G
  BY <1>1, <1>3, <1>5
<1>7. ASSUME NEW n \in 0 .. N - 1, n \in G PROVE n + 1 \in G
  <2>1. n + 1 \in 1 .. N /\ n + 1 \in 0 .. N /\ (n + 1) - 1 = n
    BY <1>1
  <2>2. g[n + 1] = Loaded(g[n], f[n + 1], p)
    BY <1>5, <2>1
  <2>3. Collecting(t, g[n + 1])
    BY <1>1, <1>7, <2>1, <2>2, LoadedIs
  <2> QED BY <2>1, <2>3
<1>8. N \in G
  <2> HIDE DEF G
  <2>1. \A n \in 0 .. N : n \in G
    BY <1>1, <1>6, <1>7, UpTo
  <2> QED BY <1>1, <2>1
<1> QED BY <1>2, <1>8

\* s is where a search that began in t may be.
Searching(t, s) ==
  /\ s = [top |-> s.top, input |-> s.input, output |-> s.output]
  /\ Has(t, s.top) /\ Alive(s.top) /\ s.input \in Seq(Pages(s.top))

\* A round of the search loses no page.
LEMMA VisitIs ==
  ASSUME NEW t, Good(t), DiskOK, NEW s, Searching(t, s)
  PROVE  Searching(t, Visit(s))
<1> DEFINE p == Head(s.input)
           r == get_subpages(s.top, p)
           l == Tail(s.input)
           rest == [s EXCEPT !.input = l]
           in == l \o r.pages
           out == Append(s.output, p)
           more == [rest EXCEPT !.top = r.top, !.input = in, !.output = out]
<1>1. Visit(s) = CASE s.input = <<>> -> s
                   [] s.input # <<>> /\ p \in ToSet(s.output) -> rest
                   [] OTHER -> [rest EXCEPT !.top = r.top, !.input = @ \o r.pages,
                                            !.output = Append(@, p)]
  <2>1. rest = [s EXCEPT !.input = Tail(@)]
    OBVIOUS
  <2> HIDE DEF rest
  <2> QED BY <2>1 DEF Visit
<1>2. CASE s.input = <<>>
  BY <1>1, <1>2
<1>3. CASE s.input # <<>>
  <2>1. s.input \in Seq(Pages(s.top)) /\ Has(t, s.top) /\ Good(s.top) /\ Alive(s.top)
    BY DEF Searching, Has
  <2>2. p \in Pages(s.top) /\ l \in Seq(Pages(s.top))
    BY <1>3, <2>1, HeadTailProperties
  <2>3. rest = [top |-> s.top, input |-> l, output |-> s.output]
    <3>1. rest = [s EXCEPT !.input = l]
      OBVIOUS
    <3>2. s = [top |-> s.top, input |-> s.input, output |-> s.output]
      BY DEF Searching
    <3> HIDE DEF l, rest
    <3> QED BY <3>1, <3>2
  <2>4. CASE p \in ToSet(s.output)
    <3>1. Visit(s) = rest
      <4> HIDE DEF p, r, rest
      <4> QED BY <1>1, <1>3, <2>4
    <3> HIDE DEF rest, l
    <3> QED BY <2>1, <2>2, <2>3, <3>1 DEF Searching
  <2>5. CASE p \notin ToSet(s.output)
    <3>1. Visit(s) = [rest EXCEPT !.top = r.top, !.input = @ \o r.pages,
                                  !.output = Append(@, p)]
      <4> HIDE DEF p, r, rest
      <4> QED BY <1>1, <1>3, <2>5
    <3>2. Visit(s) = [top |-> r.top, input |-> in, output |-> out]
      <4> HIDE DEF rest, r, l, p
      <4> QED BY <2>3, <3>1
    <3>3. Collecting(s.top, r)
      <4> HIDE DEF p
      <4> QED BY <2>1, <2>2, SubpagesAre
    <3> HIDE DEF r, l, p
    <3>4. Has(s.top, r.top) /\ Alive(r.top) /\ r.pages \in Seq(Pages(r.top))
      BY <3>3 DEF Collecting
    <3>5. Has(t, r.top)
      BY <2>1, <3>4, HasOn
    <3>6. in \in Seq(Pages(r.top))
      <4>1. l \in Seq(Pages(r.top))
        BY <2>2, <3>4, PagesGrow
      <4> QED BY <3>4, <4>1, ConcatListed
    <3> HIDE DEF in, out
    <3> QED BY <3>2, <3>4, <3>5, <3>6 DEF Searching
  <2> QED BY <2>4, <2>5
<1> QED BY <1>2, <1>3

\* The search loses no page, closes no circle and leaves the window as it is.
LEMMA SearchIs ==
  ASSUME NEW t, Good(t), Alive(t), DiskOK, NEW pages \in Seq(Pages(t))
  PROVE  Has(t, get_pages(t, pages).top) /\ Alive(get_pages(t, pages).top)
<1> DEFINE base == [top |-> t, input |-> pages, output |-> <<>>]
<1>1. Searching(t, base)
  BY HasItself DEF Searching
<1>2. PICK g : IsWalk(g, "visit", 0, base, MaxVisits) /\ get_pages(t, pages) = g[MaxVisits]
  BY VisitWalk
<1> HIDE DEF base
<1> DEFINE G == {n \in 0 .. MaxVisits : Searching(t, g[n])}
<1>3. MaxVisits \in Nat
  BY BoundsAssumption
<1>4. g[0] = base /\ \A n \in 1 .. MaxVisits : g[n] = Visit(g[n - 1])
  BY <1>2 DEF IsWalk, Step
<1>5. 0 \in G
  BY <1>1, <1>3, <1>4
<1>6. ASSUME NEW n \in 0 .. MaxVisits - 1, n \in G PROVE n + 1 \in G
  <2>1. n + 1 \in 1 .. MaxVisits /\ n + 1 \in 0 .. MaxVisits /\ (n + 1) - 1 = n
    BY <1>3
  <2>2. g[n + 1] = Visit(g[n])
    BY <1>4, <2>1
  <2>3. Searching(t, g[n + 1])
    BY <1>6, <2>2, VisitIs
  <2> QED BY <2>1, <2>3
<1>7. MaxVisits \in G
  <2> HIDE DEF G
  <2>1. \A n \in 0 .. MaxVisits : n \in G
    BY <1>3, <1>5, <1>6, UpTo
  <2> QED BY <1>3, <2>1
<1> QED BY <1>2, <1>7 DEF Searching

-----------------------------------------------------------------------------
(* x_hierarchy.c *)

LEMMA MaxIs ==
  ASSUME NEW a \in Nat, NEW b \in Nat
  PROVE  Max1({a, b}) \in Nat /\ a <= Max1({a, b}) /\ b <= Max1({a, b})
<1>1. \E x \in {a, b} : \A y \in {a, b} : x >= y
  <2>1. CASE a <= b
    BY <2>1
  <2>2. CASE b <= a
    BY <2>2
  <2> QED BY <2>1, <2>2
<1>2. Max1({a, b}) \in {a, b} /\ \A y \in {a, b} : Max1({a, b}) >= y
  BY <1>1 DEF Max1
<1> HIDE DEF Max1
<1> QED BY <1>2

\* A page with a new pid is nobody's parent, and neither is a symbol.
LEMMA NoSubpages ==
  ASSUME NEW t, Good(t), NEW o, NEW x, x # None, NEW f \in Files,
         WithPage(t, o, x), IsFor(t, o, x, f), x \notin Pages(t) \/ f \in Symbols
  PROVE  ClosedUpwards(o, Pages(o) \ {x})
<1>1. IsTop(t) /\ IsTop(o) /\ PagesOK(t) /\ PagesOK(o)
  BY DEF WithPage, Good
<1>2. ASSUME NEW y \in Pages(o) PROVE o.page[y].up # x
  <2>1. o.page[y].up \in Ups(o)
    BY <1>1 DEF PagesOK, IsPage
  <2>2. CASE f \in Symbols
    <3>1. x \in SymbolPages(o) /\ x \in Nat
      BY <1>1, <2>2 DEF WithPage, IsFor, SymbolPages, IsTop
    <3> QED BY <2>1, <3>1 DEF Ups, NoParent
  <2>3. CASE x \notin Pages(t)
    <3>1. x = t.global_pid /\ x \in Nat /\ o.page[x].up = NoParent
      BY <1>1, <2>3 DEF IsFor, IsTop
    <3>2. CASE y = x
      BY <3>1, <3>2 DEF NoParent
    <3>3. CASE y # x
      <4>1. y \in Pages(t) /\ o.page[y] = t.page[y]
        BY <3>3 DEF WithPage
      <4>2. o.page[y].up \in {NoParent} \cup 0 .. t.global_pid - 1
        BY <1>1, <4>1 DEF PagesOK, IsPage, Ups
      <4> QED BY <1>1, <3>1, <4>2 DEF NoParent, IsTop
    <3> QED BY <3>2, <3>3
  <2> QED BY <2>2, <2>3
<1>3. \A y \in Pages(o) : Parent(o, y) \in (Pages(o) \ {x}) \cup {None}
  BY <1>1, <1>2, ParentIs
<1> QED BY <1>3 DEF ClosedUpwards

\* s is where the loop over the sources of a component of the current page of t
\* may be.
Sourcing(t, s) ==
  /\ s = [top |-> s.top, page_control |-> s.page_control, first_page |-> s.first_page]
  /\ Has(t, s.top) /\ s.top.page_current = t.page_current
  /\ s.page_control \in 0 .. s.top.page_control_counter
  /\ s.first_page \in Pages(s.top) \cup {None}

\* What x_lowlevel_open_page and x_lowlevel_new_page do to a window
LEMMA WithPageHas ==
  ASSUME NEW t, Good(t), Alive(t), NEW o, NEW x, WithPage(t, o, x)
  PROVE  Has(t, o) /\ Alive(o) /\ o.page_current = t.page_current
<1>1. t.page_current # None
  BY DEF Good, Alive, IsTop, None
<1> QED BY <1>1 DEF WithPage, Has, Alive

\* The page found or made for a source gets the link.
LEMMA SourceLinked ==
  ASSUME NEW t, Good(t), Alive(t), t.page[t.page_current].file \notin Symbols,
         NEW o, NEW x, x # None, NEW f \in Files, WithPage(t, o, x), IsFor(t, o, x, f),
         NEW control \in Nat,
         NEW T \in SUBSET Pages(o), x \notin T, t.page_current \in T, ClosedUpwards(o, T)
  PROVE  LET c == Max1({o.page_control_counter, control})
             u == [o EXCEPT !.page[x] = Link(o.page[x], control, t.page_current),
                            !.page_control_counter = c]
         IN  /\ Has(t, u) /\ Alive(u) /\ u.page_current = t.page_current /\ x \in Pages(u)
             /\ control \in 0 .. u.page_control_counter
<1> DEFINE c == Max1({o.page_control_counter, control})
           p == t.page_current
           u == [o EXCEPT !.page[x] = Link(o.page[x], control, p), !.page_control_counter = c]
<1>1. Has(t, o) /\ Alive(o) /\ o.page_current = p
  BY WithPageHas
<1>2. Good(o) /\ IsTop(o) /\ x \in Pages(o) /\ o.page_control_counter \in Nat
  BY DEF WithPage, Good, IsTop
<1>3. c \in Nat /\ o.page_control_counter <= c /\ control \in 0 .. c
  <2>1. o.page_control_counter <= c /\ control <= c /\ c \in Nat
    BY <1>2, MaxIs
  <2> HIDE DEF c
  <2> QED BY <2>1
<1>4. ~o.page[x].is_untitled
  <2>1. o.page[x].file = f /\ f # Untitled
    BY FilesAssumption DEF IsFor
  <2> QED BY <1>2, <2>1 DEF Good, PagesOK, IsPage
<1>5. p \in Pages(o) /\ o.page[p].file \notin Symbols
  BY <1>1 DEF Has, Alive
<1>6. LinkedTo(o, u, x, control, p, c)
  BY DEF LinkedTo
<1> HIDE DEF c, u, p
<1>7. Has(o, u) /\ Pages(u) = Pages(o) /\ SameView(o, u) /\ u.page_control_counter = c
  <2>1. p \in T
    BY DEF p
  <2> QED BY <1>2, <1>3, <1>4, <1>5, <1>6, <2>1, LinkedIs
<1>8. Has(t, u)
  BY <1>1, <1>7, HasOn
<1> QED BY <1>1, <1>2, <1>3, <1>7, <1>8 DEF Alive, SameView, u, c, p

\* What a step of the way down into the sources has made.
LEMMA SourcingIs ==
  ASSUME NEW t, NEW u, Has(t, u), u.page_current = t.page_current,
         NEW k, k \in 0 .. u.page_control_counter, NEW x, x \in Pages(u) \cup {None},
         NEW l, l = [top |-> u, page_control |-> k, first_page |-> x]
  PROVE  Sourcing(t, l)
<1>1. l.top = u /\ l.page_control = k /\ l.first_page = x
  OBVIOUS
<1>2. l = [top |-> l.top, page_control |-> l.page_control, first_page |-> l.first_page]
  BY <1>1
<1> QED BY <1>1, <1>2 DEF Sourcing

\* A round of the loop over the sources of a component loses no page; what it
\* links is not among the parents of the current page.
LEMMA LoadSourceIs ==
  ASSUME NEW t, Good(t), Alive(t), t.page[t.page_current].file \notin Symbols, DiskOK,
         NEW s, Sourcing(t, s), NEW f \in Schematics, NEW create
  PROVE  Sourcing(t, load_source(s, f, create))
<1> DEFINE p == s.top.page_current
           opened == x_lowlevel_open_page(s.top, f)
           made == x_lowlevel_new_page(s.top, f)
           control == IF s.page_control = 0 THEN s.top.page_control_counter + 1
                      ELSE s.page_control
           First(q) == IF s.first_page = None THEN q ELSE s.first_page
           Top(r) == [r.top EXCEPT !.page[r.page] = Link(@, control, p),
                                   !.page_control_counter = Max1({@, control})]
           With(r) == [top |-> Top(r), page_control |-> control, first_page |-> First(r.page)]
           again == {None} \cup Forebears(opened.top, p)
           l == load_source(s, f, create)
<1>1. l = CASE Exists(f) /\ opened.page \in again -> [s EXCEPT !.top = opened.top]
            [] Exists(f) /\ opened.page \notin again -> With(opened)
            [] ~Exists(f) /\ Created(s.top, f) # {} ->
                 [s EXCEPT !.first_page = First(Min1(Created(s.top, f)))]
            [] ~Exists(f) /\ Created(s.top, f) = {} /\ create -> With(made)
            [] OTHER -> s
  BY DEF load_source
<1>2. /\ Good(s.top) /\ IsTop(s.top) /\ Has(t, s.top) /\ p = t.page_current
      /\ p \in Pages(s.top) /\ s.top.page[p].file \notin Symbols
      /\ s.page_control \in 0 .. s.top.page_control_counter
      /\ s.first_page \in Pages(s.top) \cup {None}
      /\ s = [top |-> s.top, page_control |-> s.page_control, first_page |-> s.first_page]
  BY DEF Sourcing, Has, Good, Alive
<1>3. Alive(s.top) /\ Shows(s.top)
  BY <1>2 DEF Alive, Has, Shows
<1>4. f \in Files /\ f # Untitled
  BY FilesAssumption DEF Files
<1>5. control \in Nat
  BY <1>2 DEF IsTop
<1> HIDE DEF control
<1>6. ASSUME NEW r, r.page # None, WithPage(s.top, r.top, r.page),
             IsFor(s.top, r.top, r.page, f),
             NEW T \in SUBSET Pages(r.top), r.page \notin T, p \in T, ClosedUpwards(r.top, T),
             l = With(r)
      PROVE  Sourcing(t, l)
  <2> DEFINE o == r.top
             x == r.page
             c == Max1({o.page_control_counter, control})
             u == [o EXCEPT !.page[x] = Link(o.page[x], control, p), !.page_control_counter = c]
             q == First(x)
  <2>1. l = [top |-> u, page_control |-> control, first_page |-> q]
    BY <1>6
  <2>2. /\ Has(s.top, u) /\ Alive(u) /\ u.page_current = p /\ x \in Pages(u)
        /\ control \in 0 .. u.page_control_counter
    <3> HIDE DEF o, x
    <3> QED BY <1>2, <1>3, <1>4, <1>5, <1>6, SourceLinked DEF o, x
  <2>3. q \in Pages(u) \cup {None}
    <3> HIDE DEF u, x
    <3> QED BY <1>2, <2>2 DEF Has
  <2>4. Has(t, u)
    <3> HIDE DEF u
    <3> QED BY <1>2, <2>2, HasOn
  <2>5. u.page_current = t.page_current
    BY <1>2, <2>2
  <2> HIDE DEF u, q, l
  <2> QED BY <2>1, <2>2, <2>3, <2>4, <2>5, SourcingIs
<1>7. CASE Exists(f)
  <2>1. WithPage(s.top, opened.top, opened.page) /\ IsFor(s.top, opened.top, opened.page, f)
    BY <1>2, <1>3, <1>4, OpenPageIs
  <2>2. Has(s.top, opened.top) /\ Alive(opened.top) /\ opened.top.page_current = p
    <3> HIDE DEF opened
    <3> QED BY <1>2, <1>3, <2>1, WithPageHas
  <2>3. CASE opened.page \in again
    <3>1. l = [s EXCEPT !.top = opened.top]
      BY <1>1, <1>7, <2>3
    <3> DEFINE o == opened.top
    <3>2. l = [top |-> o, page_control |-> s.page_control, first_page |-> s.first_page]
      <4>1. l = [s EXCEPT !.top = o]
        BY <3>1
      <4> HIDE DEF l, o
      <4> QED BY <1>2, <4>1
    <3>3. Has(t, o)
      <4> HIDE DEF opened
      <4> QED BY <1>2, <2>2, HasOn
    <3>4. s.page_control \in 0 .. o.page_control_counter /\ Pages(s.top) \subseteq Pages(o)
      <4> HIDE DEF opened
      <4> QED BY <1>2, <2>1 DEF WithPage
    <3>5. o.page_current = t.page_current
      BY <1>2, <2>2
    <3>6. s.first_page \in Pages(o) \cup {None}
      BY <1>2, <3>4
    <3> HIDE DEF l, o
    <3> QED BY <3>2, <3>3, <3>4, <3>5, <3>6, SourcingIs DEF l
  <2>4. CASE opened.page \notin again
    <3> DEFINE T == Forebears(opened.top, p)
    <3>1. l = With(opened)
      BY <1>1, <1>7, <2>4
    <3> HIDE DEF opened, l
    <3>2. Good(opened.top) /\ IsTop(opened.top) /\ p \in Pages(opened.top)
      BY <2>2 DEF Has, Good, Alive
    <3>3. T \in SUBSET Pages(opened.top) /\ p \in T /\ ClosedUpwards(opened.top, T)
      BY <3>2, ChainIs DEF Forebears
    <3>4. opened.page # None /\ opened.page \notin T
      BY <2>4
    <3> HIDE DEF T
    <3> QED BY <1>6, <2>1, <3>1, <3>3, <3>4 DEF l
  <2> QED BY <2>3, <2>4
<1>8. CASE ~Exists(f) /\ Created(s.top, f) # {}
  <2> DEFINE x == First(Min1(Created(s.top, f)))
  <2>1. l = [s EXCEPT !.first_page = x]
    BY <1>1, <1>8
  <2>2. x \in Pages(s.top) \cup {None}
    <3> DEFINE C == Created(s.top, f)
    <3>1. C \subseteq Pages(s.top)
      BY DEF Created
    <3>2. C \in SUBSET Nat
      BY <1>2, <3>1 DEF IsTop
    <3> HIDE DEF C
    <3>3. Min1(C) \in C
      BY <1>8, <3>2, LeastIs DEF Min1, C
    <3> QED BY <1>2, <3>1, <3>3 DEF C
  <2> HIDE DEF x
  <2>3. l = [top |-> s.top, page_control |-> s.page_control, first_page |-> x]
    <3> HIDE DEF l
    <3> QED BY <1>2, <2>1
  <2>4. s.top.page_current = t.page_current
    BY <1>2
  <2> HIDE DEF l
  <2> QED BY <1>2, <2>2, <2>3, <2>4, SourcingIs DEF l
<1>9. CASE ~Exists(f) /\ Created(s.top, f) = {} /\ create
  <2>1. WithPage(s.top, made.top, made.page) /\ IsFor(s.top, made.top, made.page, f)
        /\ made.page \in {None, s.top.global_pid} /\ made.page # None
    BY <1>2, <1>3, <1>4, <1>9, NewPageIs
  <2> DEFINE T == Pages(made.top) \ {made.page}
  <2>2. l = With(made)
    BY <1>1, <1>9
  <2> HIDE DEF made, l
  <2>3. made.page \notin Pages(s.top)
    BY <1>2, <2>1 DEF IsTop
  <2>4. ClosedUpwards(made.top, T)
    BY <1>2, <1>4, <2>1, <2>3, NoSubpages
  <2>5. T \in SUBSET Pages(made.top) /\ p \in T /\ made.page \notin T
    BY <1>2, <2>1, <2>3 DEF WithPage
  <2> HIDE DEF T
  <2> QED BY <1>6, <2>1, <2>2, <2>4, <2>5 DEF l
<1>10. CASE ~Exists(f) /\ Created(s.top, f) = {} /\ ~create
  <2>1. l = s
    BY <1>1, <1>10
  <2> HIDE DEF l
  <2> QED BY <2>1 DEF l
<1> QED BY <1>7, <1>8, <1>9, <1>10

\* Going down into a schematic keeps what is good.
LEMMA DownSchematicIs ==
  ASSUME NEW t, Good(t), Alive(t), t.page[t.page_current].file \notin Symbols, DiskOK,
         NEW c \in Component, NEW create
  PROVE  Good(x_hierarchy_down_schematic(t, c, create))
         /\ Alive(x_hierarchy_down_schematic(t, c, create))
<1> DEFINE f == FlattenSeq(c.source)
           N == Len(f)
           p == [files |-> f, create |-> create]
           base == Above(t)
<1>1. f \in Seq(Schematics) /\ N \in Nat /\ \A n \in 1 .. N : f[n] \in Schematics
  <2>1. c.source \in Seq(Seq(Schematics))
    BY DEF Component
  <2>2. f \in Seq(Schematics)
    BY <2>1, FlattenListed
  <2> HIDE DEF f
  <2> QED BY <2>2, Listed
<1>2. PICK g : /\ IsWalk(g, "source", p, base, N)
               /\ x_hierarchy_down_schematic(t, c, create) =
                    IF g[N].first_page = None THEN g[N].top
                    ELSE x_window_set_current_page(g[N].top, g[N].first_page)
  BY <1>1, SourceWalk
<1>3. Sourcing(t, base)
  <2>1. t.page_control_counter \in Nat
    BY DEF Good, IsTop
  <2> QED BY <2>1, HasItself DEF Sourcing, Above
<1>4. p.files = f /\ p.create = create
  OBVIOUS
<1> HIDE DEF base, f, N, p
<1> DEFINE G == {n \in 0 .. N : Sourcing(t, g[n])}
<1>5. g[0] = base /\ \A n \in 1 .. N : g[n] = load_source(g[n - 1], f[n], create)
  BY <1>2, <1>4 DEF IsWalk, Step
<1>6. 0 \in G
  BY <1>1, <1>3, <1>5
<1>7. ASSUME NEW n \in 0 .. N - 1, n \in G PROVE n + 1 \in G
  <2>1. n + 1 \in 1 .. N /\ n + 1 \in 0 .. N /\ (n + 1) - 1 = n
    BY <1>1
  <2>2. g[n + 1] = load_source(g[n], f[n + 1], create)
    BY <1>5, <2>1
  <2>3. Sourcing(t, g[n + 1])
    BY <1>1, <1>7, <2>1, <2>2, LoadSourceIs
  <2> QED BY <2>1, <2>3
<1>8. N \in G
  <2> HIDE DEF G
  <2>1. \A n \in 0 .. N : n \in G
    BY <1>1, <1>6, <1>7, UpTo
  <2> QED BY <1>1, <2>1
<1> DEFINE u == g[N].top  x == g[N].first_page
           w == x_window_set_current_page(u, x)
<1>9. Has(t, u) /\ u.page_current = t.page_current /\ x \in Pages(u) \cup {None}
  BY <1>8 DEF Sourcing
<1> HIDE DEF u, x
<1>10. Good(u) /\ Alive(u)
  BY <1>9 DEF Has, Alive
<1>11. Good(w) /\ SamePages(u, w) /\ (x # None => w.view = x /\ w.page_current = x)
  BY <1>10, Showed DEF Alive
<1>12. x # None => Alive(w)
  BY <1>9, <1>11 DEF Alive, SamePages, Pages
<1> HIDE DEF w
<1> QED BY <1>2, <1>10, <1>11, <1>12 DEF u, x, w

\* So does going down into a symbol.
LEMMA DownSymbolIs ==
  ASSUME NEW t, Good(t), Alive(t), t.page[t.page_current].file \notin Symbols, DiskOK,
         NEW c \in Component
  PROVE  Good(x_hierarchy_down_symbol(t, c)) /\ Alive(x_hierarchy_down_symbol(t, c))
<1> DEFINE f == c.symbol
           r == x_lowlevel_open_page(t, f)
           o == r.top
           x == r.page
           m == t.page_control_counter + 1
           p == t.page_current
           u == [o EXCEPT !.page[x] = Link(@, m, p), !.page_control_counter = m]
           w == x_window_set_current_page(u, x)
<1>1. x_hierarchy_down_symbol(t, c) = CASE ~Exists(f) -> t
                                        [] Exists(f) /\ x = None -> o
                                        [] Exists(f) /\ x # None -> w
  BY DEF x_hierarchy_down_symbol
<1>2. f \in Symbols /\ f \in Files /\ f # Untitled
  BY FilesAssumption DEF Component, Files
<1>3. p \in Pages(t) /\ Shows(t) /\ IsTop(t)
  BY DEF Alive, Shows, Good
<1>4. WithPage(t, o, x) /\ IsFor(t, o, x, f)
  BY <1>2, <1>3, OpenPageIs
<1> HIDE DEF o, x, f, r
<1>5. Has(t, o) /\ Alive(o) /\ o.page_current = p
  BY <1>4, WithPageHas
<1>6. CASE ~Exists(f) \/ x = None
  <2>1. CASE ~Exists(f)
    <3>1. x_hierarchy_down_symbol(t, c) = t
      BY <1>1, <2>1
    <3> QED BY <3>1
  <2>2. CASE Exists(f) /\ x = None
    <3>1. x_hierarchy_down_symbol(t, c) = o
      BY <1>1, <2>2
    <3> QED BY <1>5, <3>1 DEF Has
  <2> QED BY <1>6, <2>1, <2>2
<1>7. CASE Exists(f) /\ x # None
  <2>1. Good(o) /\ x \in Pages(o) /\ o.page[x].file = f /\ o.page_control_counter = m - 1
        /\ m \in Nat
    BY <1>3, <1>4, <1>7 DEF WithPage, IsFor, IsTop
  <2>2. ~o.page[x].is_untitled
    BY <1>2, <2>1 DEF Good, PagesOK, IsPage
  <2>3. p \in Pages(o) /\ o.page[p].file \notin Symbols
    BY <1>5 DEF Has, Alive
  <2> DEFINE T == Pages(o) \ {x}
  <2>4. ClosedUpwards(o, T)
    BY <1>2, <1>4, <1>7, NoSubpages
  <2>5. T \in SUBSET Pages(o) /\ p \in T /\ x \notin T
    BY <1>2, <2>1, <2>3
  <2>6. LinkedTo(o, u, x, m, p, m)
    <3> HIDE DEF m, p
    <3> QED BY DEF LinkedTo
  <2>7. o.page_control_counter <= m /\ m \in 0 .. m
    BY <2>1
  <2> HIDE DEF u, T, m, p
  <2>8. Has(o, u) /\ Pages(u) = Pages(o) /\ SameView(o, u)
    BY <2>1, <2>2, <2>3, <2>4, <2>5, <2>6, <2>7, LinkedIs
  <2>9. Good(w) /\ SamePages(u, w) /\ w.view = x /\ w.page_current = x
    <3>1. Good(u) /\ u.view \in {None, u.page_current}
      BY <1>5, <2>8 DEF Has, Alive, SameView
    <3> QED BY <1>7, <3>1, Showed
  <2>10. Alive(w)
    BY <2>1, <2>8, <2>9 DEF Alive, SamePages, Pages
  <2> HIDE DEF w
  <2> QED BY <1>1, <1>7, <2>9, <2>10 DEF w
<1> QED BY <1>6, <1>7

-----------------------------------------------------------------------------
(* The actions *)

Inv == Good(top) /\ Alive(top) /\ DiskOK

\* The files are as they were.
LEMMA SameDisk == ASSUME DiskOK, UNCHANGED disk PROVE DiskOK'
BY DEF DiskOK

LEMMA Keeps == ASSUME NEW u, Good(u), Alive(u), top' = u, DiskOK' PROVE Inv'
BY DEF Inv

\* The window shows a page.
LEMMA ShownAlive ==
  ASSUME NEW t, Good(t), Alive(t), NEW p \in Pages(t)
  PROVE  LET u == x_window_set_current_page(t, p)
         IN  Good(u) /\ Alive(u) /\ u.page = t.page
<1> DEFINE u == x_window_set_current_page(t, p)
<1>1. p # None /\ t.view \in {None, t.page_current}
  BY DEF Good, IsTop, Alive, None
<1>2. Good(u) /\ SamePages(t, u) /\ u.view = p /\ u.page_current = p
  BY <1>1, Showed
<1> HIDE DEF u
<1>3. Alive(u) /\ u.page = t.page
  BY <1>2 DEF Alive, SamePages, Pages
<1> QED BY <1>2, <1>3 DEF u

LEMMA NewUntitledKeeps == ASSUME Inv, NewUntitled PROVE Inv'
<1> DEFINE r == x_lowlevel_new_page(top, Untitled)
           o == r.top
           x == r.page
           w == x_window_set_current_page(o, x)
<1>1. top' = w /\ UNCHANGED disk
  BY DEF NewUntitled
<1>2. Good(top) /\ Alive(top) /\ Shows(top) /\ DiskOK
  BY DEF Inv, Alive, Shows
<1>3. WithPage(top, o, x) /\ x # None
  BY <1>2, NewPageIs
<1> HIDE DEF o, x
<1>4. Good(o) /\ Alive(o) /\ x \in Pages(o)
  BY <1>2, <1>3, WithPageHas DEF WithPage
<1>5. Good(w) /\ Alive(w)
  BY <1>4, ShownAlive
<1>6. DiskOK'
  BY <1>1, <1>2, SameDisk
<1> HIDE DEF w
<1> QED BY <1>1, <1>5, <1>6, Keeps

\* The only page is untitled, so nobody went down to it.
LEMMA OpenKeeps == ASSUME Inv, NEW f \in Files, NEW create, Open(f, create) PROVE Inv'
<1> DEFINE found == s_page_search(top, f)
           missing == IF create THEN x_lowlevel_new_page(top, f) ELSE Result(top, None)
           r == IF found # None \/ Exists(f) THEN x_lowlevel_open_page(top, f) ELSE missing
           o == r.top
           x == r.page
           sole == FirstOf(Pages(top))
           fresh == /\ Pages(top) = {sole} /\ x # sole
                    /\ top.page[sole].is_untitled /\ ~top.page[sole].CHANGED
           closed == x_lowlevel_close_page(o, sole)
           alone == IF fresh THEN closed ELSE o
           w == x_window_set_current_page(alone, x)
<1>1. top' = (IF x = None THEN o ELSE w) /\ UNCHANGED disk
  BY DEF Open
<1>2. Good(top) /\ Alive(top) /\ Shows(top) /\ DiskOK
  BY DEF Inv, Alive, Shows
<1>3. WithPage(top, o, x)
  <2>1. CASE found # None \/ Exists(f)
    <3>1. r = x_lowlevel_open_page(top, f)
      BY <2>1
    <3> HIDE DEF r
    <3> QED BY <1>2, <3>1, OpenPageIs
  <2>2. CASE ~(found # None \/ Exists(f)) /\ create
    <3>1. r = x_lowlevel_new_page(top, f)
      BY <2>2
    <3> HIDE DEF r
    <3> QED BY <1>2, <3>1, NewPageIs
  <2>3. CASE ~(found # None \/ Exists(f)) /\ ~create
    <3>1. o = top /\ x = None
      BY <2>3 DEF Result
    <3> HIDE DEF o, x
    <3> QED BY <1>2, <3>1, SameIsWith
  <2> QED BY <2>1, <2>2, <2>3
<1>4. DiskOK'
  BY <1>1, <1>2, SameDisk
<1> HIDE DEF o, x, sole
<1>5. Good(o) /\ Alive(o)
  BY <1>2, <1>3, WithPageHas DEF Has
<1>6. CASE x = None
  <2>1. top' = o
    BY <1>1, <1>6
  <2> QED BY <1>4, <1>5, <2>1, Keeps
<1>7. CASE x # None
  <2>1. x \in Pages(o)
    BY <1>3, <1>7 DEF WithPage
  <2>2. Good(alone) /\ Alive(alone) /\ x \in Pages(alone)
    <3>1. CASE ~fresh
      <4>1. alone = o
        BY <3>1
      <4> HIDE DEF alone
      <4> QED BY <1>5, <2>1, <4>1
    <3>2. CASE fresh
      <4>1. alone = closed
        BY <3>2
      <4>2. sole \in Pages(top) /\ x # sole /\ top.page[sole].is_untitled
        BY <3>2
      <4>3. top.page[sole].up = NoParent /\ sole \in Nat
        <5>1. IsTop(top) /\ IsPage(top, top.page[sole])
          BY <1>2, <4>2 DEF Good, PagesOK
        <5>2. sole \in Nat
          BY <4>2, <5>1 DEF IsTop
        <5> QED BY <4>2, <5>1, <5>2 DEF IsPage
      <4>4. sole \in Pages(o) /\ o.page[sole] = top.page[sole]
        BY <1>3, <4>2 DEF WithPage
      <4>5. o.page[sole].up # sole
        BY <4>3, <4>4 DEF NoParent
      <4>6. Good(closed) /\ Alive(closed) /\ \A q \in Pages(o) \ {sole} : q \in Pages(closed)
        BY <1>5, <4>4, <4>5, Closed
      <4> HIDE DEF alone, closed
      <4> QED BY <2>1, <4>1, <4>2, <4>6
    <3> QED BY <3>1, <3>2
  <2> HIDE DEF alone
  <2>3. Good(w) /\ Alive(w)
    BY <2>2, ShownAlive
  <2>4. top' = w
    BY <1>1, <1>7
  <2> HIDE DEF w
  <2> QED BY <1>4, <2>3, <2>4, Keeps
<1> QED BY <1>6, <1>7

\* A component is on a schematic, and in the component library.
LEMMA ComponentIs ==
  ASSUME Inv, NEW i \in DOMAIN current.content
  PROVE  current.content[i] \in Component /\ top.page[top.page_current].file \notin Symbols
<1> DEFINE q == top.page[top.page_current]
<1>1. IsPage(top, q)
  BY DEF Inv, Good, PagesOK, Alive
<1>2. q.content \in Seq(Component) /\ (q.file \in Symbols => q.content = <<>>)
  BY <1>1 DEF IsPage
<1>3. i \in DOMAIN q.content /\ current.content[i] = q.content[i]
  BY DEF current
<1> HIDE DEF q
<1>4. q.content[i] \in Component
  BY <1>2, <1>3, Listed
<1>5. q.content # <<>>
  BY <1>3
<1> QED BY <1>2, <1>3, <1>4, <1>5 DEF q

LEMMA DownSchematicKeeps ==
  ASSUME Inv, NEW i \in DOMAIN current.content, NEW create, HierarchyDownSchematic(i, create)
  PROVE  Inv'
<1> DEFINE c == current.content[i]
           u == x_hierarchy_down_schematic(top, c, create)
<1>1. top' = u /\ UNCHANGED disk
  BY DEF HierarchyDownSchematic
<1>2. c \in Component /\ top.page[top.page_current].file \notin Symbols
  BY ComponentIs
<1>3. Good(top) /\ Alive(top) /\ DiskOK
  BY DEF Inv
<1> HIDE DEF c
<1>4. Good(u) /\ Alive(u)
  BY <1>2, <1>3, DownSchematicIs
<1>5. DiskOK'
  BY <1>1, <1>3, SameDisk
<1> HIDE DEF u
<1> QED BY <1>1, <1>4, <1>5, Keeps

LEMMA DownSymbolKeeps ==
  ASSUME Inv, NEW i \in DOMAIN current.content, HierarchyDownSymbol(i)
  PROVE  Inv'
<1> DEFINE c == current.content[i]
           u == x_hierarchy_down_symbol(top, c)
<1>1. top' = u /\ UNCHANGED disk
  BY DEF HierarchyDownSymbol
<1>2. c \in Component /\ top.page[top.page_current].file \notin Symbols
  BY ComponentIs
<1>3. Good(top) /\ Alive(top) /\ DiskOK
  BY DEF Inv
<1> HIDE DEF c
<1>4. Good(u) /\ Alive(u)
  BY <1>2, <1>3, DownSymbolIs
<1>5. DiskOK'
  BY <1>1, <1>3, SameDisk
<1> HIDE DEF u
<1> QED BY <1>1, <1>4, <1>5, Keeps

\* A page that can be closed is not its own parent.
LEMMA ClosableIs ==
  ASSUME NEW p \in Pages(top), Closable(p)
  PROVE  top.page[p].up # p
BY DEF Closable, s_page_search_by_page_id

\* The file of a page that has a name
LEMMA HasFile ==
  ASSUME NEW t, Good(t), NEW p \in Pages(t), ~t.page[p].is_untitled
  PROVE  t.page[p].file \in Files
<1>1. IsPage(t, t.page[p])
  BY DEF Good, PagesOK
<1> QED BY <1>1 DEF IsPage

LEMMA UpKeeps == ASSUME Inv, NEW save \in BOOLEAN, HierarchyUp(save) PROVE Inv'
<1> DEFINE page == top.page_current
           q == top.page[page]
           f == q.file
           parent == s_page_search_by_page_id(top, q.up)
           symbol == ~q.is_untitled /\ f \in Symbols
           kept == IF save THEN Saved(top, page, f) ELSE top
           closed == x_lowlevel_close_page(kept, page)
           left == IF symbol THEN closed ELSE top
           w == x_window_set_current_page(left, parent)
<1>1. /\ parent # None /\ (symbol => Closable(page)) /\ (save => symbol)
      /\ top' = w /\ disk' = IF save THEN Written(page, f) ELSE disk
  BY DEF HierarchyUp, current
<1>2. Good(top) /\ Alive(top) /\ DiskOK /\ page \in Pages(top)
  BY DEF Inv, Alive
<1>3. parent \in Pages(top) /\ parent = q.up
  BY <1>1 DEF s_page_search_by_page_id
<1>4. symbol => f \in Files
  BY <1>2, HasFile
<1>5. DiskOK'
  <2>1. CASE save
    BY <1>1, <1>2, <1>4, <2>1, WrittenIs
  <2>2. CASE ~save
    BY <1>1, <1>2, <2>2, SameDisk
  <2> QED BY <2>1, <2>2
<1>6. Good(left) /\ Alive(left) /\ parent \in Pages(left)
  <2>1. CASE ~symbol
    <3>1. left = top
      BY <2>1
    <3> HIDE DEF left, parent
    <3> QED BY <1>2, <1>3, <3>1
  <2>2. CASE symbol
    <3>1. left = closed /\ q.up # page
      BY <1>1, <1>2, <2>2, ClosableIs
    <3>2. Good(kept) /\ Alive(kept) /\ Pages(kept) = Pages(top) /\ kept.page[page].up = q.up
      <4>1. CASE save
        <5> DEFINE u == Saved(top, page, f)
        <5>1. kept = u
          BY <4>1
        <5>2. Good(u) /\ Pages(u) = Pages(top) /\ SameView(top, u) /\ u.page[page].up = q.up
          BY <1>2, <1>4, <2>2, SavedIs
        <5> HIDE DEF u, kept
        <5> QED BY <1>2, <5>1, <5>2 DEF SameView, Alive
      <4>2. CASE ~save
        <5>1. kept = top
          BY <4>2
        <5> HIDE DEF kept
        <5> QED BY <1>2, <5>1
      <4> QED BY <4>1, <4>2
    <3> HIDE DEF kept, left, q, parent
    <3>3. Good(closed) /\ Alive(closed) /\ \A r \in Pages(kept) \ {page} : r \in Pages(closed)
      BY <1>2, <3>1, <3>2, Closed
    <3> HIDE DEF closed
    <3> QED BY <1>3, <3>1, <3>2, <3>3
  <2> QED BY <2>1, <2>2
<1> HIDE DEF left
<1>7. Good(w) /\ Alive(w)
  BY <1>6, ShownAlive
<1> HIDE DEF w
<1> QED BY <1>1, <1>5, <1>7, Keeps

\* Another page is shown.
LEMMA ShowsPage ==
  ASSUME Inv, NEW p \in Pages(top), top' = x_window_set_current_page(top, p), UNCHANGED disk
  PROVE  Inv'
<1> DEFINE w == x_window_set_current_page(top, p)
<1>1. Good(w) /\ Alive(w)
  BY ShownAlive DEF Inv
<1>2. DiskOK'
  BY SameDisk DEF Inv
<1>3. top' = w
  OBVIOUS
<1> HIDE DEF w
<1> QED BY <1>1, <1>2, <1>3, Keeps

LEMMA PrevKeeps == ASSUME Inv, PagePrev PROVE Inv'
<1> DEFINE page == top.page_current
           A == {q \in Siblings(top, page) : q < page}
           B == {q \in Pages(top) : q < page}
           p == IF EnforceHierarchy THEN s_hierarchy_find_prev_page(top, page) ELSE LastOf(B)
<1>1. p # None /\ top' = x_window_set_current_page(top, p) /\ UNCHANGED disk
  BY DEF PagePrev
<1>2. IsTop(top)
  BY DEF Inv, Good
<1>3. PICK m \in Nat : Pages(top) \subseteq 0 .. m
  <2>1. Pages(top) \subseteq 0 .. top.global_pid - 1 /\ top.global_pid \in Nat
    BY <1>2 DEF IsTop
  <2>2. Pages(top) \subseteq 0 .. top.global_pid
    BY <2>1
  <2> QED BY <2>1, <2>2
<1>4. A \in SUBSET Pages(top) /\ B \in SUBSET Pages(top)
  BY DEF Siblings
<1>5. p = IF EnforceHierarchy THEN LastOf(A) ELSE LastOf(B)
  BY DEF s_hierarchy_find_prev_page
<1> HIDE DEF A, B
<1>6. LastOf(A) \in A \cup {None} /\ LastOf(B) \in B \cup {None}
  BY <1>3, <1>4, LastIs
<1>7. p \in Pages(top)
  BY <1>1, <1>4, <1>5, <1>6
<1> HIDE DEF p
<1> QED BY <1>1, <1>7, ShowsPage

LEMMA NextKeeps == ASSUME Inv, PageNext PROVE Inv'
<1> DEFINE page == top.page_current
           A == {q \in Siblings(top, page) : q > page}
           B == {q \in Pages(top) : q > page}
           p == IF EnforceHierarchy THEN s_hierarchy_find_next_page(top, page) ELSE FirstOf(B)
<1>1. p # None /\ top' = x_window_set_current_page(top, p) /\ UNCHANGED disk
  BY DEF PageNext
<1>2. Pages(top) \subseteq Nat
  BY DEF Inv, Good, IsTop
<1>4. A \in SUBSET Pages(top) /\ B \in SUBSET Pages(top)
  BY DEF Siblings
<1>5. p = IF EnforceHierarchy THEN FirstOf(A) ELSE FirstOf(B)
  BY DEF s_hierarchy_find_next_page
<1> HIDE DEF A, B
<1>6. FirstOf(A) \in A \cup {None} /\ FirstOf(B) \in B \cup {None}
  BY <1>2, <1>4, FirstIs
<1>7. p \in Pages(top)
  BY <1>1, <1>4, <1>5, <1>6
<1> HIDE DEF p
<1> QED BY <1>1, <1>7, ShowsPage

\* A changed page is shown before it is closed or reverted.
LEMMA ShownIs ==
  ASSUME Inv, NEW p \in Pages(top)
  PROVE  Good(Shown(p)) /\ Alive(Shown(p)) /\ Shown(p).page = top.page
<1>1. Good(top) /\ Alive(top)
  BY DEF Inv
<1>2. CASE top.page[p].CHANGED
  <2> DEFINE w == x_window_set_current_page(top, p)
  <2>1. Good(w) /\ Alive(w) /\ w.page = top.page
    BY <1>1, ShownAlive
  <2>2. Shown(p) = w
    BY <1>2 DEF Shown
  <2> HIDE DEF w
  <2> QED BY <2>1, <2>2
<1>3. CASE ~top.page[p].CHANGED
  <2>1. Shown(p) = top
    BY <1>3 DEF Shown
  <2> QED BY <1>1, <2>1
<1> QED BY <1>2, <1>3

LEMMA CloseKeeps == ASSUME Inv, NEW p \in Pages(top), Close(p) PROVE Inv'
<1> DEFINE t == Shown(p)
           u == x_lowlevel_close_page(t, p)
<1>1. top' = u /\ UNCHANGED disk /\ Closable(p)
  BY DEF Close
<1>2. Good(t) /\ Alive(t) /\ t.page = top.page
  BY ShownIs
<1> HIDE DEF t
<1>3. p \in Pages(t) /\ t.page[p].up # p
  BY <1>1, <1>2, ClosableIs DEF Pages
<1>4. Good(u) /\ Alive(u)
  BY <1>2, <1>3, Closed
<1>5. DiskOK'
  BY <1>1, SameDisk DEF Inv
<1> HIDE DEF u
<1> QED BY <1>1, <1>4, <1>5, Keeps

LEMMA SaveAndCloseKeeps == ASSUME Inv, NEW p \in Pages(top), SaveAndClose(p) PROVE Inv'
<1> DEFINE t == Shown(p)
           f == top.page[p].file
           s == Saved(t, p, f)
           u == x_lowlevel_close_page(s, p)
<1>1. top' = u /\ disk' = Written(p, f) /\ Closable(p) /\ ~top.page[p].is_untitled
  BY DEF SaveAndClose
<1>2. Good(t) /\ Alive(t) /\ t.page = top.page
  BY ShownIs
<1>3. Good(top) /\ DiskOK
  BY DEF Inv
<1> HIDE DEF t
<1>4. p \in Pages(t) /\ t.page[p].up # p /\ f = t.page[p].file
  BY <1>1, <1>2, ClosableIs DEF Pages
<1>5. f \in Files
  BY <1>1, <1>3, HasFile
<1>6. DiskOK'
  BY <1>1, <1>3, <1>5, WrittenIs
<1> HIDE DEF f
<1>7. Good(s) /\ Pages(s) = Pages(t) /\ SameView(t, s) /\ s.page[p].up = t.page[p].up
  BY <1>2, <1>4, <1>5, SavedIs
<1> HIDE DEF s
<1>8. Alive(s)
  BY <1>2, <1>7 DEF Alive, SameView
<1>9. Good(u) /\ Alive(u)
  BY <1>4, <1>7, <1>8, Closed
<1> HIDE DEF u
<1> QED BY <1>1, <1>6, <1>9, Keeps

LEMMA RevertKeeps == ASSUME Inv, NEW p \in Pages(top), Revert(p) PROVE Inv'
<1> DEFINE t == Shown(p)
           u == x_lowlevel_revert_page(t, p)
<1>1. top' = u /\ UNCHANGED disk /\ ~top.page[p].is_untitled
  BY DEF Revert
<1>2. Good(t) /\ Alive(t) /\ t.page = top.page
  BY ShownIs
<1>3. Good(top) /\ DiskOK
  BY DEF Inv
<1>4. top.page[p].file \in Files
  BY <1>1, <1>3, HasFile
<1> HIDE DEF t
<1>5. p \in Pages(t) /\ t.page[p].file \in Files
  BY <1>2, <1>4 DEF Pages
<1>6. Good(u) /\ Alive(u)
  BY <1>2, <1>3, <1>5, Reverted
<1>7. DiskOK'
  BY <1>1, <1>3, SameDisk
<1> HIDE DEF u
<1> QED BY <1>1, <1>6, <1>7, Keeps

LEMMA EditKeeps == ASSUME Inv, NEW content \in Drawings, Edit(content) PROVE Inv'
<1> DEFINE page == top.page_current
           q == top.page[page]
           drawn == [q EXCEPT !.content = content, !.CHANGED = TRUE]
           t == [top EXCEPT !.page[page] = drawn]
           u == o_undo_savestate(t, page)
<1>1. Good(top) /\ Alive(top) /\ DiskOK /\ IsTop(top) /\ page \in Pages(top)
  BY DEF Inv, Alive, Good
<1>2. top' = u /\ UNCHANGED disk /\ (q.file \in Symbols => content = <<>>)
  BY <1>1 DEF Edit, current, Alive
<1>3. IsPage(top, q)
  BY <1>1 DEF Good, PagesOK
<1>4. content \in Seq(Component)
  BY DesignsAssumption
<1>5. drawn = [file |-> q.file, is_untitled |-> q.is_untitled, content |-> content,
               CHANGED |-> TRUE, up |-> q.up, page_control |-> q.page_control,
               undo |-> q.undo, at |-> q.at, came_from |-> q.came_from,
               relinked |-> q.relinked, named |-> q.named]
  <2> DEFINE r == drawn
  <2>1. r = [q EXCEPT !.content = content, !.CHANGED = TRUE]
    OBVIOUS
  <2>2. q = [file |-> q.file, is_untitled |-> q.is_untitled, content |-> q.content,
             CHANGED |-> q.CHANGED, up |-> q.up, page_control |-> q.page_control,
             undo |-> q.undo, at |-> q.at, came_from |-> q.came_from,
             relinked |-> q.relinked, named |-> q.named]
    BY <1>3 DEF IsPage
  <2> HIDE DEF r, q
  <2>3. r = [file |-> q.file, is_untitled |-> q.is_untitled, content |-> content,
             CHANGED |-> TRUE, up |-> q.up, page_control |-> q.page_control,
             undo |-> q.undo, at |-> q.at, came_from |-> q.came_from,
             relinked |-> q.relinked, named |-> q.named]
    BY <2>1, <2>2
  <2> QED BY <2>3 DEF r
<1> HIDE DEF drawn, q
<1>6. /\ drawn.file = q.file /\ drawn.is_untitled = q.is_untitled /\ drawn.content = content
      /\ drawn.CHANGED = TRUE /\ drawn.up = q.up /\ drawn.page_control = q.page_control
      /\ drawn.undo = q.undo /\ drawn.at = q.at /\ drawn.came_from = q.came_from
      /\ drawn.relinked = q.relinked /\ drawn.named = q.named
  BY <1>5
<1>7. IsPage(top, drawn)
  <2>1. drawn = [file |-> drawn.file, is_untitled |-> drawn.is_untitled,
                 content |-> drawn.content, CHANGED |-> drawn.CHANGED, up |-> drawn.up,
                 page_control |-> drawn.page_control, undo |-> drawn.undo, at |-> drawn.at,
                 came_from |-> drawn.came_from, relinked |-> drawn.relinked,
                 named |-> drawn.named]
    BY <1>5, <1>6
  <2>2. /\ q.file \in Files \cup {Untitled} /\ q.is_untitled = (q.file = Untitled)
        /\ q.up \in Ups(top) /\ q.page_control \in 0 .. top.page_control_counter
        /\ q.undo \in Seq(Nodes(top)) /\ q.at \in 0 .. Len(q.undo) /\ (q.at = 0 => q.undo = <<>>)
        /\ q.came_from \in {None} \cup 0 .. top.global_pid - 1
        /\ q.relinked \in BOOLEAN /\ q.named \in BOOLEAN
    BY <1>3 DEF IsPage
  <2>3. q.file \in Symbols => \A i \in DOMAIN q.undo : q.undo[i].content = <<>>
    BY <1>3 DEF IsPage
  <2>4. q.is_untitled => q.up = NoParent /\ \A i \in DOMAIN q.undo : q.undo[i].up = NoParent
    BY <1>3 DEF IsPage
  <2>5. drawn.is_untitled = (drawn.file = Untitled)
    BY <1>6, <2>2
  <2>6. drawn.file \in Symbols =>
          drawn.content = <<>> /\ \A i \in DOMAIN drawn.undo : drawn.undo[i].content = <<>>
    BY <1>2, <1>6, <2>3 DEF q
  <2>7. drawn.is_untitled =>
          drawn.up = NoParent /\ \A i \in DOMAIN drawn.undo : drawn.undo[i].up = NoParent
    BY <1>6, <2>4
  <2>8. drawn.content \in Seq(Component) /\ drawn.CHANGED \in BOOLEAN
    BY <1>4, <1>6
  <2>9. /\ drawn.file \in Files \cup {Untitled}
        /\ drawn.up \in Ups(top) /\ drawn.page_control \in 0 .. top.page_control_counter
        /\ drawn.undo \in Seq(Nodes(top)) /\ drawn.at \in 0 .. Len(drawn.undo)
        /\ (drawn.at = 0 => drawn.undo = <<>>)
        /\ drawn.came_from \in {None} \cup 0 .. top.global_pid - 1
        /\ drawn.relinked \in BOOLEAN /\ drawn.named \in BOOLEAN
    BY <1>6, <2>2
  <2> QED BY <2>1, <2>5, <2>6, <2>7, <2>8, <2>9 DEF IsPage
<1>8. /\ IsTop(t) /\ PageIs(top, t, page, drawn) /\ SameView(top, t)
      /\ t.page_control_counter = top.page_control_counter
  BY <1>1, SetPage
<1> HIDE DEF t
<1>9. t.page[page] = drawn /\ Pages(t) = Pages(top)
  <2>1. IsTop(top) /\ t.page = [top.page EXCEPT ![page] = drawn]
    BY <1>1, <1>8 DEF PageIs
  <2>2. top.page = [p \in DOMAIN top.page |-> top.page[p]]
    BY <2>1 DEF IsTop
  <2> QED BY <1>1, <2>1, <2>2 DEF Pages
<1>10. Touched(top, t, page)
  BY <1>6, <1>8, <1>9 DEF Touched, q
<1>11. Good(t)
  BY <1>1, <1>7, <1>8, <1>9, <1>10, TouchedGood
<1>12. Good(u) /\ PageIs(t, u, page, u.page[page]) /\ SameView(t, u)
  BY <1>1, <1>9, <1>11, StateSaved DEF Touched
<1> HIDE DEF u
<1>13. Alive(u)
  <2>1. Pages(u) = Pages(t)
    BY <1>11, <1>12 DEF PageIs, Pages
  <2> QED BY <1>1, <1>8, <1>9, <1>12, <2>1 DEF Alive, SameView
<1>14. DiskOK'
  BY <1>1, <1>2, SameDisk
<1> QED BY <1>2, <1>12, <1>13, <1>14, Keeps

LEMMA UndoKeeps == ASSUME Inv, Undo \/ Redo PROVE Inv'
<1> DEFINE page == top.view
           q == top.page[page]
<1>1. Good(top) /\ Alive(top) /\ DiskOK /\ page \in Pages(top)
  BY DEF Inv, Alive
<1>2. q.undo \in Seq(Nodes(top)) /\ q.at \in 0 .. Len(q.undo)
  <2>1. IsPage(top, q)
    BY <1>1 DEF Good, PagesOK
  <2> QED BY <2>1 DEF IsPage
<1>3. Len(q.undo) \in Nat
  BY <1>2, Listed
<1>4. PICK i : i \in 1 .. Len(q.undo) /\ top' = o_undo_callback(top, page, i) /\ UNCHANGED disk
  <2>1. CASE Undo
    BY <1>2, <1>3, <2>1 DEF Undo
  <2>2. CASE Redo
    BY <1>2, <1>3, <2>2 DEF Redo
  <2> QED BY <2>1, <2>2
<1> DEFINE u == o_undo_callback(top, page, i)
<1>5. Good(u) /\ Pages(u) = Pages(top) /\ SameView(top, u)
  BY <1>1, <1>4, CalledBack
<1>6. top' = u
  BY <1>4
<1> HIDE DEF u
<1>7. Alive(u)
  BY <1>1, <1>5 DEF Alive, SameView
<1>8. DiskOK'
  BY <1>1, <1>4, SameDisk
<1> QED BY <1>5, <1>6, <1>7, <1>8, Keeps

\* The current page is saved, as a symbol if it is one.
LEMMA SavesPage ==
  ASSUME Inv, NEW f \in Files, f \in Symbols <=> top.page[top.page_current].file \in Symbols,
         top' = Saved(top, top.page_current, f), disk' = Written(top.page_current, f)
  PROVE  Inv'
<1> DEFINE u == Saved(top, top.page_current, f)
<1>1. Good(top) /\ Alive(top) /\ DiskOK /\ top.page_current \in Pages(top)
  BY DEF Inv, Alive
<1>2. Good(u) /\ Pages(u) = Pages(top) /\ SameView(top, u)
  BY <1>1, SavedIs
<1>3. DiskOK'
  BY <1>1, WrittenIs
<1>4. top' = u
  OBVIOUS
<1> HIDE DEF u
<1>5. Alive(u)
  BY <1>1, <1>2 DEF Alive, SameView
<1> QED BY <1>2, <1>3, <1>4, <1>5, Keeps

LEMMA SaveKeeps == ASSUME Inv, Save PROVE Inv'
<1> DEFINE f == top.page[top.page_current].file
<1>1. /\ ~top.page[top.page_current].is_untitled
      /\ top' = Saved(top, top.page_current, f) /\ disk' = Written(top.page_current, f)
  BY DEF Save, current
<1>2. f \in Files
  BY <1>1, HasFile DEF Inv, Alive
<1> QED BY <1>1, <1>2, SavesPage

LEMMA SaveAsKeeps == ASSUME Inv, NEW f \in Files, SaveAs(f) PROVE Inv'
<1>1. /\ f \in Symbols <=> top.page[top.page_current].file \in Symbols
      /\ top' = Saved(top, top.page_current, f) /\ disk' = Written(top.page_current, f)
  BY DEF SaveAs, current
<1> QED BY <1>1, SavesPage

\* u has the pages of t, of which those in S may have changes now.
Marked(t, u, S) ==
  u = [t EXCEPT !.page = [p \in Pages(t) |-> [t.page[p] EXCEPT !.CHANGED = @ \/ p \in S]]]

\* Marking pages as changed keeps what is good.
LEMMA MarkedIs ==
  ASSUME NEW t, Good(t), NEW S, NEW u, Marked(t, u, S)
  PROVE  Good(u) /\ Pages(u) = Pages(t) /\ SameView(t, u)
<1> DEFINE pages == [p \in Pages(t) |-> [t.page[p] EXCEPT !.CHANGED = @ \/ p \in S]]
<1>1. IsTop(t) /\ PagesOK(t) /\ OnePage(t) /\ ComesBack(t) /\ NoCircle(t)
  BY DEF Good
<1>2. /\ u = [t EXCEPT !.page = pages] /\ Pages(t) = DOMAIN pages
      /\ pages = [p \in Pages(t) |-> pages[p]]
  BY DEF Marked
<1>3. ASSUME NEW p \in Pages(t)
      PROVE  LET q == t.page[p] IN
             \E c \in BOOLEAN :
               pages[p] = [file |-> q.file, is_untitled |-> q.is_untitled, content |-> q.content,
                           CHANGED |-> c, up |-> q.up, page_control |-> q.page_control,
                           undo |-> q.undo, at |-> q.at, came_from |-> q.came_from,
                           relinked |-> q.relinked, named |-> q.named]
  <2> DEFINE q == t.page[p]
             r == pages[p]
  <2>1. r = [q EXCEPT !.CHANGED = q.CHANGED \/ p \in S]
    OBVIOUS
  <2>2. PICK c \in BOOLEAN : c = (q.CHANGED \/ p \in S)
    OBVIOUS
  <2>3. q = [file |-> q.file, is_untitled |-> q.is_untitled, content |-> q.content,
             CHANGED |-> q.CHANGED, up |-> q.up, page_control |-> q.page_control,
             undo |-> q.undo, at |-> q.at, came_from |-> q.came_from,
             relinked |-> q.relinked, named |-> q.named]
    <3>1. IsPage(t, q)
      BY <1>1 DEF PagesOK
    <3> QED BY <3>1 DEF IsPage
  <2>4. r = [q EXCEPT !.CHANGED = c]
    BY <2>1, <2>2
  <2> HIDE DEF q, r
  <2>5. r = [file |-> q.file, is_untitled |-> q.is_untitled, content |-> q.content,
             CHANGED |-> c, up |-> q.up, page_control |-> q.page_control,
             undo |-> q.undo, at |-> q.at, came_from |-> q.came_from,
             relinked |-> q.relinked, named |-> q.named]
    BY <2>3, <2>4
  <2> QED BY <2>5 DEF q, r
<1> HIDE DEF pages
<1>4. /\ u = [page |-> u.page, page_current |-> u.page_current, view |-> u.view,
              global_pid |-> u.global_pid, page_control_counter |-> u.page_control_counter]
      /\ u.page = pages /\ SameView(t, u)
      /\ u.global_pid = t.global_pid /\ u.page_control_counter = t.page_control_counter
  BY <1>1, <1>2 DEF IsTop, SameView
<1>5. IsTop(u) /\ Pages(u) = Pages(t)
  <2>1. Pages(u) = Pages(t)
    BY <1>2, <1>4 DEF Pages
  <2>2. u.page = [p \in DOMAIN u.page |-> u.page[p]]
    BY <1>2, <1>4
  <2> QED BY <1>1, <1>4, <2>1, <2>2 DEF IsTop
<1>6. ASSUME NEW p \in Pages(u)
      PROVE  LET q == t.page[p]
                 r == u.page[p]
             IN  /\ r.file = q.file /\ r.is_untitled = q.is_untitled /\ r.content = q.content
                 /\ r.CHANGED \in BOOLEAN /\ r.up = q.up /\ r.page_control = q.page_control
                 /\ r.undo = q.undo /\ r.at = q.at /\ r.came_from = q.came_from
                 /\ r.relinked = q.relinked /\ r.named = q.named
                 /\ r = [file |-> r.file, is_untitled |-> r.is_untitled, content |-> r.content,
                         CHANGED |-> r.CHANGED, up |-> r.up, page_control |-> r.page_control,
                         undo |-> r.undo, at |-> r.at, came_from |-> r.came_from,
                         relinked |-> r.relinked, named |-> r.named]
  <2> DEFINE q == t.page[p]
             r == u.page[p]
  <2>1. PICK c \in BOOLEAN :
          pages[p] = [file |-> q.file, is_untitled |-> q.is_untitled, content |-> q.content,
                      CHANGED |-> c, up |-> q.up, page_control |-> q.page_control,
                      undo |-> q.undo, at |-> q.at, came_from |-> q.came_from,
                      relinked |-> q.relinked, named |-> q.named]
    BY <1>3, <1>5
  <2>2. r = pages[p]
    BY <1>4
  <2>3. r = [file |-> q.file, is_untitled |-> q.is_untitled, content |-> q.content,
             CHANGED |-> c, up |-> q.up, page_control |-> q.page_control,
             undo |-> q.undo, at |-> q.at, came_from |-> q.came_from,
             relinked |-> q.relinked, named |-> q.named]
    BY <2>1, <2>2
  <2> HIDE DEF q, r
  <2>4. /\ r.file = q.file /\ r.is_untitled = q.is_untitled /\ r.content = q.content
        /\ r.CHANGED = c /\ r.up = q.up /\ r.page_control = q.page_control
        /\ r.undo = q.undo /\ r.at = q.at /\ r.came_from = q.came_from
        /\ r.relinked = q.relinked /\ r.named = q.named
    BY <2>3
  <2>5. r.CHANGED \in BOOLEAN
    BY <2>4
  <2>6. r = [file |-> r.file, is_untitled |-> r.is_untitled, content |-> r.content,
             CHANGED |-> r.CHANGED, up |-> r.up, page_control |-> r.page_control,
             undo |-> r.undo, at |-> r.at, came_from |-> r.came_from,
             relinked |-> r.relinked, named |-> r.named]
    BY <2>3, <2>4
  <2> QED BY <2>4, <2>5, <2>6 DEF q, r
<1>7. Grown(t, u)
  <2>1. \A p \in Pages(u) : p \in Pages(t) /\ u.page[p].file = t.page[p].file
    BY <1>5, <1>6
  <2>2. \A p \in SymbolPages(u) : p \in SymbolPages(t)
    BY <2>1 DEF SymbolPages
  <2>3. t.global_pid \in Nat /\ t.page_control_counter \in Nat
    BY <1>1 DEF IsTop
  <2> QED BY <1>4, <2>2, <2>3 DEF Grown
<1>8. PagesOK(u)
  <2> SUFFICES ASSUME NEW p \in Pages(u) PROVE IsPage(u, u.page[p])
    BY DEF PagesOK
  <2> DEFINE q == t.page[p]
             r == u.page[p]
  <2>1. IsPage(u, q)
    BY <1>1, <1>5, <1>7, PageGrows DEF PagesOK
  <2>2. /\ r.file = q.file /\ r.is_untitled = q.is_untitled /\ r.content = q.content
        /\ r.CHANGED \in BOOLEAN /\ r.up = q.up /\ r.page_control = q.page_control
        /\ r.undo = q.undo /\ r.at = q.at /\ r.came_from = q.came_from
        /\ r.relinked = q.relinked /\ r.named = q.named
    BY <1>6
  <2>3. r = [file |-> r.file, is_untitled |-> r.is_untitled, content |-> r.content,
             CHANGED |-> r.CHANGED, up |-> r.up, page_control |-> r.page_control,
             undo |-> r.undo, at |-> r.at, came_from |-> r.came_from,
             relinked |-> r.relinked, named |-> r.named]
    BY <1>6
  <2> HIDE DEF q, r
  <2>4. /\ q.file \in Files \cup {Untitled} /\ q.is_untitled = (q.file = Untitled)
        /\ q.content \in Seq(Component)
        /\ q.up \in Ups(u) /\ q.page_control \in 0 .. u.page_control_counter
        /\ q.undo \in Seq(Nodes(u)) /\ q.at \in 0 .. Len(q.undo) /\ (q.at = 0 => q.undo = <<>>)
        /\ q.came_from \in {None} \cup 0 .. u.global_pid - 1
        /\ q.relinked \in BOOLEAN /\ q.named \in BOOLEAN
    BY <2>1 DEF IsPage
  <2>5. q.file \in Symbols =>
          q.content = <<>> /\ \A i \in DOMAIN q.undo : q.undo[i].content = <<>>
    BY <2>1 DEF IsPage
  <2>6. q.is_untitled => q.up = NoParent /\ \A i \in DOMAIN q.undo : q.undo[i].up = NoParent
    BY <2>1 DEF IsPage
  <2>7. r.is_untitled = (r.file = Untitled)
    BY <2>2, <2>4
  <2>8. r.file \in Symbols =>
          r.content = <<>> /\ \A i \in DOMAIN r.undo : r.undo[i].content = <<>>
    BY <2>2, <2>5
  <2>9. r.is_untitled => r.up = NoParent /\ \A i \in DOMAIN r.undo : r.undo[i].up = NoParent
    BY <2>2, <2>6
  <2>10. /\ r.file \in Files \cup {Untitled}
         /\ r.content \in Seq(Component) /\ r.CHANGED \in BOOLEAN
         /\ r.up \in Ups(u) /\ r.page_control \in 0 .. u.page_control_counter
         /\ r.undo \in Seq(Nodes(u)) /\ r.at \in 0 .. Len(r.undo) /\ (r.at = 0 => r.undo = <<>>)
         /\ r.came_from \in {None} \cup 0 .. u.global_pid - 1
         /\ r.relinked \in BOOLEAN /\ r.named \in BOOLEAN
    BY <2>2, <2>4
  <2>11. IsPage(u, r)
    BY <2>3, <2>7, <2>8, <2>9, <2>10 DEF IsPage
  <2> QED BY <2>11 DEF r
<1>9. OnePage(u)
  <2>1. \A p \in Pages(u) :
          p \in Pages(t) /\ u.page[p].file = t.page[p].file /\ u.page[p].named = t.page[p].named
    BY <1>5, <1>6
  <2>2. OnePage(t)
    BY <1>1
  <2> QED BY <2>1, <2>2 DEF OnePage
<1>10. ComesBack(u)
  <2> SUFFICES ASSUME NEW p \in Pages(u),
                      u.page[p].came_from \in Pages(u) /\ ~u.page[p].relinked
               PROVE  u.page[p].up = u.page[p].came_from
    BY DEF ComesBack
  <2>1. /\ u.page[p].came_from = t.page[p].came_from
        /\ u.page[p].relinked = t.page[p].relinked /\ u.page[p].up = t.page[p].up
    BY <1>6
  <2>2. p \in Pages(t) /\ t.page[p].came_from \in Pages(t) /\ ~t.page[p].relinked
    BY <1>5, <2>1
  <2>3. t.page[p].up = t.page[p].came_from
    BY <1>1, <2>2 DEF ComesBack
  <2> QED BY <2>1, <2>3
<1>11. NoCircle(u)
  <2>1. None \notin Pages(u)
    BY <1>5 DEF IsTop, None
  <2>2. \A q \in Pages(u) \ {None} :
          /\ q \in Pages(t) /\ Parent(u, q) \in {Parent(t, q), None}
          /\ t.page[q].relinked => u.page[q].relinked
    <3> SUFFICES ASSUME NEW q \in Pages(u)
                 PROVE  /\ q \in Pages(t) /\ Parent(u, q) \in {Parent(t, q), None}
                        /\ t.page[q].relinked => u.page[q].relinked
      OBVIOUS
    <3>1. q \in Pages(t) /\ u.page[q].up = t.page[q].up /\ u.page[q].relinked = t.page[q].relinked
      BY <1>5, <1>6
    <3>2. IsTop(t) /\ IsTop(u) /\ Pages(u) = Pages(t)
      BY <1>1, <1>5
    <3>3. Parent(u, q) = IF u.page[q].up \in Pages(u) THEN u.page[q].up ELSE None
      BY <3>2, ParentIs
    <3>4. Parent(t, q) = IF t.page[q].up \in Pages(t) THEN t.page[q].up ELSE None
      BY <3>1, <3>2, ParentIs
    <3> QED BY <3>1, <3>2, <3>3, <3>4
  <2> QED BY <1>1, <1>5, <2>1, <2>2, CirclesKept
<1> QED BY <1>4, <1>5, <1>8, <1>9, <1>10, <1>11 DEF Good

\* The traversal makes other pages current; numbering goes back to the page shown.
LEMMA AutonumberKeeps ==
  ASSUME Inv, NEW all \in BOOLEAN, NEW complete, complete = TRUE, Autonumber(all, complete)
  PROVE  Inv'
<1> DEFINE page == top.page_current
           s == s_hierarchy_traversepages(top, page)
           scope == IF all THEN ToSet(s.pages) ELSE {page}
           n == [s.top EXCEPT !.page = [p \in Pages(s.top) |->
                   [s.top.page[p] EXCEPT !.CHANGED = @ \/ p \in scope]]]
           b == s_page_goto(n, page)
           u == o_undo_savestate(b, page)
<1>1. Good(top) /\ Alive(top) /\ DiskOK /\ page \in Pages(top) /\ top.view = page
  BY DEF Inv, Alive
<1>2. page # None
  BY <1>1 DEF Good, IsTop, None
<1>3. top' = u /\ UNCHANGED disk
  BY <1>1, <1>2 DEF Autonumber, Back
<1>4. Has(top, s.top)
  BY <1>1, TraversalIs
<1>5. Marked(s.top, n, scope)
  BY DEF Marked
<1> HIDE DEF s, scope, n
<1>6. Good(n) /\ Pages(n) = Pages(s.top) /\ SameView(s.top, n)
  BY <1>4, <1>5, MarkedIs DEF Has
<1>7. page \in Pages(n) /\ n.view = page
  BY <1>1, <1>4, <1>6 DEF Has, SameView
<1>8. Good(b) /\ SamePages(n, b) /\ b.view = page /\ b.page_current = page
  BY <1>6, <1>7, WentTo
<1> HIDE DEF b
<1>9. page \in Pages(b)
  BY <1>7, <1>8 DEF SamePages, Pages
<1>10. Good(u) /\ PageIs(b, u, page, u.page[page]) /\ SameView(b, u)
  BY <1>8, <1>9, StateSaved DEF Touched
<1> HIDE DEF u
<1>11. Alive(u)
  BY <1>8, <1>9, <1>10 DEF PageIs, Pages, Alive, SameView
<1>12. DiskOK'
  BY <1>1, <1>3, SameDisk
<1> QED BY <1>3, <1>10, <1>11, <1>12, Keeps

LEMMA FindTextKeeps == ASSUME Inv, FindText PROVE Inv'
<1> DEFINE pids == [i \in 1 .. top.global_pid |-> i - 1]
           list == Filtered(pids, Pages(top))
           s == get_pages(top, list)
           u == s.top
<1>1. Good(top) /\ Alive(top) /\ DiskOK /\ IsTop(top)
  BY DEF Inv, Good
<1>2. top' = u /\ UNCHANGED disk
  BY DEF FindText
<1>3. pids \in Seq(Nat)
  <2>1. top.global_pid \in Nat
    BY <1>1 DEF IsTop
  <2>2. pids \in [1 .. top.global_pid -> Nat]
    BY <2>1
  <2> HIDE DEF pids
  <2> QED BY <2>1, <2>2, SeqDef
<1> HIDE DEF pids
<1>4. list \in Seq(Nat) /\ ToSet(list) \subseteq Pages(top)
  BY <1>3, FilteredListed
<1> HIDE DEF list
<1>5. list \in Seq(Pages(top))
  <2>1. Len(list) \in Nat /\ DOMAIN list = 1 .. Len(list) /\ list \in [1 .. Len(list) -> Nat]
    BY <1>4, LenProperties
  <2>2. \A i \in 1 .. Len(list) : list[i] \in ToSet(list)
    BY <1>4, <2>1, Listed
  <2>3. list \in [1 .. Len(list) -> Pages(top)]
    BY <1>4, <2>1, <2>2
  <2> QED BY <2>1, <2>3, SeqDef
<1>6. Good(u) /\ Alive(u)
  BY <1>1, <1>5, SearchIs DEF Has
<1>7. DiskOK'
  BY <1>1, <1>2, SameDisk
<1> HIDE DEF u
<1> QED BY <1>2, <1>6, <1>7, Keeps

-----------------------------------------------------------------------------
(* The theorems *)

\* The window starts with one untitled page.
LEMMA InvStarts == Init => Inv
<1> DEFINE none == [page |-> <<>>, page_current |-> None, view |-> None, global_pid |-> 0,
                    page_control_counter |-> 0]
           r == x_lowlevel_new_page(none, Untitled)
           o == r.top
           x == r.page
           w == x_window_set_current_page(o, x)
<1> SUFFICES ASSUME Init PROVE Inv
  OBVIOUS
<1>1. disk \in Designs /\ top = w
  BY DEF Init
<1>2. DiskOK
  <2>1. /\ DOMAIN disk = Files
        /\ \A f \in Schematics : disk[f] \in {NONE} \cup Seq(Component)
        /\ \A f \in Symbols : disk[f] \in {NONE, <<>>}
    BY <1>1, DesignsAssumption
  <2>2. <<>> \in Seq(Component)
    OBVIOUS
  <2> QED BY <2>1, <2>2 DEF DiskOK, Files
<1>3. /\ none.page = <<>> /\ none.page_current = None /\ none.view = None
      /\ none.global_pid = 0 /\ none.page_control_counter = 0
  OBVIOUS
<1>4. DOMAIN none.page = {} /\ Pages(none) = {}
  BY DEF Pages
<1>5. IsTop(none)
  <2>1. none = [page |-> none.page, page_current |-> none.page_current, view |-> none.view,
                global_pid |-> none.global_pid,
                page_control_counter |-> none.page_control_counter]
    OBVIOUS
  <2>2. none.page = [p \in DOMAIN none.page |-> none.page[p]]
    <3>1. <<>> = [p \in DOMAIN <<>> |-> <<>>[p]]
      OBVIOUS
    <3> QED BY <1>3, <3>1
  <2> HIDE DEF none
  <2> QED BY <1>3, <1>4, <2>1, <2>2 DEF IsTop
<1> HIDE DEF none
<1>6. Good(none) /\ Shows(none)
  BY <1>3, <1>4, <1>5 DEF Good, PagesOK, OnePage, ComesBack, NoCircle, Shows
<1>7. WithPage(none, o, x) /\ x # None
  BY <1>6, NewPageIs
<1> HIDE DEF o, x
<1>8. Good(o) /\ x \in Pages(o) /\ o.view = None
  BY <1>3, <1>7 DEF WithPage
<1>9. Good(w) /\ SamePages(o, w) /\ w.view = x /\ w.page_current = x
  BY <1>7, <1>8, Showed
<1> HIDE DEF w
<1>10. Alive(w)
  BY <1>8, <1>9 DEF Alive, SamePages, Pages
<1> QED BY <1>1, <1>2, <1>9, <1>10 DEF Inv

\* Every command keeps the invariant.
LEMMA InvStep == ASSUME Texts \subseteq {TRUE} PROVE Inv /\ [Next]_vars => Inv'
<1> SUFFICES ASSUME Inv, [Next]_vars PROVE Inv'
  OBVIOUS
<1>1. CASE UNCHANGED vars
  <2>1. top' = top /\ UNCHANGED disk
    BY <1>1 DEF vars
  <2>2. Good(top) /\ Alive(top) /\ DiskOK'
    BY <2>1, SameDisk DEF Inv
  <2> QED BY <2>1, <2>2, Keeps
<1>2. CASE NewUntitled
  BY <1>2, NewUntitledKeeps
<1>3. CASE \E f \in Files, create \in BOOLEAN : Open(f, create)
  BY <1>3, OpenKeeps
<1>4. CASE \E i \in DOMAIN current.content, create \in BOOLEAN : HierarchyDownSchematic(i, create)
  BY <1>4, DownSchematicKeeps
<1>5. CASE \E i \in DOMAIN current.content : HierarchyDownSymbol(i)
  BY <1>5, DownSymbolKeeps
<1>6. CASE \E save \in BOOLEAN : HierarchyUp(save)
  BY <1>6, UpKeeps
<1>7. CASE PagePrev
  BY <1>7, PrevKeeps
<1>8. CASE PageNext
  BY <1>8, NextKeeps
<1>9. CASE \E p \in Pages(top) : Select(p)
  BY <1>9, ShowsPage DEF Select
<1>10. CASE \E p \in Pages(top) : Close(p)
  BY <1>10, CloseKeeps
<1>11. CASE \E p \in Pages(top) : SaveAndClose(p)
  BY <1>11, SaveAndCloseKeeps
<1>12. CASE \E p \in Pages(top) : Revert(p)
  BY <1>12, RevertKeeps
<1>13. CASE \E content \in Drawings : Edit(content)
  BY <1>13, EditKeeps
<1>14. CASE Undo \/ Redo
  BY <1>14, UndoKeeps
<1>15. CASE Save
  BY <1>15, SaveKeeps
<1>16. CASE \E f \in Files : SaveAs(f)
  BY <1>16, SaveAsKeeps
<1>17. CASE \E all \in BOOLEAN, complete \in Texts : Autonumber(all, complete)
  BY <1>17, AutonumberKeeps
<1>18. CASE FindText
  BY <1>18, FindTextKeeps
<1> QED
  BY <1>1, <1>2, <1>3, <1>4, <1>5, <1>6, <1>7, <1>8, <1>9, <1>10, <1>11, <1>12, <1>13, <1>14,
     <1>15, <1>16, <1>17, <1>18 DEF Next

\* The type invariant follows.
LEMMA InvTypeOK == Inv => TypeOK
<1> SUFFICES ASSUME Inv PROVE TypeOK
  OBVIOUS
<1>1. Good(top) /\ Alive(top) /\ DiskOK /\ IsTop(top)
  BY DEF Inv, Good
<1>2. ASSUME NEW p \in Pages(top)
      PROVE  LET q == top.page[p]
             IN  /\ q.file \in Files \cup {Untitled}
                 /\ q.up \in {NoParent} \cup 0 .. top.global_pid - 1
                 /\ q.page_control \in 0 .. top.page_control_counter
                 /\ q.at \in 0 .. Len(q.undo)
                 /\ q.at = 0 => q.undo = <<>>
  <2> DEFINE q == top.page[p]
  <2>1. IsPage(top, q)
    BY <1>1 DEF Good, PagesOK
  <2> HIDE DEF q
  <2>2. q.up \in Ups(top)
    BY <2>1 DEF IsPage
  <2>3. q.up \in {NoParent} \cup 0 .. top.global_pid - 1
    BY <2>2 DEF Ups
  <2>4. /\ q.file \in Files \cup {Untitled} /\ q.page_control \in 0 .. top.page_control_counter
        /\ q.at \in 0 .. Len(q.undo) /\ (q.at = 0 => q.undo = <<>>)
    BY <2>1 DEF IsPage
  <2> QED BY <2>3, <2>4 DEF q
<1>3. /\ top.page_current \in Pages(top) /\ top.view = top.page_current
      /\ Pages(top) \subseteq 0 .. top.global_pid - 1 /\ DOMAIN disk = Files
  BY <1>1 DEF Alive, IsTop, DiskOK
<1> QED BY <1>2, <1>3 DEF TypeOK

\* The window always shows the current page, and the links, page controls and
\* undo positions of all pages are ones that were given out; unless the user
\* numbers with an incomplete text, which leaves another page current.
THEOREM TypeAlwaysOK ==
  ASSUME Texts \subseteq {TRUE}
  PROVE  Spec => []TypeOK
<1>1. Init => Inv
  BY InvStarts
<1>2. Inv /\ [Next]_vars => Inv'
  BY InvStep
<1>3. Inv => TypeOK
  BY InvTypeOK
<1> QED BY <1>1, <1>2, <1>3, PTL DEF Spec

\* A file is in one page, however it is asked for (s_page_search), unless the
\* user gave its name to a page.
THEOREM AlwaysOnePagePerFile ==
  ASSUME Texts \subseteq {TRUE}
  PROVE  Spec => []OnePagePerFile
<1>1. Init => Inv
  BY InvStarts
<1>2. Inv /\ [Next]_vars => Inv'
  BY InvStep
<1>3. Inv => OnePagePerFile
  BY DEF Inv, Good, OnePage, OnePagePerFile
<1> QED BY <1>1, <1>2, <1>3, PTL DEF Spec

\* The way up leads to the page from which the page was reached last, while that
\* is open, unless undo, redo or reverting has changed the link.
THEOREM AlwaysComesBack ==
  ASSUME Texts \subseteq {TRUE}
  PROVE  Spec => []ComesBackUnlessRelinked
<1>1. Init => Inv
  BY InvStarts
<1>2. Inv /\ [Next]_vars => Inv'
  BY InvStep
<1>3. Inv => ComesBackUnlessRelinked
  BY DEF Inv, Good, ComesBack, ComesBackUnlessRelinked
<1> QED BY <1>1, <1>2, <1>3, PTL DEF Spec

\* The search for circular dependencies ends: a circle of links has a page that
\* undo, redo or reverting has relinked.
THEOREM NeverACircle ==
  ASSUME Texts \subseteq {TRUE}
  PROVE  Spec => []NoCircleUnlessRelinked
<1>1. Init => Inv
  BY InvStarts
<1>2. Inv /\ [Next]_vars => Inv'
  BY InvStep
<1>3. Inv => NoCircleUnlessRelinked
  BY DEF Inv, Good, NoCircle, Circular, NoCircleUnlessRelinked
<1> QED BY <1>1, <1>2, <1>3, PTL DEF Spec
=============================================================================
