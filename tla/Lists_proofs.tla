----------------------------- MODULE Lists_proofs -----------------------------
(***************************************************************************)
(* Lemmas about the lists of module Lists, and of lists without doubles:    *)
(* what Filtered keeps, what AddedAll adds, and what inserting and removing *)
(* an element does.                                                        *)
(*                                                                         *)
(* The operators are recursive functions, so it first has to be shown that  *)
(* such functions exist.  The library's theorems on recursion and induction *)
(* have operators as parameters; UpTo is induction for a set of numbers.    *)
(***************************************************************************)
EXTENDS Lists, FiniteSetTheorems, SequenceTheorems, TLAPS

-----------------------------------------------------------------------------
(* Induction *)

\* A set of numbers that has, with each of them, all smaller ones, is an interval.
LEMMA Counted ==
  ASSUME NEW n \in Nat, NEW L \in SUBSET (1 .. n), \A i \in L : 1 .. i \in SUBSET L
  PROVE  /\ Cardinality(L) \in 0 .. n
         /\ \A i \in 1 .. n : i <= Cardinality(L) <=> i \in L
<1>1. \A m \in Nat : IsFiniteSet(1 .. m) /\ Cardinality(1 .. m) = m
  BY FS_Interval
<1>2. IsFiniteSet(L) /\ Cardinality(L) <= n /\ Cardinality(L) \in Nat
  <2>1. IsFiniteSet(1 .. n) /\ Cardinality(1 .. n) = n
    BY <1>1
  <2>2. IsFiniteSet(L) /\ Cardinality(L) <= Cardinality(1 .. n)
    BY <2>1, FS_Subset
  <2>3. Cardinality(L) \in Nat
    BY <2>2, FS_CardinalityType
  <2> QED BY <2>1, <2>2, <2>3
<1>3. ASSUME NEW i \in 1 .. n, i \in L PROVE i <= Cardinality(L)
  <2>1. Cardinality(1 .. i) <= Cardinality(L)
    BY <1>2, <1>3, FS_Subset
  <2>2. Cardinality(1 .. i) = i
    BY <1>1
  <2> QED BY <2>1, <2>2
<1>4. ASSUME NEW i \in 1 .. n, i \notin L PROVE ~(i <= Cardinality(L))
  <2>1. L \in SUBSET (1 .. i - 1)
    <3>1. ASSUME NEW m \in L, ~(m <= i - 1) PROVE FALSE
      <4>1. m \in 1 .. n /\ i \in 1 .. m
        BY <3>1
      <4> QED BY <1>4, <4>1
    <3>2. \A m \in L : m \in 1 .. n
      OBVIOUS
    <3> QED BY <3>1, <3>2
  <2>2. i - 1 \in Nat
    OBVIOUS
  <2>3. IsFiniteSet(1 .. i - 1) /\ Cardinality(1 .. i - 1) = i - 1
    BY <1>1, <2>2
  <2>4. Cardinality(L) <= Cardinality(1 .. i - 1)
    BY <2>1, <2>3, FS_Subset
  <2> QED BY <1>2, <2>3, <2>4
<1> QED BY <1>2, <1>3, <1>4

(* Induction: a set that has 0 and the successors of its members below N has
   every number up to N.                                                     *)
LEMMA UpTo ==
  ASSUME NEW N \in Nat, NEW G, 0 \in G, \A n \in 0 .. N - 1 : n \in G => n + 1 \in G
  PROVE  \A n \in 0 .. N : n \in G
<1> DEFINE L == {n \in 1 .. N + 1 : \A j \in 1 .. n : j - 1 \in G}
           c == Cardinality(L)
<1>1. /\ c \in 0 .. N + 1
      /\ \A i \in 1 .. N + 1 : i <= c <=> i \in L
  <2>1. L \in SUBSET (1 .. N + 1) /\ \A i \in L : 1 .. i \in SUBSET L
    OBVIOUS
  <2> HIDE DEF L
  <2> QED BY <2>1, Counted
<1>2. \A i \in 1 .. N + 1 : i \in L <=> \A j \in 1 .. i : j - 1 \in G
  OBVIOUS
<1> HIDE DEF c, L
<1>3. c = N + 1
  <2> SUFFICES ASSUME c # N + 1 PROVE FALSE
    OBVIOUS
  <2>1. c + 1 \in 1 .. N + 1 /\ c + 1 \notin L
    BY <1>1
  <2>2. PICK j \in 1 .. c + 1 : j - 1 \notin G
    BY <1>2, <2>1
  <2>3. \A i \in 1 .. c : i - 1 \in G
    <3>1. CASE c = 0
      BY <3>1
    <3>2. CASE c # 0
      <4>1. c \in 1 .. N + 1 /\ c \in L
        BY <1>1, <3>2
      <4> QED BY <1>2, <4>1
    <3> QED BY <3>1, <3>2
  <2>4. j = c + 1 /\ c \notin G
    BY <1>1, <2>2, <2>3
  <2>5. c # 0 /\ c - 1 \in G /\ c - 1 \in 0 .. N - 1
    BY <1>1, <2>1, <2>3, <2>4
  <2>6. (c - 1) + 1 \in G /\ (c - 1) + 1 = c
    BY <1>1, <2>5
  <2> QED BY <2>4, <2>6
<1>4. N + 1 \in L
  BY <1>1, <1>3
<1>5. \A j \in 1 .. N + 1 : j - 1 \in G
  BY <1>2, <1>4
<1> QED
  <2> TAKE n \in 0 .. N
  <2>1. n + 1 \in 1 .. N + 1 /\ (n + 1) - 1 = n
    OBVIOUS
  <2> QED BY <1>5, <2>1

IsChain(g, N, D, a, st) ==
  g \in [0 .. N -> D] /\ g[0] = a /\ \A n \in 1 .. N : g[n] = st[<<n, g[n - 1]>>]

\* A function on 0 .. N is made from its first value by going from each to the
\* next: what all recursive definitions on lists here come down to.
LEMMA Chained ==
  ASSUME NEW N \in Nat, NEW D, NEW a \in D, NEW st \in [(1 .. N) \X D -> D]
  PROVE  \E g : IsChain(g, N, D, a, st)
<1> DEFINE Good(m, g) == g[0] = a /\ \A n \in 1 .. m : g[n] = st[<<n, g[n - 1]>>]
           G == {m \in 0 .. N : \E g \in [0 .. m -> D] : Good(m, g)}
<1>1. 0 \in G
  <2> DEFINE h == [n \in 0 .. 0 |-> a]
  <2>1. h \in [0 .. 0 -> D] /\ Good(0, h)
    OBVIOUS
  <2> HIDE DEF h, Good
  <2> QED BY <2>1
<1>2. ASSUME NEW m \in 0 .. N - 1, m \in G PROVE m + 1 \in G
  <2>1. PICK g \in [0 .. m -> D] : Good(m, g)
    BY <1>2
  <2> DEFINE x == st[<<m + 1, g[m]>>]
             h == [n \in 0 .. m + 1 |-> IF n = m + 1 THEN x ELSE g[n]]
  <2>2. x \in D /\ m + 1 \in 0 .. N
    OBVIOUS
  <2>3. h \in [0 .. m + 1 -> D]
    <3> HIDE DEF x
    <3> QED BY <2>2
  <2>4. h[m + 1] = x /\ \A n \in 0 .. m : h[n] = g[n]
    OBVIOUS
  <2> HIDE DEF h
  <2>5. h[0] = a
    BY <2>1, <2>4
  <2>6. ASSUME NEW n \in 1 .. m + 1 PROVE h[n] = st[<<n, h[n - 1]>>]
    <3>1. CASE n = m + 1
      <4>1. n - 1 = m /\ h[n - 1] = g[m]
        BY <2>4, <3>1
      <4> QED BY <2>4, <3>1, <4>1
    <3>2. CASE n # m + 1
      <4>1. n \in 1 .. m /\ n \in 0 .. m /\ n - 1 \in 0 .. m
        BY <3>2
      <4> QED BY <2>1, <2>4, <4>1
    <3> QED BY <3>1, <3>2
  <2> QED BY <2>2, <2>3, <2>5, <2>6
<1>3. N \in G
  <2> HIDE DEF G
  <2> QED BY <1>1, <1>2, UpTo
<1> QED BY <1>3 DEF IsChain

IsRecursion(g, X, D, st) == g \in [X -> D] /\ \A x \in X : g[x] = st[<<x, g>>]

\* A function whose value at x depends on its values where the rank is smaller
\* exists.
LEMMA Ranked ==
  ASSUME NEW X, NEW D, NEW d0 \in D, NEW st \in [X \X [X -> D] -> D],
         NEW N \in Nat, NEW rank \in [X -> 0 .. N],
         \A x \in X : \A g, h \in [X -> D] :
           (\A y \in X : rank[y] < rank[x] => g[y] = h[y]) => st[<<x, g>>] = st[<<x, h>>]
  PROVE  \E g : IsRecursion(g, X, D, st)
<1> DEFINE Good(n, g) == \A x \in X : rank[x] < n => g[x] = st[<<x, g>>]
           G == {n \in 0 .. N + 1 : \E g \in [X -> D] : Good(n, g)}
<1>1. 0 \in G
  <2> DEFINE h == [x \in X |-> d0]
  <2>1. h \in [X -> D] /\ Good(0, h)
    OBVIOUS
  <2> HIDE DEF h, Good
  <2> QED BY <2>1
<1>2. ASSUME NEW n \in 0 .. (N + 1) - 1, n \in G PROVE n + 1 \in G
  <2>1. PICK g \in [X -> D] : Good(n, g)
    BY <1>2
  <2> DEFINE h == [x \in X |-> IF rank[x] = n THEN st[<<x, g>>] ELSE g[x]]
  <2>2. h \in [X -> D]
    OBVIOUS
  <2>3. \A x \in X : h[x] = IF rank[x] = n THEN st[<<x, g>>] ELSE g[x]
    OBVIOUS
  <2> HIDE DEF h
  <2>4. ASSUME NEW x \in X, rank[x] < n + 1 PROVE h[x] = st[<<x, h>>]
    <3>1. ASSUME NEW y \in X, rank[y] < rank[x] PROVE g[y] = h[y]
      <4>1. rank[x] \in 0 .. N /\ rank[y] \in 0 .. N
        OBVIOUS
      <4>2. rank[y] # n
        BY <2>4, <3>1, <4>1
      <4> QED BY <2>3, <4>2
    <3>2. st[<<x, g>>] = st[<<x, h>>]
      BY <2>2, <3>1
    <3>3. CASE rank[x] = n
      BY <2>3, <3>2, <3>3
    <3>4. CASE rank[x] # n
      <4>1. rank[x] < n
        BY <2>4, <3>4
      <4> QED BY <2>1, <2>3, <3>2, <3>4, <4>1
    <3> QED BY <3>3, <3>4
  <2>5. n + 1 \in 0 .. N + 1
    OBVIOUS
  <2> QED BY <2>2, <2>4, <2>5
<1>3. N + 1 \in G
  <2> HIDE DEF G
  <2>1. \A n \in 0 .. N + 1 : n \in G
    BY <1>1, <1>2, UpTo
  <2> QED BY <2>1
<1>4. PICK g \in [X -> D] : Good(N + 1, g)
  BY <1>3
<1>5. \A x \in X : rank[x] < N + 1
  OBVIOUS
<1> QED BY <1>4, <1>5 DEF IsRecursion

-----------------------------------------------------------------------------
(* Filtered *)

KeptFrom(s, S, N, g) ==
  [n \in 0 .. N |-> IF n = 0 THEN <<>>
                    ELSE IF s[n] \in S THEN Append(g[n - 1], s[n]) ELSE g[n - 1]]

Kept(s, S) == CHOOSE g : g = KeptFrom(s, S, Len(s), g)

\* Filtered is the last of the prefixes it is built from.
LEMMA FilteredIsKept == ASSUME NEW s, NEW S PROVE Filtered(s, S) = Kept(s, S)[Len(s)]
BY DEF Filtered, Kept, KeptFrom

\* The recursive function by which Filtered is defined exists.
LEMMA KeptExists ==
  ASSUME NEW s, NEW S, NEW N \in Nat
  PROVE  \E g : g = KeptFrom(s, S, N, g)
<1> DEFINE G == {n \in Nat : \E g : g = KeptFrom(s, S, n, g)}
<1>1. 0 \in G
  <2>1. [n \in 0 .. 0 |-> <<>>] = KeptFrom(s, S, 0, [n \in 0 .. 0 |-> <<>>])
    BY DEF KeptFrom
  <2> QED BY <2>1
<1>2. ASSUME NEW n \in 0 .. N - 1, n \in G PROVE n + 1 \in G
  <2>1. PICK g : g = KeptFrom(s, S, n, g)
    BY <1>2
  <2> DEFINE step == IF s[n + 1] \in S THEN Append(g[n], s[n + 1]) ELSE g[n]
             h == [m \in 0 .. n + 1 |-> IF m = n + 1 THEN step ELSE g[m]]
             k == KeptFrom(s, S, n + 1, h)
  <2>2. \A m \in 0 .. n : g[m] = IF m = 0 THEN <<>>
                          ELSE IF s[m] \in S THEN Append(g[m - 1], s[m]) ELSE g[m - 1]
    BY <2>1 DEF KeptFrom
  <2>3. ASSUME NEW m \in 0 .. n + 1 PROVE h[m] = k[m]
    <3>1. k[m] = IF m = 0 THEN <<>>
                 ELSE IF s[m] \in S THEN Append(h[m - 1], s[m]) ELSE h[m - 1]
      BY DEF KeptFrom
    <3>2. m # 0 => m - 1 \in 0 .. n /\ h[m - 1] = g[m - 1]
      OBVIOUS
    <3>3. CASE m = n + 1
      <4>1. m # 0 /\ m - 1 = n /\ h[m] = step
        BY <3>3
      <4> HIDE DEF h, k
      <4> QED BY <3>1, <3>2, <3>3, <4>1
    <3>4. CASE m # n + 1
      <4>1. h[m] = g[m] /\ m \in 0 .. n
        BY <3>4
      <4> HIDE DEF h, k
      <4> QED BY <2>2, <3>1, <3>2, <4>1
    <3> QED BY <3>3, <3>4
  <2>4. h = [m \in 0 .. n + 1 |-> h[m]] /\ k = [m \in 0 .. n + 1 |-> k[m]]
    BY DEF KeptFrom
  <2> HIDE DEF h
  <2>5. h = k
    <3> HIDE DEF k
    <3> QED BY <2>3, <2>4
  <2>6. n + 1 \in Nat
    OBVIOUS
  <2> QED BY <2>5, <2>6
<1> HIDE DEF G
<1>3. N \in G
  BY <1>1, <1>2, UpTo
<1> QED BY <1>3 DEF G

\* What it is at zero, and from one length to the next.
LEMMA KeptSteps ==
  ASSUME NEW T, NEW s \in Seq(T), NEW S
  PROVE  /\ Kept(s, S)[0] = <<>>
         /\ \A n \in 0 .. Len(s) - 1 :
              Kept(s, S)[n + 1] = IF s[n + 1] \in S THEN Append(Kept(s, S)[n], s[n + 1])
                                  ELSE Kept(s, S)[n]
<1>1. Len(s) \in Nat
  BY LenProperties
<1>2. \E g : g = KeptFrom(s, S, Len(s), g)
  BY <1>1, KeptExists
<1>3. Kept(s, S) = KeptFrom(s, S, Len(s), Kept(s, S))
  BY <1>2 DEF Kept
<1> DEFINE k == Kept(s, S)
<1> HIDE DEF k
<1>4. k = [n \in 0 .. Len(s) |-> IF n = 0 THEN <<>>
                    ELSE IF s[n] \in S THEN Append(k[n - 1], s[n]) ELSE k[n - 1]]
  BY <1>3 DEF k, KeptFrom
<1>5. k[0] = <<>>
  BY <1>1, <1>4
<1>6. ASSUME NEW n \in 0 .. Len(s) - 1
      PROVE  k[n + 1] = IF s[n + 1] \in S THEN Append(k[n], s[n + 1]) ELSE k[n]
  <2>1. n + 1 \in 0 .. Len(s) /\ n + 1 # 0 /\ (n + 1) - 1 = n
    BY <1>1
  <2>2. k[n + 1] = IF s[n + 1] \in S THEN Append(k[(n + 1) - 1], s[n + 1]) ELSE k[(n + 1) - 1]
    BY <1>4, <2>1
  <2> QED BY <2>1, <2>2
<1> QED BY <1>5, <1>6 DEF k

-----------------------------------------------------------------------------
(* Lists without doubles *)

\* The positions and the elements of a list.
LEMMA Listed ==
  ASSUME NEW T, NEW s \in Seq(T)
  PROVE  /\ Len(s) \in Nat /\ DOMAIN s = 1 .. Len(s)
         /\ ToSet(s) = {s[i] : i \in 1 .. Len(s)}
         /\ ToSet(s) \subseteq T
         /\ \A i \in 1 .. Len(s) : s[i] \in T
<1>1. Len(s) \in Nat /\ DOMAIN s = 1 .. Len(s) /\ s \in [1 .. Len(s) -> T]
  BY LenProperties
<1> QED BY <1>1 DEF ToSet

\* The empty list has no elements and repeats none.
LEMMA EmptyListed == ToSet(<<>>) = {} /\ IsInjective(<<>>)
BY DEF ToSet, IsInjective

\* Appending adds one element, and repeats none if the element is new.
LEMMA AppendListed ==
  ASSUME NEW T, NEW s \in Seq(T), NEW x \in T
  PROVE  /\ Append(s, x) \in Seq(T)
         /\ ToSet(Append(s, x)) = ToSet(s) \cup {x}
         /\ IsInjective(s) /\ x \notin ToSet(s) => IsInjective(Append(s, x))
<1> DEFINE u == Append(s, x)
<1>1. /\ u \in Seq(T) /\ Len(u) = Len(s) + 1
      /\ \A i \in 1 .. Len(s) : u[i] = s[i]
      /\ u[Len(s) + 1] = x
  BY AppendProperties
<1> HIDE DEF u
<1>2. Len(s) \in Nat /\ DOMAIN s = 1 .. Len(s) /\ ToSet(s) = {s[i] : i \in 1 .. Len(s)}
  BY Listed
<1>3. DOMAIN u = 1 .. Len(s) + 1 /\ ToSet(u) = {u[i] : i \in 1 .. Len(s) + 1}
  BY <1>1, Listed
<1>4. ToSet(u) = ToSet(s) \cup {x}
  <2>1. ASSUME NEW y \in ToSet(u) PROVE y \in ToSet(s) \cup {x}
    <3>1. PICK i \in 1 .. Len(s) + 1 : y = u[i]
      BY <1>3, <2>1
    <3>2. i \in 1 .. Len(s) \/ i = Len(s) + 1
      BY <1>2
    <3> QED BY <1>1, <1>2, <3>1, <3>2
  <2>2. ASSUME NEW y \in ToSet(s) PROVE y \in ToSet(u)
    <3>1. PICK i \in 1 .. Len(s) : y = s[i]
      BY <1>2, <2>2
    <3>2. i \in 1 .. Len(s) + 1 /\ y = u[i]
      BY <1>1, <1>2, <3>1
    <3> QED BY <1>3, <3>2
  <2>3. x \in ToSet(u)
    <3>1. Len(s) + 1 \in 1 .. Len(s) + 1
      BY <1>2
    <3> QED BY <1>1, <1>3, <3>1
  <2> QED BY <2>1, <2>2, <2>3
<1>5. ASSUME IsInjective(s), x \notin ToSet(s) PROVE IsInjective(u)
  <2>1. SUFFICES ASSUME NEW i \in 1 .. Len(s) + 1, NEW j \in 1 .. Len(s) + 1, u[i] = u[j]
                 PROVE  i = j
    BY <1>3 DEF IsInjective
  <2>2. \A a, b \in 1 .. Len(s) : s[a] = s[b] => a = b
    BY <1>2, <1>5 DEF IsInjective
  <2>3. \A a \in 1 .. Len(s) : s[a] # x
    BY <1>2, <1>5
  <2>4. CASE i \in 1 .. Len(s) /\ j \in 1 .. Len(s)
    <3>1. s[i] = s[j]
      BY <1>1, <2>1, <2>4
    <3> QED BY <2>2, <2>4, <3>1
  <2>5. CASE i \in 1 .. Len(s) /\ j = Len(s) + 1
    BY <1>1, <2>1, <2>3, <2>5
  <2>6. CASE i = Len(s) + 1 /\ j \in 1 .. Len(s)
    BY <1>1, <2>1, <2>3, <2>6
  <2>7. CASE i = Len(s) + 1 /\ j = Len(s) + 1
    BY <2>7
  <2>8. (i \in 1 .. Len(s) \/ i = Len(s) + 1) /\ (j \in 1 .. Len(s) \/ j = Len(s) + 1)
    BY <1>2
  <2> QED BY <2>4, <2>5, <2>6, <2>7, <2>8
<1> QED BY <1>1, <1>4, <1>5 DEF u

\* A concatenation has the elements of both lists, and repeats none if
\* neither does and they share none.
LEMMA ConcatListed ==
  ASSUME NEW T, NEW s \in Seq(T), NEW t \in Seq(T)
  PROVE  /\ s \o t \in Seq(T)
         /\ ToSet(s \o t) = ToSet(s) \cup ToSet(t)
         /\ IsInjective(s) /\ IsInjective(t) /\ ToSet(s) \cap ToSet(t) = {}
              => IsInjective(s \o t)
<1> DEFINE u == s \o t  m == Len(s)  n == Len(t)
<1>1. u \in Seq(T) /\ Len(u) = m + n
  BY ConcatProperties
<1>2. ASSUME NEW i \in 1 .. m + n PROVE u[i] = IF i <= m THEN s[i] ELSE t[i - m]
  BY ConcatProperties
<1> HIDE DEF u
<1>3. m \in Nat /\ DOMAIN s = 1 .. m /\ ToSet(s) = {s[i] : i \in 1 .. m}
  BY Listed
<1>4. n \in Nat /\ DOMAIN t = 1 .. n /\ ToSet(t) = {t[i] : i \in 1 .. n}
  BY Listed
<1>5. DOMAIN u = 1 .. m + n /\ ToSet(u) = {u[i] : i \in 1 .. m + n}
  BY <1>1, Listed
<1> HIDE DEF m, n
<1>6. ASSUME NEW i \in 1 .. m + n
      PROVE  \/ i \in 1 .. m /\ u[i] = s[i]
             \/ i \notin 1 .. m /\ i - m \in 1 .. n /\ u[i] = t[i - m]
  BY <1>2, <1>3, <1>4
<1>7. ToSet(u) = ToSet(s) \cup ToSet(t)
  <2>1. ASSUME NEW y \in ToSet(u) PROVE y \in ToSet(s) \cup ToSet(t)
    <3>1. PICK i \in 1 .. m + n : y = u[i]
      BY <1>5, <2>1
    <3> QED BY <1>3, <1>4, <1>6, <3>1
  <2>2. ASSUME NEW y \in ToSet(s) PROVE y \in ToSet(u)
    <3>1. PICK i \in 1 .. m : y = s[i]
      BY <1>3, <2>2
    <3>2. i \in 1 .. m + n /\ y = u[i]
      BY <1>2, <1>3, <1>4, <3>1
    <3> QED BY <1>5, <3>2
  <2>3. ASSUME NEW y \in ToSet(t) PROVE y \in ToSet(u)
    <3>1. PICK i \in 1 .. n : y = t[i]
      BY <1>4, <2>3
    <3>2. m + i \in 1 .. m + n /\ ~(m + i <= m) /\ (m + i) - m = i
      BY <1>3, <1>4
    <3>3. u[m + i] = y
      BY <1>2, <3>1, <3>2
    <3> QED BY <1>5, <3>2, <3>3
  <2> QED BY <2>1, <2>2, <2>3
<1>8. ASSUME IsInjective(s), IsInjective(t), ToSet(s) \cap ToSet(t) = {} PROVE IsInjective(u)
  <2>1. SUFFICES ASSUME NEW i \in 1 .. m + n, NEW j \in 1 .. m + n, u[i] = u[j]
                 PROVE  i = j
    BY <1>5 DEF IsInjective
  <2>2. \A a, b \in 1 .. m : s[a] = s[b] => a = b
    BY <1>3, <1>8 DEF IsInjective
  <2>3. \A a, b \in 1 .. n : t[a] = t[b] => a = b
    BY <1>4, <1>8 DEF IsInjective
  <2>4. \A a \in 1 .. m, b \in 1 .. n : s[a] # t[b]
    <3>1. ASSUME NEW a \in 1 .. m, NEW b \in 1 .. n PROVE s[a] # t[b]
      <4>1. s[a] \in ToSet(s) /\ t[b] \in ToSet(t)
        BY <1>3, <1>4
      <4> QED BY <1>8, <4>1
    <3> QED BY <3>1
  <2>5. CASE i \in 1 .. m /\ j \in 1 .. m
    <3>1. s[i] = s[j]
      BY <1>6, <2>1, <2>5
    <3> QED BY <2>2, <2>5, <3>1
  <2>6. CASE i \notin 1 .. m /\ j \notin 1 .. m
    <3>1. i - m \in 1 .. n /\ j - m \in 1 .. n /\ t[i - m] = t[j - m]
      BY <1>6, <2>1, <2>6
    <3>2. i - m = j - m
      BY <2>3, <3>1
    <3> QED BY <1>3, <3>2
  <2>7. CASE i \in 1 .. m /\ j \notin 1 .. m
    BY <1>6, <2>1, <2>4, <2>7
  <2>8. CASE i \notin 1 .. m /\ j \in 1 .. m
    BY <1>6, <2>1, <2>4, <2>8
  <2> QED BY <2>5, <2>6, <2>7, <2>8
<1> QED BY <1>1, <1>7, <1>8 DEF u

-----------------------------------------------------------------------------
(* What Filtered keeps *)

Cut(s, S, n) == {s[i] : i \in 1 .. n} \cap S

\* The prefixes Filtered is built from have the elements in S seen so far, each
\* once if the list has no doubles.
LEMMA FilteredSteps ==
  ASSUME NEW T, NEW s \in Seq(T), NEW S, NEW n \in 0 .. Len(s)
  PROVE  /\ Kept(s, S)[n] \in Seq(T)
         /\ ToSet(Kept(s, S)[n]) = Cut(s, S, n)
         /\ IsInjective(s) => IsInjective(Kept(s, S)[n])
<1> DEFINE k == Kept(s, S)
           Good(m) == /\ k[m] \in Seq(T)
                      /\ ToSet(k[m]) = Cut(s, S, m)
                      /\ IsInjective(s) => IsInjective(k[m])
           G == {m \in 0 .. Len(s) : Good(m)}
<1>1. Len(s) \in Nat /\ DOMAIN s = 1 .. Len(s) /\ \A i \in 1 .. Len(s) : s[i] \in T
  BY Listed
<1>2. k[0] = <<>>
  BY KeptSteps
<1>3. ASSUME NEW m \in 0 .. Len(s) - 1
      PROVE  k[m + 1] = IF s[m + 1] \in S THEN Append(k[m], s[m + 1]) ELSE k[m]
  BY KeptSteps
<1> HIDE DEF k
<1>4. Good(0)
  <2>1. Cut(s, S, 0) = {}
    BY DEF Cut
  <2>2. <<>> \in Seq(T)
    BY EmptySeq
  <2> QED BY <1>2, <2>1, <2>2, EmptyListed
<1>5. ASSUME NEW m \in 0 .. Len(s) - 1, Good(m) PROVE Good(m + 1)
  <2>1. m + 1 \in 1 .. Len(s) /\ s[m + 1] \in T
    BY <1>1
  <2>2. {s[i] : i \in 1 .. m + 1} = {s[i] : i \in 1 .. m} \cup {s[m + 1]}
    <3>1. 1 .. m + 1 = (1 .. m) \cup {m + 1}
      OBVIOUS
    <3> QED BY <3>1
  <2>3. CASE s[m + 1] \notin S
    <3>1. k[m + 1] = k[m]
      BY <1>3, <2>3
    <3>2. Cut(s, S, m + 1) = Cut(s, S, m)
      BY <2>2, <2>3 DEF Cut
    <3> QED BY <1>5, <3>1, <3>2
  <2>4. CASE s[m + 1] \in S
    <3>1. k[m + 1] = Append(k[m], s[m + 1])
      BY <1>3, <2>4
    <3>2. Cut(s, S, m + 1) = Cut(s, S, m) \cup {s[m + 1]}
      BY <2>2, <2>4 DEF Cut
    <3>3. /\ Append(k[m], s[m + 1]) \in Seq(T)
          /\ ToSet(Append(k[m], s[m + 1])) = ToSet(k[m]) \cup {s[m + 1]}
          /\ IsInjective(k[m]) /\ s[m + 1] \notin ToSet(k[m])
               => IsInjective(Append(k[m], s[m + 1]))
      BY <1>5, <2>1, AppendListed
    <3>4. IsInjective(s) => s[m + 1] \notin ToSet(k[m])
      <4>1. ASSUME IsInjective(s), s[m + 1] \in {s[i] : i \in 1 .. m} PROVE FALSE
        <5>1. PICK i \in 1 .. m : s[m + 1] = s[i]
          BY <4>1
        <5>2. i \in 1 .. Len(s) /\ i # m + 1
          BY <1>1
        <5> QED BY <1>1, <2>1, <4>1, <5>1, <5>2 DEF IsInjective
      <4> QED BY <1>5, <4>1 DEF Cut
    <3> QED BY <1>5, <3>1, <3>2, <3>3, <3>4
  <2> QED BY <2>3, <2>4
<1>6. 0 \in G /\ \A m \in 0 .. Len(s) - 1 : m \in G => m + 1 \in G
  <2> HIDE DEF Good
  <2>1. 0 \in 0 .. Len(s) /\ \A m \in 0 .. Len(s) - 1 : m + 1 \in 0 .. Len(s)
    BY <1>1
  <2> QED BY <1>4, <1>5, <2>1
<1>7. \A m \in 0 .. Len(s) : m \in G
  <2> HIDE DEF G
  <2> QED BY <1>1, <1>6, UpTo
<1> QED BY <1>7 DEF k

\* Filtered keeps the elements in S, and repeats none if the list does not.
LEMMA FilteredListed ==
  ASSUME NEW T, NEW s \in Seq(T), NEW S
  PROVE  /\ Filtered(s, S) \in Seq(T)
         /\ ToSet(Filtered(s, S)) = ToSet(s) \cap S
         /\ IsInjective(s) => IsInjective(Filtered(s, S))
<1>1. Len(s) \in 0 .. Len(s)
  BY Listed
<1>2. Filtered(s, S) = Kept(s, S)[Len(s)]
  BY FilteredIsKept
<1>3. Cut(s, S, Len(s)) = ToSet(s) \cap S
  BY Listed DEF Cut
<1> QED BY <1>1, <1>2, <1>3, FilteredSteps

-----------------------------------------------------------------------------
(* What AddedOnce and AddedAll add *)

\* An element is there afterwards, and no more often than before.
LEMMA AddedOnceListed ==
  ASSUME NEW T, NEW l \in Seq(T), NEW x \in T
  PROVE  /\ AddedOnce(l, x) \in Seq(T)
         /\ ToSet(AddedOnce(l, x)) = ToSet(l) \cup {x}
         /\ IsInjective(l) => IsInjective(AddedOnce(l, x))
<1>1. CASE x \in ToSet(l)
  BY <1>1 DEF AddedOnce
<1>2. CASE x \notin ToSet(l)
  BY <1>2, AppendListed DEF AddedOnce
<1> QED BY <1>1, <1>2

AddedFrom(l, s, g) ==
  [n \in 0 .. Len(s) |-> IF n = 0 THEN l ELSE AddedOnce(g[n - 1], s[n])]

AddedUp(l, s) == CHOOSE g : g = AddedFrom(l, s, g)

\* All elements are there afterwards, and none more often than before.
LEMMA AddedAllListed ==
  ASSUME NEW T, NEW l \in Seq(T), NEW s \in Seq(T)
  PROVE  /\ AddedAll(l, s) \in Seq(T)
         /\ ToSet(AddedAll(l, s)) = ToSet(l) \cup ToSet(s)
         /\ IsInjective(l) => IsInjective(AddedAll(l, s))
<1> DEFINE N == Len(s)
           st == [p \in (1 .. N) \X Seq(T) |-> AddedOnce(p[2], s[p[1]])]
           k == AddedUp(l, s)
<1>1. /\ N \in Nat /\ DOMAIN s = 1 .. N /\ ToSet(s) = {s[i] : i \in 1 .. N}
      /\ \A i \in 1 .. N : s[i] \in T
  BY Listed
<1>2. st \in [(1 .. N) \X Seq(T) -> Seq(T)]
  BY <1>1, AddedOnceListed
<1>3. \A n \in 1 .. N, x \in Seq(T) : st[<<n, x>>] = AddedOnce(x, s[n])
  OBVIOUS
<1> HIDE DEF st, N
<1> DEFINE D == Seq(T)
<1> HIDE DEF D
<1>4. PICK g \in [0 .. N -> Seq(T)] : g[0] = l /\ \A n \in 1 .. N : g[n] = st[<<n, g[n - 1]>>]
  <2>1. st \in [(1 .. N) \X D -> D] /\ l \in D
    BY <1>2 DEF D
  <2>2. \E g : IsChain(g, N, D, l, st)
    BY <1>1, <2>1, Chained
  <2> QED BY <2>2 DEF D, IsChain
<1>5. g = AddedFrom(l, s, g)
  <2>1. ASSUME NEW n \in 0 .. N
        PROVE  g[n] = IF n = 0 THEN l ELSE AddedOnce(g[n - 1], s[n])
    <3>1. CASE n = 0
      BY <1>4, <3>1
    <3>2. CASE n # 0
      <4>1. n \in 1 .. N /\ n - 1 \in 0 .. N
        BY <1>1, <3>2
      <4>2. g[n] = st[<<n, g[n - 1]>>] /\ g[n - 1] \in Seq(T)
        BY <1>4, <4>1
      <4> QED BY <1>3, <3>2, <4>1, <4>2
    <3> QED BY <3>1, <3>2
  <2> QED BY <1>4, <2>1 DEF AddedFrom, N
<1>6. k = AddedFrom(l, s, k)
  BY <1>5 DEF AddedUp
<1> HIDE DEF k
<1>7. k[0] = l /\ \A n \in 0 .. N - 1 : k[n + 1] = AddedOnce(k[n], s[n + 1])
  <2>1. \A n \in 0 .. N : k[n] = IF n = 0 THEN l ELSE AddedOnce(k[n - 1], s[n])
    BY <1>6 DEF AddedFrom, N
  <2>2. ASSUME NEW n \in 0 .. N - 1 PROVE k[n + 1] = AddedOnce(k[n], s[n + 1])
    <3>1. n + 1 \in 0 .. N /\ n + 1 # 0 /\ (n + 1) - 1 = n
      BY <1>1
    <3>2. k[n + 1] = AddedOnce(k[(n + 1) - 1], s[n + 1])
      BY <2>1, <3>1
    <3> QED BY <3>1, <3>2
  <2> QED BY <1>1, <2>1, <2>2
<1> DEFINE Good(m) == /\ k[m] \in Seq(T)
                      /\ ToSet(k[m]) = ToSet(l) \cup {s[i] : i \in 1 .. m}
                      /\ IsInjective(l) => IsInjective(k[m])
           G == {m \in 0 .. N : Good(m)}
<1>8. 0 \in G
  BY <1>1, <1>7
<1>9. ASSUME NEW m \in 0 .. N - 1, m \in G PROVE m + 1 \in G
  <2>1. m + 1 \in 1 .. N /\ m + 1 \in 0 .. N /\ s[m + 1] \in T
    BY <1>1
  <2>2. {s[i] : i \in 1 .. m + 1} = {s[i] : i \in 1 .. m} \cup {s[m + 1]}
    <3>1. 1 .. m + 1 = (1 .. m) \cup {m + 1}
      OBVIOUS
    <3> QED BY <3>1
  <2>3. k[m + 1] = AddedOnce(k[m], s[m + 1])
    BY <1>7
  <2>4. Good(m)
    BY <1>9
  <2> DEFINE x == s[m + 1]  l1 == k[m]
  <2>5. /\ AddedOnce(l1, x) \in Seq(T)
        /\ ToSet(AddedOnce(l1, x)) = ToSet(l1) \cup {x}
        /\ IsInjective(l1) => IsInjective(AddedOnce(l1, x))
    <3>1. l1 \in Seq(T) /\ x \in T
      BY <2>1, <2>4
    <3> HIDE DEF l1, x
    <3> QED BY <3>1, AddedOnceListed
  <2>6. Good(m + 1)
    BY <2>2, <2>3, <2>4, <2>5
  <2> QED BY <2>1, <2>6
<1>10. N \in G
  <2> HIDE DEF G
  <2>1. \A n \in 0 .. N : n \in G
    BY <1>1, <1>8, <1>9, UpTo
  <2> QED BY <1>1, <2>1
<1>11. AddedAll(l, s) = k[N]
  BY DEF AddedAll, k, AddedUp, AddedFrom, N
<1> QED BY <1>1, <1>10, <1>11

\* Taking out one element.
LEMMA RemovingListed ==
  ASSUME NEW T, NEW l \in Seq(T), NEW x
  PROVE  /\ Removing(l, x) \in Seq(T)
         /\ ToSet(Removing(l, x)) = ToSet(l) \ {x}
         /\ IsInjective(l) => IsInjective(Removing(l, x))
BY FilteredListed DEF Removing

-----------------------------------------------------------------------------
(* What FlattenSeq puts together *)

FlatFrom(q, g) == [i \in 1 .. Len(q) |-> IF i = 1 THEN q[i] ELSE g[i - 1] \o q[i]]

Flat(q) == CHOOSE g : g = FlatFrom(q, g)

\* The concatenations FlattenSeq is built from.
LEMMA FlattenSteps ==
  ASSUME NEW T, NEW q \in Seq(Seq(T)), q # <<>>
  PROVE  /\ Flat(q)[1] = q[1]
         /\ \A n \in 1 .. Len(q) - 1 : Flat(q)[n + 1] = Flat(q)[n] \o q[n + 1]
         /\ FlattenSeq(q) = Flat(q)[Len(q)]
<1> DEFINE N == Len(q)
           st == [p \in (1 .. N) \X Seq(T) |-> p[2] \o q[p[1]]]
           k == Flat(q)
<1>1. N \in Nat /\ N # 0 /\ DOMAIN q = 1 .. N /\ \A i \in 1 .. N : q[i] \in Seq(T)
  BY Listed
<1>2. st \in [(1 .. N) \X Seq(T) -> Seq(T)]
  BY <1>1, ConcatListed
<1>3. \A n \in 1 .. N, x \in Seq(T) : st[<<n, x>>] = x \o q[n]
  OBVIOUS
<1>4. <<>> \in Seq(T)
  BY EmptySeq
<1> HIDE DEF st, N
<1> DEFINE D == Seq(T)  a == <<>>
<1> HIDE DEF D, a
<1>5. PICK g \in [0 .. N -> Seq(T)] : g[0] = <<>> /\ \A n \in 1 .. N : g[n] = st[<<n, g[n - 1]>>]
  <2>1. st \in [(1 .. N) \X D -> D] /\ a \in D
    BY <1>2, <1>4 DEF D, a
  <2>2. \E g : IsChain(g, N, D, a, st)
    BY <1>1, <2>1, Chained
  <2> QED BY <2>2 DEF D, a, IsChain
<1>6. ASSUME NEW n \in 1 .. N PROVE g[n] = g[n - 1] \o q[n] /\ g[n - 1] \in Seq(T)
  <2>1. n - 1 \in 0 .. N
    BY <1>1
  <2> QED BY <1>3, <1>5, <2>1
<1> DEFINE h == [i \in 1 .. N |-> g[i]]
<1>7. h = FlatFrom(q, h)
  <2>1. ASSUME NEW i \in 1 .. N PROVE h[i] = IF i = 1 THEN q[i] ELSE h[i - 1] \o q[i]
    <3>1. CASE i = 1
      <4>1. g[i - 1] = <<>> /\ q[i] \in Seq(T)
        BY <1>1, <1>5, <3>1
      <4>2. <<>> \o q[i] = q[i]
        BY <4>1, ConcatEmptySeq
      <4> QED BY <1>6, <3>1, <4>1, <4>2
    <3>2. CASE i # 1
      <4>1. i - 1 \in 1 .. N
        BY <1>1, <3>2
      <4> QED BY <1>6, <3>2, <4>1
    <3> QED BY <3>1, <3>2
  <2> QED BY <2>1 DEF FlatFrom, N
<1>8. k = FlatFrom(q, k)
  BY <1>7 DEF Flat
<1> HIDE DEF k, h
<1>9. /\ k[1] = q[1]
      /\ \A n \in 1 .. N - 1 : k[n + 1] = k[n] \o q[n + 1]
  <2>1. \A i \in 1 .. N : k[i] = IF i = 1 THEN q[i] ELSE k[i - 1] \o q[i]
    BY <1>8 DEF FlatFrom, N
  <2>2. ASSUME NEW n \in 1 .. N - 1 PROVE k[n + 1] = k[n] \o q[n + 1]
    <3>1. n + 1 \in 1 .. N /\ n + 1 # 1 /\ (n + 1) - 1 = n
      BY <1>1
    <3>2. k[n + 1] = k[(n + 1) - 1] \o q[n + 1]
      BY <2>1, <3>1
    <3> QED BY <3>1, <3>2
  <2>3. 1 \in 1 .. N
    BY <1>1
  <2> QED BY <2>1, <2>2, <2>3
<1>10. FlattenSeq(q) = k[N]
  BY <1>1 DEF FlattenSeq, k, Flat, FlatFrom, N
<1> QED BY <1>9, <1>10 DEF k, N

\* The elements of all lists; none twice if no list has one twice and no two
\* have one in common.
LEMMA FlattenListed ==
  ASSUME NEW T, NEW q \in Seq(Seq(T))
  PROVE  /\ FlattenSeq(q) \in Seq(T)
         /\ ToSet(FlattenSeq(q)) = UNION {ToSet(q[i]) : i \in DOMAIN q}
         /\ /\ \A i \in DOMAIN q : IsInjective(q[i])
            /\ \A i, j \in DOMAIN q : i # j => ToSet(q[i]) \cap ToSet(q[j]) = {}
            => IsInjective(FlattenSeq(q))
<1> DEFINE N == Len(q)
           k == Flat(q)
           Once == /\ \A i \in DOMAIN q : IsInjective(q[i])
                   /\ \A i, j \in DOMAIN q : i # j => ToSet(q[i]) \cap ToSet(q[j]) = {}
<1>1. N \in Nat /\ DOMAIN q = 1 .. N /\ \A i \in 1 .. N : q[i] \in Seq(T)
  BY Listed
<1>2. CASE N = 0
  <2>1. q = <<>> /\ FlattenSeq(q) = q /\ DOMAIN q = {}
    BY <1>1, <1>2, EmptySeq DEF FlattenSeq
  <2>2. <<>> \in Seq(T)
    BY EmptySeq
  <2> QED BY <2>1, <2>2, EmptyListed
<1>3. CASE N # 0
  <2>8. /\ k[1] = q[1]
        /\ \A n \in 1 .. N - 1 : k[n + 1] = k[n] \o q[n + 1]
        /\ FlattenSeq(q) = k[N]
    <3>1. q # <<>>
      BY <1>3
    <3> QED BY <3>1, FlattenSteps
  <2> HIDE DEF k, N
  <2> DEFINE Good(m) == /\ k[m] \in Seq(T)
                        /\ \A x : x \in ToSet(k[m]) <=> \E i \in 1 .. m : x \in ToSet(q[i])
                        /\ Once => IsInjective(k[m])
             G == {m \in 0 .. N - 1 : Good(m + 1)}
  <2> HIDE DEF Once
  <2>9. 0 \in G
    <3>1. 1 \in 1 .. N /\ 0 \in 0 .. N - 1 /\ 0 + 1 = 1
      BY <1>1, <1>3
    <3>2. \A x : x \in ToSet(q[1]) <=> \E i \in 1 .. 1 : x \in ToSet(q[i])
      OBVIOUS
    <3>3. Once => IsInjective(q[1])
      BY <1>1, <3>1 DEF Once
    <3>4. Good(1)
      BY <1>1, <2>8, <3>1, <3>2, <3>3
    <3> HIDE DEF Good
    <3> QED BY <3>1, <3>4
  <2>10. ASSUME NEW n \in 0 .. (N - 1) - 1, n \in G PROVE n + 1 \in G
    <3> DEFINE m == n + 1
    <3>1. m \in 1 .. N - 1 /\ m + 1 \in 1 .. N /\ m \in 0 .. N - 1 /\ q[m + 1] \in Seq(T)
      BY <1>1
    <3>2. Good(m)
      BY <2>10
    <3> HIDE DEF m
    <3>3. ASSUME NEW x PROVE (\E i \in 1 .. m + 1 : x \in ToSet(q[i])) <=>
                               (\E i \in 1 .. m : x \in ToSet(q[i])) \/ x \in ToSet(q[m + 1])
      <4>1. 1 .. m + 1 = (1 .. m) \cup {m + 1}
        BY <3>1
      <4> QED BY <4>1
    <3>4. k[m + 1] = k[m] \o q[m + 1]
      BY <2>8, <3>1
    <3>5. Once => ToSet(k[m]) \cap ToSet(q[m + 1]) = {} /\ IsInjective(q[m + 1])
      <4>1. ASSUME Once, NEW x \in ToSet(k[m]), x \in ToSet(q[m + 1]) PROVE FALSE
        <5>1. PICK i \in 1 .. m : x \in ToSet(q[i])
          BY <3>2, <4>1
        <5>2. i \in 1 .. N /\ i # m + 1
          BY <1>1, <3>1
        <5> QED BY <1>1, <3>1, <4>1, <5>1, <5>2 DEF Once
      <4> QED BY <1>1, <3>1, <4>1 DEF Once
    <3> DEFINE y == q[m + 1]  l1 == k[m]
    <3>6. /\ l1 \o y \in Seq(T)
          /\ ToSet(l1 \o y) = ToSet(l1) \cup ToSet(y)
          /\ IsInjective(l1) /\ IsInjective(y) /\ ToSet(l1) \cap ToSet(y) = {}
               => IsInjective(l1 \o y)
      <4>1. l1 \in Seq(T) /\ y \in Seq(T)
        BY <3>1, <3>2
      <4> HIDE DEF l1, y
      <4> QED BY <4>1, ConcatListed
    <3>7. Good(m + 1)
      <4>1. k[m + 1] = l1 \o y /\ y = q[m + 1]
        BY <3>4
      <4>2. /\ \A x : x \in ToSet(l1) <=> \E i \in 1 .. m : x \in ToSet(q[i])
            /\ Once => IsInjective(l1)
        BY <3>2
      <4>3. Once => ToSet(l1) \cap ToSet(y) = {} /\ IsInjective(y)
        BY <3>5
      <4> HIDE DEF l1, y
      <4>4. Once => IsInjective(l1 \o y)
        BY <3>6, <4>2, <4>3
      <4>5. \A x : x \in ToSet(l1 \o y) <=> \E i \in 1 .. m + 1 : x \in ToSet(q[i])
        BY <3>3, <3>6, <4>1, <4>2
      <4> QED BY <3>6, <4>1, <4>4, <4>5
    <3> HIDE DEF Good
    <3> QED BY <3>1, <3>7 DEF m
  <2>11. Good(N)
    <3> HIDE DEF G
    <3>1. N - 1 \in Nat /\ (N - 1) + 1 = N
      BY <1>1, <1>3
    <3>2. \A n \in 0 .. N - 1 : n \in G
      BY <2>9, <2>10, <3>1, UpTo
    <3>3. N - 1 \in G
      BY <3>1, <3>2
    <3> HIDE DEF Good
    <3> QED BY <3>1, <3>3 DEF G
  <2>13. ToSet(k[N]) = UNION {ToSet(q[i]) : i \in DOMAIN q}
    BY <1>1, <2>11
  <2> QED BY <1>1, <2>8, <2>11, <2>13 DEF Once
<1> QED BY <1>2, <1>3

-----------------------------------------------------------------------------
(* The order of the elements *)

\* No element of l stands before one that R says comes first.
InOrder(l, R) == \A i, j \in DOMAIN l : i < j => <<l[i], l[j]>> \notin R

LEMMA ConcatInOrder ==
  ASSUME NEW T, NEW s \in Seq(T), NEW t \in Seq(T), NEW R, InOrder(s, R), InOrder(t, R),
         \A x \in ToSet(s), y \in ToSet(t) : <<x, y>> \notin R
  PROVE  InOrder(s \o t, R)
<1> DEFINE u == s \o t  m == Len(s)  n == Len(t)
<1>1. u \in Seq(T) /\ Len(u) = m + n
  BY ConcatProperties
<1>2. ASSUME NEW i \in 1 .. m + n PROVE u[i] = IF i <= m THEN s[i] ELSE t[i - m]
  BY ConcatProperties
<1> HIDE DEF u
<1>3. m \in Nat /\ DOMAIN s = 1 .. m /\ \A i \in 1 .. m : s[i] \in ToSet(s)
  BY Listed
<1>4. n \in Nat /\ DOMAIN t = 1 .. n /\ \A i \in 1 .. n : t[i] \in ToSet(t)
  BY Listed
<1>5. DOMAIN u = 1 .. m + n
  BY <1>1, Listed
<1> HIDE DEF m, n
<1>6. ASSUME NEW i \in 1 .. m + n, NEW j \in 1 .. m + n, i < j PROVE <<u[i], u[j]>> \notin R
  <2>1. CASE j <= m
    <3>1. i \in 1 .. m /\ j \in 1 .. m /\ u[i] = s[i] /\ u[j] = s[j]
      BY <1>2, <1>3, <1>4, <1>6, <2>1
    <3> QED BY <1>3, <1>6, <3>1 DEF InOrder
  <2>2. CASE i > m
    <3>1. i - m \in 1 .. n /\ j - m \in 1 .. n /\ i - m < j - m /\ u[i] = t[i - m] /\ u[j] = t[j - m]
      BY <1>2, <1>3, <1>4, <1>6, <2>2
    <3> QED BY <1>4, <3>1 DEF InOrder
  <2>3. CASE i <= m /\ j > m
    <3>1. i \in 1 .. m /\ j - m \in 1 .. n /\ u[i] = s[i] /\ u[j] = t[j - m]
      BY <1>2, <1>3, <1>4, <1>6, <2>3
    <3>2. u[i] \in ToSet(s) /\ u[j] \in ToSet(t)
      BY <1>3, <1>4, <3>1
    <3> QED BY <3>2
  <2> QED BY <1>3, <1>6, <2>1, <2>2, <2>3
<1> QED BY <1>5, <1>6 DEF InOrder, u

LEMMA SingleInOrder == ASSUME NEW x, NEW R PROVE InOrder(<<x>>, R)
BY DEF InOrder

\* What Filtered keeps stays in order.
LEMMA FilteredInOrder ==
  ASSUME NEW T, NEW s \in Seq(T), NEW S, NEW R, InOrder(s, R)
  PROVE  InOrder(Filtered(s, S), R)
<1> DEFINE k == Kept(s, S)
           G == {m \in 0 .. Len(s) : InOrder(k[m], R)}
<1>1. Len(s) \in Nat /\ DOMAIN s = 1 .. Len(s) /\ \A i \in 1 .. Len(s) : s[i] \in T
  BY Listed
<1>2. k[0] = <<>> /\ \A m \in 0 .. Len(s) - 1 :
                       k[m + 1] = IF s[m + 1] \in S THEN Append(k[m], s[m + 1]) ELSE k[m]
  BY KeptSteps
<1>3. \A m \in 0 .. Len(s) : k[m] \in Seq(T) /\ ToSet(k[m]) = Cut(s, S, m)
  BY FilteredSteps
<1> HIDE DEF k
<1>4. 0 \in G
  BY <1>1, <1>2 DEF InOrder
<1>5. ASSUME NEW m \in 0 .. Len(s) - 1, m \in G PROVE m + 1 \in G
  <2> DEFINE l == k[m]  x == s[m + 1]
  <2>0. m \in 0 .. Len(s) /\ m + 1 \in 0 .. Len(s) /\ m + 1 \in 1 .. Len(s)
    BY <1>1
  <2>1. l \in Seq(T) /\ ToSet(l) = Cut(s, S, m) /\ InOrder(l, R) /\ x \in T
    BY <1>1, <1>3, <1>5, <2>0
  <2>2. CASE x \notin S
    BY <1>2, <1>5, <2>0, <2>2
  <2>3. CASE x \in S
    <3>1. k[m + 1] = Append(l, x)
      BY <1>2, <2>3
    <3>2. <<x>> \in Seq(T) /\ ToSet(<<x>>) = {x}
      BY <2>1 DEF ToSet
    <3>3. Append(l, x) = l \o <<x>>
      BY <2>1, <3>2
    <3>4. ASSUME NEW y \in ToSet(l) PROVE <<y, x>> \notin R
      <4>1. PICK i \in 1 .. m : y = s[i]
        BY <2>1, <3>4 DEF Cut
      <4>2. i \in DOMAIN s /\ m + 1 \in DOMAIN s /\ i < m + 1
        BY <1>1, <2>0
      <4> QED BY <4>1, <4>2 DEF InOrder
    <3> HIDE DEF l, x
    <3>5. InOrder(l \o <<x>>, R)
      <4> DEFINE t == <<x>>
      <4>1. t \in Seq(T) /\ InOrder(t, R) /\ \A y \in ToSet(l), z \in ToSet(t) : <<y, z>> \notin R
        BY <3>2, <3>4, SingleInOrder
      <4> HIDE DEF t
      <4>2. InOrder(l \o t, R)
        BY <2>1, <4>1, ConcatInOrder
      <4> QED BY <4>2 DEF t
    <3> QED BY <2>0, <3>1, <3>3, <3>5
  <2> QED BY <2>2, <2>3
<1> HIDE DEF G
<1>6. Len(s) \in G
  <2>1. \A m \in 0 .. Len(s) : m \in G
    BY <1>1, <1>4, <1>5, UpTo
  <2> QED BY <1>1, <2>1
<1> QED BY <1>6, FilteredIsKept DEF G, k

\* Lists in order, whose elements are in order, make one list in order.
LEMMA FlattenInOrder ==
  ASSUME NEW T, NEW q \in Seq(Seq(T)), NEW R,
         \A i \in DOMAIN q : InOrder(q[i], R),
         \A i, j \in DOMAIN q : i < j => \A x \in ToSet(q[i]), y \in ToSet(q[j]) : <<x, y>> \notin R
  PROVE  InOrder(FlattenSeq(q), R)
<1> DEFINE N == Len(q)
           k == Flat(q)
           Good(m) == /\ k[m] \in Seq(T) /\ InOrder(k[m], R)
                      /\ \A x \in ToSet(k[m]) : \E i \in 1 .. m : x \in ToSet(q[i])
           G == {m \in 0 .. N - 1 : Good(m + 1)}
<1>1. N \in Nat /\ DOMAIN q = 1 .. N /\ \A i \in 1 .. N : q[i] \in Seq(T)
  BY Listed
<1>2. CASE q = <<>>
  BY <1>2 DEF FlattenSeq, InOrder
<1>3. CASE q # <<>>
  <2>1. /\ k[1] = q[1]
        /\ \A n \in 1 .. N - 1 : k[n + 1] = k[n] \o q[n + 1]
        /\ FlattenSeq(q) = k[N]
    BY <1>3, FlattenSteps
  <2>2. N # 0
    BY <1>3, EmptySeq
  <2> HIDE DEF k, N
  <2>3. 0 \in G
    <3>1. 1 \in 1 .. N /\ 0 \in 0 .. N - 1 /\ 0 + 1 = 1
      BY <1>1, <2>2
    <3> QED BY <1>1, <2>1, <3>1
  <2>4. ASSUME NEW n \in 0 .. (N - 1) - 1, n \in G PROVE n + 1 \in G
    <3> DEFINE m == n + 1  l == k[m]  y == q[m + 1]
    <3>1. m \in 1 .. N - 1 /\ m + 1 \in 1 .. N /\ m \in 0 .. N - 1 /\ y \in Seq(T)
      BY <1>1
    <3>2. l \in Seq(T) /\ InOrder(l, R) /\ \A x \in ToSet(l) : \E i \in 1 .. m : x \in ToSet(q[i])
      BY <2>4
    <3>3. k[m + 1] = l \o y
      BY <2>1, <3>1
    <3>4. ASSUME NEW x \in ToSet(l), NEW z \in ToSet(y) PROVE <<x, z>> \notin R
      <4>1. PICK i \in 1 .. m : x \in ToSet(q[i])
        BY <3>2
      <4>2. i \in DOMAIN q /\ m + 1 \in DOMAIN q /\ i < m + 1
        BY <1>1, <3>1
      <4> QED BY <4>1, <4>2
    <3>5. InOrder(y, R)
      BY <1>1, <3>1
    <3>6. \A i \in 1 .. m : i \in 1 .. m + 1
      BY <3>1
    <3>7. m + 1 \in 1 .. m + 1
      BY <3>1
    <3> HIDE DEF l, m
    <3>8. Good(m + 1)
      <4> HIDE DEF y
      <4>1. l \o y \in Seq(T) /\ ToSet(l \o y) = ToSet(l) \cup ToSet(y)
        BY <3>1, <3>2, ConcatListed
      <4>2. InOrder(l \o y, R)
        BY <3>1, <3>2, <3>4, <3>5, ConcatInOrder
      <4>3. ASSUME NEW x \in ToSet(l \o y) PROVE \E i \in 1 .. m + 1 : x \in ToSet(q[i])
        <5>1. CASE x \in ToSet(l)
          BY <3>2, <3>6, <5>1
        <5>2. CASE x \in ToSet(y)
          BY <3>7, <5>2 DEF y
        <5> QED BY <4>1, <4>3, <5>1, <5>2
      <4> QED BY <3>3, <4>1, <4>2, <4>3
    <3> HIDE DEF Good
    <3> QED BY <3>1, <3>8 DEF m
  <2>5. Good(N)
    <3> HIDE DEF G
    <3>1. N - 1 \in Nat /\ (N - 1) + 1 = N
      BY <1>1, <2>2
    <3>2. \A n \in 0 .. N - 1 : n \in G
      BY <2>3, <2>4, <3>1, UpTo
    <3>3. N - 1 \in G
      BY <3>1, <3>2
    <3> HIDE DEF Good
    <3> QED BY <3>1, <3>3 DEF G
  <2> QED BY <2>1, <2>5
<1> QED BY <1>2, <1>3

-----------------------------------------------------------------------------
(* Inserting and erasing *)

(* A list whose elements are all kept, followed by one that loses all. *)
LEMMA FilteredConcat ==
  ASSUME NEW T, NEW s \in Seq(T), NEW t \in Seq(T), NEW S,
         ToSet(s) \subseteq S, ToSet(t) \cap S = {}
  PROVE  Filtered(s \o t, S) = s
<1> DEFINE u == s \o t  m == Len(s)  n == Len(t)  k == Kept(u, S)
           G == {i \in 0 .. m : k[i] = SubSeq(s, 1, i)}
           H == {i \in 0 .. n : k[m + i] = s}
<1>1. u \in Seq(T) /\ Len(u) = m + n
  BY ConcatProperties
<1>2. m \in Nat /\ n \in Nat
  BY Listed
<1>3. ASSUME NEW i \in 1 .. m PROVE u[i] = s[i] /\ s[i] \in S
  <2>1. i \in 1 .. m + n /\ i <= m
    BY <1>2
  <2>2. u[i] = s[i]
    BY <2>1, ConcatProperties
  <2> QED BY <2>2, Listed
<1>4. ASSUME NEW i \in 1 .. n PROVE u[m + i] \notin S
  <2>1. m + i \in 1 .. m + n /\ ~(m + i <= m) /\ (m + i) - m = i
    BY <1>2
  <2>2. u[m + i] = t[i]
    BY <2>1, ConcatProperties
  <2>3. t[i] \in ToSet(t)
    BY Listed
  <2> QED BY <2>2, <2>3
<1>5. k[0] = <<>>
  BY <1>1, KeptSteps
<1>6. ASSUME NEW i \in 0 .. m + n - 1
      PROVE  k[i + 1] = IF u[i + 1] \in S THEN Append(k[i], u[i + 1]) ELSE k[i]
  <2>1. i \in 0 .. Len(u) - 1
    BY <1>1
  <2>2. u \in Seq(T)
    BY <1>1
  <2> HIDE DEF u, k
  <2>3. \A j \in 0 .. Len(u) - 1 :
          k[j + 1] = IF u[j + 1] \in S THEN Append(k[j], u[j + 1]) ELSE k[j]
    BY <2>2, KeptSteps DEF k
  <2> QED BY <2>1, <2>3
<1>7. Filtered(u, S) = k[m + n]
  BY <1>1, FilteredIsKept
<1> HIDE DEF u, k
<1>8. k[m] = s
  <2>1. 0 \in G
    <3>1. SubSeq(s, 1, 0) = <<>>
      BY SubSeqEmpty
    <3>2. k[0] = SubSeq(s, 1, 0)
      BY <1>5, <3>1, Zenon
    <3>3. 0 \in 0 .. m
      BY <1>2
    <3> QED BY <3>2, <3>3
  <2>2. ASSUME NEW i \in 0 .. m - 1, i \in G PROVE i + 1 \in G
    <3>1. i + 1 \in 1 .. m /\ i \in 0 .. m + n - 1 /\ i + 1 \in 0 .. m
      BY <1>2
    <3>2. k[i + 1] = Append(SubSeq(s, 1, i), s[i + 1])
      BY <1>3, <1>6, <2>2, <3>1
    <3>3. SubSeq(s, 1, i + 1) = SubSeq(s, 1, (i + 1) - 1) \o <<s[i + 1]>>
      <4>1. 1 \in 1 .. m /\ i + 1 \in 1 .. m
        BY <1>2
      <4> QED BY <4>1, SubSeqRecursiveSecond
    <3>4. SubSeq(s, 1, i) \in Seq(T)
      <4>1. \A l \in 1 .. i : s[l] \in T
        BY <1>2, Listed
      <4> QED BY <4>1, SubSeqProperties
    <3>5. Append(SubSeq(s, 1, i), s[i + 1]) = SubSeq(s, 1, i) \o <<s[i + 1]>>
      BY <3>1, <3>4, AppendIsConcat, Listed
    <3>6. (i + 1) - 1 = i
      OBVIOUS
    <3> QED BY <3>1, <3>2, <3>3, <3>5, <3>6
  <2>3. m \in 0 .. m
    BY <1>2
  <2>4. m \in G
    <3> HIDE DEF G
    <3> QED BY <1>2, <2>1, <2>2, <2>3, UpTo
  <2> QED BY <2>4, SubSeqFull
<1>9. k[m + n] = s
  <2>1. 0 \in H
    BY <1>2, <1>8
  <2>2. ASSUME NEW i \in 0 .. n - 1, i \in H PROVE i + 1 \in H
    <3>1. i + 1 \in 1 .. n /\ m + i \in 0 .. m + n - 1 /\ i + 1 \in 0 .. n
          /\ (m + i) + 1 = m + (i + 1)
      BY <1>2
    <3>2. u[m + (i + 1)] \notin S
      BY <1>4, <3>1
    <3>3. k[m + (i + 1)] = k[m + i]
      BY <1>6, <3>1, <3>2
    <3> QED BY <2>2, <3>1, <3>3
  <2>3. n \in 0 .. n
    BY <1>2
  <2>4. n \in H
    <3> HIDE DEF H
    <3> QED BY <1>2, <2>1, <2>2, <2>3, UpTo
  <2> QED BY <2>4
<1> QED BY <1>7, <1>9 DEF u

-----------------------------------------------------------------------------
(* Inserting, removing and moving an element *)

\* What InsertAt has at each position.
LEMMA Inserted ==
  ASSUME NEW T, NEW s \in Seq(T), NEW x \in T, NEW j \in 1 .. Len(s) + 1
  PROVE  /\ InsertAt(s, j, x) \in Seq(T)
         /\ Len(InsertAt(s, j, x)) = Len(s) + 1
         /\ \A i \in 1 .. Len(s) + 1 :
              InsertAt(s, j, x)[i] = IF i < j THEN s[i] ELSE IF i = j THEN x ELSE s[i - 1]
<1> DEFINE m == Len(s)
           a == SubSeq(s, 1, j - 1)  c == SubSeq(s, j, m)
           b == a \o <<x>>  u == b \o c
<1>1. m \in Nat /\ \A i \in 1 .. m : s[i] \in T
  BY Listed
<1>2. /\ a \in Seq(T) /\ Len(a) = j - 1
      /\ \A i \in 1 .. j - 1 : a[i] = s[i]
  <2>1. \A i \in 1 .. j - 1 : s[i] \in T
    BY <1>1
  <2>2. 1 \in Int /\ j - 1 \in Int
    BY <1>1
  <2>3. /\ a \in Seq(T) /\ Len(a) = IF 1 <= j - 1 THEN (j - 1) - 1 + 1 ELSE 0
        /\ \A i \in 1 .. (j - 1) - 1 + 1 : a[i] = s[1 + i - 1]
    BY <2>1, <2>2, SubSeqProperties
  <2> HIDE DEF a
  <2>4. ASSUME NEW i \in 1 .. j - 1 PROVE a[i] = s[i]
    <3>1. i \in 1 .. (j - 1) - 1 + 1 /\ 1 + i - 1 = i
      BY <1>1
    <3> QED BY <2>3, <3>1
  <2> QED BY <1>1, <2>3, <2>4
<1>3. /\ c \in Seq(T) /\ Len(c) = m - j + 1
      /\ \A i \in 1 .. m - j + 1 : c[i] = s[j + i - 1]
  <2>1. \A i \in j .. m : s[i] \in T
    BY <1>1
  <2>2. j \in Int /\ m \in Int
    BY <1>1
  <2>3. /\ c \in Seq(T) /\ Len(c) = IF j <= m THEN m - j + 1 ELSE 0
        /\ \A i \in 1 .. m - j + 1 : c[i] = s[j + i - 1]
    BY <2>1, <2>2, SubSeqProperties
  <2> QED BY <1>1, <2>3
<1> HIDE DEF a, c
<1>4. /\ b \in Seq(T) /\ Len(b) = j
      /\ \A i \in 1 .. j - 1 : b[i] = s[i]
      /\ b[j] = x
  <2>1. b = Append(a, x)
    BY <1>2, AppendIsConcat
  <2>2. /\ Append(a, x) \in Seq(T) /\ Len(Append(a, x)) = Len(a) + 1
        /\ \A i \in 1 .. Len(a) : Append(a, x)[i] = a[i]
        /\ Append(a, x)[Len(a) + 1] = x
    BY <1>2, AppendProperties
  <2>3. Len(a) + 1 = j
    BY <1>1, <1>2
  <2> HIDE DEF b
  <2> QED BY <1>2, <2>1, <2>2, <2>3
<1> HIDE DEF b
<1>5. /\ u \in Seq(T) /\ Len(u) = Len(b) + Len(c)
      /\ \A i \in 1 .. Len(b) + Len(c) : u[i] = IF i <= Len(b) THEN b[i] ELSE c[i - Len(b)]
  BY <1>3, <1>4, ConcatProperties
<1> HIDE DEF u
<1>6. Len(u) = m + 1
  BY <1>1, <1>3, <1>4, <1>5
<1>7. ASSUME NEW i \in 1 .. m + 1
      PROVE  u[i] = IF i < j THEN s[i] ELSE IF i = j THEN x ELSE s[i - 1]
  <2>1. u[i] = IF i <= j THEN b[i] ELSE c[i - j]
    <3>1. Len(b) = j /\ Len(b) + Len(c) = m + 1
      BY <1>1, <1>3, <1>4
    <3> QED BY <1>5, <3>1
  <2>2. CASE i < j
    <3>1. i \in 1 .. j - 1 /\ i <= j
      BY <1>1, <2>2
    <3> QED BY <1>4, <2>1, <2>2, <3>1
  <2>3. CASE i = j
    <3>1. i <= j /\ ~(i < j)
      BY <1>1, <2>3
    <3> QED BY <1>4, <2>1, <2>3, <3>1
  <2>4. CASE i > j
    <3>1. i - j \in 1 .. m - j + 1 /\ j + (i - j) - 1 = i - 1 /\ ~(i <= j) /\ ~(i < j) /\ i # j
      BY <1>1, <2>4
    <3>2. c[i - j] = s[j + (i - j) - 1]
      BY <1>3, <3>1
    <3> QED BY <2>1, <3>1, <3>2
  <2>5. i < j \/ i = j \/ i > j
    BY <1>1
  <2> QED BY <2>2, <2>3, <2>4, <2>5
<1>8. InsertAt(s, j, x) = u
  BY DEF InsertAt, a, b, c, u
<1> QED BY <1>5, <1>6, <1>7, <1>8

\* What RemoveAt has at each position.
LEMMA Erased ==
  ASSUME NEW T, NEW s \in Seq(T), NEW p \in 1 .. Len(s)
  PROVE  /\ RemoveAt(s, p) \in Seq(T)
         /\ Len(RemoveAt(s, p)) = Len(s) - 1
         /\ \A i \in 1 .. Len(s) - 1 :
              RemoveAt(s, p)[i] = IF i < p THEN s[i] ELSE s[i + 1]
<1> DEFINE m == Len(s)
           a == SubSeq(s, 1, p - 1)  c == SubSeq(s, p + 1, m)  u == a \o c
<1>1. m \in Nat /\ \A i \in 1 .. m : s[i] \in T
  BY Listed
<1>2. /\ a \in Seq(T) /\ Len(a) = p - 1
      /\ \A i \in 1 .. p - 1 : a[i] = s[i]
  <2>1. \A i \in 1 .. p - 1 : s[i] \in T
    BY <1>1
  <2>2. 1 \in Int /\ p - 1 \in Int
    BY <1>1
  <2>3. /\ a \in Seq(T) /\ Len(a) = IF 1 <= p - 1 THEN (p - 1) - 1 + 1 ELSE 0
        /\ \A i \in 1 .. (p - 1) - 1 + 1 : a[i] = s[1 + i - 1]
    BY <2>1, <2>2, SubSeqProperties
  <2> HIDE DEF a
  <2>4. ASSUME NEW i \in 1 .. p - 1 PROVE a[i] = s[i]
    <3>1. i \in 1 .. (p - 1) - 1 + 1 /\ 1 + i - 1 = i
      BY <1>1
    <3> QED BY <2>3, <3>1
  <2> QED BY <1>1, <2>3, <2>4
<1>3. /\ c \in Seq(T) /\ Len(c) = m - p
      /\ \A i \in 1 .. m - p : c[i] = s[p + i]
  <2>1. \A i \in p + 1 .. m : s[i] \in T
    BY <1>1
  <2>2. p + 1 \in Int /\ m \in Int
    BY <1>1
  <2>3. /\ c \in Seq(T) /\ Len(c) = IF p + 1 <= m THEN m - (p + 1) + 1 ELSE 0
        /\ \A i \in 1 .. m - (p + 1) + 1 : c[i] = s[(p + 1) + i - 1]
    BY <2>1, <2>2, SubSeqProperties
  <2> HIDE DEF c
  <2>4. ASSUME NEW i \in 1 .. m - p PROVE c[i] = s[p + i]
    <3>1. i \in 1 .. m - (p + 1) + 1 /\ (p + 1) + i - 1 = p + i
      BY <1>1
    <3> QED BY <2>3, <3>1
  <2> QED BY <1>1, <2>3, <2>4
<1> HIDE DEF a, c
<1>4. /\ u \in Seq(T) /\ Len(u) = Len(a) + Len(c)
      /\ \A i \in 1 .. Len(a) + Len(c) : u[i] = IF i <= Len(a) THEN a[i] ELSE c[i - Len(a)]
  BY <1>2, <1>3, ConcatProperties
<1> HIDE DEF u
<1>5. Len(u) = m - 1 /\ Len(a) + Len(c) = m - 1
  BY <1>1, <1>2, <1>3, <1>4
<1>6. ASSUME NEW i \in 1 .. m - 1 PROVE u[i] = IF i < p THEN s[i] ELSE s[i + 1]
  <2>1. u[i] = IF i <= p - 1 THEN a[i] ELSE c[i - (p - 1)]
    BY <1>2, <1>4, <1>5
  <2>2. CASE i < p
    <3>1. i \in 1 .. p - 1 /\ i <= p - 1
      BY <1>1, <2>2
    <3> QED BY <1>2, <2>1, <2>2, <3>1
  <2>3. CASE ~(i < p)
    <3>1. i - (p - 1) \in 1 .. m - p /\ p + (i - (p - 1)) = i + 1 /\ ~(i <= p - 1)
      BY <1>1, <2>3
    <3>2. c[i - (p - 1)] = s[p + (i - (p - 1))]
      BY <1>3, <3>1
    <3> QED BY <2>1, <2>3, <3>1, <3>2
  <2> QED BY <2>2, <2>3
<1>7. RemoveAt(s, p) = u
  BY DEF RemoveAt, a, c, u
<1> QED BY <1>4, <1>5, <1>6, <1>7

\* Inserting adds one element, and repeats none if the element is new.
LEMMA InsertedListed ==
  ASSUME NEW T, NEW s \in Seq(T), NEW x \in T, NEW j \in 1 .. Len(s) + 1,
         IsInjective(s), x \notin ToSet(s)
  PROVE  /\ IsInjective(InsertAt(s, j, x))
         /\ ToSet(InsertAt(s, j, x)) = ToSet(s) \cup {x}
<1> DEFINE u == InsertAt(s, j, x)  m == Len(s)
<1>1. /\ u \in Seq(T) /\ Len(u) = m + 1
      /\ \A i \in 1 .. m + 1 : u[i] = IF i < j THEN s[i] ELSE IF i = j THEN x ELSE s[i - 1]
  BY Inserted
<1> HIDE DEF u
<1>2. m \in Nat /\ DOMAIN s = 1 .. m /\ ToSet(s) = {s[i] : i \in 1 .. m}
  BY Listed
<1>3. DOMAIN u = 1 .. m + 1 /\ ToSet(u) = {u[i] : i \in 1 .. m + 1}
  BY <1>1, Listed
<1> HIDE DEF m
<1>4. \A a, b \in 1 .. m : s[a] = s[b] => a = b
  BY <1>2 DEF IsInjective
<1>5. \A a \in 1 .. m : s[a] # x
  BY <1>2
<1> DEFINE from(i) == IF i < j THEN i ELSE i - 1
<1>6. ASSUME NEW i \in 1 .. m + 1, i # j PROVE from(i) \in 1 .. m /\ u[i] = s[from(i)]
  BY <1>1, <1>2, <1>6
<1>7. u[j] = x
  BY <1>1, <1>2
<1>8. IsInjective(u)
  <2>1. SUFFICES ASSUME NEW a \in 1 .. m + 1, NEW b \in 1 .. m + 1, u[a] = u[b] PROVE a = b
    BY <1>3 DEF IsInjective
  <2>2. CASE a # j /\ b # j
    <3>1. from(a) \in 1 .. m /\ from(b) \in 1 .. m /\ s[from(a)] = s[from(b)]
      BY <1>6, <2>1, <2>2
    <3>2. from(a) = from(b)
      <4> HIDE DEF from
      <4> QED BY <1>4, <3>1
    <3> QED BY <1>2, <2>2, <3>2
  <2>3. CASE a # j /\ b = j
    BY <1>5, <1>6, <1>7, <2>1, <2>3
  <2>4. CASE a = j /\ b # j
    BY <1>5, <1>6, <1>7, <2>1, <2>4
  <2> QED BY <2>2, <2>3, <2>4
<1>9. ToSet(u) = ToSet(s) \cup {x}
  <2>1. ASSUME NEW y \in ToSet(u) PROVE y \in ToSet(s) \cup {x}
    <3>1. PICK i \in 1 .. m + 1 : y = u[i]
      BY <1>3, <2>1
    <3> QED BY <1>2, <1>6, <1>7, <3>1
  <2>2. ASSUME NEW i \in 1 .. m PROVE s[i] \in ToSet(u)
    <3> DEFINE l == IF i < j THEN i ELSE i + 1
    <3>1. l \in 1 .. m + 1 /\ u[l] = s[i]
      <4>1. CASE i < j
        BY <1>1, <1>2, <4>1
      <4>2. CASE ~(i < j)
        <5>1. i + 1 \in 1 .. m + 1 /\ ~(i + 1 < j) /\ i + 1 # j /\ (i + 1) - 1 = i
          BY <1>2, <4>2
        <5>2. u[i + 1] = s[i]
          BY <1>1, <5>1
        <5> QED BY <4>2, <5>1, <5>2
      <4> QED BY <4>1, <4>2
    <3> QED BY <1>3, <3>1
  <2>3. x \in ToSet(u)
    <3>1. j \in 1 .. m + 1
      BY DEF m
    <3> QED BY <1>3, <1>7, <3>1
  <2>4. \A y \in ToSet(s) : y \in ToSet(u)
    BY <1>2, <2>2
  <2> QED BY <2>1, <2>3, <2>4
<1> QED BY <1>8, <1>9 DEF u

\* Erasing takes away one element of a list that repeats none.
LEMMA ErasedListed ==
  ASSUME NEW T, NEW s \in Seq(T), NEW p \in 1 .. Len(s), IsInjective(s)
  PROVE  /\ IsInjective(RemoveAt(s, p))
         /\ ToSet(RemoveAt(s, p)) = ToSet(s) \ {s[p]}
<1> DEFINE u == RemoveAt(s, p)  m == Len(s)
           from(i) == IF i < p THEN i ELSE i + 1
<1>1. /\ u \in Seq(T) /\ Len(u) = m - 1
      /\ \A i \in 1 .. m - 1 : u[i] = IF i < p THEN s[i] ELSE s[i + 1]
  BY Erased
<1> HIDE DEF u
<1>2. m \in Nat /\ DOMAIN s = 1 .. m /\ ToSet(s) = {s[i] : i \in 1 .. m} /\ p \in 1 .. m
  BY Listed
<1>3. DOMAIN u = 1 .. m - 1 /\ ToSet(u) = {u[i] : i \in 1 .. m - 1}
  BY <1>1, Listed
<1> HIDE DEF m
<1>4. \A a, b \in 1 .. m : s[a] = s[b] => a = b
  BY <1>2 DEF IsInjective
<1>5. ASSUME NEW i \in 1 .. m - 1
      PROVE  from(i) \in 1 .. m /\ from(i) # p /\ u[i] = s[from(i)]
  BY <1>1, <1>2
<1>6. IsInjective(u)
  <2>1. SUFFICES ASSUME NEW a \in 1 .. m - 1, NEW b \in 1 .. m - 1, u[a] = u[b] PROVE a = b
    BY <1>3 DEF IsInjective
  <2>2. from(a) = from(b)
    <3>1. from(a) \in 1 .. m /\ from(b) \in 1 .. m /\ s[from(a)] = s[from(b)]
      BY <1>5, <2>1
    <3> HIDE DEF from
    <3> QED BY <1>4, <3>1
  <2> QED BY <1>2, <2>2
<1>7. ASSUME NEW y \in ToSet(u) PROVE y \in ToSet(s) /\ y # s[p]
  <2>1. PICK i \in 1 .. m - 1 : y = u[i]
    BY <1>3, <1>7
  <2>2. from(i) \in 1 .. m /\ from(i) # p /\ y = s[from(i)]
    BY <1>5, <2>1
  <2> HIDE DEF from
  <2> QED BY <1>2, <1>4, <2>2
<1>8. ASSUME NEW i \in 1 .. m, i # p PROVE s[i] \in ToSet(u)
  <2>1. CASE i < p
    <3>1. i \in 1 .. m - 1 /\ u[i] = s[i]
      BY <1>1, <1>2, <2>1
    <3> QED BY <1>3, <3>1
  <2>2. CASE ~(i < p)
    <3>1. i - 1 \in 1 .. m - 1 /\ ~(i - 1 < p) /\ (i - 1) + 1 = i
      BY <1>2, <1>8, <2>2
    <3>2. u[i - 1] = s[i]
      BY <1>1, <3>1
    <3> QED BY <1>3, <3>1, <3>2
  <2> QED BY <2>1, <2>2
<1>9. ToSet(u) = ToSet(s) \ {s[p]}
  <2>1. \A y \in ToSet(s) : y # s[p] => y \in ToSet(u)
    BY <1>2, <1>8
  <2> QED BY <1>7, <2>1
<1> QED BY <1>6, <1>9 DEF u

(* Moving an element within a list: the new entry is inserted before the old *)
(* one is erased, whose place depends on which side the new one went.        *)
LEMMA MovedListed ==
  ASSUME NEW T, NEW s \in Seq(T), NEW i \in 1 .. Len(s), NEW j \in 1 .. Len(s) + 1,
         IsInjective(s),
         NEW pos, pos = IF j <= i THEN i + 1 ELSE i
  PROVE  LET w == RemoveAt(InsertAt(s, j, s[i]), pos) IN
         w \in Seq(T) /\ IsInjective(w) /\ ToSet(w) = ToSet(s)
<1> DEFINE m == Len(s)  x == s[i]  u == InsertAt(s, j, x)  w == RemoveAt(u, pos)
<1>1. m \in Nat /\ DOMAIN s = 1 .. m /\ ToSet(s) = {s[l] : l \in 1 .. m} /\ x \in T
  BY Listed
<1>2. /\ u \in Seq(T) /\ Len(u) = m + 1
      /\ \A l \in 1 .. m + 1 : u[l] = IF l < j THEN s[l] ELSE IF l = j THEN x ELSE s[l - 1]
  <2> HIDE DEF x
  <2>1. /\ u \in Seq(T) /\ Len(u) = Len(s) + 1
        /\ \A l \in 1 .. Len(s) + 1 : u[l] = IF l < j THEN s[l] ELSE IF l = j THEN x ELSE s[l - 1]
    BY <1>1, Inserted, SMTT(30)
  <2> QED BY <2>1
<1>3. pos \in 1 .. m + 1 /\ pos # j
  BY <1>1
<1> HIDE DEF u
<1>4. /\ w \in Seq(T) /\ Len(w) = m
      /\ \A l \in 1 .. m : w[l] = IF l < pos THEN u[l] ELSE u[l + 1]
  <2>1. pos \in 1 .. Len(u) /\ Len(u) - 1 = m
    BY <1>1, <1>2, <1>3
  <2>2. /\ w \in Seq(T) /\ Len(w) = Len(u) - 1
        /\ \A l \in 1 .. Len(u) - 1 : w[l] = IF l < pos THEN u[l] ELSE u[l + 1]
    BY <1>2, <2>1, Erased
  <2> QED BY <2>1, <2>2
<1> HIDE DEF w
<1> DEFINE toU(l) == IF l < pos THEN l ELSE l + 1
           from(l) == IF toU(l) < j THEN toU(l) ELSE IF toU(l) = j THEN i ELSE toU(l) - 1
<1>5. ASSUME NEW l \in 1 .. m PROVE from(l) \in 1 .. m /\ w[l] = s[from(l)]
  <2>1. toU(l) \in 1 .. m + 1 /\ w[l] = u[toU(l)]
    BY <1>1, <1>3, <1>4
  <2>2. u[toU(l)] = s[from(l)]
    <3> HIDE DEF toU
    <3> QED BY <1>2, <2>1
  <2>3. from(l) \in 1 .. m
    BY <1>1, <1>3
  <2> QED BY <2>1, <2>2, <2>3
<1>6. ASSUME NEW a \in 1 .. m, NEW b \in 1 .. m, from(a) = from(b) PROVE a = b
  BY <1>1, <1>3, <1>6
<1>7. ASSUME NEW l \in 1 .. m PROVE \E a \in 1 .. m : from(a) = l
  <2> DEFINE a == IF l = i THEN (IF j < pos THEN j ELSE j - 1)
                  ELSE IF l < i THEN (IF l < j THEN l ELSE l + 1)
                  ELSE (IF l < j THEN l - 1 ELSE l)
  <2>1. a \in 1 .. m /\ from(a) = l
    BY <1>1, <1>3
  <2> QED BY <2>1
<1> HIDE DEF from
<1>8. DOMAIN w = 1 .. m /\ ToSet(w) = {w[l] : l \in 1 .. m}
  BY <1>4, Listed
<1>9. \A a, b \in 1 .. m : s[a] = s[b] => a = b
  BY <1>1 DEF IsInjective
<1> HIDE DEF m
<1>10. IsInjective(w)
  <2>1. SUFFICES ASSUME NEW a \in 1 .. m, NEW b \in 1 .. m, w[a] = w[b] PROVE a = b
    BY <1>8 DEF IsInjective
  <2>2. from(a) = from(b)
    BY <1>5, <1>9, <2>1
  <2> QED BY <1>6, <2>2
<1>11. ToSet(w) = ToSet(s)
  <2>1. ASSUME NEW y \in ToSet(w) PROVE y \in ToSet(s)
    BY <1>1, <1>5, <1>8
  <2>2. ASSUME NEW l \in 1 .. m PROVE s[l] \in ToSet(w)
    <3>1. PICK a \in 1 .. m : from(a) = l
      BY <1>7
    <3> QED BY <1>5, <1>8, <3>1
  <2> QED BY <1>1, <2>1, <2>2
<1> QED BY <1>4, <1>10, <1>11 DEF w, u

\* Erasing what was just inserted leaves the list as it was.
LEMMA ErasedInserted ==
  ASSUME NEW T, NEW s \in Seq(T), NEW x \in T, NEW j \in 1 .. Len(s) + 1
  PROVE  RemoveAt(InsertAt(s, j, x), j) = s
<1> DEFINE u == InsertAt(s, j, x)  w == RemoveAt(u, j)
<1>1. /\ u \in Seq(T) /\ Len(u) = Len(s) + 1
      /\ \A i \in 1 .. Len(s) + 1 : u[i] = IF i < j THEN s[i] ELSE IF i = j THEN x ELSE s[i - 1]
  <2>1. /\ InsertAt(s, j, x) \in Seq(T)
        /\ Len(InsertAt(s, j, x)) = Len(s) + 1
        /\ \A i \in 1 .. Len(s) + 1 :
             InsertAt(s, j, x)[i] = IF i < j THEN s[i] ELSE IF i = j THEN x ELSE s[i - 1]
    BY Inserted
  <2> QED BY <2>1
<1> HIDE DEF u
<1>2. Len(s) \in Nat
  BY Listed
<1>3. /\ w \in Seq(T) /\ Len(w) = Len(s)
      /\ \A i \in 1 .. Len(s) : w[i] = IF i < j THEN u[i] ELSE u[i + 1]
  <2>1. j \in 1 .. Len(u) /\ Len(u) - 1 = Len(s)
    BY <1>1, <1>2
  <2>2. /\ w \in Seq(T) /\ Len(w) = Len(u) - 1
        /\ \A i \in 1 .. Len(u) - 1 : w[i] = IF i < j THEN u[i] ELSE u[i + 1]
    BY <1>1, <2>1, Erased
  <2> QED BY <2>1, <2>2
<1> HIDE DEF w
<1>4. ASSUME NEW i \in 1 .. Len(s) PROVE w[i] = s[i]
  <2>1. CASE i < j
    BY <1>1, <1>2, <1>3, <2>1
  <2>2. CASE ~(i < j)
    <3>1. i + 1 \in 1 .. Len(s) + 1 /\ ~(i + 1 < j) /\ i + 1 # j /\ (i + 1) - 1 = i
      BY <1>2, <2>2
    <3>2. u[i + 1] = s[i]
      BY <1>1, <3>1
    <3> QED BY <1>3, <2>2, <3>2
  <2> QED BY <2>1, <2>2
<1>5. w = s
  BY <1>3, <1>4, SeqEqual
<1> QED BY <1>5 DEF w, u

\* Erasing an element does not change what is kept of the others.
LEMMA FilteredErased ==
  ASSUME NEW T, NEW s \in Seq(T), NEW p \in 1 .. Len(s), NEW S, s[p] \notin S
  PROVE  Filtered(RemoveAt(s, p), S) = Filtered(s, S)
<1> DEFINE u == RemoveAt(s, p)  m == Len(s)  k == Kept(s, S)  h == Kept(u, S)
           G == {n \in 0 .. p - 1 : h[n] = k[n]}
           H == {n \in 0 .. m - p : h[(p - 1) + n] = k[p + n]}
<1>1. /\ u \in Seq(T) /\ Len(u) = m - 1
      /\ \A i \in 1 .. m - 1 : u[i] = IF i < p THEN s[i] ELSE s[i + 1]
  BY Erased
<1>2. m \in Nat /\ p \in 1 .. m
  BY Listed
<1> HIDE DEF u
<1>3. /\ k[0] = <<>>
      /\ \A n \in 0 .. m - 1 : k[n + 1] = IF s[n + 1] \in S THEN Append(k[n], s[n + 1]) ELSE k[n]
  BY KeptSteps
<1>4. /\ h[0] = <<>>
      /\ \A n \in 0 .. (m - 1) - 1 :
           h[n + 1] = IF u[n + 1] \in S THEN Append(h[n], u[n + 1]) ELSE h[n]
  <2>1. /\ h[0] = <<>>
        /\ \A n \in 0 .. Len(u) - 1 :
             h[n + 1] = IF u[n + 1] \in S THEN Append(h[n], u[n + 1]) ELSE h[n]
    BY <1>1, KeptSteps
  <2> QED BY <1>1, <2>1
<1>5. Filtered(s, S) = k[m] /\ Filtered(u, S) = h[m - 1]
  BY <1>1, FilteredIsKept
<1> HIDE DEF k, h, m
<1>6. h[p - 1] = k[p - 1]
  <2>1. 0 \in G
    BY <1>2, <1>3, <1>4
  <2>2. ASSUME NEW n \in 0 .. (p - 1) - 1, n \in G PROVE n + 1 \in G
    <3>1. n + 1 \in 0 .. p - 1 /\ n + 1 \in 1 .. m - 1 /\ n + 1 < p
          /\ n \in 0 .. m - 1 /\ n \in 0 .. (m - 1) - 1
      BY <1>2
    <3>2. u[n + 1] = s[n + 1]
      BY <1>1, <3>1
    <3>3. h[n + 1] = k[n + 1]
      BY <1>3, <1>4, <2>2, <3>1, <3>2
    <3> QED BY <3>1, <3>3
  <2>3. p - 1 \in Nat /\ p - 1 \in 0 .. p - 1
    BY <1>2
  <2> HIDE DEF G
  <2>4. p - 1 \in G
    BY <2>1, <2>2, <2>3, UpTo
  <2> QED BY <2>4 DEF G
<1>7. h[m - 1] = k[m]
  <2>1. 0 \in H
    <3>1. p - 1 \in 0 .. m - 1 /\ (p - 1) + 1 = p /\ (p - 1) + 0 = p - 1 /\ p + 0 = p
          /\ 0 \in 0 .. m - p
      BY <1>2
    <3>2. k[p] = k[p - 1]
      BY <1>3, <3>1
    <3> QED BY <1>6, <3>1, <3>2
  <2>2. ASSUME NEW n \in 0 .. (m - p) - 1, n \in H PROVE n + 1 \in H
    <3> DEFINE a == (p - 1) + n
    <3>1. /\ a \in 0 .. (m - 1) - 1 /\ a + 1 \in 0 .. m - 1 /\ a + 1 \in 1 .. m - 1 /\ ~(a + 1 < p)
          /\ a + 1 = p + n /\ (p - 1) + (n + 1) = a + 1 /\ p + (n + 1) = (a + 1) + 1
          /\ n + 1 \in 0 .. m - p
      BY <1>2
    <3>2. h[a] = k[a + 1]
      BY <2>2, <3>1
    <3> HIDE DEF a
    <3>3. u[a + 1] = s[(a + 1) + 1]
      BY <1>1, <3>1
    <3>4. h[a + 1] = k[(a + 1) + 1]
      BY <1>3, <1>4, <3>1, <3>2, <3>3
    <3> QED BY <3>1, <3>4
  <2>3. m - p \in Nat /\ m - p \in 0 .. m - p
    BY <1>2
  <2> HIDE DEF H
  <2>4. m - p \in H
    BY <2>1, <2>2, <2>3, UpTo
  <2>5. (p - 1) + (m - p) = m - 1 /\ p + (m - p) = m
    BY <1>2
  <2> QED BY <2>4, <2>5 DEF H
<1> QED BY <1>5, <1>7 DEF u

\* Nor does inserting one.
LEMMA FilteredInserted ==
  ASSUME NEW T, NEW s \in Seq(T), NEW x \in T, NEW j \in 1 .. Len(s) + 1, NEW S, x \notin S
  PROVE  Filtered(InsertAt(s, j, x), S) = Filtered(s, S)
<1> DEFINE u == InsertAt(s, j, x)
<1>1. /\ u \in Seq(T) /\ Len(u) = Len(s) + 1
      /\ \A i \in 1 .. Len(s) + 1 : u[i] = IF i < j THEN s[i] ELSE IF i = j THEN x ELSE s[i - 1]
  <2>1. /\ InsertAt(s, j, x) \in Seq(T)
        /\ Len(InsertAt(s, j, x)) = Len(s) + 1
        /\ \A i \in 1 .. Len(s) + 1 :
             InsertAt(s, j, x)[i] = IF i < j THEN s[i] ELSE IF i = j THEN x ELSE s[i - 1]
    BY Inserted
  <2> QED BY <2>1
<1>2. RemoveAt(u, j) = s
  BY ErasedInserted
<1> HIDE DEF u
<1>3. Len(s) \in Nat
  BY Listed
<1>4. j \in 1 .. Len(u) /\ u[j] \notin S
  BY <1>1, <1>3
<1>5. Filtered(RemoveAt(u, j), S) = Filtered(u, S)
  BY <1>1, <1>4, FilteredErased
<1> QED BY <1>2, <1>5 DEF u

(* Where a moved element gets to: in front of the one that was at j, or at   *)
(* the end if j is past it, and nothing else changes its place.              *)
LEMMA MovedPlaced ==
  ASSUME NEW T, NEW s \in Seq(T), NEW i \in 1 .. Len(s), NEW j \in 1 .. Len(s) + 1, j # i,
         NEW pos, pos = IF j <= i THEN i + 1 ELSE i,
         NEW w, w = RemoveAt(InsertAt(s, j, s[i]), pos),
         NEW at, at = IF j <= i THEN j ELSE j - 1,
         NEW S, s[i] \notin S
  PROVE  /\ Len(w) = Len(s) /\ at \in 1 .. Len(s) /\ w[at] = s[i]
         /\ IF j = Len(s) + 1 THEN at = Len(s) ELSE at + 1 \in 1 .. Len(s) /\ w[at + 1] = s[j]
         /\ Filtered(w, S) = Filtered(s, S)
<1> DEFINE m == Len(s)  x == s[i]  u == InsertAt(s, j, x)
<1>1. m \in Nat /\ x \in T /\ i \in 1 .. m /\ j \in 1 .. m + 1
  BY Listed
<1>2. /\ u \in Seq(T) /\ Len(u) = m + 1
      /\ \A l \in 1 .. m + 1 : u[l] = IF l < j THEN s[l] ELSE IF l = j THEN x ELSE s[l - 1]
  <2> HIDE DEF x
  <2>1. /\ u \in Seq(T) /\ Len(u) = Len(s) + 1
        /\ \A l \in 1 .. Len(s) + 1 : u[l] = IF l < j THEN s[l] ELSE IF l = j THEN x ELSE s[l - 1]
    BY <1>1, Inserted, SMTT(30)
  <2> QED BY <2>1
<1>3. Filtered(u, S) = Filtered(s, S)
  <2> HIDE DEF x
  <2>1. x \notin S
    BY DEF x
  <2> QED BY <1>1, <2>1, FilteredInserted, SMTT(30)
<1> HIDE DEF u
<1>4. pos \in 1 .. m + 1 /\ pos # j
  BY <1>1
<1>5. /\ Len(w) = m
      /\ \A l \in 1 .. m : w[l] = IF l < pos THEN u[l] ELSE u[l + 1]
  <2>1. pos \in 1 .. Len(u) /\ Len(u) - 1 = m
    BY <1>1, <1>2, <1>4
  <2>2. /\ RemoveAt(u, pos) \in Seq(T) /\ Len(RemoveAt(u, pos)) = Len(u) - 1
        /\ \A l \in 1 .. Len(u) - 1 : RemoveAt(u, pos)[l] = IF l < pos THEN u[l] ELSE u[l + 1]
    BY <1>2, <2>1, Erased
  <2>3. w = RemoveAt(u, pos)
    BY DEF u
  <2> QED BY <2>1, <2>2, <2>3
<1>6. u[pos] = x
  <2>1. CASE j <= i
    <3>1. ~(i + 1 < j) /\ i + 1 # j /\ i + 1 \in 1 .. m + 1 /\ (i + 1) - 1 = i /\ pos = i + 1
      BY <1>1, <2>1
    <3> QED BY <1>2, <3>1
  <2>2. CASE ~(j <= i)
    <3>1. i < j /\ i \in 1 .. m + 1 /\ pos = i
      BY <1>1, <2>2
    <3> QED BY <1>2, <3>1
  <2> QED BY <2>1, <2>2
<1>7. Filtered(w, S) = Filtered(s, S)
  <2>1. pos \in 1 .. Len(u) /\ u[pos] \notin S
    BY <1>2, <1>4, <1>6
  <2>2. Filtered(RemoveAt(u, pos), S) = Filtered(u, S)
    BY <1>2, <2>1, FilteredErased
  <2> QED BY <1>3, <2>2 DEF u
<1>8. CASE j <= i
  <2>1. at = j /\ j < i /\ pos = i + 1 /\ j \in 1 .. m /\ j < pos
        /\ j + 1 \in 1 .. m /\ j + 1 < pos /\ (j + 1) - 1 = j /\ j # m + 1
    BY <1>1, <1>8
  <2>2. u[j] = x /\ u[j + 1] = s[j]
    BY <1>2, <2>1
  <2>3. w[j] = x /\ w[j + 1] = s[j]
    BY <1>5, <2>1, <2>2
  <2> QED BY <1>5, <1>7, <2>1, <2>3
<1>9. CASE ~(j <= i)
  <2>1. at = j - 1 /\ pos = i /\ j - 1 \in 1 .. m /\ ~(j - 1 < pos) /\ (j - 1) + 1 = j
    BY <1>1, <1>9
  <2>2. u[j] = x /\ w[j - 1] = x
    <3>1. u[j] = x
      BY <1>1, <1>2
    <3>2. w[j - 1] = u[(j - 1) + 1]
      BY <1>5, <2>1
    <3> QED BY <2>1, <3>1, <3>2
  <2>3. CASE j = m + 1
    BY <1>1, <1>5, <1>7, <2>1, <2>2, <2>3
  <2>4. CASE j # m + 1
    <3>1. j \in 1 .. m /\ ~(j < pos) /\ j + 1 \in 1 .. m + 1 /\ ~(j + 1 < j) /\ j + 1 # j /\ (j + 1) - 1 = j
      BY <1>1, <1>9, <2>1, <2>4
    <3>2. w[j] = u[j + 1] /\ u[j + 1] = s[j]
      BY <1>2, <1>5, <3>1
    <3> QED BY <1>5, <1>7, <2>1, <2>2, <2>4, <3>1, <3>2
  <2> QED BY <2>3, <2>4
<1> QED BY <1>8, <1>9
=============================================================================
