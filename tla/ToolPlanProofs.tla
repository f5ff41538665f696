--------------------------- MODULE ToolPlanProofs ---------------------------
(***************************************************************************)
(* Theorems about ToolPlan, for every queue, every changer and every bound *)
(* on the search: a preview can be carried out and keeps the queue, the    *)
(* plan of a short queue moves as few tools as any plan can, and once      *)
(* applied it is final.                                                    *)
(***************************************************************************)
EXTENDS ToolPlan, FiniteSetTheorems, TLAPS

-----------------------------------------------------------------------------
(* Numbers, finite sets and recursive functions.                           *)

\* A set of natural numbers has a least element: of the segments below its members take the smallest.
LEMMA LeastNat ==
  ASSUME NEW T \in SUBSET Nat, T # {}
  PROVE  \E m \in T : \A n \in T : m <= n
<1>. DEFINE R == StrictSubsetOrdering(Nat)
            F == {0..m : m \in T}
<1>1. IsWellFoundedOn(R, FiniteSubsetsOf(Nat))
  BY FS_StrictSubsetOrderingWellFounded
<1>2. \A m \in T : IsFiniteSet(0..m)
  BY FS_Interval
<1>3. F \subseteq FiniteSubsetsOf(Nat) /\ F # {}
  <2>1. \A m \in T : 0..m \in SUBSET Nat
    OBVIOUS
  <2>2. \A m \in T : 0..m \in FiniteSubsetsOf(Nat)
    BY <1>2, <2>1 DEF FiniteSubsetsOf
  <2>3. F # {}
    OBVIOUS
  <2>. QED BY <2>2, <2>3
<1>4. PICK s \in F : \A u \in F : <<u, s>> \notin R
  <2>. HIDE DEF R, F
  <2>. QED BY <1>1, <1>3, WFMin
<1>5. PICK m \in T : s = 0..m
  OBVIOUS
<1>6. ASSUME NEW n \in T, n < m
      PROVE  FALSE
  <2>1. 0..n \subseteq 0..m /\ 0..n # 0..m
    BY <1>6
  <2>2. <<0..n, 0..m>> \in R
    BY <2>1 DEF StrictSubsetOrdering
  <2>. HIDE DEF R
  <2>. QED BY <1>4, <1>5, <2>2
<1>. QED BY <1>6

\* Induction on the natural numbers, stated of a set.
LEMMA NatInduct ==
  ASSUME NEW S \in SUBSET Nat, 0 \in S, \A n \in S : n + 1 \in S
  PROVE  S = Nat
<1>. SUFFICES ASSUME Nat \ S # {}
              PROVE  FALSE
  OBVIOUS
<1>1. PICK m \in Nat \ S : \A n \in Nat \ S : m <= n
  BY LeastNat
<1>2. m - 1 \in Nat /\ m - 1 \in S
  BY <1>1
<1>. QED BY <1>1, <1>2

\* A finite set has a minimal element in any strict order of its members.
LEMMA FiniteMinimal ==
  ASSUME NEW S, IsFiniteSet(S), S # {}, NEW R,
         \A x \in S : <<x, x>> \notin R,
         \A x, y, z \in S : <<x, y>> \in R /\ <<y, z>> \in R => <<x, z>> \in R
  PROVE  \E x \in S : \A y \in S : <<y, x>> \notin R
<1>. DEFINE Below(x) == {y \in S : <<y, x>> \in R}
            F == {Below(x) : x \in S}
            Q == StrictSubsetOrdering(S)
<1>1. IsWellFoundedOn(Q, FiniteSubsetsOf(S))
  BY FS_StrictSubsetOrderingWellFounded
<1>2. \A x \in S : IsFiniteSet(Below(x)) /\ Below(x) \in SUBSET S
  BY FS_Subset
<1>3. F \subseteq FiniteSubsetsOf(S) /\ F # {}
  <2>1. \A x \in S : Below(x) \in FiniteSubsetsOf(S)
    BY <1>2 DEF FiniteSubsetsOf
  <2>. HIDE DEF Below
  <2>2. F # {}
    OBVIOUS
  <2>. QED BY <2>1, <2>2
<1>4. PICK b \in F : \A u \in F : <<u, b>> \notin Q
  <2>. HIDE DEF F, Q
  <2>. QED BY <1>1, <1>3, WFMin
<1>5. PICK x \in S : b = Below(x)
  OBVIOUS
<1>6. ASSUME NEW y \in S, <<y, x>> \in R
      PROVE  FALSE
  <2>1. Below(y) \subseteq Below(x) /\ y \in Below(x) /\ y \notin Below(y)
    BY <1>6
  <2>2. <<Below(y), b>> \in Q
    BY <2>1, <1>2, <1>5 DEF StrictSubsetOrdering
  <2>. QED BY <1>4, <2>2
<1>. QED BY <1>6

\* What Min returns.
LEMMA LeastOf ==
  ASSUME NEW S \in SUBSET Nat, S # {}
  PROVE  Min(S) \in S /\ \A x \in S : Min(S) <= x
BY LeastNat DEF Min

\* What Max returns, of a finite set.
LEMMA GreatestOf ==
  ASSUME NEW S \in SUBSET Nat, S # {}, IsFiniteSet(S)
  PROVE  Max(S) \in S /\ \A x \in S : x <= Max(S)
<1>. DEFINE R == {ss \in S \X S : ss[1] > ss[2]}
<1>1. \E x \in S : \A y \in S : <<y, x>> \notin R
  <2>1. \A x \in S : <<x, x>> \notin R
    OBVIOUS
  <2>2. \A x, y, z \in S : <<x, y>> \in R /\ <<y, z>> \in R => <<x, z>> \in R
    OBVIOUS
  <2>. HIDE DEF R
  <2>. QED BY <2>1, <2>2, FiniteMinimal
<1>2. \E x \in S : \A y \in S : y <= x
  <2>1. PICK x \in S : \A y \in S : <<y, x>> \notin R
    BY <1>1
  <2>2. \A y \in S : y > x => <<y, x>> \in R
    OBVIOUS
  <2>3. x \in Nat /\ \A y \in S : y \in Nat
    OBVIOUS
  <2>4. \A y \in S : ~(y > x)
    <3>. HIDE DEF R
    <3>. QED BY <2>1, <2>2
  <2>5. \A y \in S : y <= x
    BY <2>3, <2>4
  <2>. QED BY <2>5
<1>. QED BY <1>2 DEF Max

\* A recursive definition: the first value, and each value from the one before it.
IsRecursion(f, b, n, a, g) == f = [k \in b..n |-> IF k = b THEN a ELSE g[k][f[k - 1]]]
StaysIn(F, b, n, a, g) == a \in F[b] /\ \A k \in (b + 1)..n : \A s \in F[k - 1] : g[k][s] \in F[k]

\* There is a function that satisfies one, with values in the sets that its steps stay in.
LEMMA Iterates ==
  ASSUME NEW b \in Nat, NEW n \in Nat, b <= n, NEW F, NEW g, NEW a, StaysIn(F, b, n, a, g)
  PROVE  \E f : IsRecursion(f, b, n, a, g) /\ \A k \in b..n : f[k] \in F[k]
<1>. USE DEF IsRecursion, StaysIn
<1>. DEFINE Good(f, m) == /\ f = [k \in b..m |-> IF k = b THEN a ELSE g[k][f[k - 1]]]
                          /\ \A k \in b..m : f[k] \in F[k]
            S == {d \in Nat : b + d <= n => \E f : Good(f, b + d)}
<1>1. 0 \in S
  <2>. DEFINE f == [k \in b..(b + 0) |-> a]
  <2>1. \A k \in b..(b + 0) : k = b
    OBVIOUS
  <2>2. \A k \in b..(b + 0) : a = IF k = b THEN a ELSE g[k][f[k - 1]]
    BY <2>1
  <2>3. f = [k \in b..(b + 0) |-> IF k = b THEN a ELSE g[k][f[k - 1]]]
    BY <2>2
  <2>4. \A k \in b..(b + 0) : f[k] \in F[k]
    BY <2>1
  <2>. HIDE DEF f
  <2>. QED BY <2>3, <2>4
<1>2. ASSUME NEW d \in S
      PROVE  d + 1 \in S
  <2>. SUFFICES ASSUME b + (d + 1) <= n
                PROVE  \E f : Good(f, b + (d + 1))
    OBVIOUS
  <2>. DEFINE m == b + d
  <2>1. d \in Nat /\ m \in Nat /\ b <= m /\ m + 1 <= n /\ b + (d + 1) = m + 1
    OBVIOUS
  <2>2. PICK f : Good(f, m)
    BY <2>1
  <2>. HIDE DEF m
  <2>. DEFINE h == [k \in b..(m + 1) |-> IF k = m + 1 THEN g[m + 1][f[m]] ELSE f[k]]
  <2>3. \A k \in b..m : h[k] = f[k] /\ f[k] = IF k = b THEN a ELSE g[k][f[k - 1]]
    <3>1. \A k \in b..m : k \in b..(m + 1) /\ k # m + 1
      BY <2>1
    <3>2. \A k \in b..m : f[k] = IF k = b THEN a ELSE g[k][f[k - 1]]
      BY <2>2
    <3>. QED BY <3>1, <3>2
  <2>4. h[m + 1] = g[m + 1][f[m]] /\ h[m] = f[m] /\ m + 1 # b /\ (m + 1) - 1 = m
    BY <2>1, <2>3
  <2>5. \A k \in b..(m + 1) : h[k] = IF k = b THEN a ELSE g[k][h[k - 1]]
    <3>1. \A k \in b..(m + 1) : k # b /\ k # m + 1 => k - 1 \in b..m /\ k \in b..m
      BY <2>1
    <3>2. \A k \in b..(m + 1) : k = b => k \in b..m
      BY <2>1
    <3>. HIDE DEF h
    <3>. QED BY <2>3, <2>4, <3>1, <3>2
  <2>6. h = [k \in b..(m + 1) |-> IF k = b THEN a ELSE g[k][h[k - 1]]]
    <3>1. DOMAIN h = b..(m + 1) /\ h = [k \in b..(m + 1) |-> h[k]]
      OBVIOUS
    <3>. HIDE DEF h
    <3>. QED BY <2>5, <3>1
  <2>7. \A k \in b..(m + 1) : h[k] \in F[k]
    <3>1. f[m] \in F[m] /\ m + 1 \in (b + 1)..n
      <4>1. m \in b..m /\ m + 1 \in (b + 1)..n
        BY <2>1
      <4>2. \A k \in b..m : f[k] \in F[k]
        BY <2>2
      <4>. QED BY <4>1, <4>2
    <3>2. g[m + 1][f[m]] \in F[m + 1]
      BY <2>4, <3>1
    <3>3. \A k \in b..(m + 1) : k = m + 1 \/ k \in b..m
      BY <2>1
    <3>. QED BY <2>2, <2>3, <2>4, <3>2, <3>3
  <2>. HIDE DEF h
  <2>. QED BY <2>1, <2>6, <2>7
<1>3. S = Nat
  <2>1. S \in SUBSET Nat
    OBVIOUS
  <2>. HIDE DEF S
  <2>. QED BY <1>1, <1>2, <2>1, NatInduct
<1>4. n - b \in Nat /\ b + (n - b) = n
  OBVIOUS
<1>5. n - b \in S
  <2>. HIDE DEF S
  <2>. QED BY <1>3, <1>4
<1>6. \E f : Good(f, b + (n - b))
  <2>. HIDE DEF Good
  <2>. QED BY <1>4, <1>5
<1>7. PICK f : Good(f, n)
  <2>. HIDE DEF Good
  <2>. QED BY <1>4, <1>6
<1>. QED BY <1>7

\* Segments of the numbers.
LEMMA Segments ==
  ASSUME NEW n \in Nat
  PROVE  /\ IsFiniteSet(1..n) /\ Cardinality(1..n) = n
         /\ IsFiniteSet(0..(n - 1)) /\ Cardinality(0..(n - 1)) = n
<1>1. n \in Int /\ 0 \in Int /\ 1 \in Int /\ n - 1 \in Int
  OBVIOUS
<1>2. IsFiniteSet(1..n) /\ Cardinality(1..n) = IF 1 > n THEN 0 ELSE n - 1 + 1
  BY <1>1, FS_Interval
<1>3. IsFiniteSet(0..(n - 1)) /\ Cardinality(0..(n - 1)) = IF 0 > n - 1 THEN 0 ELSE (n - 1) - 0 + 1
  BY <1>1, FS_Interval
<1>. QED BY <1>2, <1>3

\* A strict order of a set, what comes before each member of it, and the members with few before them.
StrictOrder(X, B) == /\ \A x \in X : <<x, x>> \notin B
                     /\ \A x, y, z \in X : <<x, y>> \in B /\ <<y, z>> \in B => <<x, z>> \in B
                     /\ \A x, y \in X : x = y \/ <<x, y>> \in B \/ <<y, x>> \in B
ComesBefore(below, X, B) == below \in [X -> SUBSET X] /\ \A s, t \in X : s \in below[t] <=> <<s, t>> \in B
FirstBy(first, X, below, count) == first \in SUBSET X /\ \A t \in X : t \in first <=> Cardinality(below[t]) < count

\* The first members of a finite set in a strict order of it: there are as many as asked for, and they
\* come before the others.
LEMMA FirstMembers ==
  ASSUME NEW X, IsFiniteSet(X), NEW B, NEW count \in Nat, count <= Cardinality(X),
         NEW below, NEW first,
         StrictOrder(X, B), ComesBefore(below, X, B), FirstBy(first, X, below, count)
  PROVE  Cardinality(first) = count /\ \A x \in first : \A y \in X \ first : <<x, y>> \in B
<1>. DEFINE Below(t) == below[t]
            r == [t \in X |-> Cardinality(Below(t))]
            N == Cardinality(X)
<1>. USE DEF StrictOrder, ComesBefore, FirstBy
<1>0. N \in Nat /\ first \subseteq X
  BY FS_CardinalityType
<1>1. \A t \in X : /\ IsFiniteSet(Below(t)) /\ Cardinality(Below(t)) \in Nat /\ r[t] = Cardinality(Below(t))
                   /\ Below(t) \subseteq X /\ t \notin Below(t)
  BY FS_Subset, FS_CardinalityType
<1>2. \A s \in X : \A t \in X : <<s, t>> \in B => r[s] < r[t]
  <2>. SUFFICES ASSUME NEW s \in X, NEW t \in X, <<s, t>> \in B
                PROVE  r[s] < r[t]
    OBVIOUS
  <2>1. Below(s) \subseteq Below(t) \ {s} /\ s \in Below(t)
    BY <1>1
  <2>2. IsFiniteSet(Below(t) \ {s}) /\ Cardinality(Below(t) \ {s}) = Cardinality(Below(t)) - 1
    <3>. HIDE DEF Below
    <3>. QED BY <1>1, <2>1, FS_RemoveElement
  <2>3. Cardinality(Below(s)) <= Cardinality(Below(t) \ {s})
    <3>. HIDE DEF Below
    <3>. QED BY <2>1, <2>2, FS_Subset
  <2>. HIDE DEF Below, r
  <2>. QED BY <1>1, <2>2, <2>3
<1>3. \A t \in X : r[t] \in 0..(N - 1)
  <2>. SUFFICES ASSUME NEW t \in X
                PROVE  r[t] \in 0..(N - 1)
    OBVIOUS
  <2>1. IsFiniteSet(X \ {t}) /\ Cardinality(X \ {t}) = N - 1
    BY FS_RemoveElement
  <2>2. Cardinality(Below(t)) <= Cardinality(X \ {t})
    <3>1. Below(t) \in SUBSET (X \ {t})
      BY <1>1
    <3>. HIDE DEF Below
    <3>. QED BY <2>1, <3>1, FS_Subset
  <2>. HIDE DEF Below, r, N
  <2>. QED BY <1>0, <1>1, <2>1, <2>2
<1>4. \A s \in X : \A t \in X : r[s] = r[t] => s = t
  <2>1. \A t \in X : r[t] \in Nat
    BY <1>1
  <2>2. ASSUME NEW s \in X, NEW t \in X, r[s] = r[t]
        PROVE  s = t
    <3>1. s = t \/ <<s, t>> \in B \/ <<t, s>> \in B
      OBVIOUS
    <3>. HIDE DEF r
    <3>2. ~(r[s] < r[t]) /\ ~(r[t] < r[s])
      BY <2>1, <2>2
    <3>. QED BY <1>2, <3>1, <3>2
  <2>. QED BY <2>2
<1>5. \A v \in 0..(N - 1) : \E t \in X : r[t] = v
  <2>1. r \in Injection(X, 0..(N - 1))
    <3>1. r \in [X -> 0..(N - 1)]
      BY <1>3
    <3>. HIDE DEF r, N
    <3>. QED BY <1>4, <3>1 DEF Injection, IsInjective
  <2>2. IsFiniteSet(0..(N - 1)) /\ Cardinality(0..(N - 1)) = N
    <3>. HIDE DEF N
    <3>. QED BY <1>0, Segments
  <2>3. r \in Surjection(X, 0..(N - 1))
    <3>. HIDE DEF r
    <3>. QED BY <2>1, <2>2, FS_Injection
  <2>. QED BY <2>3 DEF Surjection
<1>6. \A t \in X : t \in first <=> r[t] < count
  OBVIOUS
<1>. HIDE DEF r, Below
<1>7. Cardinality(first) = count
  <2>. DEFINE q == [t \in first |-> r[t]]
  <2>1. \A t \in first : q[t] = r[t] /\ r[t] \in 0..(count - 1)
    BY <1>0, <1>3, <1>6
  <2>2. q \in Injection(first, 0..(count - 1))
    <3>1. q \in [first -> 0..(count - 1)]
      BY <2>1
    <3>. HIDE DEF q
    <3>. QED BY <1>0, <1>4, <2>1, <3>1 DEF Injection, IsInjective
  <2>3. \A v \in 0..(count - 1) : \E t \in first : q[t] = v
    <3>1. \A v \in 0..(count - 1) : v \in 0..(N - 1) /\ v < count
      BY <1>0
    <3>. HIDE DEF q, N
    <3>. QED BY <1>5, <1>6, <2>1, <3>1
  <2>4. q \in Surjection(first, 0..(count - 1))
    <3>1. q \in [first -> 0..(count - 1)]
      BY <2>1
    <3>. HIDE DEF q
    <3>. QED BY <2>3, <3>1 DEF Surjection
  <2>5. IsFiniteSet(0..(count - 1)) /\ Cardinality(0..(count - 1)) = count
    BY Segments
  <2>. HIDE DEF q
  <2>. QED BY <2>2, <2>4, <2>5, FS_Injection
<1>8. ASSUME NEW x \in first, NEW y \in X \ first
      PROVE  <<x, y>> \in B
  <2>1. x \in X /\ x # y /\ r[x] < count /\ ~(r[y] < count) /\ r[x] \in Nat /\ r[y] \in Nat
    BY <1>0, <1>3, <1>6, <1>8
  <2>2. ~(r[y] < r[x])
    BY <2>1
  <2>. QED BY <1>2, <2>1, <2>2
<1>. QED BY <1>7, <1>8

-----------------------------------------------------------------------------
(* Sets of tools.                                                          *)

\* The contents of the changer are finite sets.
LEMMA ToolSets ==
  IsFiniteSet(Tools) /\ \A c \in SUBSET Tools : IsFiniteSet(c) /\ Cardinality(c) \in Nat
<1>1. IsFiniteSet(Tools)
  BY PlanConstants, FS_Interval DEF Tools
<1>. QED BY <1>1, FS_Subset, FS_CardinalityType

\* A set is split by another one.
LEMMA SplitCardinality ==
  ASSUME NEW a \in SUBSET Tools, NEW b \in SUBSET Tools
  PROVE  /\ Cardinality(a) = Cardinality(a \ b) + Cardinality(a \cap b)
         /\ Cardinality(a \ b) \in Nat /\ Cardinality(a \cap b) \in Nat
<1>1. a \ b \in SUBSET Tools /\ a \cap b \in SUBSET Tools
  OBVIOUS
<1>2. Cardinality(a \ b) = Cardinality(a) - Cardinality(a \cap b)
  BY ToolSets, FS_Difference
<1>3. Cardinality(a \ b) \in Nat /\ Cardinality(a \cap b) \in Nat /\ Cardinality(a) \in Nat
  BY <1>1, ToolSets
<1>. QED BY <1>2, <1>3

\* Two sets without a common member.
LEMMA DisjointCardinality ==
  ASSUME NEW a \in SUBSET Tools, NEW b \in SUBSET Tools, a \cap b = {}
  PROVE  Cardinality(a \cup b) = Cardinality(a) + Cardinality(b)
<1>1. (a \cup b) \ b = a /\ (a \cup b) \cap b = b /\ a \cup b \in SUBSET Tools
  OBVIOUS
<1>. QED BY <1>1, SplitCardinality

\* Subsets are smaller.
LEMMA SubsetCardinality ==
  ASSUME NEW b \in SUBSET Tools, NEW a \in SUBSET b
  PROVE  Cardinality(a) <= Cardinality(b) /\ (Cardinality(a) = Cardinality(b) => a = b)
BY ToolSets, FS_Subset

\* One tool in the place of another.
LEMMA SwapCardinality ==
  ASSUME NEW a \in SUBSET Tools, NEW x \in a, NEW y \in Tools \ a
  PROVE  Cardinality((a \ {x}) \cup {y}) = Cardinality(a)
<1>1. IsFiniteSet(a) /\ Cardinality(a) \in Nat
  BY ToolSets
<1>2. IsFiniteSet(a \ {x}) /\ Cardinality(a \ {x}) = Cardinality(a) - 1
  BY <1>1, FS_RemoveElement
<1>3. Cardinality((a \ {x}) \cup {y}) = Cardinality(a \ {x}) + 1
  BY <1>2, FS_AddElement
<1>. QED BY <1>1, <1>2, <1>3

\* The number of tools exchanged.
LEMMA ExchangeTyped ==
  ASSUME NEW a \in SUBSET Tools, NEW b \in SUBSET Tools
  PROVE  Exchange(a, b) \in Nat /\ Cardinality(a \ b) \in Nat /\ Cardinality(b \ a) \in Nat
<1>1. Cardinality(a \ b) \in Nat /\ Cardinality(b \ a) \in Nat
  BY SplitCardinality
<1>. QED BY <1>1 DEF Exchange

\* A detour never exchanges fewer tools.
LEMMA ExchangeTriangle ==
  ASSUME NEW a \in SUBSET Tools, NEW b \in SUBSET Tools, NEW c \in SUBSET Tools
  PROVE  Exchange(a, c) <= Exchange(a, b) + Exchange(b, c)
<1>1. ASSUME NEW p \in SUBSET Tools, NEW q \in SUBSET Tools, NEW r \in SUBSET Tools
      PROVE  Cardinality(p \ r) <= Cardinality(p \ q) + Cardinality(q \ r)
  <2>. DEFINE u == (p \ r) \ q
              v == (p \ r) \cap q
  <2>1. Cardinality(p \ r) = Cardinality(u) + Cardinality(v)
    <3>1. p \ r \in SUBSET Tools
      OBVIOUS
    <3>. QED BY <3>1, SplitCardinality
  <2>2. Cardinality(u) <= Cardinality(p \ q)
    <3>1. u \in SUBSET (p \ q) /\ p \ q \in SUBSET Tools
      OBVIOUS
    <3>. HIDE DEF u
    <3>. QED BY <3>1, SubsetCardinality
  <2>3. Cardinality(v) <= Cardinality(q \ r)
    <3>1. v \in SUBSET (q \ r) /\ q \ r \in SUBSET Tools
      OBVIOUS
    <3>. HIDE DEF v
    <3>. QED BY <3>1, SubsetCardinality
  <2>4. Cardinality(u) \in Nat /\ Cardinality(v) \in Nat /\ Cardinality(p \ q) \in Nat /\ Cardinality(q \ r) \in Nat
    <3>1. u \in SUBSET Tools /\ v \in SUBSET Tools /\ p \ q \in SUBSET Tools /\ q \ r \in SUBSET Tools
      OBVIOUS
    <3>. HIDE DEF u, v
    <3>. QED BY <3>1, ToolSets
  <2>. HIDE DEF u, v
  <2>. QED BY <2>1, <2>2, <2>3, <2>4
<1>2. Cardinality(a \ c) <= Cardinality(a \ b) + Cardinality(b \ c)
  BY <1>1
<1>3. Cardinality(c \ a) <= Cardinality(c \ b) + Cardinality(b \ a)
  BY <1>1
<1>4. /\ Cardinality(a \ c) \in Nat /\ Cardinality(a \ b) \in Nat /\ Cardinality(b \ c) \in Nat
      /\ Cardinality(c \ a) \in Nat /\ Cardinality(c \ b) \in Nat /\ Cardinality(b \ a) \in Nat
  BY ExchangeTyped
<1>. QED BY <1>2, <1>3, <1>4 DEF Exchange

-----------------------------------------------------------------------------
(* One job of an order.                                                    *)

Job == [id : Nat, tools : SUBSET Tools]

\* The jobs of an order.
LEMMA JobTyped ==
  ASSUME NEW order \in Seq(Job), NEW i \in 1..Len(order)
  PROVE  order[i] \in Job /\ order[i].tools \in SUBSET Tools /\ order[i].id \in Nat
<1>1. order[i] \in Job
  OBVIOUS
<1>. QED BY <1>1 DEF Job

\* The next use of a tool is found by looking at one job after the other.
LEMMA NextUseStep ==
  ASSUME NEW order \in Seq(Job), NEW t, NEW k \in 1..Len(order)
  PROVE  NextUse(t, order, k) = IF t \in order[k].tools THEN k ELSE NextUse(t, order, k + 1)
<1>. DEFINE n == Len(order)
            Later(i) == {j \in i..n : t \in order[j].tools}
<1>0. n \in Nat /\ k \in Nat /\ k <= n
  OBVIOUS
<1>. HIDE DEF n
<1>1. CASE t \in order[k].tools
  <2>1. Later(k) \in SUBSET Nat /\ k \in Later(k) /\ \A j \in Later(k) : k <= j
    BY <1>0, <1>1
  <2>2. Min(Later(k)) = k
    <3>. HIDE DEF Later
    <3>1. Min(Later(k)) \in Later(k) /\ Min(Later(k)) <= k
      BY <2>1, LeastOf
    <3>. QED BY <1>0, <2>1, <3>1
  <2>3. Later(k) # {}
    BY <2>1
  <2>. QED BY <1>1, <2>2, <2>3 DEF NextUse, n
<1>2. CASE t \notin order[k].tools
  <2>1. \A j : j \in k..n <=> j = k \/ j \in (k + 1)..n
    BY <1>0
  <2>2. Later(k) = Later(k + 1)
    BY <1>2, <2>1
  <2>. QED BY <1>2, <2>2 DEF NextUse, n
<1>. QED BY <1>1, <1>2

\* It is a place of the order from there on, or a number beyond the order.
LEMMA NextUseTyped ==
  ASSUME NEW order \in Seq(Job), NEW t, NEW k \in 1..(Len(order) + 1)
  PROVE  NextUse(t, order, k) \in Nat /\ k <= NextUse(t, order, k)
<1>. DEFINE n == Len(order)
            later == {j \in k..n : t \in order[j].tools}
<1>0. n \in Nat /\ k \in Nat /\ k <= n + 1
  OBVIOUS
<1>1. CASE later = {}
  <2>1. NextUse(t, order, k) = n + 2
    BY <1>1 DEF NextUse
  <2>. HIDE DEF n, later
  <2>. QED BY <1>0, <2>1
<1>2. CASE later # {}
  <2>1. NextUse(t, order, k) = Min(later)
    BY <1>2 DEF NextUse
  <2>2. later \in SUBSET Nat /\ \A j \in later : k <= j
    BY <1>0
  <2>. HIDE DEF n, later
  <2>. QED BY <1>2, <2>1, <2>2, LeastOf
<1>. QED BY <1>1, <1>2

\* As many tools are taken out as must be, none that the job uses, and those with the furthest next use.
LEMMA RemovalsRight ==
  ASSUME NEW order \in Seq(Job), NEW i \in 1..Len(order), NEW loaded \in SUBSET Tools,
         NEW count \in Nat, count <= Cardinality(loaded \ order[i].tools)
  PROVE  LET removed == Removals(order, i, loaded, count)
         IN  /\ removed \subseteq loaded \ order[i].tools
             /\ Cardinality(removed) = count
             /\ \A x \in removed : \A y \in (loaded \ order[i].tools) \ removed :
                  NextUse(y, order, i + 1) <= NextUse(x, order, i + 1)
<1>. DEFINE X == loaded \ order[i].tools
            use == [t \in Tools |-> NextUse(t, order, i + 1)]
            B == {ss \in X \X X : use[ss[1]] > use[ss[2]] \/ (use[ss[1]] = use[ss[2]] /\ ss[1] < ss[2])}
            removed == Removals(order, i, loaded, count)
<1>1. i + 1 \in 1..(Len(order) + 1)
  OBVIOUS
<1>2. \A t \in Tools : use[t] = NextUse(t, order, i + 1) /\ use[t] \in Nat
  BY <1>1, NextUseTyped
<1>3. X \subseteq Tools /\ IsFiniteSet(X) /\ \A t \in Tools : t \in Nat
  <2>1. X \in SUBSET Tools
    OBVIOUS
  <2>2. \A t \in Tools : t \in Nat
    BY DEF Tools
  <2>. QED BY <2>1, <2>2, ToolSets
<1>4. removed = {t \in X : Cardinality({s \in X : <<s, t>> \in B}) < count}
  <2>. DEFINE Before(s, t) == \/ NextUse(s, order, i + 1) > NextUse(t, order, i + 1)
                              \/ NextUse(s, order, i + 1) = NextUse(t, order, i + 1) /\ s < t
  <2>1. removed = {t \in X : Cardinality({s \in X : Before(s, t)}) < count}
    BY DEF Removals
  <2>2. \A s \in X : \A t \in X : Before(s, t) <=> <<s, t>> \in B
    <3>. SUFFICES ASSUME NEW s \in X, NEW t \in X
                  PROVE  Before(s, t) <=> <<s, t>> \in B
      OBVIOUS
    <3>1. <<s, t>> \in B <=> (use[s] > use[t] \/ (use[s] = use[t] /\ s < t))
      <4>. HIDE DEF use, X
      <4>. QED OBVIOUS
    <3>2. use[s] = NextUse(s, order, i + 1) /\ use[t] = NextUse(t, order, i + 1)
      BY <1>2, <1>3
    <3>. HIDE DEF B, use
    <3>. QED BY <3>1, <3>2
  <2>. HIDE DEF Before, B, X, removed
  <2>3. \A t \in X : {s \in X : Before(s, t)} = {s \in X : <<s, t>> \in B}
    BY <2>2
  <2>. QED BY <2>1, <2>3
<1>5. StrictOrder(X, B)
  <2>1. \A x, y \in X : <<x, y>> \in B <=> (use[x] > use[y] \/ (use[x] = use[y] /\ x < y))
    <3>. HIDE DEF use, X
    <3>. QED OBVIOUS
  <2>2. \A x \in X : x \in Nat /\ use[x] \in Nat
    BY <1>2, <1>3
  <2>. HIDE DEF B, X, use
  <2>3. \A x \in X : <<x, x>> \notin B
    BY <2>1, <2>2
  <2>4. \A x, y, z \in X : <<x, y>> \in B /\ <<y, z>> \in B => <<x, z>> \in B
    BY <2>1, <2>2
  <2>5. \A x, y \in X : x = y \/ <<x, y>> \in B \/ <<y, x>> \in B
    <3>1. \A x \in X : \A y \in X : x = y \/ x < y \/ y < x
      BY <2>2
    <3>2. \A x \in X : \A y \in X : use[x] = use[y] \/ use[x] > use[y] \/ use[y] > use[x]
      BY <2>2
    <3>. SUFFICES ASSUME NEW x \in X, NEW y \in X, x # y, <<x, y>> \notin B
                  PROVE  <<y, x>> \in B
      OBVIOUS
    <3>. QED BY <2>1, <3>1, <3>2
  <2>. QED BY <2>3, <2>4, <2>5 DEF StrictOrder
<1>6. Cardinality(removed) = count /\ \A x \in removed : \A y \in X \ removed : <<x, y>> \in B
  <2>1. count <= Cardinality(X)
    OBVIOUS
  <2>. DEFINE below == [t \in X |-> {s \in X : <<s, t>> \in B}]
  <2>. HIDE DEF B, X, removed, use
  <2>2. ComesBefore(below, X, B)
    BY DEF ComesBefore
  <2>3. FirstBy(removed, X, below, count)
    <3>1. \A t \in X : below[t] = {s \in X : <<s, t>> \in B}
      OBVIOUS
    <3>. HIDE DEF below
    <3>. QED BY <1>4, <3>1 DEF FirstBy
  <2>. HIDE DEF below
  <2>. QED BY <1>3, <1>5, <2>1, <2>2, <2>3, FirstMembers
<1>7. removed \subseteq X
  <2>. HIDE DEF B, X, removed
  <2>. QED BY <1>4
<1>8. \A x \in removed : \A y \in X \ removed : use[y] <= use[x]
  <2>1. \A x, y \in X : <<x, y>> \in B => (use[x] > use[y] \/ use[x] = use[y])
    <3>. HIDE DEF use, X
    <3>. QED OBVIOUS
  <2>2. \A x \in X : use[x] \in Nat
    BY <1>2, <1>3
  <2>. HIDE DEF B, X, removed, use
  <2>3. \A x, y \in X : <<x, y>> \in B => use[y] <= use[x]
    BY <2>1, <2>2
  <2>. QED BY <1>6, <1>7, <2>3
<1>9. \A x \in removed : \A y \in X \ removed : NextUse(y, order, i + 1) <= NextUse(x, order, i + 1)
  <2>1. \A x \in X : use[x] = NextUse(x, order, i + 1)
    BY <1>2, <1>3
  <2>. HIDE DEF X, removed, use
  <2>. QED BY <1>7, <1>8, <2>1
<1>. QED BY <1>6, <1>7, <1>9

\* What a job takes out, and what is in the changer afterwards.
TakenFor(order, i, loaded, capacity) ==
  Removals(order, i, loaded, RemoveCount(loaded, order[i].tools \ loaded, capacity))
LoadedAfter(order, i, loaded, capacity) ==
  (loaded \ TakenFor(order, i, loaded, capacity)) \cup (order[i].tools \ loaded)

\* A job finds its tools and fits; room is made only when the changer is full, by the tools whose next use
\* is furthest away.
LEMMA OneJob ==
  ASSUME NEW order \in Seq(Job), NEW i \in 1..Len(order), NEW loaded \in SUBSET Tools, NEW capacity \in Nat,
         Cardinality(loaded) <= capacity, Cardinality(order[i].tools) <= capacity
  PROVE  LET removed == TakenFor(order, i, loaded, capacity)
             after   == LoadedAfter(order, i, loaded, capacity)
         IN  /\ removed \subseteq loaded \ order[i].tools
             /\ after \in SUBSET Tools /\ order[i].tools \subseteq after /\ Cardinality(after) <= capacity
             /\ loaded \ after = removed /\ after \ loaded = order[i].tools \ loaded
             /\ removed # {} => Cardinality(after) = capacity
             /\ \A x \in removed : \A y \in (loaded \ order[i].tools) \ removed :
                  NextUse(y, order, i + 1) <= NextUse(x, order, i + 1)
<1>. DEFINE T == order[i].tools
            missing == T \ loaded
            count == RemoveCount(loaded, missing, capacity)
            removed == TakenFor(order, i, loaded, capacity)
            after == LoadedAfter(order, i, loaded, capacity)
<1>1. T \in SUBSET Tools /\ missing \in SUBSET Tools /\ loaded \ T \in SUBSET Tools
  BY JobTyped
<1>2. /\ Cardinality(loaded) = Cardinality(loaded \ T) + Cardinality(loaded \cap T)
      /\ Cardinality(T) = Cardinality(missing) + Cardinality(loaded \cap T)
      /\ Cardinality(loaded) \in Nat /\ Cardinality(T) \in Nat /\ Cardinality(missing) \in Nat
      /\ Cardinality(loaded \ T) \in Nat /\ Cardinality(loaded \cap T) \in Nat
  <2>1. T \cap loaded = loaded \cap T
    OBVIOUS
  <2>. HIDE DEF T
  <2>2. Cardinality(T) = Cardinality(T \ loaded) + Cardinality(T \cap loaded)
    BY <1>1, SplitCardinality
  <2>3. Cardinality(loaded) = Cardinality(loaded \ T) + Cardinality(loaded \cap T)
    BY <1>1, SplitCardinality
  <2>4. loaded \cap T \in SUBSET Tools
    OBVIOUS
  <2>5. /\ Cardinality(loaded) \in Nat /\ Cardinality(T) \in Nat /\ Cardinality(missing) \in Nat
        /\ Cardinality(loaded \ T) \in Nat /\ Cardinality(loaded \cap T) \in Nat
    BY <1>1, <2>4, ToolSets
  <2>. QED BY <2>1, <2>2, <2>3, <2>5
<1>3. /\ count \in Nat /\ count <= Cardinality(loaded \ T)
      /\ (Cardinality(loaded) + Cardinality(missing)) - count <= capacity
      /\ count # 0 => (Cardinality(loaded) + Cardinality(missing)) - count = capacity
  <2>. DEFINE both == Cardinality(loaded) + Cardinality(missing)
  <2>1. count = IF both <= capacity THEN 0 ELSE both - capacity
    BY DEF RemoveCount
  <2>2. Cardinality(T) <= capacity
    OBVIOUS
  <2>. HIDE DEF count, missing, T
  <2>3. both \in Nat /\ both <= capacity + Cardinality(loaded \ T)
    BY <1>2, <2>2
  <2>. HIDE DEF both
  <2>4. count \in Nat /\ count <= Cardinality(loaded \ T) /\ both - count <= capacity
        /\ (count # 0 => both - count = capacity)
    <3>1. CASE both <= capacity
      BY <1>2, <2>1, <2>3, <3>1
    <3>2. CASE ~(both <= capacity)
      <4>1. count = both - capacity
        BY <2>1, <3>2
      <4>. QED BY <1>2, <2>3, <3>2, <4>1
    <3>. QED BY <3>1, <3>2
  <2>. QED BY <2>4 DEF both
<1>4. removed = Removals(order, i, loaded, count) /\ after = (loaded \ removed) \cup missing
  BY DEF TakenFor, LoadedAfter
<1>5. /\ removed \subseteq loaded \ T /\ Cardinality(removed) = count
      /\ \A x \in removed : \A y \in (loaded \ T) \ removed : NextUse(y, order, i + 1) <= NextUse(x, order, i + 1)
  <2>. HIDE DEF removed, count
  <2>. QED BY <1>3, <1>4, RemovalsRight
<1>. HIDE DEF removed, after
<1>6. Cardinality(after) = (Cardinality(loaded) + Cardinality(missing)) - count
  <2>1. Cardinality(loaded) = Cardinality(loaded \ removed) + Cardinality(removed)
        /\ Cardinality(loaded \ removed) \in Nat
    <3>1. loaded \cap removed = removed /\ removed \in SUBSET Tools
      BY <1>5
    <3>. QED BY <3>1, SplitCardinality
  <2>2. Cardinality(after) = Cardinality(loaded \ removed) + Cardinality(missing)
    <3>1. (loaded \ removed) \cap missing = {} /\ loaded \ removed \in SUBSET Tools
      OBVIOUS
    <3>. HIDE DEF missing
    <3>. QED BY <1>1, <1>4, <3>1, DisjointCardinality
  <2>. HIDE DEF missing, count
  <2>. QED BY <1>2, <1>3, <1>5, <2>1, <2>2
<1>7. Cardinality(after) <= capacity /\ (removed # {} => Cardinality(after) = capacity)
  <2>1. removed # {} => count # 0
    <3>1. removed \in SUBSET Tools
      BY <1>1, <1>5
    <3>. HIDE DEF count
    <3>. QED BY <1>5, <3>1, ToolSets, FS_EmptySet
  <2>. HIDE DEF missing, count
  <2>. QED BY <1>3, <1>6, <2>1
<1>8. after \in SUBSET Tools /\ T \subseteq after /\ loaded \ after = removed /\ after \ loaded = missing
  <2>. HIDE DEF T
  <2>. QED BY <1>1, <1>4, <1>5
<1>. QED BY <1>5, <1>7, <1>8 DEF removed, after

-----------------------------------------------------------------------------
(* The simulation of an order.                                             *)

\* Where an order can be carried out: each job alone fits the changer, and so does what is in it.
Feasible(order, initial, capacity) ==
  /\ order \in Seq(Job) /\ initial \in SUBSET Tools /\ capacity \in Nat
  /\ Cardinality(initial) <= capacity
  /\ \A i \in 1..Len(order) : Cardinality(order[i].tools) <= capacity

SimState == [loaded : SUBSET Tools, loads : Nat, unloads : Nat, taken : SUBSET Tools, put : SUBSET Tools]

IsSimulation(sim, order, initial, capacity) ==
  /\ \A i \in 0..Len(order) : sim[i] \in SimState /\ Cardinality(sim[i].loaded) <= capacity
  /\ sim[0] = [loaded |-> initial, loads |-> 0, unloads |-> 0, taken |-> {}, put |-> {}]
  /\ \A i \in 1..Len(order) :
       sim[i] = [loaded  |-> LoadedAfter(order, i, sim[i - 1].loaded, capacity),
                 loads   |-> sim[i - 1].loads + Cardinality(order[i].tools \ sim[i - 1].loaded),
                 unloads |-> sim[i - 1].unloads + Cardinality(TakenFor(order, i, sim[i - 1].loaded, capacity)),
                 taken   |-> TakenFor(order, i, sim[i - 1].loaded, capacity),
                 put     |-> order[i].tools \ sim[i - 1].loaded]

\* The recursive definition of the simulation has a solution, in which each job is one step.
LEMMA Simulation ==
  ASSUME NEW order, NEW initial, NEW capacity, Feasible(order, initial, capacity)
  PROVE  IsSimulation(simulate_tool_plan(order, initial, capacity), order, initial, capacity)
<1>. DEFINE n == Len(order)
            a == [loaded |-> initial, loads |-> 0, unloads |-> 0, taken |-> {}, put |-> {}]
            Step(i, before) ==
              [loaded  |-> LoadedAfter(order, i, before.loaded, capacity),
               loads   |-> before.loads + Cardinality(order[i].tools \ before.loaded),
               unloads |-> before.unloads + Cardinality(TakenFor(order, i, before.loaded, capacity)),
               taken   |-> TakenFor(order, i, before.loaded, capacity),
               put     |-> order[i].tools \ before.loaded]
            S == {s \in SimState : Cardinality(s.loaded) <= capacity}
            F == [k \in 0..n |-> S]
            g == [k \in 1..n |-> [s \in S |-> Step(k, s)]]
            sim == simulate_tool_plan(order, initial, capacity)
            IsSim(f) == f = [i \in 0..n |-> IF i = 0 THEN a ELSE Step(i, f[i - 1])]
<1>0. n \in Nat /\ order \in Seq(Job) /\ capacity \in Nat /\ initial \in SUBSET Tools
  BY DEF Feasible
<1>1. sim = CHOOSE f : IsSim(f)
  BY DEF simulate_tool_plan, TakenFor, LoadedAfter
<1>2. a \in S
  BY DEF Feasible, SimState
<1>3. \A k \in 1..n : \A s \in S : Step(k, s) \in S
  <2>. SUFFICES ASSUME NEW k \in 1..n, NEW s \in S
                PROVE  Step(k, s) \in S
    OBVIOUS
  <2>1. s.loaded \in SUBSET Tools /\ Cardinality(s.loaded) <= capacity /\ s.loads \in Nat /\ s.unloads \in Nat
    BY DEF SimState
  <2>2. k \in 1..Len(order) /\ Cardinality(order[k].tools) <= capacity /\ order[k].tools \in SUBSET Tools
    BY <1>0, JobTyped DEF Feasible
  <2>3. /\ TakenFor(order, k, s.loaded, capacity) \in SUBSET Tools
        /\ LoadedAfter(order, k, s.loaded, capacity) \in SUBSET Tools
        /\ Cardinality(LoadedAfter(order, k, s.loaded, capacity)) <= capacity
    <3>. HIDE DEF n, S
    <3>. QED BY <1>0, <2>1, <2>2, OneJob
  <2>4. /\ Cardinality(order[k].tools \ s.loaded) \in Nat /\ order[k].tools \ s.loaded \in SUBSET Tools
        /\ Cardinality(TakenFor(order, k, s.loaded, capacity)) \in Nat
    <3>1. order[k].tools \ s.loaded \in SUBSET Tools
      BY <2>2
    <3>. QED BY <2>3, <3>1, ToolSets
  <2>5. Step(k, s) \in SimState
    <3>1. /\ s.loads + Cardinality(order[k].tools \ s.loaded) \in Nat
          /\ s.unloads + Cardinality(TakenFor(order, k, s.loaded, capacity)) \in Nat
      BY <2>1, <2>4
    <3>. QED BY <2>3, <2>4, <3>1 DEF SimState
  <2>. QED BY <2>3, <2>5
<1>4. \E f : IsRecursion(f, 0, n, a, g) /\ \A k \in 0..n : f[k] \in F[k]
  <2>1. a \in F[0]
    BY <1>0, <1>2
  <2>2. \A k \in (0 + 1)..n : \A s \in F[k - 1] : g[k][s] \in F[k]
    <3>. SUFFICES ASSUME NEW k \in (0 + 1)..n, NEW s \in F[k - 1]
                  PROVE  g[k][s] \in F[k]
      OBVIOUS
    <3>1. k \in 1..n /\ k \in 0..n /\ k - 1 \in 0..n
      BY <1>0
    <3>2. F[k - 1] = S /\ F[k] = S
      BY <3>1
    <3>3. s \in S /\ g[k][s] = Step(k, s)
      <4>. HIDE DEF S, Step
      <4>. QED BY <3>1, <3>2
    <3>. HIDE DEF S, F, g, Step
    <3>. QED BY <1>3, <3>1, <3>2, <3>3
  <2>. HIDE DEF F, g, a, n
  <2>3. StaysIn(F, 0, n, a, g)
    BY <2>1, <2>2 DEF StaysIn
  <2>4. 0 \in Nat /\ 0 <= n
    BY <1>0
  <2>. QED BY <1>0, <2>3, <2>4, Iterates
<1>5. PICK f : /\ f = [k \in 0..n |-> IF k = 0 THEN a ELSE g[k][f[k - 1]]]
               /\ \A k \in 0..n : f[k] \in F[k]
  <2>. HIDE DEF F, g, a, n
  <2>. QED BY <1>4 DEF IsRecursion
<1>6. IsSim(f)
  <2>1. \A k \in 0..n : k # 0 => k \in 1..n /\ k - 1 \in 0..n
    BY <1>0
  <2>2. \A k \in 0..n : f[k] \in S
    BY <1>5
  <2>3. \A k \in 0..n : k # 0 => g[k][f[k - 1]] = Step(k, f[k - 1])
    <3>. HIDE DEF S, Step
    <3>. QED BY <2>1, <2>2
  <2>. HIDE DEF a, g, Step, n
  <2>. QED BY <1>5, <2>3
<1>7. IsSim(sim)
  <2>. HIDE DEF IsSim, sim
  <2>. QED BY <1>1, <1>6
<1>8. sim[0] = a /\ \A i \in 1..n : sim[i] = Step(i, sim[i - 1])
  <2>1. \A i \in 0..n : sim[i] = IF i = 0 THEN a ELSE Step(i, sim[i - 1])
    <3>. HIDE DEF sim, a, Step
    <3>. QED BY <1>7
  <2>2. 0 \in 0..n /\ \A i \in 1..n : i \in 0..n /\ i # 0
    BY <1>0
  <2>. HIDE DEF sim, a, Step
  <2>. QED BY <2>1, <2>2
<1>9. \A i \in 0..n : sim[i] \in S
  <2>. DEFINE G == {i \in Nat : i <= n => sim[i] \in S}
  <2>. HIDE DEF sim, a, Step, S, n
  <2>1. 0 \in G
    BY <1>2, <1>8
  <2>2. \A i \in G : i + 1 \in G
    <3>. SUFFICES ASSUME NEW i \in G, i + 1 <= n
                  PROVE  sim[i + 1] \in S
      OBVIOUS
    <3>1. i \in Nat /\ i + 1 \in 1..n /\ (i + 1) - 1 = i /\ i <= n
      BY <1>0
    <3>2. sim[i] \in S /\ sim[i + 1] = Step(i + 1, sim[i])
      BY <1>8, <3>1
    <3>. QED BY <1>3, <3>1, <3>2
  <2>3. G = Nat
    <3>1. G \in SUBSET Nat
      OBVIOUS
    <3>. HIDE DEF G
    <3>. QED BY <2>1, <2>2, <3>1, NatInduct
  <2>. QED BY <1>0, <2>3
<1>. QED BY <1>8, <1>9 DEF IsSimulation

\* The states of a simulation.
LEMMA SimulationTyped ==
  ASSUME NEW sim, NEW order \in Seq(Job), NEW initial, NEW capacity, IsSimulation(sim, order, initial, capacity),
         NEW i \in 0..Len(order)
  PROVE  /\ sim[i].loaded \in SUBSET Tools /\ Cardinality(sim[i].loaded) <= capacity
         /\ sim[i].loads \in Nat /\ sim[i].unloads \in Nat
         /\ sim[0].loaded = initial /\ sim[0].loads = 0 /\ sim[0].unloads = 0
<1>1. sim[i] \in SimState /\ Cardinality(sim[i].loaded) <= capacity
  BY DEF IsSimulation
<1>2. sim[0] = [loaded |-> initial, loads |-> 0, unloads |-> 0, taken |-> {}, put |-> {}]
  BY DEF IsSimulation
<1>. QED BY <1>1, <1>2 DEF SimState

\* A step of a simulation: from the state after one job to the state after the next.
IsSimulationStep(sim, order, capacity, i, j) ==
  /\ sim[j].loaded = LoadedAfter(order, j, sim[i].loaded, capacity)
  /\ sim[j].loads = sim[i].loads + Cardinality(order[j].tools \ sim[i].loaded)
  /\ sim[j].unloads = sim[i].unloads + Cardinality(TakenFor(order, j, sim[i].loaded, capacity))
  /\ sim[j].taken = TakenFor(order, j, sim[i].loaded, capacity)
  /\ sim[j].put = order[j].tools \ sim[i].loaded

\* A simulation takes such steps.
LEMMA SimulationStep ==
  ASSUME NEW sim, NEW order \in Seq(Job), NEW initial, NEW capacity, IsSimulation(sim, order, initial, capacity),
         NEW j \in 1..Len(order), NEW i, i = j - 1
  PROVE  IsSimulationStep(sim, order, capacity, i, j)
<1>1. sim[j] = [loaded  |-> LoadedAfter(order, j, sim[j - 1].loaded, capacity),
                loads   |-> sim[j - 1].loads + Cardinality(order[j].tools \ sim[j - 1].loaded),
                unloads |-> sim[j - 1].unloads + Cardinality(TakenFor(order, j, sim[j - 1].loaded, capacity)),
                taken   |-> TakenFor(order, j, sim[j - 1].loaded, capacity),
                put     |-> order[j].tools \ sim[j - 1].loaded]
  BY DEF IsSimulation
<1>. QED BY <1>1 DEF IsSimulationStep

-----------------------------------------------------------------------------
(* What the rest of an order costs at least, whatever is taken out.        *)

\* The contents with which a job can run.
Serving(job, capacity) == {c \in SUBSET Tools : job.tools \subseteq c /\ Cardinality(c) <= capacity}

\* cost[k][loaded]: the fewest tools exchanged for the last k jobs of the order.
IsCost(cost, order, capacity) ==
  /\ \A k \in 0..Len(order) : cost[k] \in [SUBSET Tools -> Nat]
  /\ \A loaded \in SUBSET Tools : cost[0][loaded] = 0
  /\ \A k \in 1..Len(order) : \A loaded \in SUBSET Tools :
       LET served == Serving(order[Len(order) + 1 - k], capacity)
       IN  /\ \A c \in served : cost[k][loaded] <= Exchange(loaded, c) + cost[k - 1][c]
           /\ \E c \in served : cost[k][loaded] = Exchange(loaded, c) + cost[k - 1][c]

\* Costs are numbers, none when no job is left.
LEMMA CostTyped ==
  ASSUME NEW cost, NEW order \in Seq(Job), NEW capacity, IsCost(cost, order, capacity),
         NEW k \in 0..Len(order), NEW a \in SUBSET Tools
  PROVE  cost[k][a] \in Nat /\ cost[0][a] = 0
BY DEF IsCost

\* Any content with which the next job can run bounds the cost.
LEMMA CostBound ==
  ASSUME NEW cost, NEW order \in Seq(Job), NEW capacity, IsCost(cost, order, capacity),
         NEW k \in 1..Len(order), NEW a \in SUBSET Tools, NEW j, j = Len(order) + 1 - k,
         NEW c \in Serving(order[j], capacity)
  PROVE  cost[k][a] <= Exchange(a, c) + cost[k - 1][c]
BY DEF IsCost

\* The content that attains it.
AttainedAt(cost, order, capacity, k, a, c) ==
  c \in Serving(order[Len(order) + 1 - k], capacity) /\ cost[k][a] = Exchange(a, c) + cost[k - 1][c]
Attained(cost, order, capacity, k, a) == \E c \in SUBSET Tools : AttainedAt(cost, order, capacity, k, a, c)

\* Some content with which the next job can run attains the cost.
LEMMA CostAttained ==
  ASSUME NEW cost, NEW order \in Seq(Job), NEW capacity, IsCost(cost, order, capacity),
         NEW k \in 1..Len(order), NEW a \in SUBSET Tools
  PROVE  Attained(cost, order, capacity, k, a)
BY DEF IsCost, Attained, AttainedAt, Serving

\* Starting from another content costs at most what it takes to get there.
LEMMA CostDetour ==
  ASSUME NEW cost, NEW order \in Seq(Job), NEW capacity, IsCost(cost, order, capacity),
         NEW k \in 0..Len(order), NEW a \in SUBSET Tools, NEW b \in SUBSET Tools
  PROVE  cost[k][a] <= Exchange(a, b) + cost[k][b]
<1>1. CASE k = 0
  <2>1. cost[k][a] = 0 /\ cost[k][b] = 0
    BY <1>1, CostTyped
  <2>2. Exchange(a, b) \in Nat
    BY ExchangeTyped
  <2>. QED BY <2>1, <2>2
<1>2. CASE k # 0
  <2>1. k \in 1..Len(order) /\ k - 1 \in 0..Len(order)
    BY <1>2
  <2>. DEFINE served == Serving(order[Len(order) + 1 - k], capacity)
  <2>2. PICK c \in served : cost[k][b] = Exchange(b, c) + cost[k - 1][c]
    <3>1. Attained(cost, order, capacity, k, b)
      BY <2>1, CostAttained
    <3>. QED BY <3>1 DEF Attained, AttainedAt
  <2>3. cost[k][a] <= Exchange(a, c) + cost[k - 1][c]
    BY <2>1, CostBound
  <2>4. c \in SUBSET Tools
    BY DEF Serving
  <2>5. Exchange(a, c) <= Exchange(a, b) + Exchange(b, c)
    BY <2>4, ExchangeTriangle
  <2>6. /\ Exchange(a, c) \in Nat /\ Exchange(a, b) \in Nat /\ Exchange(b, c) \in Nat
        /\ cost[k][a] \in Nat /\ cost[k][b] \in Nat /\ cost[k - 1][c] \in Nat
    BY <2>1, <2>4, ExchangeTyped, CostTyped
  <2>. HIDE DEF served
  <2>7. Exchange(a, c) + cost[k - 1][c] <= Exchange(a, b) + (Exchange(b, c) + cost[k - 1][c])
    BY <2>5, <2>6
  <2>8. cost[k][a] <= Exchange(a, b) + (Exchange(b, c) + cost[k - 1][c])
    BY <2>3, <2>6, <2>7
  <2>. QED BY <2>2, <2>8
<1>. QED BY <1>1, <1>2

\* To have one tool in the place of another does not exchange more, unless only the other comes next.
LEMMA ExchangeSwap ==
  ASSUME NEW a \in SUBSET Tools, NEW x \in a, NEW y \in Tools \ a, NEW c \in SUBSET Tools,
         ~(y \in c /\ x \notin c)
  PROVE  Exchange(a, c) <= Exchange((a \ {x}) \cup {y}, c)
<1>. DEFINE b == (a \ {x}) \cup {y}
<1>1. b \in SUBSET Tools
  OBVIOUS
<1>3. ASSUME y \in c, x \in c
      PROVE  Exchange(a, c) <= Exchange(b, c)
  <2>1. a \ c = b \ c
    BY <1>3
  <2>2. c \ b = ((c \ a) \ {y}) \cup {x} /\ y \in c \ a /\ x \in Tools \ (c \ a) /\ c \ a \in SUBSET Tools
    BY <1>3
  <2>3. Cardinality(c \ b) = Cardinality(c \ a)
    BY <2>2, SwapCardinality
  <2>4. Exchange(a, c) = Exchange(b, c) /\ Exchange(a, c) \in Nat
    BY <2>1, <2>3, ExchangeTyped DEF Exchange
  <2>. QED BY <2>4
<1>4. ASSUME y \notin c
      PROVE  Exchange(a, c) <= Exchange(b, c)
  <2>1. Cardinality(a \ c) <= Cardinality(b \ c)
    <3>1. CASE x \in c
      <4>1. a \ c \in SUBSET (b \ c) /\ b \ c \in SUBSET Tools
        BY <3>1
      <4>. QED BY <4>1, SubsetCardinality
    <3>2. CASE x \notin c
      <4>1. b \ c = ((a \ c) \ {x}) \cup {y} /\ x \in a \ c /\ y \in Tools \ (a \ c) /\ a \ c \in SUBSET Tools
        BY <1>4, <3>2
      <4>2. Cardinality(b \ c) = Cardinality(a \ c)
        <5>. HIDE DEF b
        <5>. QED BY <4>1, SwapCardinality
      <4>3. Cardinality(a \ c) \in Nat
        BY ExchangeTyped
      <4>. QED BY <4>2, <4>3
    <3>. QED BY <3>1, <3>2
  <2>2. Cardinality(c \ a) <= Cardinality(c \ b)
    <3>1. c \ a \in SUBSET (c \ b) /\ c \ b \in SUBSET Tools
      BY <1>4
    <3>. QED BY <3>1, SubsetCardinality
  <2>3. /\ Cardinality(a \ c) \in Nat /\ Cardinality(b \ c) \in Nat
        /\ Cardinality(c \ a) \in Nat /\ Cardinality(c \ b) \in Nat
    BY <1>1, ExchangeTyped
  <2>. QED BY <2>1, <2>2, <2>3 DEF Exchange
<1>. QED BY <1>3, <1>4

\* A tool that is needed sooner is worth no less in the changer than one that is needed later.
LEMMA SoonerIsBetter ==
  ASSUME NEW cost, NEW order \in Seq(Job), NEW capacity, IsCost(cost, order, capacity)
  PROVE  \A k \in 0..Len(order) : \A a \in SUBSET Tools : \A x \in a : \A y \in Tools \ a :
           NextUse(x, order, Len(order) + 1 - k) <= NextUse(y, order, Len(order) + 1 - k)
             => cost[k][a] <= cost[k][(a \ {x}) \cup {y}]
<1>. DEFINE n == Len(order)
            Holds(k) == \A a \in SUBSET Tools : \A x \in a : \A y \in Tools \ a :
                          NextUse(x, order, n + 1 - k) <= NextUse(y, order, n + 1 - k)
                            => cost[k][a] <= cost[k][(a \ {x}) \cup {y}]
            S == {k \in Nat : k <= n => Holds(k)}
<1>0. n \in Nat /\ n = Len(order)
  OBVIOUS
<1>1. 0 \in S
  <2>1. \A a \in SUBSET Tools : \A x \in a : \A y \in Tools \ a : (a \ {x}) \cup {y} \in SUBSET Tools
    OBVIOUS
  <2>2. \A a \in SUBSET Tools : cost[0][a] = 0
    BY DEF IsCost
  <2>3. Holds(0)
    BY <2>1, <2>2
  <2>. HIDE DEF Holds
  <2>. QED BY <2>3
<1>2. ASSUME NEW k \in S
      PROVE  k + 1 \in S
  <2>. SUFFICES ASSUME k + 1 <= n
                PROVE  Holds(k + 1)
    <3>. HIDE DEF Holds
    <3>. QED OBVIOUS
  <2>0. k \in Nat /\ Holds(k)
    <3>. HIDE DEF Holds
    <3>1. k \in Nat /\ (k <= n => Holds(k))
      OBVIOUS
    <3>. QED BY <1>0, <3>1
  <2>. DEFINE j == n - k
              T == order[j].tools
              served == Serving(order[j], capacity)
  <2>1. /\ j \in 1..n /\ n + 1 - (k + 1) = j /\ n + 1 - k = j + 1 /\ k + 1 \in 1..n /\ (k + 1) - 1 = k
        /\ k \in 0..n /\ k + 1 \in 0..n /\ j \in 1..(n + 1) /\ j + 1 \in 1..(n + 1)
    BY <1>0, <2>0
  <2>. SUFFICES ASSUME NEW a \in SUBSET Tools, NEW x \in a, NEW y \in Tools \ a,
                       NextUse(x, order, j) <= NextUse(y, order, j)
                PROVE  cost[k + 1][a] <= cost[k + 1][(a \ {x}) \cup {y}]
    <3>. HIDE DEF j
    <3>. QED BY <2>1
  <2>. HIDE DEF n
  <2>. DEFINE b == (a \ {x}) \cup {y}
  <2>2. b \in SUBSET Tools
    OBVIOUS
  <2>3. PICK d \in served : cost[k + 1][b] = Exchange(b, d) + cost[k][d]
    <3>. HIDE DEF j, b
    <3>1. Attained(cost, order, capacity, k + 1, b)
      BY <1>0, <2>1, <2>2, CostAttained
    <3>2. PICK c \in SUBSET Tools : AttainedAt(cost, order, capacity, k + 1, b, c)
      BY <3>1 DEF Attained
    <3>3. c \in served /\ cost[k + 1][b] = Exchange(b, c) + cost[k][c]
      BY <1>0, <2>1, <3>2 DEF AttainedAt
    <3>. QED BY <3>3
  <2>4. d \in SUBSET Tools /\ T \subseteq d /\ Cardinality(d) <= capacity
    BY DEF Serving
  <2>5. \A c \in served : cost[k + 1][a] <= Exchange(a, c) + cost[k][c]
    <3>1. \A c \in served : cost[k + 1][a] <= Exchange(a, c) + cost[(k + 1) - 1][c]
      <4>. HIDE DEF j
      <4>. QED BY <1>0, <2>1, CostBound
    <3>. HIDE DEF j
    <3>. QED BY <2>1, <3>1
  <2>6. cost[k][d] \in Nat /\ Exchange(b, d) \in Nat /\ Exchange(a, d) \in Nat /\ cost[k + 1][a] \in Nat
    BY <1>0, <2>1, <2>2, <2>4, CostTyped, ExchangeTyped
  <2>7. ASSUME y \in d, x \notin d
        PROVE  cost[k + 1][a] <= cost[k + 1][b]
    <3>. DEFINE c == (d \ {y}) \cup {x}
    <3>1. x \notin T
      BY <2>4, <2>7
    <3>2. NextUse(x, order, j) = NextUse(x, order, j + 1) /\ NextUse(y, order, j) \in Nat /\ NextUse(y, order, j + 1) \in Nat
      <4>. HIDE DEF j
      <4>. QED BY <1>0, <2>1, <3>1, NextUseStep, NextUseTyped
    <3>3. y \notin T
      <4>. SUFFICES ASSUME y \in T
                    PROVE  FALSE
        OBVIOUS
      <4>1. NextUse(y, order, j) = j
        <5>. HIDE DEF j
        <5>. QED BY <1>0, <2>1, NextUseStep
      <4>2. j + 1 <= NextUse(x, order, j) /\ NextUse(x, order, j) \in Nat
        <5>. HIDE DEF j
        <5>. QED BY <1>0, <2>1, <3>2, NextUseTyped
      <4>3. j \in Nat
        BY <2>1
      <4>. HIDE DEF j
      <4>. QED BY <4>1, <4>2, <4>3
    <3>4. NextUse(y, order, j) = NextUse(y, order, j + 1)
      <4>. HIDE DEF j
      <4>. QED BY <1>0, <2>1, <3>3, NextUseStep
    <3>5. c \in served
      <4>1. T \subseteq c /\ c \in SUBSET Tools
        BY <2>4, <3>1, <3>3
      <4>2. Cardinality(c) = Cardinality(d)
        BY <2>4, <2>7, SwapCardinality
      <4>. QED BY <2>4, <4>1, <4>2 DEF Serving
    <3>6. d = (c \ {x}) \cup {y} /\ c \in SUBSET Tools /\ x \in c /\ y \in Tools \ c
      BY <2>4, <2>7
    <3>7. cost[k][c] <= cost[k][d]
      <4>. HIDE DEF c, j
      <4>. QED BY <2>0, <2>1, <3>2, <3>4, <3>6
    <3>8. Exchange(a, c) = Exchange(b, d)
      <4>1. a \ c = b \ d
        BY <2>7
      <4>2. c \ a = d \ b
        BY <2>7
      <4>. QED BY <4>1, <4>2 DEF Exchange
    <3>9. cost[k][c] \in Nat
      <4>. HIDE DEF c
      <4>. QED BY <1>0, <2>1, <3>6, CostTyped
    <3>10. cost[k + 1][a] <= Exchange(a, c) + cost[k][c]
      <4>. HIDE DEF c, served
      <4>. QED BY <2>5, <3>5
    <3>. HIDE DEF c, b
    <3>. QED BY <2>3, <2>6, <3>7, <3>8, <3>9, <3>10
  <2>8. ASSUME ~(y \in d /\ x \notin d)
        PROVE  cost[k + 1][a] <= cost[k + 1][b]
    <3>1. Exchange(a, d) <= Exchange(b, d)
      BY <2>4, <2>8, ExchangeSwap
    <3>2. cost[k + 1][a] <= Exchange(a, d) + cost[k][d]
      <4>. HIDE DEF served
      <4>. QED BY <2>5
    <3>. HIDE DEF b
    <3>. QED BY <2>3, <2>6, <3>1, <3>2
  <2>. QED BY <2>7, <2>8
<1>3. S = Nat
  <2>1. S \in SUBSET Nat
    OBVIOUS
  <2>. HIDE DEF S
  <2>. QED BY <1>1, <1>2, <2>1, NatInduct
<1>4. \A k \in 0..n : Holds(k)
  <2>. HIDE DEF Holds, n
  <2>. QED BY <1>0, <1>3
<1>. QED BY <1>4

\* The content that the simulation chooses is a cheapest one: a content with tools that are neither loaded
\* nor used brings them in too early, one that keeps a tool which the simulation takes out and lacks one
\* which it keeps can be improved by exchanging the two, and one that lacks tools moves them for nothing.
LEMMA FurthestIsCheapest ==
  ASSUME NEW cost, NEW order \in Seq(Job), NEW capacity \in Nat, IsCost(cost, order, capacity),
         NEW i \in 1..Len(order), NEW loaded \in SUBSET Tools,
         Cardinality(loaded) <= capacity, Cardinality(order[i].tools) <= capacity,
         NEW k, k = Len(order) + 1 - i
  PROVE  LET after == LoadedAfter(order, i, loaded, capacity)
         IN  cost[k][loaded] = Exchange(loaded, after) + cost[k - 1][after]
<1>. DEFINE n == Len(order)
            T == order[i].tools
            after == LoadedAfter(order, i, loaded, capacity)
            removed == TakenFor(order, i, loaded, capacity)
            Total(c) == Exchange(loaded, c) + cost[k - 1][c]
            served == Serving(order[i], capacity)
<1>0. /\ n \in Nat /\ k \in 1..n /\ k - 1 \in 0..n /\ i = n + 1 - k /\ i + 1 = n + 1 - (k - 1)
      /\ k \in 0..n /\ n = Len(order)
  OBVIOUS
<1>1. T \in SUBSET Tools
  BY JobTyped
<1>2. /\ removed \subseteq loaded \ T
      /\ after \in SUBSET Tools /\ T \subseteq after /\ Cardinality(after) <= capacity
      /\ loaded \ after = removed /\ after \ loaded = T \ loaded
      /\ removed # {} => Cardinality(after) = capacity
      /\ \A x \in removed : \A y \in (loaded \ T) \ removed : NextUse(y, order, i + 1) <= NextUse(x, order, i + 1)
  <2>. HIDE DEF after, removed
  <2>. QED BY OneJob DEF after, removed
<1>. HIDE DEF n, T, after, removed
<1>3. \A c \in SUBSET Tools : cost[k - 1][c] \in Nat /\ Exchange(loaded, c) \in Nat /\ Total(c) \in Nat
  <2>1. \A c \in SUBSET Tools : cost[k - 1][c] \in Nat
    BY <1>0, CostTyped
  <2>2. \A c \in SUBSET Tools : Exchange(loaded, c) \in Nat
    BY ExchangeTyped
  <2>. QED BY <2>1, <2>2
<1>4. ASSUME NEW c \in SUBSET Tools, T \subseteq c, c \subseteq after
      PROVE  Total(after) <= Total(c)
  <2>1. cost[k - 1][after] <= Exchange(after, c) + cost[k - 1][c]
    BY <1>0, <1>2, CostDetour
  <2>2. Exchange(loaded, c) = Exchange(loaded, after) + Exchange(after, c)
    <3>1. loaded \ c = removed \cup (after \ c) /\ removed \cap (after \ c) = {}
      BY <1>2, <1>4
    <3>2. c \ loaded = after \ loaded /\ c \ after = {}
      BY <1>2, <1>4
    <3>3. Cardinality(loaded \ c) = Cardinality(removed) + Cardinality(after \ c)
      <4>1. removed \in SUBSET Tools /\ after \ c \in SUBSET Tools
        BY <1>2
      <4>. QED BY <3>1, <4>1, DisjointCardinality
    <3>4. /\ Cardinality(removed) \in Nat /\ Cardinality(after \ c) \in Nat
          /\ Cardinality(after \ loaded) \in Nat /\ Cardinality({}) = 0
      <4>1. removed \in SUBSET Tools /\ after \ c \in SUBSET Tools /\ after \ loaded \in SUBSET Tools
        BY <1>2
      <4>. QED BY <4>1, ToolSets, FS_EmptySet
    <3>5. /\ Exchange(loaded, c) = Cardinality(loaded \ c) + Cardinality(c \ loaded)
          /\ Exchange(loaded, after) = Cardinality(removed) + Cardinality(after \ loaded)
          /\ Exchange(after, c) = Cardinality(after \ c) + Cardinality(c \ after)
      BY <1>2 DEF Exchange
    <3>6. \A p, q, r \in Nat : (p + q) + r = (p + r) + (q + 0)
      OBVIOUS
    <3>7. Cardinality(c \ after) = 0 /\ Cardinality(c \ loaded) = Cardinality(after \ loaded)
      BY <3>2, <3>4
    <3>. QED BY <3>3, <3>4, <3>5, <3>6, <3>7
  <2>3. /\ Exchange(loaded, after) \in Nat /\ Exchange(after, c) \in Nat
        /\ cost[k - 1][after] \in Nat /\ cost[k - 1][c] \in Nat
    BY <1>2, <1>3, ExchangeTyped
  <2>4. \A p, q, r, s, t \in Nat : p <= q + r /\ s = t + q => t + p <= s + r
    OBVIOUS
  <2>5. Exchange(loaded, c) \in Nat
    BY <1>3
  <2>. QED BY <2>1, <2>2, <2>3, <2>4, <2>5
<1>5. ASSUME NEW c \in SUBSET Tools, T \subseteq c, c \subseteq loaded \cup T, Cardinality(c) <= capacity,
             NEW b \in c \ after
      PROVE  \E d \in SUBSET Tools : /\ T \subseteq d /\ d \subseteq loaded \cup T /\ Cardinality(d) <= capacity
                                     /\ Cardinality(d \ after) = Cardinality(c \ after) - 1
                                     /\ Total(d) <= Total(c)
  <2>1. b \in removed /\ b \in loaded /\ b \notin T
    BY <1>2, <1>5
  <2>2. Cardinality(after) = capacity
    BY <1>2, <2>1
  <2>3. after \ c # {}
    <3>. SUFFICES ASSUME after \subseteq c
                  PROVE  FALSE
      OBVIOUS
    <3>1. after # c
      BY <1>5
    <3>2. Cardinality(after) <= Cardinality(c) /\ Cardinality(after) # Cardinality(c)
      BY <3>1, SubsetCardinality
    <3>3. Cardinality(after) \in Nat /\ Cardinality(c) \in Nat
      BY <1>2, ToolSets
    <3>. QED BY <1>5, <2>2, <3>2, <3>3
  <2>4. PICK a \in after : a \notin c
    BY <2>3
  <2>5. a \in loaded /\ a \notin T /\ a \notin removed /\ a \in Tools
    BY <1>2, <1>5, <2>4
  <2>. DEFINE d == (c \ {b}) \cup {a}
  <2>6. d \in SUBSET Tools /\ T \subseteq d /\ d \subseteq loaded \cup T
    BY <1>5, <2>1, <2>5
  <2>7. Cardinality(d) = Cardinality(c)
    BY <1>5, <2>4, <2>5, SwapCardinality
  <2>8. Cardinality(d \ after) = Cardinality(c \ after) - 1
    <3>1. d \ after = (c \ after) \ {b}
      BY <2>4
    <3>2. IsFiniteSet(c \ after)
      <4>1. c \ after \in SUBSET Tools
        OBVIOUS
      <4>. QED BY <4>1, ToolSets
    <3>3. Cardinality((c \ after) \ {b}) = Cardinality(c \ after) - 1
      BY <1>5, <3>2, FS_RemoveElement
    <3>. HIDE DEF d
    <3>. QED BY <3>1, <3>3
  <2>9. Exchange(loaded, d) = Exchange(loaded, c)
    <3>1. loaded \ d = ((loaded \ c) \ {a}) \cup {b} /\ a \in loaded \ c /\ b \in Tools \ (loaded \ c)
      BY <1>5, <2>1, <2>4, <2>5
    <3>2. d \ loaded = c \ loaded
      BY <2>1, <2>5
    <3>3. Cardinality(loaded \ d) = Cardinality(loaded \ c)
      <4>1. loaded \ c \in SUBSET Tools
        OBVIOUS
      <4>2. Cardinality(((loaded \ c) \ {a}) \cup {b}) = Cardinality(loaded \ c)
        BY <3>1, <4>1, SwapCardinality
      <4>. HIDE DEF d
      <4>. QED BY <3>1, <4>2
    <3>. HIDE DEF d
    <3>. QED BY <3>2, <3>3 DEF Exchange
  <2>10. cost[k - 1][d] <= cost[k - 1][c]
    <3>1. NextUse(a, order, i + 1) <= NextUse(b, order, i + 1)
      BY <1>2, <2>1, <2>5
    <3>2. c = (d \ {a}) \cup {b} /\ a \in d /\ b \in Tools \ d
      BY <1>5, <2>4
    <3>3. NextUse(a, order, n + 1 - (k - 1)) <= NextUse(b, order, n + 1 - (k - 1))
      BY <1>0, <3>1
    <3>. HIDE DEF d
    <3>4. \A m \in 0..n : \A f \in SUBSET Tools : \A x \in f : \A y \in Tools \ f :
            NextUse(x, order, n + 1 - m) <= NextUse(y, order, n + 1 - m) => cost[m][f] <= cost[m][(f \ {x}) \cup {y}]
      BY SoonerIsBetter DEF n
    <3>. QED BY <1>0, <2>6, <3>2, <3>3, <3>4
  <2>11. Total(d) <= Total(c)
    <3>1. cost[k - 1][d] \in Nat /\ cost[k - 1][c] \in Nat /\ Exchange(loaded, c) \in Nat
      <4>. HIDE DEF d
      <4>. QED BY <1>3, <2>6
    <3>. HIDE DEF d
    <3>. QED BY <2>9, <2>10, <3>1
  <2>. HIDE DEF d, Total
  <2>. QED BY <1>5, <2>6, <2>7, <2>8, <2>11
<1>6. ASSUME NEW c \in SUBSET Tools, T \subseteq c, c \subseteq loaded \cup T, Cardinality(c) <= capacity
      PROVE  Total(after) <= Total(c)
  <2>. DEFINE Below(d) == T \subseteq d /\ d \subseteq loaded \cup T /\ Cardinality(d) <= capacity
              S == {m \in Nat : \A d \in SUBSET Tools : Below(d) /\ Cardinality(d \ after) = m => Total(after) <= Total(d)}
  <2>. HIDE DEF Total
  <2>0. \A d \in SUBSET Tools : Cardinality(d \ after) \in Nat /\ IsFiniteSet(d \ after)
    <3>1. \A d \in SUBSET Tools : d \ after \in SUBSET Tools
      OBVIOUS
    <3>. QED BY <3>1, ToolSets
  <2>1. 0 \in S
    <3>1. \A d \in SUBSET Tools : Cardinality(d \ after) = 0 => d \subseteq after
      <4>1. \A d \in SUBSET Tools : Cardinality(d \ after) = 0 => d \ after = {}
        BY <2>0, FS_EmptySet
      <4>. QED BY <4>1
    <3>. QED BY <1>4, <3>1
  <2>2. ASSUME NEW m \in S
        PROVE  m + 1 \in S
    <3>. SUFFICES ASSUME NEW d \in SUBSET Tools, Below(d), Cardinality(d \ after) = m + 1
                  PROVE  Total(after) <= Total(d)
      OBVIOUS
    <3>1. PICK b : b \in d \ after
      <4>1. m + 1 # 0 /\ Cardinality({}) = 0
        BY FS_EmptySet
      <4>2. d \ after # {}
        BY <4>1
      <4>. QED BY <4>2
    <3>2. PICK e \in SUBSET Tools : Below(e) /\ Cardinality(e \ after) = Cardinality(d \ after) - 1 /\ Total(e) <= Total(d)
      BY <1>5, <3>1
    <3>3. Cardinality(e \ after) = m
      BY <3>2
    <3>4. Total(after) <= Total(e)
      BY <3>2, <3>3
    <3>5. Total(after) \in Nat /\ Total(e) \in Nat /\ Total(d) \in Nat
      BY <1>2, <1>3
    <3>. HIDE DEF S, Below
    <3>. QED BY <3>2, <3>4, <3>5
  <2>3. S = Nat
    <3>1. S \in SUBSET Nat
      OBVIOUS
    <3>. HIDE DEF S
    <3>. QED BY <2>1, <2>2, <3>1, NatInduct
  <2>4. Cardinality(c \ after) \in S
    <3>. HIDE DEF S
    <3>. QED BY <2>0, <2>3
  <2>. QED BY <1>6, <2>4
<1>7. ASSUME NEW c \in served
      PROVE  Total(after) <= Total(c)
  <2>0. c \in SUBSET Tools /\ T \subseteq c /\ Cardinality(c) <= capacity
    BY DEF Serving, T
  <2>. DEFINE d == c \cap (loaded \cup T)
  <2>1. d \in SUBSET Tools /\ d \subseteq c /\ T \subseteq d /\ d \subseteq loaded \cup T
    BY <2>0
  <2>2. Cardinality(d) <= capacity
    <3>1. Cardinality(d) <= Cardinality(c) /\ Cardinality(d) \in Nat /\ Cardinality(c) \in Nat
      <4>. HIDE DEF d
      <4>. QED BY <2>0, <2>1, SubsetCardinality, ToolSets
    <3>. HIDE DEF d
    <3>. QED BY <2>0, <3>1
  <2>3. Total(after) <= Total(d)
    <3>. HIDE DEF d, Total
    <3>. QED BY <1>6, <2>1, <2>2
  <2>4. cost[k - 1][d] <= Exchange(d, c) + cost[k - 1][c]
    <3>. HIDE DEF d
    <3>. QED BY <1>0, <2>0, <2>1, CostDetour
  <2>5. Exchange(loaded, c) = Exchange(loaded, d) + Exchange(d, c)
    <3>1. loaded \ c = loaded \ d /\ d \ c = {}
      OBVIOUS
    <3>2. c \ loaded = (d \ loaded) \cup (c \ d) /\ (d \ loaded) \cap (c \ d) = {}
      BY <2>0
    <3>. HIDE DEF d
    <3>3. Cardinality(c \ loaded) = Cardinality(d \ loaded) + Cardinality(c \ d)
      <4>1. d \ loaded \in SUBSET Tools /\ c \ d \in SUBSET Tools
        BY <2>0, <2>1
      <4>. QED BY <3>2, <4>1, DisjointCardinality
    <3>4. /\ Cardinality(loaded \ d) \in Nat /\ Cardinality(d \ loaded) \in Nat
          /\ Cardinality(c \ d) \in Nat /\ Cardinality({}) = 0
      BY <2>0, <2>1, ExchangeTyped, FS_EmptySet
    <3>5. \A p, q, r \in Nat : p + (q + r) = (p + q) + (0 + r)
      OBVIOUS
    <3>6. /\ Exchange(loaded, c) = Cardinality(loaded \ c) + Cardinality(c \ loaded)
          /\ Exchange(loaded, d) = Cardinality(loaded \ d) + Cardinality(d \ loaded)
          /\ Exchange(d, c) = Cardinality(d \ c) + Cardinality(c \ d)
      BY DEF Exchange
    <3>7. Cardinality(d \ c) = 0 /\ Cardinality(loaded \ c) = Cardinality(loaded \ d)
      BY <3>1, <3>4
    <3>. QED BY <3>3, <3>4, <3>5, <3>6, <3>7
  <2>6. Exchange(loaded, d) \in Nat /\ Exchange(d, c) \in Nat /\ cost[k - 1][d] \in Nat /\ cost[k - 1][c] \in Nat
        /\ Total(after) \in Nat
    <3>. HIDE DEF d, Total
    <3>. QED BY <1>2, <1>3, <2>0, <2>1, ExchangeTyped
  <2>7. Total(d) <= Total(c)
    <3>1. \A p, q, r, s, t \in Nat : p <= q + r /\ s = t + q => t + p <= s + r
      OBVIOUS
    <3>2. Exchange(loaded, c) \in Nat
      BY <2>0, ExchangeTyped
    <3>. HIDE DEF d
    <3>. QED BY <2>4, <2>5, <2>6, <3>1, <3>2
  <2>8. Total(d) \in Nat /\ Total(c) \in Nat
    <3>. HIDE DEF d, Total
    <3>. QED BY <1>3, <2>0, <2>1
  <2>. HIDE DEF d, Total
  <2>. QED BY <2>3, <2>6, <2>7, <2>8
<1>8. after \in served
  BY <1>2 DEF Serving, T
<1>9. cost[k][loaded] <= Total(after)
  <2>. HIDE DEF served
  <2>1. after \in Serving(order[i], capacity)
    BY <1>8 DEF served
  <2>. QED BY <1>0, <2>1, CostBound
<1>10. PICK c \in served : cost[k][loaded] = Total(c)
  <2>1. Attained(cost, order, capacity, k, loaded)
    BY <1>0, CostAttained
  <2>2. PICK c \in SUBSET Tools : AttainedAt(cost, order, capacity, k, loaded, c)
    BY <2>1 DEF Attained
  <2>. QED BY <1>0, <2>2 DEF AttainedAt
<1>11. cost[k][loaded] = Total(after)
  <2>1. c \in SUBSET Tools
    BY DEF Serving
  <2>. HIDE DEF Total
  <2>2. Total(after) <= Total(c) /\ Total(after) \in Nat /\ Total(c) \in Nat
    BY <1>2, <1>3, <1>7, <2>1
  <2>. QED BY <1>9, <1>10, <2>2
<1>. QED BY <1>11 DEF after

\* An order moves as many tools as it costs at least: the tools moved so far and the cost of the rest stay
\* the same from job to job.
LEMMA MovementsAreCost ==
  ASSUME NEW order, NEW initial, NEW capacity, Feasible(order, initial, capacity),
         NEW cost, IsCost(cost, order, capacity)
  PROVE  LET last == simulate_tool_plan(order, initial, capacity)[Len(order)]
         IN  last.loads + last.unloads = cost[Len(order)][initial]
<1>. DEFINE n == Len(order)
            sim == simulate_tool_plan(order, initial, capacity)
            Done(i) == sim[i].loads + sim[i].unloads
            S == {i \in Nat : i <= n => Done(i) + cost[n - i][sim[i].loaded] = cost[n][initial]}
<1>0. /\ order \in Seq(Job) /\ n \in Nat /\ capacity \in Nat /\ initial \in SUBSET Tools
      /\ \A i \in 1..n : Cardinality(order[i].tools) <= capacity
  BY DEF Feasible
<1>1. IsSimulation(sim, order, initial, capacity)
  BY Simulation
<1>. HIDE DEF sim
<1>2. \A i \in 0..n : /\ sim[i].loaded \in SUBSET Tools /\ sim[i].loads \in Nat /\ sim[i].unloads \in Nat
                      /\ Cardinality(sim[i].loaded) <= capacity
  BY <1>0, <1>1, SimulationTyped
<1>. HIDE DEF n
<1>3. 0 \in S
  <2>1. sim[0].loaded = initial /\ sim[0].loads = 0 /\ sim[0].unloads = 0
    BY <1>1 DEF IsSimulation
  <2>2. n \in 0..Len(order) /\ n - 0 = n
    BY <1>0 DEF n
  <2>3. cost[n][initial] \in Nat
    BY <1>0, <2>2, CostTyped
  <2>. QED BY <2>1, <2>2, <2>3
<1>4. ASSUME NEW i \in S
      PROVE  i + 1 \in S
  <2>. SUFFICES ASSUME i + 1 <= n
                PROVE  Done(i + 1) + cost[n - (i + 1)][sim[i + 1].loaded] = cost[n][initial]
    OBVIOUS
  <2>1. /\ i \in 0..n /\ i + 1 \in 1..n /\ (i + 1) - 1 = i /\ i + 1 \in 0..n
        /\ n - i = n + 1 - (i + 1) /\ (n - i) - 1 = n - (i + 1) /\ n - i \in 0..n /\ n - (i + 1) \in 0..n
    <3>1. i \in Nat
      OBVIOUS
    <3>. HIDE DEF S
    <3>. QED BY <1>0, <3>1
  <2>2. Done(i) + cost[n - i][sim[i].loaded] = cost[n][initial]
    BY <2>1
  <2>. HIDE DEF S
  <2>. DEFINE L == sim[i].loaded
              j == i + 1
              after == LoadedAfter(order, j, L, capacity)
              removed == TakenFor(order, j, L, capacity)
  <2>3. L \in SUBSET Tools /\ Cardinality(L) <= capacity /\ Cardinality(order[j].tools) <= capacity
    BY <1>0, <1>2, <2>1
  <2>4. sim[j].loaded = after /\ sim[j].loads = sim[i].loads + Cardinality(order[j].tools \ L)
        /\ sim[j].unloads = sim[i].unloads + Cardinality(removed)
    <3>1. j \in 1..Len(order) /\ i = j - 1 /\ L = sim[i].loaded
      BY <2>1 DEF n
    <3>2. IsSimulationStep(sim, order, capacity, i, j)
      <4>. HIDE DEF L, j
      <4>. QED BY <1>0, <1>1, <3>1, SimulationStep
    <3>. QED BY <3>2 DEF IsSimulationStep
  <2>5. cost[n - i][L] = Exchange(L, after) + cost[n - j][after]
    <3>1. j \in 1..Len(order) /\ n - i = Len(order) + 1 - j /\ (n - i) - 1 = n - j
      BY <2>1 DEF n
    <3>. DEFINE k == n - i
    <3>2. k = Len(order) + 1 - j /\ k - 1 = n - j
      BY <3>1
    <3>. HIDE DEF L, j, k
    <3>3. cost[k][L] = Exchange(L, after) + cost[k - 1][after]
      BY <1>0, <2>3, <3>1, <3>2, FurthestIsCheapest
    <3>. QED BY <3>2, <3>3 DEF k
  <2>6. Exchange(L, after) = Cardinality(removed) + Cardinality(order[j].tools \ L) /\ after \in SUBSET Tools
    <3>1. j \in 1..Len(order)
      BY <2>1 DEF n
    <3>. HIDE DEF L, j
    <3>2. L \ after = removed /\ after \ L = order[j].tools \ L /\ after \in SUBSET Tools
      BY <1>0, <2>3, <3>1, OneJob
    <3>. QED BY <3>2 DEF Exchange
  <2>7. /\ sim[i].loads \in Nat /\ sim[i].unloads \in Nat /\ cost[n - j][after] \in Nat
        /\ Cardinality(removed) \in Nat /\ Cardinality(order[j].tools \ L) \in Nat
    <3>1. n - j \in 0..Len(order) /\ j \in 1..Len(order)
      BY <2>1 DEF n
    <3>2. cost[n - j][after] \in Nat
      <4>. HIDE DEF after, j
      <4>. QED BY <1>0, <2>6, <3>1, CostTyped
    <3>3. removed \in SUBSET Tools /\ order[j].tools \ L \in SUBSET Tools
      <4>1. removed \subseteq L \ order[j].tools /\ order[j].tools \in SUBSET Tools
        <5>. HIDE DEF L, j
        <5>. QED BY <1>0, <2>3, <3>1, OneJob, JobTyped
      <4>. HIDE DEF removed, L, j
      <4>. QED BY <2>3, <4>1
    <3>4. Cardinality(removed) \in Nat /\ Cardinality(order[j].tools \ L) \in Nat
      <4>. HIDE DEF removed, L, j
      <4>. QED BY <3>3, ToolSets
    <3>. QED BY <1>2, <2>1, <3>2, <3>4
  <2>8. \A p, q, r, s, w \in Nat : ((p + r) + (q + s)) + w = (p + q) + ((s + r) + w)
    OBVIOUS
  <2>9. Done(j) + cost[n - j][after] = Done(i) + cost[n - i][L]
    <3>. DEFINE p == sim[i].loads
                q == sim[i].unloads
                r == Cardinality(order[j].tools \ L)
                s == Cardinality(removed)
                w == cost[n - j][after]
    <3>1. Done(j) + w = ((p + r) + (q + s)) + w
      BY <2>4
    <3>2. Done(i) + cost[n - i][L] = (p + q) + ((s + r) + w)
      BY <2>5, <2>6
    <3>3. p \in Nat /\ q \in Nat /\ r \in Nat /\ s \in Nat /\ w \in Nat
      BY <2>7
    <3>4. ((p + r) + (q + s)) + w = (p + q) + ((s + r) + w)
      <4>. HIDE DEF p, q, r, s, w
      <4>. QED BY <2>8, <3>3
    <3>. HIDE DEF L, j, after, removed, p, q, r, s
    <3>. QED BY <3>1, <3>2, <3>4
  <2>. QED BY <2>2, <2>4, <2>9
<1>5. S = Nat
  <2>1. S \in SUBSET Nat
    OBVIOUS
  <2>. HIDE DEF S
  <2>. QED BY <1>3, <1>4, <2>1, NatInduct
<1>6. Done(n) + cost[n - n][sim[n].loaded] = cost[n][initial]
  <2>1. n \in S
    <3>. HIDE DEF S
    <3>. QED BY <1>0, <1>5
  <2>. QED BY <1>0, <2>1
<1>7. cost[n - n][sim[n].loaded] = 0 /\ Done(n) \in Nat
  <2>1. n \in 0..n /\ n - n = 0 /\ 0 \in 0..Len(order)
    BY <1>0 DEF n
  <2>2. sim[n].loaded \in SUBSET Tools /\ Done(n) \in Nat
    BY <1>2, <2>1
  <2>3. cost[0][sim[n].loaded] = 0
    BY <1>0, <2>1, <2>2, CostTyped
  <2>. QED BY <2>1, <2>2, <2>3
<1>8. Done(n) = cost[n][initial]
  <2>. HIDE DEF Done
  <2>. QED BY <1>6, <1>7
<1>. QED BY <1>8 DEF sim, n

-----------------------------------------------------------------------------
(* An order and the order without its first job.                           *)

\* The second order is the first one without its first job.
IsRest(order, rest) == /\ Len(order) = Len(rest) + 1
                       /\ \A j \in 1..Len(rest) : order[j + 1] = rest[j]

\* The costs of an order are those of its rest, as long as the first job is not counted.
LEMMA CostOfRest ==
  ASSUME NEW order \in Seq(Job), NEW rest \in Seq(Job), IsRest(order, rest),
         NEW capacity, NEW cost, IsCost(cost, order, capacity)
  PROVE  IsCost(cost, rest, capacity)
<1>. DEFINE n == Len(rest)
<1>0. n \in Nat /\ Len(order) = n + 1
  BY DEF IsRest
<1>1. \A k \in 0..n : k \in 0..Len(order)
  BY <1>0
<1>2. \A k \in 1..n : k \in 1..Len(order) /\ order[Len(order) + 1 - k] = rest[n + 1 - k]
  <2>. SUFFICES ASSUME NEW k \in 1..n
                PROVE  k \in 1..Len(order) /\ order[Len(order) + 1 - k] = rest[n + 1 - k]
    OBVIOUS
  <2>1. n + 1 - k \in 1..n /\ (n + 1 - k) + 1 = Len(order) + 1 - k /\ k \in 1..Len(order)
    BY <1>0
  <2>. QED BY <2>1 DEF IsRest
<1>. HIDE DEF n
<1>. QED BY <1>1, <1>2 DEF IsCost, n

\* The costs of the rest are extended to those of the order.
LEMMA CostExtends ==
  ASSUME NEW order \in Seq(Job), NEW rest \in Seq(Job), IsRest(order, rest),
         NEW capacity \in Nat, Cardinality(order[1].tools) <= capacity,
         NEW cost, IsCost(cost, rest, capacity)
  PROVE  \E more : IsCost(more, order, capacity) /\ \A k \in 0..Len(rest) : more[k] = cost[k]
<1>. DEFINE n == Len(rest)
            served == Serving(order[1], capacity)
            Values(loaded) == {Exchange(loaded, c) + cost[n][c] : c \in served}
            more == [k \in 0..(n + 1) |-> IF k = n + 1 THEN [loaded \in SUBSET Tools |-> Min(Values(loaded))] ELSE cost[k]]
<1>0. n \in Nat /\ Len(order) = n + 1 /\ 1 \in 1..Len(order)
  BY DEF IsRest
<1>1. order[1].tools \in served /\ served \subseteq SUBSET Tools
  BY <1>0, JobTyped DEF Serving
<1>2. \A loaded \in SUBSET Tools : Values(loaded) \in SUBSET Nat /\ Values(loaded) # {}
  <2>. SUFFICES ASSUME NEW loaded \in SUBSET Tools
                PROVE  Values(loaded) \in SUBSET Nat /\ Values(loaded) # {}
    OBVIOUS
  <2>1. n \in 0..Len(rest)
    BY <1>0
  <2>2. \A c \in served : Exchange(loaded, c) \in Nat /\ cost[n][c] \in Nat
    <3>. HIDE DEF n, served
    <3>. QED BY <1>1, <2>1, ExchangeTyped, CostTyped
  <2>3. \A c \in served : Exchange(loaded, c) + cost[n][c] \in Nat
    <3>. HIDE DEF n, served
    <3>. QED BY <2>2
  <2>. HIDE DEF n, served
  <2>. QED BY <1>1, <2>3
<1>3. \A loaded \in SUBSET Tools :
        /\ Min(Values(loaded)) \in Nat
        /\ \A c \in served : Min(Values(loaded)) <= Exchange(loaded, c) + cost[n][c]
        /\ \E c \in served : Min(Values(loaded)) = Exchange(loaded, c) + cost[n][c]
  <2>. SUFFICES ASSUME NEW loaded \in SUBSET Tools
                PROVE  /\ Min(Values(loaded)) \in Nat
                       /\ \A c \in served : Min(Values(loaded)) <= Exchange(loaded, c) + cost[n][c]
                       /\ \E c \in served : Min(Values(loaded)) = Exchange(loaded, c) + cost[n][c]
    OBVIOUS
  <2>1. Min(Values(loaded)) \in Values(loaded) /\ \A v \in Values(loaded) : Min(Values(loaded)) <= v
    <3>. HIDE DEF Values
    <3>. QED BY <1>2, LeastOf
  <2>2. \A c \in served : Exchange(loaded, c) + cost[n][c] \in Values(loaded)
    OBVIOUS
  <2>3. \E c \in served : Min(Values(loaded)) = Exchange(loaded, c) + cost[n][c]
    <3>. DEFINE least == Min(Values(loaded))
    <3>1. least \in {Exchange(loaded, c) + cost[n][c] : c \in served}
      BY <2>1
    <3>. HIDE DEF least, served
    <3>2. \E c \in served : least = Exchange(loaded, c) + cost[n][c]
      BY <3>1
    <3>. QED BY <3>2 DEF least
  <2>. HIDE DEF Values, served
  <2>. QED BY <1>2, <2>1, <2>2, <2>3
<1>. HIDE DEF Values, served
<1>4. /\ more[n + 1] = [loaded \in SUBSET Tools |-> Min(Values(loaded))]
      /\ \A k \in 0..n : more[k] = cost[k]
  <2>1. n + 1 \in 0..(n + 1) /\ \A k \in 0..n : k \in 0..(n + 1) /\ k # n + 1
    BY <1>0
  <2>. QED BY <2>1
<1>. HIDE DEF more, n
<1>5. \A k \in 0..Len(order) : more[k] \in [SUBSET Tools -> Nat]
  <2>1. more[n + 1] \in [SUBSET Tools -> Nat]
    BY <1>3, <1>4
  <2>2. \A k \in 0..n : cost[k] \in [SUBSET Tools -> Nat]
    BY DEF IsCost, n
  <2>3. \A k \in 0..Len(order) : k = n + 1 \/ k \in 0..n
    BY <1>0
  <2>. QED BY <1>4, <2>1, <2>2, <2>3
<1>6. \A loaded \in SUBSET Tools : more[0][loaded] = 0
  <2>1. 0 \in 0..n
    BY <1>0
  <2>. QED BY <1>4, <2>1 DEF IsCost
<1>7. ASSUME NEW k \in 1..Len(order), NEW loaded \in SUBSET Tools
      PROVE  /\ \A c \in Serving(order[Len(order) + 1 - k], capacity) : more[k][loaded] <= Exchange(loaded, c) + more[k - 1][c]
             /\ \E c \in Serving(order[Len(order) + 1 - k], capacity) : more[k][loaded] = Exchange(loaded, c) + more[k - 1][c]
  <2>1. CASE k = n + 1
    <3>1. Len(order) + 1 - k = 1 /\ k - 1 = n /\ n \in 0..n
      BY <1>0, <2>1
    <3>2. more[k][loaded] = Min(Values(loaded)) /\ more[k - 1] = cost[n]
      BY <1>4, <2>1, <3>1
    <3>. QED BY <1>3, <3>1, <3>2 DEF served
  <2>2. CASE k # n + 1
    <3>1. /\ k \in 1..n /\ n + 1 - k \in 1..n /\ (n + 1 - k) + 1 = Len(order) + 1 - k
          /\ k \in 0..n /\ k - 1 \in 0..n
      BY <1>0, <2>2
    <3>2. order[Len(order) + 1 - k] = rest[n + 1 - k]
      BY <3>1 DEF IsRest, n
    <3>3. more[k] = cost[k] /\ more[k - 1] = cost[k - 1]
      BY <1>4, <3>1
    <3>4. /\ \A c \in Serving(rest[n + 1 - k], capacity) : cost[k][loaded] <= Exchange(loaded, c) + cost[k - 1][c]
          /\ \E c \in Serving(rest[n + 1 - k], capacity) : cost[k][loaded] = Exchange(loaded, c) + cost[k - 1][c]
      BY <3>1 DEF IsCost, n
    <3>. QED BY <3>2, <3>3, <3>4
  <2>. QED BY <2>1, <2>2
<1>8. IsCost(more, order, capacity)
  BY <1>5, <1>6, <1>7 DEF IsCost
<1>. QED BY <1>4, <1>8 DEF n

\* Every order whose jobs fit the changer has costs.
LEMMA CostExists ==
  ASSUME NEW order, NEW initial, NEW capacity, Feasible(order, initial, capacity)
  PROVE  \E cost : IsCost(cost, order, capacity)
<1>. DEFINE Fit(o) == \A i \in 1..Len(o) : Cardinality(o[i].tools) <= capacity
            Costed(o) == \E cost : IsCost(cost, o, capacity)
            S == {n \in Nat : \A o \in Seq(Job) : Len(o) = n /\ Fit(o) => Costed(o)}
<1>0. capacity \in Nat /\ order \in Seq(Job) /\ Fit(order) /\ Len(order) \in Nat
  BY DEF Feasible
<1>1. 0 \in S
  <2>. SUFFICES ASSUME NEW o \in Seq(Job), Len(o) = 0
                PROVE  Costed(o)
    OBVIOUS
  <2>. DEFINE cost == [k \in 0..0 |-> [loaded \in SUBSET Tools |-> 0]]
  <2>1. /\ \A k \in 0..0 : cost[k] \in [SUBSET Tools -> Nat]
        /\ \A loaded \in SUBSET Tools : cost[0][loaded] = 0
    OBVIOUS
  <2>. HIDE DEF cost
  <2>2. IsCost(cost, o, capacity)
    BY <2>1 DEF IsCost
  <2>. QED BY <2>2
<1>2. ASSUME NEW n \in S
      PROVE  n + 1 \in S
  <2>1. n \in Nat /\ \A o \in Seq(Job) : Len(o) = n /\ Fit(o) => Costed(o)
    <3>. HIDE DEF Fit, Costed
    <3>. QED BY <1>2
  <2>2. ASSUME NEW o \in Seq(Job), Len(o) = n + 1, Fit(o)
        PROVE  Costed(o)
    <3>. DEFINE rest == [j \in 1..n |-> o[j + 1]]
    <3>1. \A j \in 1..n : j + 1 \in 1..Len(o)
      BY <2>1, <2>2
    <3>2. rest \in Seq(Job) /\ Len(rest) = n /\ \A j \in 1..n : rest[j] = o[j + 1]
      BY <2>1, <3>1, JobTyped
    <3>. HIDE DEF rest
    <3>3. IsRest(o, rest)
      BY <2>2, <3>2 DEF IsRest
    <3>4. Fit(rest)
      BY <2>2, <3>1, <3>2
    <3>5. Costed(rest)
      <4>. HIDE DEF Fit, Costed
      <4>. QED BY <2>1, <3>2, <3>4
    <3>6. Cardinality(o[1].tools) <= capacity
      BY <2>1, <2>2
    <3>7. PICK cost : IsCost(cost, rest, capacity)
      BY <3>5
    <3>8. \E more : IsCost(more, o, capacity) /\ \A k \in 0..Len(rest) : more[k] = cost[k]
      BY <1>0, <3>2, <3>3, <3>6, <3>7, CostExtends
    <3>. QED BY <3>8
  <2>. HIDE DEF Fit, Costed
  <2>. QED BY <2>1, <2>2
<1>3. S = Nat
  <2>1. S \in SUBSET Nat
    OBVIOUS
  <2>. HIDE DEF S
  <2>. QED BY <1>1, <1>2, <2>1, NatInduct
<1>4. Len(order) \in S
  BY <1>0, <1>3
<1>. HIDE DEF Fit
<1>5. Costed(order)
  <2>. HIDE DEF Costed
  <2>. QED BY <1>0, <1>4
<1>. QED BY <1>5

-----------------------------------------------------------------------------
(* The orders of a set of jobs.                                            *)

\* What an order of a set of jobs is.
IsOrder(order, jobs) ==
  /\ order \in Seq(jobs) /\ Len(order) = Cardinality(jobs) /\ DOMAIN order = 1..Cardinality(jobs)
  /\ ToSet(order) = jobs /\ Cardinality(jobs) \in Nat
  /\ \A i \in 1..Len(order) : order[i] \in jobs
  /\ \A i, j \in 1..Len(order) : order[i] = order[j] => i = j

\* SetToSeqs lists the orders.
LEMMA OrderTyped ==
  ASSUME NEW jobs, IsFiniteSet(jobs), NEW order \in SetToSeqs(jobs)
  PROVE  IsOrder(order, jobs)
<1>. DEFINE n == Cardinality(jobs)
<1>1. n \in Nat
  BY FS_CardinalityType
<1>2. order \in [1..n -> jobs] /\ \A i, j \in 1..n : i # j => order[i] # order[j]
  BY DEF SetToSeqs
<1>3. order \in Injection(1..n, jobs)
  BY <1>2 DEF Injection, IsInjective
<1>4. Cardinality(1..n) = n
  BY <1>1, Segments
<1>5. order \in Surjection(1..n, jobs)
  <2>. HIDE DEF n
  <2>1. Cardinality(1..n) = Cardinality(jobs) <=> order \in Surjection(1..n, jobs)
    BY <1>3, FS_Injection
  <2>. QED BY <2>1, <1>4 DEF n
<1>6. \A x \in jobs : \E i \in 1..n : order[i] = x
  BY <1>5 DEF Surjection
<1>. HIDE DEF n
<1>7. order \in Seq(jobs) /\ Len(order) = n /\ DOMAIN order = 1..n
  BY <1>1, <1>2
<1>8. ToSet(order) = jobs
  BY <1>2, <1>6, <1>7 DEF ToSet
<1>. QED BY <1>1, <1>2, <1>7, <1>8 DEF IsOrder, n

\* What is listed there.
LEMMA OrderListed ==
  ASSUME NEW jobs, IsFiniteSet(jobs), NEW n, n = Cardinality(jobs), NEW order \in [1..n -> jobs],
         \A i, j \in 1..n : order[i] = order[j] => i = j
  PROVE  order \in SetToSeqs(jobs)
BY DEF SetToSeqs

\* A job before an order of the others.
LEMMA OrderPrepend ==
  ASSUME NEW jobs, IsFiniteSet(jobs), NEW job \in jobs, NEW rest \in SetToSeqs(jobs \ {job})
  PROVE  \E order \in SetToSeqs(jobs) : IsRest(order, rest) /\ order[1] = job
<1>. DEFINE n == Cardinality(jobs)
            order == [j \in 1..n |-> IF j = 1 THEN job ELSE rest[j - 1]]
<1>1. IsFiniteSet(jobs \ {job}) /\ Cardinality(jobs \ {job}) = n - 1 /\ n \in Nat
  BY FS_RemoveElement, FS_CardinalityType
<1>2. IsOrder(rest, jobs \ {job})
  BY <1>1, OrderTyped
<1>. HIDE DEF n
<1>3. /\ Len(rest) = n - 1 /\ n - 1 \in Nat
      /\ \A i \in 1..(n - 1) : rest[i] \in jobs \ {job}
      /\ \A i, j \in 1..(n - 1) : rest[i] = rest[j] => i = j
  BY <1>1, <1>2 DEF IsOrder
<1>4. \A j \in 1..n : j = 1 \/ (j # 1 /\ j - 1 \in 1..(n - 1))
  BY <1>1
<1>5. order \in [1..n -> jobs]
  <2>1. \A j \in 1..n : (IF j = 1 THEN job ELSE rest[j - 1]) \in jobs
    <3>. SUFFICES ASSUME NEW j \in 1..n
                  PROVE  (IF j = 1 THEN job ELSE rest[j - 1]) \in jobs
      OBVIOUS
    <3>1. CASE j = 1
      BY <3>1
    <3>2. CASE j # 1
      <4>1. rest[j - 1] \in jobs \ {job}
        BY <1>3, <1>4, <3>2
      <4>. QED BY <3>2, <4>1
    <3>. QED BY <3>1, <3>2
  <2>. QED BY <2>1, Zenon
<1>6. ASSUME NEW i \in 1..n, NEW j \in 1..n, order[i] = order[j]
      PROVE  i = j
  <2>1. CASE i = 1
    BY <1>3, <1>4, <1>6, <2>1
  <2>2. CASE i # 1 /\ j = 1
    BY <1>3, <1>4, <1>6, <2>2
  <2>3. CASE i # 1 /\ j # 1
    <3>1. rest[i - 1] = rest[j - 1] /\ i - 1 \in 1..(n - 1) /\ j - 1 \in 1..(n - 1)
      BY <1>4, <1>6, <2>3
    <3>2. i - 1 = j - 1
      BY <1>3, <3>1
    <3>. QED BY <3>2
  <2>. QED BY <2>1, <2>2, <2>3
<1>7. Len(order) = n /\ order[1] = job /\ \A j \in 1..(n - 1) : order[j + 1] = rest[j]
  <2>1. Len(order) = n /\ 1 \in 1..n
    BY <1>1, <1>3
  <2>2. \A j \in 1..(n - 1) : order[j + 1] = rest[j]
    <3>. SUFFICES ASSUME NEW j \in 1..(n - 1)
                  PROVE  order[j + 1] = rest[j]
      OBVIOUS
    <3>1. j + 1 \in 1..n /\ j + 1 # 1 /\ (j + 1) - 1 = j
      BY <1>1, <1>3
    <3>. DEFINE k == j + 1
    <3>2. k \in 1..n /\ k # 1 /\ k - 1 = j
      BY <3>1
    <3>. HIDE DEF k
    <3>3. order[k] = rest[k - 1]
      BY <3>2
    <3>. QED BY <3>2, <3>3 DEF k
  <2>3. order[1] = job
    BY <2>1
  <2>. QED BY <2>1, <2>2, <2>3
<1>. HIDE DEF order
<1>8. order \in SetToSeqs(jobs)
  BY <1>5, <1>6, OrderListed DEF n
<1>9. IsRest(order, rest)
  BY <1>3, <1>7 DEF IsRest
<1>. QED BY <1>7, <1>8, <1>9

\* An order without its first job.
LEMMA OrderRest ==
  ASSUME NEW jobs, IsFiniteSet(jobs), jobs # {}, NEW order \in SetToSeqs(jobs)
  PROVE  order[1] \in jobs /\ \E rest \in SetToSeqs(jobs \ {order[1]}) : IsRest(order, rest)
<1>. DEFINE n == Cardinality(jobs)
            rest == [j \in 1..(n - 1) |-> order[j + 1]]
<1>1. IsOrder(order, jobs) /\ n \in Nat /\ n # 0
  BY OrderTyped, FS_EmptySet, FS_CardinalityType
<1>2. order[1] \in jobs
  BY <1>1 DEF IsOrder
<1>3. IsFiniteSet(jobs \ {order[1]}) /\ Cardinality(jobs \ {order[1]}) = n - 1
  BY <1>2, FS_RemoveElement
<1>. HIDE DEF n
<1>4. n - 1 \in Nat /\ 1 \in 1..n /\ \A j \in 1..(n - 1) : j + 1 \in 1..n /\ j + 1 # 1
  BY <1>1
<1>5. /\ \A i \in 1..n : order[i] \in jobs
      /\ \A i, j \in 1..n : order[i] = order[j] => i = j
      /\ Len(order) = n
  BY <1>1 DEF IsOrder, n
<1>6. rest \in [1..(n - 1) -> jobs \ {order[1]}]
  <2>1. \A j \in 1..(n - 1) : order[j + 1] \in jobs /\ order[j + 1] # order[1]
    BY <1>4, <1>5
  <2>. QED BY <2>1
<1>7. ASSUME NEW i \in 1..(n - 1), NEW j \in 1..(n - 1), rest[i] = rest[j]
      PROVE  i = j
  <2>1. order[i + 1] = order[j + 1]
    BY <1>7
  <2>2. i + 1 = j + 1
    BY <1>4, <1>5, <2>1
  <2>. QED BY <2>2
<1>8. Len(rest) = n - 1 /\ \A j \in 1..(n - 1) : rest[j] = order[j + 1]
  BY <1>4
<1>. HIDE DEF rest
<1>9. rest \in SetToSeqs(jobs \ {order[1]})
  BY <1>3, <1>6, <1>7, OrderListed
<1>10. IsRest(order, rest)
  BY <1>4, <1>5, <1>8 DEF IsRest
<1>. QED BY <1>2, <1>9, <1>10

-----------------------------------------------------------------------------
(* The reference: the least cost of any order of a set of jobs.            *)

\* What the orders of a set of jobs cost, from a content of the changer on.
WorthOf(order, loaded, capacity, v) == \E cost : IsCost(cost, order, capacity) /\ v = cost[Len(order)][loaded]
Worths(jobs, loaded, capacity) == {v \in Nat : \E order \in SetToSeqs(jobs) : WorthOf(order, loaded, capacity, v)}
Least(jobs, loaded, capacity) == Min(Worths(jobs, loaded, capacity))

\* A set of jobs that fit the changer.
Fitting(jobs, capacity) ==
  /\ jobs \in SUBSET Job /\ IsFiniteSet(jobs) /\ capacity \in Nat
  /\ \A job \in jobs : Cardinality(job.tools) <= capacity

\* An order of such jobs is feasible when no tool is loaded.
LEMMA OrderFits ==
  ASSUME NEW jobs, NEW capacity, Fitting(jobs, capacity), NEW order \in SetToSeqs(jobs)
  PROVE  Feasible(order, {}, capacity) /\ order \in Seq(Job)
<1>1. IsOrder(order, jobs)
  BY OrderTyped DEF Fitting
<1>2. order \in Seq(Job)
  BY <1>1 DEF IsOrder, Fitting
<1>3. Cardinality({}) = 0
  BY FS_EmptySet
<1>. QED BY <1>1, <1>2, <1>3 DEF IsOrder, Fitting, Feasible

\* A finite set of jobs has an order.
LEMMA OrderExists ==
  ASSUME NEW jobs, IsFiniteSet(jobs)
  PROVE  SetToSeqs(jobs) # {}
<1>. DEFINE n == Cardinality(jobs)
<1>1. ExistsBijection(1..n, jobs)
  BY FS_CardinalityType
<1>. HIDE DEF n
<1>2. PICK order \in Bijection(1..n, jobs) : TRUE
  BY <1>1 DEF ExistsBijection
<1>3. order \in [1..n -> jobs] /\ \A i, j \in 1..n : order[i] = order[j] => i = j
  BY <1>2 DEF Bijection, Injection, IsInjective
<1>. QED BY <1>3, OrderListed DEF n

\* An order is worth at least the least.
LEMMA LeastBound ==
  ASSUME NEW jobs, NEW capacity, Fitting(jobs, capacity), NEW loaded \in SUBSET Tools,
         NEW order \in SetToSeqs(jobs), NEW cost, IsCost(cost, order, capacity)
  PROVE  /\ cost[Len(order)][loaded] \in Worths(jobs, loaded, capacity)
         /\ Least(jobs, loaded, capacity) <= cost[Len(order)][loaded]
<1>. DEFINE v == cost[Len(order)][loaded]
            T == Worths(jobs, loaded, capacity)
<1>1. order \in Seq(Job)
  BY OrderFits
<1>2. Len(order) \in 0..Len(order)
  BY <1>1
<1>3. v \in Nat
  BY <1>1, <1>2, CostTyped
<1>4. WorthOf(order, loaded, capacity, v)
  BY DEF WorthOf
<1>. HIDE DEF v
<1>5. v \in T
  BY <1>3, <1>4 DEF Worths
<1>6. T \in SUBSET Nat
  BY DEF Worths
<1>. HIDE DEF T
<1>7. Min(T) <= v
  BY <1>5, <1>6, LeastOf
<1>. QED BY <1>5, <1>7 DEF Least, T, v

\* The order and the costs that attain it.
IsLeast(jobs, loaded, capacity, order, cost) ==
  /\ order \in SetToSeqs(jobs) /\ IsCost(cost, order, capacity)
  /\ Least(jobs, loaded, capacity) = cost[Len(order)][loaded]

\* Some order is worth the least.
LEMMA LeastAttained ==
  ASSUME NEW jobs, NEW capacity, Fitting(jobs, capacity), NEW loaded \in SUBSET Tools
  PROVE  /\ Least(jobs, loaded, capacity) \in Nat
         /\ \E order, cost : IsLeast(jobs, loaded, capacity, order, cost)
<1>. DEFINE T == Worths(jobs, loaded, capacity)
<1>1. PICK order \in SetToSeqs(jobs) : TRUE
  BY OrderExists DEF Fitting
<1>2. PICK cost : IsCost(cost, order, capacity)
  BY <1>1, OrderFits, CostExists
<1>3. T # {}
  BY <1>1, <1>2, LeastBound
<1>4. T \in SUBSET Nat
  BY DEF Worths
<1>5. Min(T) \in T
  <2>. HIDE DEF T
  <2>. QED BY <1>3, <1>4, LeastOf
<1>. DEFINE v == Min(T)
<1>6. v \in T
  BY <1>5
<1>7. v = Least(jobs, loaded, capacity)
  BY DEF Least
<1>. HIDE DEF v
<1>8. v \in Nat /\ \E o \in SetToSeqs(jobs) : WorthOf(o, loaded, capacity, v)
  BY <1>6 DEF Worths
<1>. QED BY <1>7, <1>8 DEF WorthOf, IsLeast

\* What the reference takes the least of: every job and every content with which it can run.
FirstChoices(jobs, loaded, capacity, rest) ==
  UNION {{Exchange(loaded, c) + rest[jobs \ {job}][c] : c \in Serving(job, capacity)} : job \in jobs}

\* The costs of the others are the least ones, whichever job is first.
RestIsLeast(jobs, capacity, rest) ==
  \A job \in jobs : \A c \in SUBSET Tools : rest[jobs \ {job}][c] = Least(jobs \ {job}, c, capacity)

\* The least costs solve the equation of the reference.
LEMMA LeastEquation ==
  ASSUME NEW jobs, NEW capacity, Fitting(jobs, capacity), NEW loaded \in SUBSET Tools,
         NEW rest, RestIsLeast(jobs, capacity, rest)
  PROVE  Least(jobs, loaded, capacity) = IF jobs = {} THEN 0 ELSE Min(FirstChoices(jobs, loaded, capacity, rest))
<1>. DEFINE S == FirstChoices(jobs, loaded, capacity, rest)
            least == Least(jobs, loaded, capacity)
<1>1. least \in Nat /\ \E order, cost : IsLeast(jobs, loaded, capacity, order, cost)
  BY LeastAttained
<1>2. PICK order, cost : IsLeast(jobs, loaded, capacity, order, cost)
  BY <1>1
<1>3. /\ order \in SetToSeqs(jobs) /\ IsCost(cost, order, capacity) /\ order \in Seq(Job)
      /\ least = cost[Len(order)][loaded]
  BY <1>2, OrderFits DEF IsLeast
<1>4. IsFiniteSet(jobs) /\ jobs \in SUBSET Job /\ capacity \in Nat
  BY DEF Fitting
<1>5. CASE jobs = {}
  <2>1. Len(order) = 0
    BY <1>3, <1>5, OrderTyped, FS_EmptySet DEF IsOrder
  <2>2. 0 \in 0..Len(order)
    BY <2>1
  <2>3. cost[0][loaded] = 0
    BY <1>3, <2>2, CostTyped
  <2>. QED BY <1>3, <1>5, <2>1, <2>3
<1>6. CASE jobs # {}
  <2>0. \A job \in jobs : Fitting(jobs \ {job}, capacity)
    BY FS_RemoveElement DEF Fitting
  <2>1. ASSUME NEW x \in S
        PROVE  x \in Nat /\ least <= x
    <3>0. PICK job \in jobs : \E c \in Serving(job, capacity) : x = Exchange(loaded, c) + rest[jobs \ {job}][c]
      BY DEF FirstChoices
    <3>1. PICK c \in Serving(job, capacity) : x = Exchange(loaded, c) + rest[jobs \ {job}][c]
      BY <3>0
    <3>. DEFINE others == jobs \ {job}
    <3>2. c \in SUBSET Tools /\ Fitting(others, capacity) /\ rest[others][c] = Least(others, c, capacity)
      BY <2>0 DEF Serving, RestIsLeast
    <3>. HIDE DEF others
    <3>3. Least(others, c, capacity) \in Nat /\ \E o, w : IsLeast(others, c, capacity, o, w)
      BY <3>2, LeastAttained
    <3>4. PICK o, w : IsLeast(others, c, capacity, o, w)
      BY <3>3
    <3>5. /\ o \in SetToSeqs(others) /\ IsCost(w, o, capacity) /\ o \in Seq(Job)
          /\ Least(others, c, capacity) = w[Len(o)][c]
      BY <3>2, <3>4, OrderFits DEF IsLeast
    <3>6. PICK longer \in SetToSeqs(jobs) : IsRest(longer, o) /\ longer[1] = job
      BY <1>4, <3>5, OrderPrepend DEF others
    <3>7. longer \in Seq(Job) /\ Cardinality(longer[1].tools) <= capacity
      BY <3>6, OrderFits DEF Fitting
    <3>8. PICK more : IsCost(more, longer, capacity) /\ \A k \in 0..Len(o) : more[k] = w[k]
      BY <1>4, <3>5, <3>6, <3>7, CostExtends
    <3>9. Len(longer) = Len(o) + 1 /\ Len(o) \in Nat
      BY <3>5, <3>6 DEF IsRest
    <3>. DEFINE n == Len(longer)
    <3>10. /\ n \in 1..Len(longer) /\ 1 = Len(longer) + 1 - n /\ n - 1 = Len(o) /\ Len(o) \in 0..Len(o)
      BY <3>9
    <3>11. c \in Serving(longer[1], capacity)
      BY <3>6
    <3>. HIDE DEF n
    <3>12. more[n][loaded] <= Exchange(loaded, c) + more[n - 1][c]
      BY <3>7, <3>8, <3>10, <3>11, CostBound
    <3>13. least <= more[n][loaded] /\ more[n][loaded] \in Nat
      <4>1. n \in 0..Len(longer)
        BY <3>10
      <4>2. more[n][loaded] \in Nat
        BY <3>7, <3>8, <4>1, CostTyped
      <4>. QED BY <3>6, <3>8, <4>2, LeastBound DEF n
    <3>14. more[n - 1][c] = Least(others, c, capacity)
      BY <3>5, <3>8, <3>10
    <3>15. x = Exchange(loaded, c) + more[n - 1][c]
      BY <3>1, <3>2, <3>14 DEF others
    <3>16. Exchange(loaded, c) \in Nat /\ more[n - 1][c] \in Nat
      BY <3>2, <3>3, <3>14, ExchangeTyped
    <3>. DEFINE e == Exchange(loaded, c)
                r == more[n - 1][c]
                t == more[n][loaded]
    <3>17. e \in Nat /\ r \in Nat /\ t \in Nat /\ x = e + r /\ least <= t /\ t <= e + r
      BY <3>12, <3>13, <3>15, <3>16
    <3>. HIDE DEF e, r, t, least
    <3>. QED BY <1>1, <3>17 DEF least
  <2>2. least \in S
    <3>1. order[1] \in jobs /\ \E o \in SetToSeqs(jobs \ {order[1]}) : IsRest(order, o)
      BY <1>3, <1>4, <1>6, OrderRest
    <3>. DEFINE job == order[1]
                others == jobs \ {job}
    <3>2. PICK o \in SetToSeqs(others) : IsRest(order, o)
      BY <3>1
    <3>3. job \in jobs /\ Fitting(others, capacity)
      BY <2>0, <3>1
    <3>4. o \in Seq(Job) /\ IsCost(cost, o, capacity)
      <4>. HIDE DEF others
      <4>1. o \in Seq(Job)
        BY <3>2, <3>3, OrderFits
      <4>. QED BY <1>3, <3>2, <4>1, CostOfRest
    <3>. DEFINE n == Len(order)
    <3>5. n \in 1..Len(order) /\ Len(order) + 1 - n = 1 /\ n - 1 = Len(o) /\ Len(o) \in 0..Len(o)
      BY <3>2, <3>4 DEF IsRest
    <3>. HIDE DEF n
    <3>6. Attained(cost, order, capacity, n, loaded)
      BY <1>3, <3>5, CostAttained
    <3>7. PICK c \in SUBSET Tools : c \in Serving(job, capacity) /\ cost[n][loaded] = Exchange(loaded, c) + cost[n - 1][c]
      BY <3>5, <3>6 DEF Attained, AttainedAt
    <3>. HIDE DEF others
    <3>8. Least(others, c, capacity) <= cost[n - 1][c]
      BY <3>2, <3>3, <3>4, <3>5, LeastBound
    <3>. DEFINE x == Exchange(loaded, c) + rest[others][c]
    <3>9. x \in S
      <4>1. x \in {Exchange(loaded, d) + rest[jobs \ {job}][d] : d \in Serving(job, capacity)}
        BY <3>7 DEF others
      <4>. DEFINE F(j) == {Exchange(loaded, d) + rest[jobs \ {j}][d] : d \in Serving(j, capacity)}
      <4>2. x \in F(job)
        BY <4>1
      <4>3. S = UNION {F(j) : j \in jobs}
        BY DEF FirstChoices
      <4>. HIDE DEF job, x, F, S
      <4>. QED BY <3>3, <4>2, <4>3
    <3>10. rest[others][c] = Least(others, c, capacity) /\ Least(others, c, capacity) \in Nat
      <4>1. rest[others][c] = Least(others, c, capacity)
        BY <3>3 DEF others, RestIsLeast
      <4>. QED BY <3>3, <4>1, LeastAttained
    <3>11. cost[n - 1][c] \in Nat /\ Exchange(loaded, c) \in Nat
      BY <3>4, <3>5, CostTyped, ExchangeTyped
    <3>12. x <= least
      <4>. DEFINE e == Exchange(loaded, c)
                  r == cost[n - 1][c]
                  l == rest[others][c]
      <4>1. e \in Nat /\ r \in Nat /\ l \in Nat /\ x = e + l /\ l <= r
        BY <3>8, <3>10, <3>11
      <4>2. least = e + r
        BY <1>3, <3>7 DEF n
      <4>. HIDE DEF e, r, l, x, least
      <4>. QED BY <4>1, <4>2
    <3>13. x \in Nat /\ least <= x
      <4>. HIDE DEF x, S, least
      <4>. QED BY <2>1, <3>9
    <3>14. x = least
      <4>. HIDE DEF x, least
      <4>. QED BY <1>1, <3>12, <3>13 DEF least
    <3>. QED BY <3>9, <3>14
  <2>3. Min(S) \in S /\ \A x \in S : Min(S) <= x
    <3>. HIDE DEF S, least
    <3>1. S \in SUBSET Nat /\ S # {}
      BY <2>1, <2>2
    <3>. QED BY <3>1, LeastOf
  <2>4. Min(S) = least
    <3>. HIDE DEF S, least
    <3>1. Min(S) <= least /\ least <= Min(S) /\ Min(S) \in Nat /\ least \in Nat
      BY <2>1, <2>2, <2>3
    <3>. DEFINE m == Min(S)
    <3>. HIDE DEF m
    <3>2. m <= least /\ least <= m /\ m \in Nat /\ least \in Nat
      BY <3>1 DEF m
    <3>. QED BY <3>2 DEF m
  <2>. QED BY <1>6, <2>4
<1>. QED BY <1>5, <1>6

\* A solution of the recursive definition of the reference.
Solution(jobs, capacity, f) ==
  f = [remaining \in SUBSET jobs |->
        [loaded \in SUBSET Tools |-> IF remaining = {} THEN 0 ELSE Min(FirstChoices(remaining, loaded, capacity, f))]]

\* Part of a set of jobs that fit.
LEMMA FittingPart ==
  ASSUME NEW jobs, NEW capacity, Fitting(jobs, capacity), NEW remaining \in SUBSET jobs
  PROVE  Fitting(remaining, capacity)
BY FS_Subset DEF Fitting

\* The least costs are a solution.
LEMMA LeastSolves ==
  ASSUME NEW jobs, NEW capacity, Fitting(jobs, capacity)
  PROVE  \E f : Solution(jobs, capacity, f)
<1>. DEFINE f == [remaining \in SUBSET jobs |-> [loaded \in SUBSET Tools |-> Least(remaining, loaded, capacity)]]
            Value(remaining, loaded) == IF remaining = {} THEN 0 ELSE Min(FirstChoices(remaining, loaded, capacity, f))
<1>1. \A remaining \in SUBSET jobs : \A loaded \in SUBSET Tools : f[remaining][loaded] = Least(remaining, loaded, capacity)
  OBVIOUS
<1>. HIDE DEF f
<1>2. ASSUME NEW remaining \in SUBSET jobs, NEW loaded \in SUBSET Tools
      PROVE  Least(remaining, loaded, capacity) = Value(remaining, loaded)
  <2>1. Fitting(remaining, capacity)
    BY FittingPart
  <2>2. RestIsLeast(remaining, capacity, f)
    BY <1>1 DEF RestIsLeast
  <2>. QED BY <2>1, <2>2, LeastEquation
<1>. HIDE DEF Value
<1>3. f = [remaining \in SUBSET jobs |-> [loaded \in SUBSET Tools |-> Value(remaining, loaded)]]
  BY <1>2, Zenon DEF f
<1>4. Solution(jobs, capacity, f)
  BY <1>3 DEF Solution, Value
<1>. QED BY <1>4

\* There is no other.
LEMMA SolutionIsLeast ==
  ASSUME NEW jobs, NEW capacity, Fitting(jobs, capacity), NEW f, Solution(jobs, capacity, f)
  PROVE  \A remaining \in SUBSET jobs : \A loaded \in SUBSET Tools :
           f[remaining][loaded] = Least(remaining, loaded, capacity)
<1>. DEFINE Right(r) == \A loaded \in SUBSET Tools : f[r][loaded] = Least(r, loaded, capacity)
            B == {r \in SUBSET jobs : ~Right(r)}
            Q == StrictSubsetOrdering(jobs)
<1>. SUFFICES ASSUME B # {}
              PROVE  FALSE
  OBVIOUS
<1>1. IsWellFoundedOn(Q, FiniteSubsetsOf(jobs)) /\ FiniteSubsetsOf(jobs) = SUBSET jobs
  BY FS_StrictSubsetOrderingWellFounded, FS_FiniteSubsetsOfFinite DEF Fitting
<1>2. B \subseteq FiniteSubsetsOf(jobs)
  BY <1>1
<1>3. PICK r \in B : \A s \in B : <<s, r>> \notin Q
  <2>. HIDE DEF B, Q
  <2>. QED BY <1>1, <1>2, WFMin
<1>4. \A job \in r : Right(r \ {job})
  <2>. SUFFICES ASSUME NEW job \in r, ~Right(r \ {job})
                PROVE  FALSE
    OBVIOUS
  <2>1. r \ {job} \in SUBSET jobs
    OBVIOUS
  <2>. HIDE DEF Right
  <2>2. r \ {job} \in B
    BY <2>1
  <2>3. <<r \ {job}, r>> \in Q
    BY DEF StrictSubsetOrdering
  <2>. QED BY <1>3, <2>2, <2>3
<1>5. Fitting(r, capacity) /\ r \in SUBSET jobs
  BY FittingPart
<1>6. ASSUME NEW loaded \in SUBSET Tools
      PROVE  f[r][loaded] = Least(r, loaded, capacity)
  <2>1. Least(r, loaded, capacity) = IF r = {} THEN 0 ELSE Min(FirstChoices(r, loaded, capacity, f))
    <3>1. RestIsLeast(r, capacity, f)
      BY <1>4 DEF RestIsLeast
    <3>. HIDE DEF B
    <3>. QED BY <1>5, <3>1, LeastEquation
  <2>2. f[r][loaded] = IF r = {} THEN 0 ELSE Min(FirstChoices(r, loaded, capacity, f))
    <3>. DEFINE Value(remaining, l) == IF remaining = {} THEN 0 ELSE Min(FirstChoices(remaining, l, capacity, f))
    <3>1. f = [remaining \in SUBSET jobs |-> [l \in SUBSET Tools |-> Value(remaining, l)]]
      BY DEF Solution
    <3>. HIDE DEF Value, B
    <3>2. f[r] = [l \in SUBSET Tools |-> Value(r, l)]
      BY <1>5, <3>1, Zenon
    <3>3. f[r][loaded] = Value(r, loaded)
      BY <3>2
    <3>. QED BY <3>3 DEF Value
  <2>. QED BY <2>1, <2>2
<1>7. Right(r)
  BY <1>6
<1>. HIDE DEF Right
<1>. QED BY <1>7

\* The reference is the least cost of any order of the jobs.
LEMMA ReferenceIsLeast ==
  ASSUME NEW jobs, NEW capacity, Fitting(ToSet(jobs), capacity), changer.tools \in SUBSET Tools
  PROVE  CheapestMovements(jobs, capacity) = Least(ToSet(jobs), changer.tools, capacity)
<1>. DEFINE S == ToSet(jobs)
            chosen == CHOOSE f : Solution(S, capacity, f)
<1>1. Solution(S, capacity, chosen)
  <2>. HIDE DEF S
  <2>. QED BY LeastSolves, Zenon DEF S
<1>2. CheapestMovements(jobs, capacity) = chosen[S][changer.tools]
  BY DEF CheapestMovements, Solution, FirstChoices, Serving
<1>. HIDE DEF chosen
<1>3. chosen[S][changer.tools] = Least(S, changer.tools, capacity)
  <2>. HIDE DEF S
  <2>. QED BY <1>1, SolutionIsLeast DEF S
<1>. QED BY <1>2, <1>3

-----------------------------------------------------------------------------
(* Which of two plans is the better one.                                   *)

\* The totals of a plan and what it moves, for a given content of the changer.
TotalsOf(order, tools, capacity) == simulate_tool_plan(order, tools, capacity)[Len(order)]
MovesOf(order, tools, capacity) == TotalsOf(order, tools, capacity).loads + TotalsOf(order, tools, capacity).unloads

\* Fewer movements, then fewer loads.
Cheaper(a, b, tools, capacity) ==
  \/ MovesOf(a, tools, capacity) < MovesOf(b, tools, capacity)
  \/ /\ MovesOf(a, tools, capacity) = MovesOf(b, tools, capacity)
     /\ TotalsOf(a, tools, capacity).loads < TotalsOf(b, tools, capacity).loads
AsCheap(a, b, tools, capacity) ==
  /\ MovesOf(a, tools, capacity) = MovesOf(b, tools, capacity)
  /\ TotalsOf(a, tools, capacity).loads = TotalsOf(b, tools, capacity).loads

\* PlanBefore for a given content of the changer.
Better(jobs, tools, capacity, a, b) ==
  \/ Cheaper(a, b, tools, capacity)
  \/ AsCheap(a, b, tools, capacity) /\ EarlierPositions(jobs, a, b)

\* The jobs of a queue: each has its own number.
Numbered(jobs) == jobs \in Seq(Job) /\ \A i, j \in 1..Len(jobs) : jobs[i].id = jobs[j].id => i = j

\* Jobs and a content of the changer for which every order is feasible.
Ready(jobs, tools, capacity) ==
  /\ Numbered(jobs)
  /\ tools \in SUBSET Tools /\ capacity \in Nat /\ Cardinality(tools) <= capacity
  /\ \A i \in 1..Len(jobs) : Cardinality(jobs[i].tools) <= capacity

\* Sequences of some of the jobs.
Picks(jobs, n) == [1..n -> ToSet(jobs)]

\* PlanBefore reads the changer.
LEMMA PlanBeforeIsBetter ==
  ASSUME NEW jobs, NEW capacity, NEW a, NEW b
  PROVE  PlanBefore(jobs, capacity, a, b) <=> Better(jobs, changer.tools, capacity, a, b)
<1>. DEFINE p == Totals(a, capacity)
            q == Totals(b, capacity)
            E == EarlierPositions(jobs, a, b)
<1>1. TotalsOf(a, changer.tools, capacity) = p /\ TotalsOf(b, changer.tools, capacity) = q
  BY DEF TotalsOf, Totals
<1>2. PlanBefore(jobs, capacity, a, b) <=>
        \/ p.loads + p.unloads < q.loads + q.unloads
        \/ (p.loads + p.unloads = q.loads + q.unloads /\ p.loads < q.loads)
        \/ ((p.loads + p.unloads = q.loads + q.unloads /\ p.loads = q.loads) /\ E)
  BY Zenon DEF PlanBefore
<1>. HIDE DEF p, q, E
<1>. DEFINE A == p.loads + p.unloads < q.loads + q.unloads
            B == p.loads + p.unloads = q.loads + q.unloads
            C == p.loads < q.loads
            D == p.loads = q.loads
<1>3. /\ MovesOf(a, changer.tools, capacity) = p.loads + p.unloads
      /\ MovesOf(b, changer.tools, capacity) = q.loads + q.unloads
  BY <1>1 DEF MovesOf
<1>4. Better(jobs, changer.tools, capacity, a, b) <=> A \/ (B /\ C) \/ ((B /\ D) /\ E)
  <2>1. Cheaper(a, b, changer.tools, capacity) <=> A \/ (B /\ C)
    BY <1>1, <1>3 DEF Cheaper
  <2>2. AsCheap(a, b, changer.tools, capacity) <=> B /\ D
    BY <1>1, <1>3 DEF AsCheap
  <2>3. Better(jobs, changer.tools, capacity, a, b) <=>
          Cheaper(a, b, changer.tools, capacity) \/ (AsCheap(a, b, changer.tools, capacity) /\ E)
    BY Zenon DEF Better, E
  <2>. HIDE DEF A, B, C, D
  <2>. QED BY <2>1, <2>2, <2>3
<1>. QED BY <1>2, <1>4, Zenon

\* The numbers of an order.
LEMMA TotalsTyped ==
  ASSUME NEW order, NEW tools, NEW capacity, Feasible(order, tools, capacity)
  PROVE  MovesOf(order, tools, capacity) \in Nat /\ TotalsOf(order, tools, capacity).loads \in Nat
<1>. DEFINE sim == simulate_tool_plan(order, tools, capacity)
            n == Len(order)
<1>1. IsSimulation(sim, order, tools, capacity) /\ order \in Seq(Job)
  BY Simulation DEF Feasible
<1>2. n \in 0..Len(order)
  BY <1>1
<1>. HIDE DEF sim, n
<1>3. sim[n].loads \in Nat /\ sim[n].unloads \in Nat
  BY <1>1, <1>2, SimulationTyped
<1>. DEFINE l == sim[n].loads
            u == sim[n].unloads
<1>4. l + u \in Nat
  <2>1. l \in Nat /\ u \in Nat
    BY <1>3
  <2>. HIDE DEF l, u
  <2>. QED BY <2>1
<1>. QED BY <1>3, <1>4 DEF MovesOf, TotalsOf, sim, n

\* Any sequence of jobs that fit is feasible.
LEMMA PicksFit ==
  ASSUME NEW jobs, NEW tools, NEW capacity, Ready(jobs, tools, capacity), NEW n \in Nat, NEW order \in Picks(jobs, n)
  PROVE  Feasible(order, tools, capacity) /\ Len(order) = n /\ \A i \in 1..n : order[i] \in ToSet(jobs)
<1>1. jobs \in Seq(Job)
  BY DEF Ready, Numbered
<1>2. DOMAIN jobs = 1..Len(jobs)
  BY <1>1
<1>3. \A x \in ToSet(jobs) : x \in Job /\ Cardinality(x.tools) <= capacity
  <2>. SUFFICES ASSUME NEW x \in ToSet(jobs)
                PROVE  x \in Job /\ Cardinality(x.tools) <= capacity
    OBVIOUS
  <2>1. PICK i \in 1..Len(jobs) : x = jobs[i]
    BY <1>2 DEF ToSet
  <2>. QED BY <1>1, <2>1, JobTyped DEF Ready
<1>4. order \in [1..n -> Job] /\ \A i \in 1..n : order[i] \in ToSet(jobs)
  BY <1>3 DEF Picks
<1>5. order \in Seq(Job) /\ Len(order) = n
  BY <1>4
<1>. QED BY <1>3, <1>4, <1>5 DEF Feasible, Ready

\* A job is found by its number.
LEMMA PositionFound ==
  ASSUME NEW jobs, Numbered(jobs)
  PROVE  /\ \A i \in 1..Len(jobs) : Position(jobs, jobs[i].id) = i
         /\ \A x \in ToSet(jobs) : Position(jobs, x.id) \in 1..Len(jobs) /\ jobs[Position(jobs, x.id)] = x
<1>1. \A i \in 1..Len(jobs) : Position(jobs, jobs[i].id) = i
  BY DEF Position, Numbered
<1>2. DOMAIN jobs = 1..Len(jobs)
  BY DEF Numbered
<1>3. ASSUME NEW x \in ToSet(jobs)
      PROVE  Position(jobs, x.id) \in 1..Len(jobs) /\ jobs[Position(jobs, x.id)] = x
  <2>1. PICK i \in 1..Len(jobs) : x = jobs[i]
    BY <1>2 DEF ToSet
  <2>. QED BY <1>1, <2>1
<1>. QED BY <1>1, <1>3

\* Earlier positions order the sequences of jobs.
LEMMA EarlierOrder ==
  ASSUME NEW jobs, Numbered(jobs), NEW n \in Nat, NEW a \in Picks(jobs, n), NEW b \in Picks(jobs, n)
  PROVE  /\ ~EarlierPositions(jobs, a, a)
         /\ \A c \in Picks(jobs, n) : EarlierPositions(jobs, a, b) /\ EarlierPositions(jobs, b, c) => EarlierPositions(jobs, a, c)
         /\ a # b => EarlierPositions(jobs, a, b) \/ EarlierPositions(jobs, b, a)
<1>. DEFINE pos(x) == Position(jobs, x.id)
<1>0. \A s \in Picks(jobs, n) : Len(s) = n /\ \A i \in 1..n : s[i] \in ToSet(jobs) /\ pos(s[i]) \in Nat
  <2>1. Len(jobs) \in Nat
    BY DEF Numbered
  <2>. SUFFICES ASSUME NEW s \in Picks(jobs, n)
                PROVE  Len(s) = n /\ \A i \in 1..n : s[i] \in ToSet(jobs) /\ pos(s[i]) \in Nat
    OBVIOUS
  <2>2. s \in Seq(ToSet(jobs)) /\ Len(s) = n /\ \A i \in 1..n : s[i] \in ToSet(jobs)
    BY DEF Picks
  <2>. QED BY <2>1, <2>2, PositionFound
<1>1. ~EarlierPositions(jobs, a, a)
  BY <1>0 DEF EarlierPositions
<1>2. ASSUME NEW c \in Picks(jobs, n), EarlierPositions(jobs, a, b), EarlierPositions(jobs, b, c)
      PROVE  EarlierPositions(jobs, a, c)
  <2>1. PICK i \in 1..n : pos(a[i]) < pos(b[i]) /\ \A j \in 1..(i - 1) : a[j] = b[j]
    BY <1>0, <1>2 DEF EarlierPositions
  <2>2. PICK k \in 1..n : pos(b[k]) < pos(c[k]) /\ \A j \in 1..(k - 1) : b[j] = c[j]
    BY <1>0, <1>2 DEF EarlierPositions
  <2>3. pos(a[i]) \in Nat /\ pos(b[i]) \in Nat /\ pos(c[i]) \in Nat /\ pos(b[k]) \in Nat /\ pos(c[k]) \in Nat
    <3>. HIDE DEF pos
    <3>. QED BY <1>0
  <2>. HIDE DEF pos
  <2>4. CASE i < k
    <3>1. b[i] = c[i] /\ \A j \in 1..(i - 1) : b[j] = c[j]
      BY <2>2, <2>4
    <3>2. pos(a[i]) < pos(c[i]) /\ \A j \in 1..(i - 1) : a[j] = c[j]
      BY <2>1, <3>1
    <3>. QED BY <1>0, <3>2 DEF EarlierPositions, pos
  <2>5. CASE i = k
    <3>1. pos(a[i]) < pos(c[i])
      BY <2>1, <2>2, <2>3, <2>5
    <3>2. \A j \in 1..(i - 1) : a[j] = c[j]
      BY <2>1, <2>2, <2>5
    <3>. QED BY <1>0, <3>1, <3>2 DEF EarlierPositions, pos
  <2>6. CASE k < i
    <3>1. a[k] = b[k] /\ \A j \in 1..(k - 1) : a[j] = b[j]
      BY <2>1, <2>6
    <3>2. pos(a[k]) < pos(c[k]) /\ \A j \in 1..(k - 1) : a[j] = c[j]
      BY <2>2, <3>1
    <3>. QED BY <1>0, <3>2 DEF EarlierPositions, pos
  <2>. QED BY <2>4, <2>5, <2>6
<1>3. ASSUME a # b
      PROVE  EarlierPositions(jobs, a, b) \/ EarlierPositions(jobs, b, a)
  <2>. DEFINE D == {i \in 1..n : a[i] # b[i]}
  <2>1. D # {}
    <3>1. a \in [1..n -> ToSet(jobs)] /\ b \in [1..n -> ToSet(jobs)]
      BY DEF Picks
    <3>. QED BY <1>3, <3>1
  <2>2. D \in SUBSET Nat
    OBVIOUS
  <2>3. PICK i \in D : \A j \in D : i <= j
    <3>. HIDE DEF D
    <3>. QED BY <2>1, <2>2, LeastNat
  <2>4. i \in 1..n /\ a[i] # b[i] /\ \A j \in 1..(i - 1) : a[j] = b[j]
    BY <2>3
  <2>5. pos(a[i]) # pos(b[i])
    <3>1. jobs[pos(a[i])] = a[i] /\ jobs[pos(b[i])] = b[i]
      BY <1>0, <2>4, PositionFound
    <3>. QED BY <2>4, <3>1
  <2>6. pos(a[i]) < pos(b[i]) \/ pos(b[i]) < pos(a[i])
    <3>1. pos(a[i]) \in Nat /\ pos(b[i]) \in Nat
      <4>. HIDE DEF pos
      <4>. QED BY <1>0, <2>4
    <3>. HIDE DEF pos
    <3>. QED BY <2>5, <3>1
  <2>. QED BY <1>0, <2>4, <2>6 DEF EarlierPositions
<1>. QED BY <1>1, <1>2, <1>3

\* The numbers by which plans are compared.
Keys(tools, capacity, o) == MovesOf(o, tools, capacity) \in Nat /\ TotalsOf(o, tools, capacity).loads \in Nat

\* They are natural numbers.
LEMMA KeysTyped ==
  ASSUME NEW jobs, NEW tools, NEW capacity, Ready(jobs, tools, capacity), NEW n \in Nat
  PROVE  \A o \in Picks(jobs, n) : Keys(tools, capacity, o)
BY PicksFit, TotalsTyped DEF Keys

\* Better orders the plans.
LEMMA BetterOrder ==
  ASSUME NEW jobs, NEW tools, NEW capacity, Ready(jobs, tools, capacity), NEW n \in Nat,
         NEW a \in Picks(jobs, n), NEW b \in Picks(jobs, n), NEW c \in Picks(jobs, n)
  PROVE  /\ ~Better(jobs, tools, capacity, a, a)
         /\ Better(jobs, tools, capacity, a, b) /\ Better(jobs, tools, capacity, b, c) => Better(jobs, tools, capacity, a, c)
         /\ a # b => Better(jobs, tools, capacity, a, b) \/ Better(jobs, tools, capacity, b, a)
<1>. DEFINE m(o) == MovesOf(o, tools, capacity)
            l(o) == TotalsOf(o, tools, capacity).loads
            E(x, y) == EarlierPositions(jobs, x, y)
<1>1. /\ m(a) \in Nat /\ m(b) \in Nat /\ m(c) \in Nat
      /\ l(a) \in Nat /\ l(b) \in Nat /\ l(c) \in Nat
  BY KeysTyped DEF Keys
<1>2. ~E(a, a) /\ (E(a, b) /\ E(b, c) => E(a, c)) /\ (a # b => E(a, b) \/ E(b, a))
  BY EarlierOrder DEF Ready
<1>3. \A x, y : Better(jobs, tools, capacity, x, y) <=>
         (m(x) < m(y) \/ (m(x) = m(y) /\ l(x) < l(y)) \/ ((m(x) = m(y) /\ l(x) = l(y)) /\ E(x, y)))
  BY Zenon DEF Better, Cheaper, AsCheap
<1>. HIDE DEF m, l, E
<1>. DEFINE P(x, y) == m(x) < m(y) \/ (m(x) = m(y) /\ l(x) < l(y))
            Q(x, y) == m(x) = m(y) /\ l(x) = l(y)
<1>4. /\ ~P(a, a) /\ (P(a, b) /\ P(b, c) => P(a, c)) /\ (Q(a, b) /\ P(b, c) => P(a, c)) /\ (P(a, b) /\ Q(b, c) => P(a, c))
      /\ (Q(a, b) /\ Q(b, c) => Q(a, c)) /\ (P(a, b) \/ P(b, a) \/ (Q(a, b) /\ Q(b, a)))
  <2>1. \A ma, mb, mc, la, lb, lc \in Nat :
          /\ ~(ma < ma \/ (ma = ma /\ la < la))
          /\ (ma < mb \/ (ma = mb /\ la < lb)) /\ (mb < mc \/ (mb = mc /\ lb < lc)) => (ma < mc \/ (ma = mc /\ la < lc))
          /\ (ma = mb /\ la = lb) /\ (mb < mc \/ (mb = mc /\ lb < lc)) => (ma < mc \/ (ma = mc /\ la < lc))
          /\ (ma < mb \/ (ma = mb /\ la < lb)) /\ (mb = mc /\ lb = lc) => (ma < mc \/ (ma = mc /\ la < lc))
          /\ (ma = mb /\ la = lb) /\ (mb = mc /\ lb = lc) => ma = mc /\ la = lc
          /\ (ma < mb \/ (ma = mb /\ la < lb)) \/ (mb < ma \/ (mb = ma /\ lb < la)) \/ ((ma = mb /\ la = lb) /\ (mb = ma /\ lb = la))
    OBVIOUS
  <2>. QED BY <1>1, <2>1
<1>5. \A x, y : Better(jobs, tools, capacity, x, y) <=> (P(x, y) \/ (Q(x, y) /\ E(x, y)))
  BY <1>3, Zenon
<1>. HIDE DEF P, Q
<1>6. ~Better(jobs, tools, capacity, a, a)
  BY <1>2, <1>4, <1>5, Zenon
<1>7. Better(jobs, tools, capacity, a, b) /\ Better(jobs, tools, capacity, b, c) => Better(jobs, tools, capacity, a, c)
  BY <1>2, <1>4, <1>5, Zenon
<1>8. a # b => Better(jobs, tools, capacity, a, b) \/ Better(jobs, tools, capacity, b, a)
  BY <1>2, <1>4, <1>5, Zenon
<1>. QED BY <1>6, <1>7, <1>8

\* A set of plans of n jobs.
PlanSet(orders, jobs, n) == orders \in SUBSET Picks(jobs, n) /\ orders # {} /\ IsFiniteSet(orders)

\* The best of them is one of them, and none of them is better.
LEMMA BestOfBest ==
  ASSUME NEW jobs, NEW capacity, Ready(jobs, changer.tools, capacity), NEW n \in Nat,
         NEW orders, PlanSet(orders, jobs, n)
  PROVE  /\ BestOf(orders, jobs, capacity) \in orders
         /\ \A p \in orders : ~Better(jobs, changer.tools, capacity, p, BestOf(orders, jobs, capacity))
<1>. DEFINE tools == changer.tools
            R == {pair \in orders \X orders : Better(jobs, tools, capacity, pair[1], pair[2])}
<1>1. orders \in SUBSET Picks(jobs, n) /\ orders # {} /\ IsFiniteSet(orders)
  BY DEF PlanSet
<1>2. \A x, y \in orders : <<x, y>> \in R <=> Better(jobs, tools, capacity, x, y)
  OBVIOUS
<1>. HIDE DEF R, tools
<1>3. \A x \in orders : <<x, x>> \notin R
  BY <1>1, <1>2, BetterOrder DEF tools
<1>4. \A x, y, z \in orders : <<x, y>> \in R /\ <<y, z>> \in R => <<x, z>> \in R
  <2>. SUFFICES ASSUME NEW x \in orders, NEW y \in orders, NEW z \in orders, <<x, y>> \in R, <<y, z>> \in R
                PROVE  <<x, z>> \in R
    OBVIOUS
  <2>1. x \in Picks(jobs, n) /\ y \in Picks(jobs, n) /\ z \in Picks(jobs, n)
    BY <1>1
  <2>2. Better(jobs, tools, capacity, x, y) /\ Better(jobs, tools, capacity, y, z)
    BY <1>2
  <2>3. Better(jobs, tools, capacity, x, z)
    BY <2>1, <2>2, BetterOrder DEF tools
  <2>. QED BY <1>2, <2>3
<1>5. \E x \in orders : \A y \in orders : <<y, x>> \notin R
  BY <1>1, <1>3, <1>4, FiniteMinimal
<1>6. \E o \in orders : \A p \in orders : ~PlanBefore(jobs, capacity, p, o)
  BY <1>2, <1>5, PlanBeforeIsBetter DEF tools
<1>7. /\ BestOf(orders, jobs, capacity) \in orders
      /\ \A p \in orders : ~PlanBefore(jobs, capacity, p, BestOf(orders, jobs, capacity))
  BY <1>6, Zenon DEF BestOf
<1>. QED BY <1>7, PlanBeforeIsBetter

\* There are finitely many sequences of n jobs.
LEMMA PicksFinite ==
  ASSUME NEW jobs, IsFiniteSet(ToSet(jobs)), NEW n \in Nat
  PROVE  IsFiniteSet(Picks(jobs, n))
<1>. DEFINE S == ToSet(jobs)
            D == 1..n
            T == SUBSET (D \X S)
            f == [o \in [D -> S] |-> {<<i, o[i]>> : i \in D}]
<1>1. IsFiniteSet(T)
  <2>1. IsFiniteSet(D)
    BY Segments
  <2>. HIDE DEF D, S
  <2>2. IsFiniteSet(D \X S)
    BY <2>1, FS_Product DEF S
  <2>. QED BY <2>2, FS_SUBSET
<1>2. f \in Injection([D -> S], T)
  <2>. HIDE DEF D, S
  <2>1. f \in [[D -> S] -> T]
    OBVIOUS
  <2>2. ASSUME NEW a \in [D -> S], NEW b \in [D -> S], f[a] = f[b]
        PROVE  a = b
    <3>1. ASSUME NEW i \in D
          PROVE  a[i] = b[i]
      <4>1. <<i, a[i]>> \in f[b]
        BY <2>2
      <4>2. PICK k \in D : <<i, a[i]>> = <<k, b[k]>>
        BY <4>1
      <4>. QED BY <4>2
    <3>. QED BY <3>1
  <2>. HIDE DEF f
  <2>. QED BY <2>1, <2>2 DEF Injection, IsInjective
<1>3. IsFiniteSet([D -> S])
  <2>. HIDE DEF f, D, S, T
  <2>. QED BY <1>1, <1>2, FS_Injection
<1>. QED BY <1>3 DEF Picks

-----------------------------------------------------------------------------
(* The candidates of the search.                                           *)

\* Sequences of n different jobs.
Orders(jobs, n) == {o \in Picks(jobs, n) : \A i, j \in 1..n : o[i] = o[j] => i = j}

\* They hold n jobs.
LEMMA OrderSize ==
  ASSUME NEW jobs, NEW n \in Nat, NEW order \in Orders(jobs, n)
  PROVE  /\ IsFiniteSet(ToSet(order)) /\ Cardinality(ToSet(order)) = n
         /\ Len(order) = n /\ order \in Seq(ToSet(jobs)) /\ DOMAIN order = 1..n
<1>1. order \in [1..n -> ToSet(jobs)] /\ \A i, j \in 1..n : order[i] = order[j] => i = j
  BY DEF Orders, Picks
<1>. DEFINE T == ToSet(order)
<1>2. DOMAIN order = 1..n /\ T = {order[i] : i \in 1..n}
  BY <1>1 DEF ToSet
<1>3. order \in Bijection(1..n, T)
  <2>1. order \in [1..n -> T]
    BY <1>1, <1>2
  <2>2. \A t \in T : \E i \in 1..n : order[i] = t
    BY <1>2
  <2>. HIDE DEF T
  <2>. QED BY <1>1, <2>1, <2>2 DEF Bijection, Injection, Surjection, IsInjective
<1>4. ExistsBijection(1..n, T)
  BY <1>3 DEF ExistsBijection
<1>5. IsFiniteSet(1..n) /\ Cardinality(1..n) = n
  BY Segments
<1>6. IsFiniteSet(T) /\ Cardinality(T) = n
  <2>. HIDE DEF T
  <2>1. IsFiniteSet(T) /\ Cardinality(T) = Cardinality(1..n)
    BY <1>4, <1>5, FS_Bijection
  <2>. QED BY <1>5, <2>1
<1>7. Len(order) = n /\ order \in Seq(ToSet(jobs))
  BY <1>1
<1>. QED BY <1>2, <1>6, <1>7

\* The orders of all jobs, the given one among them.
LEMMA AllOrders ==
  ASSUME NEW jobs, Numbered(jobs)
  PROVE  /\ IsFiniteSet(ToSet(jobs)) /\ Cardinality(ToSet(jobs)) = Len(jobs) /\ Len(jobs) \in Nat
         /\ jobs \in Orders(jobs, Len(jobs)) /\ SetToSeqs(ToSet(jobs)) = Orders(jobs, Len(jobs))
<1>. DEFINE n == Len(jobs)
<1>1. n \in Nat /\ jobs \in [1..n -> Job] /\ DOMAIN jobs = 1..n
  BY DEF Numbered
<1>2. jobs \in Orders(jobs, n)
  <2>1. jobs \in [1..n -> ToSet(jobs)]
    BY <1>1 DEF ToSet
  <2>2. \A i, j \in 1..n : jobs[i] = jobs[j] => i = j
    BY DEF Numbered
  <2>. QED BY <2>1, <2>2 DEF Orders, Picks
<1>3. IsFiniteSet(ToSet(jobs)) /\ Cardinality(ToSet(jobs)) = n
  <2>. HIDE DEF n
  <2>. QED BY <1>1, <1>2, OrderSize
<1>4. SetToSeqs(ToSet(jobs)) = Orders(jobs, n)
  <2>. HIDE DEF n
  <2>. QED BY <1>3 DEF SetToSeqs, Orders, Picks
<1>. QED BY <1>1, <1>2, <1>3, <1>4

\* An order with one more job.
LEMMA OrderExtends ==
  ASSUME NEW jobs, NEW n \in Nat, NEW order \in Orders(jobs, n), NEW job \in ToSet(jobs) \ ToSet(order)
  PROVE  Append(order, job) \in Orders(jobs, n + 1)
<1>. DEFINE longer == Append(order, job)
<1>1. order \in [1..n -> ToSet(jobs)] /\ (\A i, j \in 1..n : order[i] = order[j] => i = j) /\ order \in Seq(ToSet(jobs)) /\ Len(order) = n
      /\ DOMAIN order = 1..n
  BY OrderSize DEF Orders, Picks
<1>2. longer \in Seq(ToSet(jobs)) /\ Len(longer) = n + 1 /\ longer[n + 1] = job /\ \A i \in 1..n : longer[i] = order[i]
  BY <1>1
<1>. HIDE DEF longer
<1>3. longer \in [1..(n + 1) -> ToSet(jobs)]
  BY <1>2
<1>4. \A i \in 1..n : order[i] # job
  BY <1>1 DEF ToSet
<1>5. \A i \in 1..(n + 1) : i = n + 1 \/ i \in 1..n
  OBVIOUS
<1>6. ASSUME NEW i \in 1..(n + 1), NEW j \in 1..(n + 1), longer[i] = longer[j]
      PROVE  i = j
  <2>1. CASE i = n + 1 /\ j = n + 1
    BY <2>1
  <2>2. CASE i = n + 1 /\ j \in 1..n
    BY <1>2, <1>4, <1>6, <2>2
  <2>3. CASE i \in 1..n /\ j = n + 1
    BY <1>2, <1>4, <1>6, <2>3
  <2>4. CASE i \in 1..n /\ j \in 1..n
    BY <1>1, <1>2, <1>6, <2>4
  <2>. QED BY <1>5, <2>1, <2>2, <2>3, <2>4
<1>. QED BY <1>3, <1>6 DEF Orders, Picks, longer

\* The greedy choice of one more job.
LEMMA GreedyStep ==
  ASSUME NEW jobs, NEW capacity, Ready(jobs, changer.tools, capacity),
         NEW k \in Nat, k < Len(jobs), NEW order \in Orders(jobs, k)
  PROVE  BestOf({Append(order, job) : job \in ToSet(jobs) \ ToSet(order)}, jobs, capacity) \in Orders(jobs, k + 1)
<1>. DEFINE remaining == ToSet(jobs) \ ToSet(order)
            options == {Append(order, job) : job \in remaining}
<1>1. /\ IsFiniteSet(ToSet(jobs)) /\ Cardinality(ToSet(jobs)) = Len(jobs) /\ Len(jobs) \in Nat
      /\ IsFiniteSet(ToSet(order)) /\ Cardinality(ToSet(order)) = k
  BY AllOrders, OrderSize DEF Ready
<1>2. remaining # {}
  <2>1. SUFFICES ASSUME ToSet(jobs) \subseteq ToSet(order)
                 PROVE  FALSE
    OBVIOUS
  <2>2. ToSet(jobs) \in SUBSET ToSet(order)
    BY <2>1
  <2>3. Cardinality(ToSet(jobs)) <= Cardinality(ToSet(order))
    BY <1>1, <2>2, FS_Subset
  <2>. QED BY <1>1, <2>3
<1>3. \A o \in options : o \in Orders(jobs, k + 1)
  <2>. HIDE DEF remaining
  <2>1. \A job \in remaining : Append(order, job) \in Orders(jobs, k + 1)
    BY OrderExtends DEF remaining
  <2>. QED BY <2>1
<1>4. IsFiniteSet(options)
  <2>1. options \in SUBSET Picks(jobs, k + 1)
    <3>. HIDE DEF options
    <3>. QED BY <1>3 DEF Orders
  <2>2. IsFiniteSet(Picks(jobs, k + 1))
    <3>1. k + 1 \in Nat
      OBVIOUS
    <3>. QED BY <1>1, <3>1, PicksFinite
  <2>. HIDE DEF options
  <2>. QED BY <2>1, <2>2, FS_Subset
<1>5. options # {}
  <2>. HIDE DEF remaining
  <2>. QED BY <1>2
<1>. DEFINE n == k + 1
<1>. HIDE DEF options
<1>6. PlanSet(options, jobs, n) /\ n \in Nat
  BY <1>3, <1>4, <1>5 DEF PlanSet, Orders
<1>. HIDE DEF n
<1>7. BestOf(options, jobs, capacity) \in options
  BY <1>6, BestOfBest
<1>8. BestOf(options, jobs, capacity) \in Orders(jobs, k + 1)
  BY <1>3, <1>7
<1>. QED BY <1>8 DEF options

\* The greedy search ends with an order of all jobs.
LEMMA GreedyOrder ==
  ASSUME NEW jobs, NEW capacity, Ready(jobs, changer.tools, capacity), NEW seed \in ToSet(jobs), Len(jobs) > 0
  PROVE  Greedy(seed, jobs, capacity) \in Orders(jobs, Len(jobs))
<1>. DEFINE n == Len(jobs)
            a == <<seed>>
            Step(s) == BestOf({Append(s, job) : job \in ToSet(jobs) \ ToSet(s)}, jobs, capacity)
            F == [k \in 1..n |-> Orders(jobs, k)]
            g == [k \in 1..n |-> [s \in Orders(jobs, k - 1) |-> Step(s)]]
            IsGreedy(f) == f = [k \in 1..n |-> IF k = 1 THEN a ELSE Step(f[k - 1])]
            order == CHOOSE f : IsGreedy(f)
<1>1. n \in Nat /\ 1 <= n
  BY DEF Ready, Numbered
<1>2. Greedy(seed, jobs, capacity) = order[n]
  BY DEF Greedy
<1>3. a \in Orders(jobs, 1)
  BY DEF Orders, Picks
<1>4. \A k \in 2..n : \A s \in Orders(jobs, k - 1) : Step(s) \in Orders(jobs, k)
  <2>. SUFFICES ASSUME NEW k \in 2..n, NEW s \in Orders(jobs, k - 1)
                PROVE  Step(s) \in Orders(jobs, k)
    OBVIOUS
  <2>. DEFINE m == k - 1
  <2>1. m \in Nat /\ m < Len(jobs) /\ m + 1 = k
    BY <1>1
  <2>2. s \in Orders(jobs, m)
    OBVIOUS
  <2>. HIDE DEF m
  <2>3. Step(s) \in Orders(jobs, m + 1)
    BY <2>1, <2>2, GreedyStep
  <2>. QED BY <2>1, <2>3
<1>5. \E f : IsRecursion(f, 1, n, a, g) /\ \A k \in 1..n : f[k] \in F[k]
  <2>1. a \in F[1]
    BY <1>1, <1>3
  <2>2. \A k \in (1 + 1)..n : \A s \in F[k - 1] : g[k][s] \in F[k]
    <3>. SUFFICES ASSUME NEW k \in (1 + 1)..n, NEW s \in F[k - 1]
                  PROVE  g[k][s] \in F[k]
      OBVIOUS
    <3>1. k \in 2..n /\ k \in 1..n /\ k - 1 \in 1..n
      BY <1>1
    <3>2. F[k - 1] = Orders(jobs, k - 1) /\ F[k] = Orders(jobs, k)
      BY <3>1
    <3>3. s \in Orders(jobs, k - 1) /\ g[k][s] = Step(s)
      <4>. HIDE DEF Step
      <4>. QED BY <3>1, <3>2
    <3>. HIDE DEF F, g, Step
    <3>. QED BY <1>4, <3>1, <3>2, <3>3
  <2>. HIDE DEF F, g, a, n
  <2>3. StaysIn(F, 1, n, a, g)
    BY <2>1, <2>2 DEF StaysIn
  <2>. QED BY <1>1, <2>3, Iterates
<1>6. PICK f : /\ f = [k \in 1..n |-> IF k = 1 THEN a ELSE g[k][f[k - 1]]]
               /\ \A k \in 1..n : f[k] \in F[k]
  <2>. HIDE DEF F, g, a, n
  <2>. QED BY <1>5 DEF IsRecursion
<1>7. IsGreedy(f)
  <2>1. \A k \in 1..n : k # 1 => k - 1 \in 1..n
    BY <1>1
  <2>2. \A k \in 1..n : f[k] \in Orders(jobs, k)
    BY <1>6
  <2>3. \A k \in 1..n : k # 1 => g[k][f[k - 1]] = Step(f[k - 1])
    <3>. SUFFICES ASSUME NEW k \in 1..n, k # 1
                  PROVE  g[k][f[k - 1]] = Step(f[k - 1])
      OBVIOUS
    <3>1. f[k - 1] \in Orders(jobs, k - 1)
      BY <2>1, <2>2
    <3>. HIDE DEF Step
    <3>. QED BY <3>1
  <2>. HIDE DEF a, g, Step, n, F
  <2>. QED BY <1>6, <2>3
<1>8. IsGreedy(order)
  <2>. HIDE DEF IsGreedy
  <2>. QED BY <1>7
<1>. HIDE DEF order, a, Step
<1>9. order[1] = a /\ \A k \in 2..n : order[k] = Step(order[k - 1])
  <2>1. \A k \in 1..n : order[k] = IF k = 1 THEN a ELSE Step(order[k - 1])
    BY <1>8
  <2>2. 1 \in 1..n /\ \A k \in 2..n : k \in 1..n /\ k # 1
    BY <1>1
  <2>. QED BY <2>1, <2>2
<1>. DEFINE G == {k \in Nat : k < n => order[k + 1] \in Orders(jobs, k + 1)}
<1>. HIDE DEF n
<1>10. 0 \in G
  BY <1>3, <1>9 DEF a
<1>11. \A k \in G : k + 1 \in G
  <2>. SUFFICES ASSUME NEW k \in G, k + 1 < n
                PROVE  order[(k + 1) + 1] \in Orders(jobs, (k + 1) + 1)
    OBVIOUS
  <2>. DEFINE i == k + 1
              j == (k + 1) + 1
  <2>1. k \in Nat /\ k < n /\ j \in 2..n /\ j - 1 = i
    BY <1>1
  <2>2. order[i] \in Orders(jobs, i)
    BY <2>1
  <2>. HIDE DEF i, j
  <2>3. order[j] = Step(order[i])
    BY <1>9, <2>1
  <2>4. Step(order[i]) \in Orders(jobs, j)
    BY <1>4, <2>1, <2>2
  <2>. QED BY <2>3, <2>4 DEF j
<1>12. G = Nat
  <2>1. G \in SUBSET Nat
    OBVIOUS
  <2>. HIDE DEF G
  <2>. QED BY <1>10, <1>11, <2>1, NatInduct
<1>13. n - 1 \in G /\ n - 1 < n /\ (n - 1) + 1 = n
  <2>. HIDE DEF G
  <2>. QED BY <1>1, <1>12
<1>14. order[(n - 1) + 1] \in Orders(jobs, (n - 1) + 1)
  BY <1>13
<1>. QED BY <1>2, <1>13, <1>14 DEF n

\* The candidates of a preview are orders of all jobs, the one of the queue among them.
LEMMA CandidatesTyped ==
  ASSUME NEW jobs, NEW capacity, Ready(jobs, changer.tools, capacity)
  PROVE  /\ jobs \in Candidates(jobs, capacity) /\ PlanSet(Candidates(jobs, capacity), jobs, Len(jobs))
         /\ Candidates(jobs, capacity) \subseteq SetToSeqs(ToSet(jobs))
         /\ Exact(jobs) => Candidates(jobs, capacity) = SetToSeqs(ToSet(jobs))
<1>. DEFINE n == Len(jobs)
            C == Candidates(jobs, capacity)
<1>1. /\ IsFiniteSet(ToSet(jobs)) /\ n \in Nat
      /\ jobs \in Orders(jobs, n) /\ SetToSeqs(ToSet(jobs)) = Orders(jobs, n)
  BY AllOrders DEF Ready
<1>2. jobs \in C /\ C \subseteq Orders(jobs, n) /\ (Exact(jobs) => C = Orders(jobs, n))
  <2>1. CASE Exact(jobs)
    <3>1. C = Orders(jobs, n)
      BY <1>1, <2>1 DEF Candidates
    <3>. QED BY <1>1, <3>1
  <2>2. CASE ~Exact(jobs)
    <3>1. C = {jobs} \cup {Greedy(jobs[i], jobs, capacity) : i \in 1..n}
      BY <2>2 DEF Candidates, GreedyOrders
    <3>2. \A i \in 1..n : jobs[i] \in ToSet(jobs) /\ Len(jobs) > 0
      BY <1>1 DEF ToSet, Orders, Picks
    <3>. HIDE DEF C, n
    <3>3. \A i \in 1..n : Greedy(jobs[i], jobs, capacity) \in Orders(jobs, n)
      BY <3>2, GreedyOrder DEF n
    <3>. QED BY <1>1, <2>2, <3>1, <3>3
  <2>. QED BY <2>1, <2>2
<1>3. IsFiniteSet(C)
  <2>. HIDE DEF n, C
  <2>1. IsFiniteSet(Picks(jobs, n))
    BY <1>1, PicksFinite
  <2>2. C \in SUBSET Picks(jobs, n)
    BY <1>2 DEF Orders
  <2>. QED BY <2>1, <2>2, FS_Subset
<1>4. PlanSet(C, jobs, n)
  <2>. HIDE DEF n, C
  <2>. QED BY <1>2, <1>3 DEF PlanSet, Orders
<1>. QED BY <1>1, <1>2, <1>4

-----------------------------------------------------------------------------
(* The jobs of a queue and the queue of a plan.                            *)

\* Where the jobs are.
PlacesOf(q) == {i \in 1..Len(q) : q[i].tools # {}}

\* Counting numbers the places from 1 on.
CountedPlaces(q) ==
  /\ IsFiniteSet(PlacesOf(q)) /\ Cardinality(PlacesOf(q)) \in Nat
  /\ \A i \in PlacesOf(q) : JobNumber(q, i) \in 1..Cardinality(PlacesOf(q))
  /\ \A i, j \in PlacesOf(q) : JobNumber(q, i) = JobNumber(q, j) => i = j
  /\ \A n \in 1..Cardinality(PlacesOf(q)) : \E i \in PlacesOf(q) : JobNumber(q, i) = n

\* Each place has a number of its own, and each number has a place.
LEMMA PlaceNumbers ==
  ASSUME NEW q \in Seq(Job)
  PROVE  CountedPlaces(q)
<1>. DEFINE P == PlacesOf(q)
            c == Cardinality(P)
            Upto(i) == {k \in 1..i : q[k].tools # {}}
<1>1. Len(q) \in Nat
  OBVIOUS
<1>2. IsFiniteSet(P) /\ c \in Nat /\ P \subseteq 1..Len(q)
  <2>1. P \in SUBSET (1..Len(q))
    BY DEF PlacesOf
  <2>2. IsFiniteSet(1..Len(q))
    BY <1>1, Segments
  <2>. HIDE DEF P
  <2>3. IsFiniteSet(P)
    BY <2>1, <2>2, FS_Subset
  <2>. QED BY <2>1, <2>3, FS_CardinalityType
<1>3. \A i \in P : JobNumber(q, i) = Cardinality(Upto(i)) /\ Upto(i) \in SUBSET P /\ i \in Upto(i)
  BY <1>1 DEF JobNumber, PlacesOf
<1>4. \A i, j \in P : i < j => Upto(i) \in SUBSET Upto(j) /\ j \notin Upto(i)
  BY <1>2
<1>. DEFINE number == [i \in P |-> JobNumber(q, i)]
<1>. HIDE DEF P, Upto
<1>5. \A i \in P : IsFiniteSet(Upto(i)) /\ Cardinality(Upto(i)) \in Nat /\ Cardinality(Upto(i)) <= c /\ Cardinality(Upto(i)) # 0
  BY <1>2, <1>3, FS_Subset, FS_CardinalityType, FS_EmptySet
<1>6. \A i \in P : JobNumber(q, i) \in 1..c
  <2>. HIDE DEF c
  <2>. QED BY <1>2, <1>3, <1>5
<1>7. \A i, j \in P : i < j => JobNumber(q, i) # JobNumber(q, j)
  <2>. SUFFICES ASSUME NEW i \in P, NEW j \in P, i < j, JobNumber(q, i) = JobNumber(q, j)
                PROVE  FALSE
    OBVIOUS
  <2>1. Upto(i) \in SUBSET Upto(j) /\ j \notin Upto(i) /\ j \in Upto(j)
    BY <1>3, <1>4
  <2>2. Cardinality(Upto(i)) = Cardinality(Upto(j)) /\ IsFiniteSet(Upto(j))
    BY <1>3, <1>5
  <2>3. Upto(j) = Upto(i)
    BY <2>1, <2>2, FS_Subset
  <2>. QED BY <2>1, <2>3
<1>8. \A i, j \in P : JobNumber(q, i) = JobNumber(q, j) => i = j
  <2>. SUFFICES ASSUME NEW i \in P, NEW j \in P, JobNumber(q, i) = JobNumber(q, j), i # j
                PROVE  FALSE
    OBVIOUS
  <2>1. i < j \/ j < i
    BY <1>1, <1>2
  <2>. QED BY <1>7, <2>1
<1>9. number \in Injection(P, 1..c)
  <2>1. number \in [P -> 1..c]
    BY <1>6
  <2>2. \A i, j \in P : number[i] = number[j] => i = j
    BY <1>8
  <2>. HIDE DEF number, c
  <2>. QED BY <2>1, <2>2 DEF Injection, IsInjective
<1>10. number \in Surjection(P, 1..c)
  <2>1. IsFiniteSet(1..c) /\ Cardinality(1..c) = c
    BY <1>2, Segments
  <2>. DEFINE D == 1..c
  <2>. HIDE DEF number, D
  <2>2. Cardinality(P) = Cardinality(D) <=> number \in Surjection(P, D)
    BY <1>9, <2>1, FS_Injection DEF D
  <2>. QED BY <2>1, <2>2 DEF D
<1>11. \A n \in 1..c : \E i \in P : JobNumber(q, i) = n
  <2>1. \A n \in 1..c : \E i \in P : number[i] = n
    <3>. HIDE DEF number, c
    <3>. QED BY <1>10 DEF Surjection
  <2>. HIDE DEF c
  <2>. QED BY <2>1
<1>. QED BY <1>2, <1>6, <1>8, <1>11 DEF CountedPlaces, P

\* The jobs of a queue, place by place.
JobsAtPlaces(q) ==
  /\ Jobs(q) \in Seq(Job) /\ Len(Jobs(q)) = Cardinality(PlacesOf(q)) /\ DOMAIN Jobs(q) = 1..Len(Jobs(q))
  /\ \A i \in PlacesOf(q) : JobNumber(q, i) \in 1..Len(Jobs(q)) /\ Jobs(q)[JobNumber(q, i)] = q[i]
  /\ \A n \in 1..Len(Jobs(q)) : \E i \in PlacesOf(q) : JobNumber(q, i) = n /\ Jobs(q)[n] = q[i]

\* Jobs lists what is at the places.
LEMMA JobsFound ==
  ASSUME NEW q \in Seq(Job)
  PROVE  JobsAtPlaces(q)
<1>. DEFINE P == PlacesOf(q)
            c == Cardinality(P)
            At(n) == CHOOSE i \in P : JobNumber(q, i) = n
<1>1. Jobs(q) = [n \in 1..c |-> q[At(n)]]
  BY DEF Jobs, PlacesOf
<1>2. /\ c \in Nat
      /\ \A i \in P : JobNumber(q, i) \in 1..c
      /\ \A i, j \in P : JobNumber(q, i) = JobNumber(q, j) => i = j
      /\ \A n \in 1..c : \E i \in P : JobNumber(q, i) = n
  BY PlaceNumbers DEF CountedPlaces
<1>3. P \subseteq 1..Len(q)
  BY DEF PlacesOf
<1>. HIDE DEF P, c
<1>4. \A n \in 1..c : At(n) \in P /\ JobNumber(q, At(n)) = n
  BY <1>2
<1>5. \A i \in P : At(JobNumber(q, i)) = i
  BY <1>2
<1>. HIDE DEF At
<1>6. \A n \in 1..c : q[At(n)] \in Job
  BY <1>3, <1>4, JobTyped
<1>7. Jobs(q) \in Seq(Job) /\ Len(Jobs(q)) = c /\ DOMAIN Jobs(q) = 1..c
  BY <1>1, <1>2, <1>6
<1>8. \A i \in P : Jobs(q)[JobNumber(q, i)] = q[i]
  BY <1>1, <1>2, <1>5
<1>9. \A n \in 1..c : At(n) \in P /\ JobNumber(q, At(n)) = n /\ Jobs(q)[n] = q[At(n)]
  BY <1>1, <1>4
<1>. QED BY <1>2, <1>7, <1>8, <1>9 DEF JobsAtPlaces, P, c

\* The jobs of a queue of numbered pallets are numbered, and each has a tool.
LEMMA JobsNumbered ==
  ASSUME NEW q, Numbered(q)
  PROVE  Numbered(Jobs(q)) /\ \A x \in ToSet(Jobs(q)) : \E i \in PlacesOf(q) : x = q[i]
<1>1. q \in Seq(Job) /\ JobsAtPlaces(q)
  BY JobsFound DEF Numbered
<1>2. ASSUME NEW i \in 1..Len(Jobs(q)), NEW j \in 1..Len(Jobs(q)), Jobs(q)[i].id = Jobs(q)[j].id
      PROVE  i = j
  <2>1. PICK k \in PlacesOf(q) : JobNumber(q, k) = i /\ Jobs(q)[i] = q[k]
    BY <1>1 DEF JobsAtPlaces
  <2>2. PICK m \in PlacesOf(q) : JobNumber(q, m) = j /\ Jobs(q)[j] = q[m]
    BY <1>1 DEF JobsAtPlaces
  <2>3. k = m
    BY <1>2, <2>1, <2>2 DEF Numbered, PlacesOf
  <2>. QED BY <2>1, <2>2, <2>3
<1>3. Numbered(Jobs(q))
  BY <1>1, <1>2 DEF Numbered, JobsAtPlaces
<1>4. \A x \in ToSet(Jobs(q)) : \E i \in PlacesOf(q) : x = q[i]
  BY <1>1 DEF ToSet, JobsAtPlaces
<1>. QED BY <1>3, <1>4

\* FullOrder for a given queue.
Filled(q, order) == [i \in 1..Len(q) |-> IF q[i].tools = {} THEN q[i] ELSE order[JobNumber(q, i)]]

\* What an order of its jobs makes of a queue.
FilledRight(q, order, filled) ==
  /\ Numbered(filled) /\ Len(filled) = Len(q) /\ ToSet(filled) = ToSet(q) /\ Jobs(filled) = order
  /\ \A i \in 1..Len(q) : q[i].tools = {} => filled[i] = q[i]

\* The same pallets, those without tools in their places, and the order is that of the jobs.
LEMMA FilledQueue ==
  ASSUME NEW q, Numbered(q), NEW order \in SetToSeqs(ToSet(Jobs(q))), NEW filled, filled = Filled(q, order)
  PROVE  FilledRight(q, order, filled)
<1>. DEFINE J == Jobs(q)
            n == Len(J)
            P == PlacesOf(q)
            num(i) == JobNumber(q, i)
<1>1. q \in Seq(Job) /\ JobsAtPlaces(q) /\ Numbered(J) /\ DOMAIN q = 1..Len(q) /\ Len(q) \in Nat
  BY JobsFound, JobsNumbered DEF Numbered
<1>2. /\ IsFiniteSet(ToSet(J)) /\ n \in Nat /\ Cardinality(ToSet(J)) = n
  BY <1>1, AllOrders
<1>3. /\ DOMAIN order = 1..n /\ ToSet(order) = ToSet(J) /\ order \in Seq(ToSet(J)) /\ Len(order) = n
      /\ \A i \in 1..n : order[i] \in ToSet(J)
      /\ \A i, j \in 1..n : order[i] = order[j] => i = j
  BY <1>2, OrderTyped DEF IsOrder
<1>4. \A i \in P : num(i) \in 1..n /\ J[num(i)] = q[i]
  BY <1>1 DEF JobsAtPlaces
<1>5. \A k \in 1..n : \E i \in P : num(i) = k /\ J[k] = q[i]
  BY <1>1 DEF JobsAtPlaces
<1>6. \A x \in ToSet(J) : \E i \in P : x = q[i]
  BY <1>1, JobsNumbered
<1>7. \A i, j \in P : num(i) = num(j) => i = j
  BY <1>1, PlaceNumbers DEF CountedPlaces
<1>8. \A i \in P : i \in 1..Len(q) /\ q[i].tools # {}
  BY DEF PlacesOf
<1>9. \A i \in 1..Len(q) : i \in P \/ q[i].tools = {}
  BY DEF PlacesOf
<1>10. \A x \in ToSet(J) : x \in Job /\ x.tools # {}
  BY <1>1, <1>6, <1>8, JobTyped
<1>11. filled = [i \in 1..Len(q) |-> IF q[i].tools = {} THEN q[i] ELSE order[num(i)]]
  BY DEF Filled
<1>. HIDE DEF J, n, P, num
<1>12. \A i \in P : filled[i] = order[num(i)] /\ filled[i] \in ToSet(J)
  BY <1>3, <1>4, <1>8, <1>11
<1>13. \A i \in 1..Len(q) : i \notin P => filled[i] = q[i] /\ q[i].tools = {}
  BY <1>9, <1>11
<1>14. filled \in Seq(Job) /\ Len(filled) = Len(q) /\ DOMAIN filled = 1..Len(q)
  <2>1. \A i \in 1..Len(q) : filled[i] \in Job
    BY <1>1, <1>10, <1>12, <1>13, JobTyped
  <2>2. DOMAIN filled = 1..Len(q) /\ filled = [i \in 1..Len(q) |-> filled[i]]
    BY <1>11
  <2>3. filled \in [1..Len(q) -> Job]
    BY <2>1, <2>2
  <2>. QED BY <1>1, <2>3
<1>15. Numbered(filled)
  <2>. SUFFICES ASSUME NEW i \in 1..Len(q), NEW j \in 1..Len(q), filled[i].id = filled[j].id
                PROVE  i = j
    BY <1>14 DEF Numbered
  <2>0. \A a, b \in 1..Len(q) : q[a].id = q[b].id => a = b
    BY DEF Numbered
  <2>1. CASE i \in P /\ j \in P
    <3>1. PICK a \in P : filled[i] = q[a]
      BY <1>6, <1>12, <2>1
    <3>2. PICK b \in P : filled[j] = q[b]
      BY <1>6, <1>12, <2>1
    <3>3. a = b
      BY <1>8, <2>0, <3>1, <3>2
    <3>4. order[num(i)] = order[num(j)] /\ num(i) \in 1..n /\ num(j) \in 1..n
      BY <1>4, <1>12, <2>1, <3>1, <3>2, <3>3
    <3>5. num(i) = num(j)
      BY <1>3, <3>4
    <3>. QED BY <1>7, <2>1, <3>5
  <2>2. CASE i \in P /\ j \notin P
    <3>1. PICK a \in P : filled[i] = q[a]
      BY <1>6, <1>12, <2>2
    <3>2. filled[j] = q[j]
      BY <1>13, <2>2
    <3>3. a = j
      BY <1>8, <2>0, <3>1, <3>2
    <3>. QED BY <2>2, <3>3
  <2>3. CASE i \notin P /\ j \in P
    <3>1. PICK a \in P : filled[j] = q[a]
      BY <1>6, <1>12, <2>3
    <3>2. filled[i] = q[i]
      BY <1>13, <2>3
    <3>3. a = i
      BY <1>8, <2>0, <3>1, <3>2
    <3>. QED BY <2>3, <3>3
  <2>4. CASE i \notin P /\ j \notin P
    BY <1>13, <2>0, <2>4
  <2>. QED BY <2>1, <2>2, <2>3, <2>4
<1>16. ToSet(filled) = ToSet(q)
  <2>1. ASSUME NEW i \in 1..Len(q)
        PROVE  \E k \in 1..Len(q) : filled[i] = q[k]
    <3>1. CASE i \in P
      BY <1>6, <1>8, <1>12, <3>1
    <3>2. CASE i \notin P
      BY <1>13, <3>2
    <3>. QED BY <3>1, <3>2
  <2>2. ASSUME NEW i \in 1..Len(q)
        PROVE  \E k \in 1..Len(q) : q[i] = filled[k]
    <3>1. CASE i \in P
      <4>1. q[i] \in ToSet(J)
        <5>1. J[num(i)] = q[i] /\ num(i) \in 1..n
          BY <1>4, <3>1
        <5>2. DOMAIN J = 1..n
          BY <1>1 DEF JobsAtPlaces, J, n
        <5>. QED BY <5>1, <5>2 DEF ToSet
      <4>0. q[i] \in ToSet(order)
        BY <1>3, <4>1
      <4>2. PICK k \in 1..n : order[k] = q[i]
        BY <1>3, <4>0 DEF ToSet
      <4>3. PICK a \in P : num(a) = k
        BY <1>5
      <4>. QED BY <1>8, <1>12, <4>2, <4>3
    <3>2. CASE i \notin P
      BY <1>13, <3>2
    <3>. QED BY <3>1, <3>2
  <2>3. ToSet(filled) = {filled[i] : i \in 1..Len(q)} /\ ToSet(q) = {q[i] : i \in 1..Len(q)}
    BY <1>1, <1>14 DEF ToSet
  <2>4. \A x : x \in ToSet(filled) <=> x \in ToSet(q)
    <3>1. ASSUME NEW x \in ToSet(filled)
          PROVE  x \in ToSet(q)
      <4>1. PICK i \in 1..Len(q) : x = filled[i]
        BY <2>3
      <4>2. PICK k \in 1..Len(q) : filled[i] = q[k]
        BY <2>1
      <4>. QED BY <2>3, <4>1, <4>2
    <3>2. ASSUME NEW x \in ToSet(q)
          PROVE  x \in ToSet(filled)
      <4>1. PICK i \in 1..Len(q) : x = q[i]
        BY <2>3
      <4>2. PICK k \in 1..Len(q) : q[i] = filled[k]
        BY <2>2
      <4>. QED BY <2>3, <4>1, <4>2
    <3>. QED BY <3>1, <3>2
  <2>. QED BY <2>4
<1>17. PlacesOf(filled) = P /\ \A i \in 1..Len(q) : JobNumber(filled, i) = num(i)
  <2>1. \A i \in 1..Len(q) : filled[i].tools # {} <=> q[i].tools # {}
    <3>. SUFFICES ASSUME NEW i \in 1..Len(q)
                  PROVE  filled[i].tools # {} <=> q[i].tools # {}
      OBVIOUS
    <3>1. CASE i \in P
      <4>1. filled[i].tools # {}
        BY <1>10, <1>12, <3>1
      <4>. QED BY <1>8, <3>1, <4>1
    <3>2. CASE i \notin P
      BY <1>13, <3>2
    <3>. QED BY <3>1, <3>2
  <2>2. PlacesOf(filled) = P
    BY <1>14, <2>1 DEF PlacesOf, P
  <2>3. ASSUME NEW i \in 1..Len(q)
        PROVE  {k \in 1..i : filled[k].tools # {}} = {k \in 1..i : q[k].tools # {}}
    <3>1. \A k \in 1..i : k \in 1..Len(q)
      BY <1>1
    <3>. QED BY <2>1, <3>1
  <2>4. \A i \in 1..Len(q) : JobNumber(filled, i) = num(i)
    BY <2>3 DEF JobNumber, num
  <2>. QED BY <2>2, <2>4
<1>18. Jobs(filled) = order
  <2>1. JobsAtPlaces(filled)
    BY <1>14, JobsFound
  <2>2. Len(Jobs(filled)) = n /\ DOMAIN Jobs(filled) = 1..n
    <3>1. Len(J) = Cardinality(P)
      BY <1>1 DEF JobsAtPlaces, J, P
    <3>. QED BY <1>17, <2>1, <3>1 DEF JobsAtPlaces, n
  <2>3. ASSUME NEW k \in 1..n
        PROVE  Jobs(filled)[k] = order[k]
    <3>1. PICK i \in PlacesOf(filled) : JobNumber(filled, i) = k /\ Jobs(filled)[k] = filled[i]
      BY <2>1, <2>2 DEF JobsAtPlaces
    <3>2. i \in P /\ num(i) = k
      BY <1>8, <1>17, <3>1
    <3>. QED BY <1>12, <3>1, <3>2
  <2>4. Jobs(filled) \in Seq(Job) /\ order \in Seq(ToSet(J))
    BY <1>3, <2>1 DEF JobsAtPlaces
  <2>5. Jobs(filled) = [k \in 1..n |-> Jobs(filled)[k]] /\ order = [k \in 1..n |-> order[k]]
    BY <1>3, <2>2, <2>4
  <2>. QED BY <2>3, <2>5
<1>19. \A i \in 1..Len(q) : q[i].tools = {} => filled[i] = q[i]
  BY <1>11
<1>. QED BY <1>14, <1>15, <1>16, <1>18, <1>19 DEF FilledRight

\* The jobs of the queue in their own order make the queue.
LEMMA FilledItself ==
  ASSUME NEW q, Numbered(q)
  PROVE  Filled(q, Jobs(q)) = q
<1>1. q \in Seq(Job) /\ JobsAtPlaces(q)
  BY JobsFound DEF Numbered
<1>2. \A i \in 1..Len(q) : (IF q[i].tools = {} THEN q[i] ELSE Jobs(q)[JobNumber(q, i)]) = q[i]
  <2>. SUFFICES ASSUME NEW i \in 1..Len(q), q[i].tools # {}
                PROVE  Jobs(q)[JobNumber(q, i)] = q[i]
    OBVIOUS
  <2>1. i \in PlacesOf(q)
    BY DEF PlacesOf
  <2>. QED BY <1>1, <2>1 DEF JobsAtPlaces
<1>3. q = [i \in 1..Len(q) |-> q[i]]
  BY <1>1
<1>. QED BY <1>2, <1>3 DEF Filled

-----------------------------------------------------------------------------
(* The capacity of the changer.                                            *)

\* Capacity for a given changer.
CapacityOf(chg, jobs) ==
  Max({chg.slots, Cardinality(chg.tools), LargestJob(jobs), IF chg.slots = 0 THEN Baseline ELSE 0})

\* A changer as telemetry reports it.
ChangerTyped(chg) == chg \in [tools : SUBSET Tools, slots : Nat]

\* Every job fits, and so does what is in the changer.
LEMMA CapacityFits ==
  ASSUME NEW jobs, Numbered(jobs), NEW chg, ChangerTyped(chg), Baseline \in Nat
  PROVE  Ready(jobs, chg.tools, CapacityOf(chg, jobs))
<1>. DEFINE sizes == {Cardinality(jobs[i].tools) : i \in 1..Len(jobs)}
            S == {chg.slots, Cardinality(chg.tools), LargestJob(jobs), IF chg.slots = 0 THEN Baseline ELSE 0}
            cap == CapacityOf(chg, jobs)
<1>1. jobs \in Seq(Job) /\ Len(jobs) \in Nat
  BY DEF Numbered
<1>2. chg.tools \in SUBSET Tools /\ chg.slots \in Nat
  BY DEF ChangerTyped
<1>3. \A i \in 1..Len(jobs) : Cardinality(jobs[i].tools) \in Nat
  BY <1>1, JobTyped, ToolSets
<1>4. IsFiniteSet(sizes)
  <2>1. IsFiniteSet(1..Len(jobs))
    BY <1>1, Segments
  <2>2. [i \in 1..Len(jobs) |-> Cardinality(jobs[i].tools)] \in Surjection(1..Len(jobs), sizes)
    BY DEF Surjection
  <2>. HIDE DEF sizes
  <2>. QED BY <2>1, <2>2, FS_Surjection
<1>5. \A i \in 1..Len(jobs) : Cardinality(jobs[i].tools) \in sizes
  OBVIOUS
<1>6. sizes \in SUBSET Nat
  BY <1>3
<1>7. LargestJob(jobs) = Max(sizes \cup {0})
  BY DEF LargestJob
<1>. HIDE DEF sizes
<1>8. LargestJob(jobs) \in Nat /\ \A x \in sizes : x <= LargestJob(jobs)
  <2>. DEFINE T == sizes \cup {0}
  <2>1. IsFiniteSet(T)
    BY <1>4, FS_AddElement
  <2>2. T \in SUBSET Nat /\ T # {} /\ sizes \subseteq T
    BY <1>6
  <2>3. LargestJob(jobs) = Max(T)
    BY <1>7
  <2>. HIDE DEF T
  <2>4. Max(T) \in T /\ \A x \in T : x <= Max(T)
    BY <2>1, <2>2, GreatestOf
  <2>. QED BY <2>2, <2>3, <2>4
<1>9. cap \in Nat /\ \A x \in S : x <= cap
  <2>. DEFINE b == IF chg.slots = 0 THEN Baseline ELSE 0
              t == Cardinality(chg.tools)
  <2>1. b \in Nat /\ t \in Nat
    BY <1>2, ToolSets
  <2>2. S = {chg.slots} \cup {t} \cup {LargestJob(jobs)} \cup {b}
    OBVIOUS
  <2>. HIDE DEF b, t
  <2>3. IsFiniteSet(S)
    <3>1. IsFiniteSet({chg.slots})
      BY FS_Singleton
    <3>2. IsFiniteSet({chg.slots} \cup {t})
      BY <3>1, FS_AddElement
    <3>3. IsFiniteSet(({chg.slots} \cup {t}) \cup {LargestJob(jobs)})
      BY <3>2, FS_AddElement
    <3>4. IsFiniteSet((({chg.slots} \cup {t}) \cup {LargestJob(jobs)}) \cup {b})
      BY <3>3, FS_AddElement
    <3>. QED BY <2>2, <3>4
  <2>4. S \in SUBSET Nat /\ S # {}
    BY <1>2, <1>8, <2>1, <2>2
  <2>5. cap = Max(S)
    BY DEF CapacityOf
  <2>. HIDE DEF S, cap
  <2>6. Max(S) \in S /\ \A x \in S : x <= Max(S)
    BY <2>3, <2>4, GreatestOf
  <2>. QED BY <2>4, <2>5, <2>6
<1>10. Cardinality(chg.tools) <= cap /\ LargestJob(jobs) <= cap
  BY <1>9
<1>. HIDE DEF cap
<1>11. \A i \in 1..Len(jobs) : Cardinality(jobs[i].tools) <= cap
  BY <1>3, <1>5, <1>8, <1>9, <1>10
<1>. QED BY <1>2, <1>9, <1>10, <1>11 DEF Ready, cap

\* The order of the jobs does not matter for the capacity.
LEMMA CapacityOfSet ==
  ASSUME NEW a \in Seq(Job), NEW b \in Seq(Job), ToSet(a) = ToSet(b), NEW chg
  PROVE  CapacityOf(chg, a) = CapacityOf(chg, b)
<1>1. DOMAIN a = 1..Len(a) /\ DOMAIN b = 1..Len(b)
  OBVIOUS
<1>2. {Cardinality(a[i].tools) : i \in 1..Len(a)} = {Cardinality(x.tools) : x \in ToSet(a)}
  BY <1>1 DEF ToSet
<1>3. {Cardinality(b[i].tools) : i \in 1..Len(b)} = {Cardinality(x.tools) : x \in ToSet(b)}
  BY <1>1 DEF ToSet
<1>4. LargestJob(a) = LargestJob(b)
  BY <1>2, <1>3 DEF LargestJob
<1>. QED BY <1>4 DEF CapacityOf

-----------------------------------------------------------------------------
(* What the steps do to a plan.                                            *)

\* An order of the queue's jobs that moves no more tools than the queue's own.
Planned(q, chg, best) ==
  LET capacity == CapacityOf(chg, Jobs(q))
  IN  /\ best \in SetToSeqs(ToSet(Jobs(q)))
      /\ MovesOf(best, chg.tools, capacity) <= MovesOf(Jobs(q), chg.tools, capacity)

\* An order than which none is better.
Final(q, chg, best) ==
  \A p \in SetToSeqs(ToSet(Jobs(q))) : ~Better(Jobs(q), chg.tools, CapacityOf(chg, Jobs(q)), p, best)

\* The jobs of the queue and their orders, for any content of the changer.
QueueReady(q, chg) ==
  LET J == Jobs(q)
      capacity == CapacityOf(chg, J)
  IN  /\ Numbered(J) /\ Len(J) \in Nat /\ Ready(J, chg.tools, capacity)
      /\ SetToSeqs(ToSet(J)) = Orders(J, Len(J)) /\ J \in Orders(J, Len(J)) /\ Orders(J, Len(J)) \subseteq Picks(J, Len(J))
      /\ IsFiniteSet(ToSet(J)) /\ Cardinality(ToSet(J)) = Len(J)
      /\ \A o \in Orders(J, Len(J)) : Feasible(o, chg.tools, capacity) /\ Len(o) = Len(J)

\* A queue of numbered pallets is ready.
LEMMA QueueIsReady ==
  ASSUME NEW q, Numbered(q), NEW chg, ChangerTyped(chg)
  PROVE  QueueReady(q, chg)
<1>. DEFINE J == Jobs(q)
            capacity == CapacityOf(chg, J)
            n == Len(J)
            tools == chg.tools
<1>1. Numbered(J)
  BY JobsNumbered
<1>2. /\ IsFiniteSet(ToSet(J)) /\ Cardinality(ToSet(J)) = n /\ n \in Nat
      /\ J \in Orders(J, n) /\ SetToSeqs(ToSet(J)) = Orders(J, n)
  BY <1>1, AllOrders
<1>3. Ready(J, tools, capacity)
  BY <1>1, CapacityFits, PlanConstants
<1>4. Orders(J, n) \subseteq Picks(J, n)
  BY DEF Orders
<1>. HIDE DEF J, capacity, n, tools
<1>5. \A o \in Orders(J, n) : Feasible(o, tools, capacity) /\ Len(o) = n
  BY <1>2, <1>3, <1>4, PicksFit
<1>. QED BY <1>1, <1>2, <1>3, <1>4, <1>5 DEF QueueReady, J, capacity, n, tools

\* A preview finds a plan, and an exact one is final.
LEMMA PreviewPlans ==
  ASSUME NEW q, Numbered(q), ChangerTyped(changer),
         NEW capacity, capacity = CapacityOf(changer, Jobs(q)),
         NEW best, best = BestOf(Candidates(Jobs(q), capacity), Jobs(q), capacity)
  PROVE  Planned(q, changer, best) /\ (Exact(Jobs(q)) => Final(q, changer, best))
<1>. DEFINE J == Jobs(q)
            C == Candidates(J, capacity)
            n == Len(J)
            tools == changer.tools
<1>1. QueueReady(q, changer)
  BY QueueIsReady
<1>2. /\ Ready(J, tools, capacity) /\ n \in Nat
      /\ SetToSeqs(ToSet(J)) = Orders(J, n) /\ J \in Orders(J, n)
      /\ \A o \in Orders(J, n) : Feasible(o, tools, capacity)
  BY <1>1 DEF QueueReady
<1>3. /\ J \in C /\ PlanSet(C, J, n) /\ C \subseteq SetToSeqs(ToSet(J))
      /\ Exact(J) => C = SetToSeqs(ToSet(J))
  <2>. HIDE DEF J
  <2>. QED BY <1>2, CandidatesTyped
<1>4. best \in C /\ \A p \in C : ~Better(J, tools, capacity, p, best)
  <2>1. best = BestOf(C, J, capacity)
    OBVIOUS
  <2>. HIDE DEF J, C, n
  <2>. QED BY <1>2, <1>3, <2>1, BestOfBest
<1>. HIDE DEF C
<1>5. MovesOf(best, tools, capacity) <= MovesOf(J, tools, capacity)
  <2>. DEFINE x == MovesOf(best, tools, capacity)
              y == MovesOf(J, tools, capacity)
  <2>1. x \in Nat /\ y \in Nat
    <3>1. best \in Orders(J, n)
      BY <1>2, <1>3, <1>4
    <3>. HIDE DEF J, n, tools
    <3>. QED BY <1>2, <3>1, TotalsTyped
  <2>2. ~(y < x)
    BY <1>3, <1>4 DEF Better, Cheaper
  <2>3. x <= y
    <3>. HIDE DEF x, y
    <3>. QED BY <2>1, <2>2
  <2>. QED BY <2>3
<1>. QED BY <1>3, <1>4, <1>5 DEF Planned, Final

\* Exchanging two jobs of an order of all of them gives another one.
LEMMA SwappedOrder ==
  ASSUME NEW jobs, NEW n \in Nat, NEW order \in Orders(jobs, n), NEW i \in 1..n, NEW j \in 1..n
  PROVE  Swapped(order, i, j) \in Orders(jobs, n)
<1>. DEFINE other == Swapped(order, i, j)
<1>1. order \in [1..n -> ToSet(jobs)] /\ \A k, m \in 1..n : order[k] = order[m] => k = m
  BY DEF Orders, Picks
<1>2. other = [k \in 1..n |-> IF k = j THEN order[i] ELSE IF k = i THEN order[j] ELSE order[k]]
  BY <1>1 DEF Swapped
<1>. HIDE DEF other
<1>3. other \in [1..n -> ToSet(jobs)]
  BY <1>1, <1>2
<1>4. \A k, m \in 1..n : other[k] = other[m] => k = m
  BY <1>1, <1>2
<1>. QED BY <1>3, <1>4 DEF Orders, Picks, other

\* A swap is kept only when it makes the plan better, so that the plan stays one.
LEMMA SwapPlans ==
  ASSUME NEW q, Numbered(q), ChangerTyped(changer),
         NEW capacity, capacity = CapacityOf(changer, Jobs(q)),
         NEW best, Planned(q, changer, best),
         NEW i \in 1..Len(Jobs(q)), NEW j \in 1..Len(Jobs(q)),
         NEW candidate, candidate = Swapped(best, i, j),
         PlanBefore(Jobs(q), capacity, candidate, best)
  PROVE  Planned(q, changer, candidate)
<1>. DEFINE J == Jobs(q)
            n == Len(J)
            tools == changer.tools
<1>1. QueueReady(q, changer)
  BY QueueIsReady
<1>2. /\ n \in Nat /\ SetToSeqs(ToSet(J)) = Orders(J, n) /\ J \in Orders(J, n)
      /\ \A o \in Orders(J, n) : Feasible(o, tools, capacity)
  BY <1>1 DEF QueueReady
<1>3. best \in Orders(J, n) /\ MovesOf(best, tools, capacity) <= MovesOf(J, tools, capacity)
  BY <1>2 DEF Planned
<1>4. Better(J, tools, capacity, candidate, best)
  BY PlanBeforeIsBetter
<1>. HIDE DEF J, n, tools
<1>5. candidate \in Orders(J, n)
  BY <1>2, <1>3, SwappedOrder DEF J, n
<1>6. MovesOf(candidate, tools, capacity) <= MovesOf(J, tools, capacity)
  <2>. DEFINE x == MovesOf(candidate, tools, capacity)
              y == MovesOf(best, tools, capacity)
              z == MovesOf(J, tools, capacity)
  <2>1. x \in Nat /\ y \in Nat /\ z \in Nat
    BY <1>2, <1>3, <1>5, TotalsTyped
  <2>2. x < y \/ x = y
    BY <1>4 DEF Better, Cheaper, AsCheap
  <2>3. y <= z
    BY <1>3
  <2>4. x <= z
    <3>. HIDE DEF x, y, z
    <3>. QED BY <2>1, <2>2, <2>3
  <2>. QED BY <2>4
<1>. QED BY <1>2, <1>5, <1>6 DEF Planned, J, tools

\* A final plan that was applied is still final, by the positions in the new queue.
LEMMA AppliedIsFinal ==
  ASSUME NEW q, Numbered(q), NEW chg, ChangerTyped(chg), NEW best \in SetToSeqs(ToSet(Jobs(q))),
         Final(q, chg, best), NEW new, FilledRight(q, best, new)
  PROVE  Final(new, chg, Jobs(new))
<1>. DEFINE J == Jobs(q)
            n == Len(J)
            capacity == CapacityOf(chg, J)
            tools == chg.tools
<1>1. QueueReady(q, chg) /\ Jobs(new) = best /\ Numbered(new)
  BY QueueIsReady DEF FilledRight
<1>2. /\ n \in Nat /\ SetToSeqs(ToSet(J)) = Orders(J, n)
      /\ \A o \in Orders(J, n) : Feasible(o, tools, capacity) /\ Len(o) = n
      /\ IsFiniteSet(ToSet(J)) /\ Orders(J, n) \subseteq Picks(J, n)
  BY <1>1 DEF QueueReady
<1>3. ToSet(best) = ToSet(J)
  <2>1. IsOrder(best, ToSet(J))
    BY <1>2, OrderTyped
  <2>. QED BY <2>1 DEF IsOrder
<1>4. Numbered(best)
  BY <1>1, JobsNumbered
<1>5. CapacityOf(chg, best) = capacity
  <2>1. best \in Seq(Job) /\ J \in Seq(Job)
    BY <1>1, <1>4 DEF QueueReady, Numbered
  <2>. HIDE DEF J
  <2>. QED BY <1>3, <2>1, CapacityOfSet DEF J
<1>6. ASSUME NEW p \in SetToSeqs(ToSet(J)), Better(best, tools, capacity, p, best)
      PROVE  FALSE
  <2>1. ~Better(J, tools, capacity, p, best)
    BY DEF Final
  <2>2. EarlierPositions(best, p, best)
    BY <1>6, <2>1 DEF Better
  <2>3. Len(p) = n /\ Len(best) = n /\ p \in Orders(J, n)
    BY <1>2
  <2>4. PICK i \in 1..n : /\ Position(best, p[i].id) < Position(best, best[i].id)
                          /\ \A j \in 1..(i - 1) : p[j] = best[j]
    <3>. HIDE DEF J, n, tools, capacity
    <3>. QED BY <2>2, <2>3 DEF EarlierPositions
  <2>5. p[i] \in ToSet(best)
    BY <1>3, <2>3 DEF Orders, Picks
  <2>6. Position(best, best[i].id) = i
    BY <1>4, <2>3, PositionFound
  <2>. DEFINE k == Position(best, p[i].id)
  <2>7. k \in 1..Len(best) /\ best[k] = p[i]
    BY <1>4, <2>5, PositionFound
  <2>8. k < i
    BY <2>4, <2>6
  <2>. HIDE DEF k
  <2>9. k \in 1..(i - 1) /\ k \in 1..n
    BY <1>2, <2>3, <2>7, <2>8
  <2>10. p[k] = p[i]
    BY <2>4, <2>7, <2>9
  <2>11. k = i
    BY <2>3, <2>9, <2>10 DEF Orders
  <2>. QED BY <2>8, <2>11
<1>. QED BY <1>1, <1>3, <1>5, <1>6 DEF Final

\* Two final plans are the same.
LEMMA FinalIsUnique ==
  ASSUME NEW q, Numbered(q), NEW chg, ChangerTyped(chg), NEW best \in SetToSeqs(ToSet(Jobs(q))),
         Final(q, chg, best), Final(q, chg, Jobs(q))
  PROVE  best = Jobs(q)
<1>. DEFINE J == Jobs(q)
            n == Len(J)
            capacity == CapacityOf(chg, J)
            tools == chg.tools
<1>1. QueueReady(q, chg)
  BY QueueIsReady
<1>2. /\ n \in Nat /\ SetToSeqs(ToSet(J)) = Orders(J, n) /\ J \in Orders(J, n) /\ Ready(J, tools, capacity)
      /\ Orders(J, n) \subseteq Picks(J, n)
  BY <1>1 DEF QueueReady
<1>3. ~Better(J, tools, capacity, best, J) /\ ~Better(J, tools, capacity, J, best)
  BY <1>2 DEF Final
<1>4. best \in Picks(J, n) /\ J \in Picks(J, n)
  BY <1>2
<1>. HIDE DEF J, n, capacity, tools
<1>5. best = J
  BY <1>2, <1>3, <1>4, BetterOrder
<1>. QED BY <1>5 DEF J

-----------------------------------------------------------------------------
(* The invariant.                                                          *)

\* A search, whatever its phase.
Searches ==
  [phase : {"none", "improving", "shown"}, best : Seq(Job), pass : Nat, left : Nat, right : Nat, improved : BOOLEAN]

PlanTypeOK == /\ Numbered(queue) /\ ChangerTyped(changer)
              /\ search \in Searches /\ previews \in Nat

\* The pass over the pairs of a long queue stays within it.
PairInRange ==
  search.phase = "improving" =>
    /\ ~Exact(Jobs(queue)) /\ search.left \in 1..Len(Jobs(queue))
    /\ search.left < Len(Jobs(queue)) => search.right \in (search.left + 1)..Len(Jobs(queue))

\* While there is a plan it is an order of the queue's jobs, and no worse than the queue.
PlanIsOrder == search.phase # "none" => Planned(queue, changer, search.best)

\* An exact plan is final while it is shown, so is the queue once it was applied, and then they are the same.
ExactIsFinal ==
  Exact(Jobs(queue)) =>
    /\ search.phase = "shown" => Final(queue, changer, search.best)
    /\ search.phase = "none" /\ previews > 0 => Final(queue, changer, Jobs(queue))
    /\ search.phase = "shown" /\ previews > 1 => search.best = Jobs(queue)

PlanInv == PlanTypeOK /\ PairInRange /\ PlanIsOrder /\ ExactIsFinal

\* Capacity is read of the changer.
LEMMA CapacityRead ==
  ASSUME NEW jobs
  PROVE  Capacity(jobs) = CapacityOf(changer, jobs)
BY DEF Capacity, CapacityOf

\* FullOrder fills the queue.
LEMMA FullOrderFills ==
  ASSUME NEW order
  PROVE  FullOrder(order) = Filled(queue, order)
BY DEF FullOrder, Filled

\* An order of a queue's jobs is a sequence of jobs.
LEMMA PlanTyped ==
  ASSUME NEW q, Numbered(q), NEW chg, ChangerTyped(chg), NEW best \in SetToSeqs(ToSet(Jobs(q)))
  PROVE  best \in Seq(Job) /\ Len(best) = Len(Jobs(q)) /\ Feasible(best, chg.tools, CapacityOf(chg, Jobs(q)))
<1>1. QueueReady(q, chg)
  BY QueueIsReady
<1>2. Feasible(best, chg.tools, CapacityOf(chg, Jobs(q))) /\ Len(best) = Len(Jobs(q))
  BY <1>1 DEF QueueReady
<1>. QED BY <1>2 DEF Feasible

\* The invariant holds at the start.
LEMMA PlanInit == Init => PlanInv
<1>. SUFFICES ASSUME Init
              PROVE  PlanInv
  OBVIOUS
<1>1. PICK n \in 0..MaxQueue : \E tools \in [1..n -> Programs] : queue = [i \in 1..n |-> [id |-> i, tools |-> tools[i]]]
  BY DEF Init
<1>2. PICK tools \in [1..n -> Programs] : queue = [i \in 1..n |-> [id |-> i, tools |-> tools[i]]]
  BY <1>1
<1>3. Numbered(queue)
  <2>1. n \in Nat /\ \A p \in Programs : p \in SUBSET Tools
    BY PlanConstants DEF Tools
  <2>2. \A i \in 1..n : [id |-> i, tools |-> tools[i]] \in Job
    BY <2>1 DEF Job
  <2>3. queue \in Seq(Job) /\ Len(queue) = n
    BY <1>2, <2>1, <2>2
  <2>4. \A i \in 1..n : queue[i].id = i
    BY <1>2
  <2>. QED BY <2>3, <2>4 DEF Numbered
<1>4. ChangerTyped(changer)
  BY PlanConstants DEF Init, ChangerTyped
<1>5. search = NoSearch /\ previews = 0
  BY DEF Init
<1>6. search \in Searches /\ search.phase = "none"
  BY <1>5 DEF NoSearch, Searches
<1>. QED BY <1>3, <1>4, <1>5, <1>6 DEF PlanInv, PlanTypeOK, PairInRange, PlanIsOrder, ExactIsFinal

\* A preview keeps it.
LEMMA PreviewKeeps == PlanInv /\ Preview => PlanInv'
<1>. SUFFICES ASSUME PlanInv, Preview
              PROVE  PlanInv'
  OBVIOUS
<1>. DEFINE J == Jobs(queue)
            capacity == CapacityOf(changer, J)
            best == BestOf(Candidates(J, capacity), J, capacity)
<1>1. /\ Numbered(queue) /\ ChangerTyped(changer) /\ search \in Searches /\ previews \in Nat
      /\ Exact(J) /\ previews > 0 => Final(queue, changer, J)
      /\ search.phase = "none" /\ queue' = queue /\ changer' = changer /\ previews' = previews + 1
  BY DEF PlanInv, PlanTypeOK, ExactIsFinal, Preview
<1>2. search' = [NoSearch EXCEPT !.best = best, !.phase = IF Exact(J) THEN "shown" ELSE "improving",
                                 !.pass = IF Exact(J) THEN 0 ELSE 1]
  BY CapacityRead DEF Preview
<1>3. Planned(queue, changer, best) /\ (Exact(J) => Final(queue, changer, best))
  BY <1>1, PreviewPlans
<1>. HIDE DEF best, capacity
<1>4. best \in SetToSeqs(ToSet(J))
  BY <1>3 DEF Planned
<1>5. best \in Seq(Job)
  BY <1>1, <1>4, PlanTyped
<1>6. /\ search'.best = best /\ search'.left = 1 /\ search'.right = 2
      /\ search'.phase = IF Exact(J) THEN "shown" ELSE "improving"
      /\ search' \in Searches
  BY <1>2, <1>5 DEF NoSearch, Searches
<1>7. PlanTypeOK'
  BY <1>1, <1>6 DEF PlanTypeOK
<1>8. PairInRange'
  <2>1. ~Exact(J) => 1 \in 1..Len(J) /\ 2 \in (1 + 1)..Len(J)
    <3>1. Len(J) \in Nat
      BY <1>1, QueueIsReady DEF QueueReady
    <3>. QED BY <3>1, PlanConstants DEF Exact
  <2>2. Jobs(queue)' = J
    BY <1>1
  <2>. QED BY <1>1, <1>6, <2>1 DEF PairInRange, Exact
<1>9. PlanIsOrder'
  BY <1>1, <1>3, <1>6 DEF PlanIsOrder
<1>10. ExactIsFinal'
  <2>. SUFFICES ASSUME Exact(J)
                PROVE  /\ search'.phase = "shown" => Final(queue, changer, search'.best)
                       /\ search'.phase # "none"
                       /\ previews' > 1 => search'.best = J
    BY <1>1 DEF ExactIsFinal, Exact
  <2>1. search'.phase = "shown" /\ Final(queue, changer, best)
    BY <1>3, <1>6
  <2>2. ASSUME previews' > 1
        PROVE  best = J
    <3>1. previews > 0
      BY <1>1, <2>2
    <3>. QED BY <1>1, <1>4, <2>1, <3>1, FinalIsUnique
  <2>. QED BY <1>6, <2>1, <2>2
<1>. QED BY <1>7, <1>8, <1>9, <1>10 DEF PlanInv

\* Trying a pair keeps it: the swap is kept only when it makes the plan better.
LEMMA TryPairKeeps == PlanInv /\ TryPair => PlanInv'
<1>. SUFFICES ASSUME PlanInv, TryPair
              PROVE  PlanInv'
  OBVIOUS
<1>. DEFINE J == Jobs(queue)
            capacity == CapacityOf(changer, J)
            candidate == Swapped(search.best, search.left, search.right)
            better == PlanBefore(J, capacity, candidate, search.best)
<1>1. /\ Numbered(queue) /\ ChangerTyped(changer) /\ search \in Searches /\ previews \in Nat
      /\ search.phase = "improving" /\ search.left < Len(J)
      /\ ~Exact(J) /\ search.left \in 1..Len(J) /\ search.right \in (search.left + 1)..Len(J)
      /\ Planned(queue, changer, search.best)
      /\ queue' = queue /\ changer' = changer /\ previews' = previews
  BY DEF PlanInv, PlanTypeOK, PairInRange, PlanIsOrder, TryPair
<1>2. search' = [search EXCEPT !.best = IF better THEN candidate ELSE @,
                               !.improved = @ \/ better,
                               !.left  = IF search.right = Len(J) THEN @ + 1 ELSE @,
                               !.right = IF @ = Len(J) THEN search.left + 2 ELSE @ + 1]
  BY CapacityRead DEF TryPair
<1>. DEFINE best == IF better THEN candidate ELSE search.best
<1>3. Len(J) \in Nat
  BY <1>1, QueueIsReady DEF QueueReady
<1>4. Planned(queue, changer, best)
  <2>1. CASE better
    <3>1. search.right \in 1..Len(J)
      BY <1>1, <1>3
    <3>2. Planned(queue, changer, candidate)
      <4>. HIDE DEF candidate, capacity
      <4>. QED BY <1>1, <2>1, <3>1, SwapPlans DEF candidate, capacity
    <3>. QED BY <2>1, <3>2
  <2>2. CASE ~better
    BY <1>1, <2>2
  <2>. QED BY <2>1, <2>2
<1>5. best \in SetToSeqs(ToSet(J))
  BY <1>4 DEF Planned
<1>6. best \in Seq(Job)
  BY <1>1, <1>5, PlanTyped
<1>. HIDE DEF capacity, candidate
<1>7. /\ search'.best = best /\ search'.phase = "improving" /\ search'.pass = search.pass
      /\ search'.left = IF search.right = Len(J) THEN search.left + 1 ELSE search.left
      /\ search'.right = IF search.right = Len(J) THEN search.left + 2 ELSE search.right + 1
  BY <1>1, <1>2 DEF Searches
<1>8. search' \in Searches
  <2>. DEFINE impr == search.improved \/ better
  <2>1. impr \in BOOLEAN
    BY <1>1 DEF Searches
  <2>2. search' = [search EXCEPT !.best = best, !.improved = impr,
                                 !.left  = IF search.right = Len(J) THEN @ + 1 ELSE @,
                                 !.right = IF @ = Len(J) THEN search.left + 2 ELSE @ + 1]
    BY <1>2
  <2>. DEFINE l == IF search.right = Len(J) THEN search.left + 1 ELSE search.left
              r == IF search.right = Len(J) THEN search.left + 2 ELSE search.right + 1
  <2>3. search' = [search EXCEPT !.best = best, !.improved = impr, !.left = l, !.right = r]
    BY <2>2
  <2>4. l \in Nat /\ r \in Nat
    BY <1>1 DEF Searches
  <2>. HIDE DEF impr, best, l, r
  <2>. QED BY <1>1, <1>6, <2>1, <2>3, <2>4 DEF Searches
<1>. HIDE DEF best
<1>9. PlanTypeOK'
  BY <1>1, <1>8 DEF PlanTypeOK
<1>10. PairInRange'
  <2>1. /\ search'.left \in 1..Len(J)
        /\ search'.left < Len(J) => search'.right \in (search'.left + 1)..Len(J)
    <3>. DEFINE n == Len(J)
                l == search.left
                r == search.right
    <3>1. n \in Nat /\ l \in 1..n /\ l < n /\ r \in (l + 1)..n
      BY <1>1, <1>3
    <3>2. search'.left = (IF r = n THEN l + 1 ELSE l) /\ search'.right = (IF r = n THEN l + 2 ELSE r + 1)
      BY <1>7
    <3>. HIDE DEF n, l, r
    <3>3. CASE r = n
      <4>1. l + 1 \in 1..n /\ (l + 1 < n => l + 2 \in ((l + 1) + 1)..n)
        BY <3>1
      <4>2. search'.left = l + 1 /\ search'.right = l + 2
        BY <3>2, <3>3
      <4>. QED BY <4>1, <4>2 DEF n
    <3>4. CASE r # n
      <4>1. l \in 1..n /\ (l < n => r + 1 \in (l + 1)..n)
        BY <3>1, <3>4
      <4>2. search'.left = l /\ search'.right = r + 1
        BY <3>2, <3>4
      <4>. QED BY <4>1, <4>2 DEF n
    <3>. QED BY <3>3, <3>4
  <2>. QED BY <1>1, <2>1 DEF PairInRange, Exact
<1>11. PlanIsOrder'
  BY <1>1, <1>4, <1>7 DEF PlanIsOrder
<1>12. ExactIsFinal'
  BY <1>1 DEF ExactIsFinal, Exact
<1>. QED BY <1>9, <1>10, <1>11, <1>12 DEF PlanInv

\* The end of a pass keeps it.
LEMMA EndPassKeeps == PlanInv /\ EndPass => PlanInv'
<1>. SUFFICES ASSUME PlanInv, EndPass
              PROVE  PlanInv'
  OBVIOUS
<1>. DEFINE J == Jobs(queue)
            again == search.improved /\ search.pass < MaxPasses
<1>1. /\ Numbered(queue) /\ ChangerTyped(changer) /\ search \in Searches /\ previews \in Nat
      /\ search.phase = "improving" /\ ~Exact(J)
      /\ Planned(queue, changer, search.best)
      /\ queue' = queue /\ changer' = changer /\ previews' = previews
  BY DEF PlanInv, PlanTypeOK, PairInRange, PlanIsOrder, EndPass
<1>2. search' = IF again THEN [search EXCEPT !.pass = @ + 1, !.left = 1, !.right = 2, !.improved = FALSE]
                         ELSE [NoSearch EXCEPT !.phase = "shown", !.best = search.best]
  BY DEF EndPass
<1>. HIDE DEF again
<1>3. /\ search' \in Searches /\ search'.best = search.best /\ search'.phase # "none"
      /\ search'.left = 1 /\ search'.right = 2
  <2>1. CASE again
    <3>1. search' = [search EXCEPT !.pass = search.pass + 1, !.left = 1, !.right = 2, !.improved = FALSE]
      BY <1>2, <2>1
    <3>2. search.pass + 1 \in Nat /\ 1 \in Nat /\ 2 \in Nat /\ FALSE \in BOOLEAN
      BY <1>1 DEF Searches
    <3>3. search' \in Searches
      BY <1>1, <3>1, <3>2 DEF Searches
    <3>4. search'.best = search.best /\ search'.phase = search.phase /\ search'.left = 1 /\ search'.right = 2
      BY <1>1, <3>1 DEF Searches
    <3>. QED BY <1>1, <3>3, <3>4
  <2>2. CASE ~again
    BY <1>1, <1>2, <2>2 DEF Searches, NoSearch
  <2>. QED BY <2>1, <2>2
<1>4. PlanTypeOK'
  BY <1>1, <1>3 DEF PlanTypeOK
<1>5. PairInRange'
  <2>1. 1 \in 1..Len(J) /\ 2 \in (1 + 1)..Len(J)
    <3>1. Len(J) \in Nat
      BY <1>1, QueueIsReady DEF QueueReady
    <3>. QED BY <1>1, <3>1, PlanConstants DEF Exact
  <2>. QED BY <1>1, <1>3, <2>1 DEF PairInRange, Exact
<1>6. PlanIsOrder'
  BY <1>1, <1>3 DEF PlanIsOrder
<1>7. ExactIsFinal'
  BY <1>1 DEF ExactIsFinal, Exact
<1>. QED BY <1>4, <1>5, <1>6, <1>7 DEF PlanInv

\* Applying a plan keeps it: the new queue holds the jobs in the order of the plan.
LEMMA ApplyKeeps == PlanInv /\ Apply => PlanInv'
<1>. SUFFICES ASSUME PlanInv, Apply
              PROVE  PlanInv'
  OBVIOUS
<1>. DEFINE J == Jobs(queue)
            best == search.best
            new == FullOrder(best)
<1>1. /\ Numbered(queue) /\ ChangerTyped(changer) /\ search \in Searches /\ previews \in Nat
      /\ Planned(queue, changer, best) /\ (Exact(J) => Final(queue, changer, best))
      /\ queue' = new /\ search' = NoSearch /\ changer' = changer /\ previews' = previews
  BY DEF PlanInv, PlanTypeOK, PlanIsOrder, ExactIsFinal, Apply
<1>2. best \in SetToSeqs(ToSet(J))
  BY <1>1 DEF Planned
<1>3. FilledRight(queue, best, new)
  BY <1>1, <1>2, FullOrderFills, FilledQueue
<1>4. Numbered(new) /\ Jobs(new) = best
  BY <1>3 DEF FilledRight
<1>5. Len(best) = Len(J)
  BY <1>1, <1>2, PlanTyped
<1>6. Exact(J) => Final(new, changer, Jobs(new))
  <2>. HIDE DEF new, best
  <2>. QED BY <1>1, <1>2, <1>3, AppliedIsFinal
<1>7. search' \in Searches /\ search'.phase = "none"
  BY <1>1 DEF NoSearch, Searches
<1>. HIDE DEF new
<1>8. PlanTypeOK'
  BY <1>1, <1>4, <1>7 DEF PlanTypeOK
<1>9. ExactIsFinal'
  <2>1. Exact(Jobs(new)) => Exact(J)
    BY <1>4, <1>5 DEF Exact
  <2>. QED BY <1>1, <1>6, <1>7, <2>1 DEF ExactIsFinal, Exact
<1>. QED BY <1>7, <1>8, <1>9 DEF PlanInv, PairInRange, PlanIsOrder

\* So does every step.
LEMMA PlanNext == PlanInv /\ [Next]_vars => PlanInv'
<1>. SUFFICES ASSUME PlanInv, [Next]_vars
              PROVE  PlanInv'
  OBVIOUS
<1>1. CASE Next
  BY <1>1, PreviewKeeps, TryPairKeeps, EndPassKeeps, ApplyKeeps DEF Next
<1>2. CASE UNCHANGED vars
  BY <1>2 DEF vars, PlanInv, PlanTypeOK, PairInRange, PlanIsOrder, ExactIsFinal, Exact
<1>. QED BY <1>1, <1>2

\* In every state the queue, the changer and the search are well-formed; a plan is an order of the queue's own
\* jobs that moves no more tools than the queue as it is; and an exact plan stays the best one, before it is
\* applied and after it (preview and apply of the automatic schedule).
THEOREM PlanInvariant == Spec => []PlanInv
<1>1. Init => PlanInv
  BY PlanInit
<1>2. PlanInv /\ [Next]_vars => PlanInv'
  BY PlanNext
<1>. QED BY <1>1, <1>2, PTL DEF Spec

-----------------------------------------------------------------------------
(* The properties.                                                         *)

\* What a simulated step of an order is: the job finds its tools, no more is loaded than fits, only tools
\* that were loaded and that the job does not use are taken out, and only tools that it lacks are put in.
CarriedOut(order, sim, capacity, i) ==
  /\ order[i].tools \subseteq sim[i].loaded /\ Cardinality(sim[i].loaded) <= capacity
  /\ sim[i].taken \subseteq sim[i - 1].loaded \ order[i].tools
  /\ sim[i].put \subseteq order[i].tools \ sim[i - 1].loaded

\* Every feasible order can be carried out.
LEMMA OrderCarriedOut ==
  ASSUME NEW order, NEW tools, NEW capacity, Feasible(order, tools, capacity), NEW i \in 1..Len(order)
  PROVE  CarriedOut(order, simulate_tool_plan(order, tools, capacity), capacity, i)
<1>. DEFINE sim == simulate_tool_plan(order, tools, capacity)
            k == i - 1
<1>1. order \in Seq(Job) /\ capacity \in Nat /\ Cardinality(order[i].tools) <= capacity
  BY DEF Feasible
<1>2. IsSimulation(sim, order, tools, capacity)
  BY Simulation
<1>3. k \in 0..Len(order) /\ k = i - 1
  BY <1>1
<1>. HIDE DEF sim, k
<1>4. sim[k].loaded \in SUBSET Tools /\ Cardinality(sim[k].loaded) <= capacity
  BY <1>1, <1>2, <1>3, SimulationTyped
<1>5. IsSimulationStep(sim, order, capacity, k, i)
  BY <1>1, <1>2, <1>3, SimulationStep
<1>. DEFINE loaded == sim[k].loaded
<1>6. /\ sim[i].loaded = LoadedAfter(order, i, loaded, capacity) /\ sim[i].taken = TakenFor(order, i, loaded, capacity)
      /\ sim[i].put = order[i].tools \ loaded
  BY <1>5 DEF IsSimulationStep
<1>7. loaded \in SUBSET Tools /\ Cardinality(loaded) <= capacity
  BY <1>4
<1>. HIDE DEF loaded
<1>8. /\ TakenFor(order, i, loaded, capacity) \subseteq loaded \ order[i].tools
      /\ order[i].tools \subseteq LoadedAfter(order, i, loaded, capacity)
      /\ Cardinality(LoadedAfter(order, i, loaded, capacity)) <= capacity
  BY <1>1, <1>7, OneJob
<1>9. /\ order[i].tools \subseteq sim[i].loaded /\ Cardinality(sim[i].loaded) <= capacity
      /\ sim[i].taken \subseteq loaded \ order[i].tools /\ sim[i].put \subseteq order[i].tools \ loaded
  BY <1>6, <1>8
<1>. QED BY <1>3, <1>9 DEF CarriedOut, loaded, sim

\* Movements is read of the changer.
LEMMA MovementsRead ==
  ASSUME NEW order, NEW capacity
  PROVE  Movements(order, capacity) = MovesOf(order, changer.tools, capacity)
BY DEF Movements, Totals, MovesOf, TotalsOf

\* A final plan moves as few tools as any order with any choice of what to take out.
LEMMA FinalIsCheapest ==
  ASSUME NEW q, Numbered(q), ChangerTyped(changer), NEW best \in SetToSeqs(ToSet(Jobs(q))), Final(q, changer, best)
  PROVE  MovesOf(best, changer.tools, CapacityOf(changer, Jobs(q))) = CheapestMovements(Jobs(q), CapacityOf(changer, Jobs(q)))
<1>. DEFINE J == Jobs(q)
            R == ToSet(J)
            tools == changer.tools
            capacity == CapacityOf(changer, J)
<1>1. QueueReady(q, changer)
  BY QueueIsReady
<1>2. /\ Numbered(J) /\ Ready(J, tools, capacity) /\ SetToSeqs(R) = Orders(J, Len(J)) /\ IsFiniteSet(R)
      /\ \A o \in SetToSeqs(R) : Feasible(o, tools, capacity)
  BY <1>1 DEF QueueReady
<1>3. tools \in SUBSET Tools /\ capacity \in Nat
  BY <1>2 DEF Ready
<1>4. best \in SetToSeqs(R) /\ \A p \in SetToSeqs(R) : ~Better(J, tools, capacity, p, best)
  BY DEF Final
<1>. HIDE DEF J, capacity, tools
<1>5. Fitting(R, capacity)
  <2>1. ASSUME NEW x \in R
        PROVE  x \in Job /\ Cardinality(x.tools) <= capacity
    <3>1. J \in Seq(Job) /\ DOMAIN J = 1..Len(J)
      BY <1>2 DEF Numbered
    <3>2. PICK i \in 1..Len(J) : x = J[i]
      BY <3>1 DEF ToSet
    <3>. QED BY <1>2, <3>1, <3>2, JobTyped DEF Ready
  <2>. QED BY <1>2, <1>3, <2>1 DEF Fitting
<1>6. CheapestMovements(J, capacity) = Least(R, tools, capacity)
  BY <1>3, <1>5, ReferenceIsLeast DEF tools
<1>. HIDE DEF R
<1>7. \A o \in SetToSeqs(R) : \A w : IsCost(w, o, capacity) => MovesOf(o, tools, capacity) = w[Len(o)][tools]
  BY <1>2, MovementsAreCost DEF MovesOf, TotalsOf
<1>8. Least(R, tools, capacity) \in Nat /\ \E o, w : IsLeast(R, tools, capacity, o, w)
  BY <1>3, <1>5, LeastAttained
<1>9. PICK o, w : IsLeast(R, tools, capacity, o, w)
  BY <1>8
<1>10. o \in SetToSeqs(R) /\ Least(R, tools, capacity) = MovesOf(o, tools, capacity)
  BY <1>7, <1>9 DEF IsLeast
<1>11. Least(R, tools, capacity) <= MovesOf(best, tools, capacity)
  <2>1. PICK v : IsCost(v, best, capacity)
    BY <1>2, <1>4, CostExists
  <2>2. MovesOf(best, tools, capacity) = v[Len(best)][tools]
    BY <1>4, <1>7, <2>1
  <2>3. Least(R, tools, capacity) <= v[Len(best)][tools]
    BY <1>3, <1>4, <1>5, <2>1, LeastBound
  <2>. QED BY <2>2, <2>3
<1>12. ~(MovesOf(o, tools, capacity) < MovesOf(best, tools, capacity))
  BY <1>4, <1>10 DEF Better, Cheaper
<1>13. MovesOf(best, tools, capacity) \in Nat
  BY <1>2, <1>4, TotalsTyped
<1>. DEFINE m == MovesOf(best, tools, capacity)
            l == Least(R, tools, capacity)
<1>14. m \in Nat /\ l \in Nat /\ l <= m /\ ~(l < m)
  BY <1>8, <1>10, <1>11, <1>12, <1>13
<1>15. m = l
  <2>. HIDE DEF m, l
  <2>. QED BY <1>14
<1>16. MovesOf(best, tools, capacity) = CheapestMovements(J, capacity)
  BY <1>6, <1>15
<1>. QED BY <1>16 DEF J, capacity, tools

\* What the invariant says of a plan that is shown.
LEMMA PlanShown ==
  ASSUME PlanInv, Shown
  PROVE  /\ Numbered(queue) /\ ChangerTyped(changer) /\ search.best \in SetToSeqs(ToSet(Jobs(queue)))
         /\ Planned(queue, changer, search.best)
         /\ Exact(Jobs(queue)) => Final(queue, changer, search.best)
         /\ Exact(Jobs(queue)) /\ previews > 1 => search.best = Jobs(queue)
BY DEF PlanInv, PlanTypeOK, PlanIsOrder, ExactIsFinal, Shown, Planned

\* A preview can be carried out, offers the queue's own pallets with those without tools in their places, and
\* moves no more tools than the queue as it is, for any queue, changer and capacity (autoschedule.py 31-64).
THEOREM PreviewIsSafe == Spec => []PreviewKeepsQueue
<1>1. PlanInv => PreviewKeepsQueue
  <2>. SUFFICES ASSUME PlanInv, Shown
                PROVE  PreviewKeepsQueue
    BY DEF PreviewKeepsQueue
  <2>. DEFINE J == Jobs(queue)
              capacity == Capacity(J)
              best == search.best
              sim == simulate_tool_plan(best, changer.tools, capacity)
              filled == FullOrder(best)
  <2>1. capacity = CapacityOf(changer, J)
    BY CapacityRead
  <2>2. /\ Numbered(queue) /\ ChangerTyped(changer) /\ best \in SetToSeqs(ToSet(J))
        /\ Planned(queue, changer, best)
    BY PlanShown
  <2>. HIDE DEF capacity
  <2>3. Feasible(best, changer.tools, capacity) /\ Len(best) = Len(J)
    <3>. HIDE DEF best
    <3>. QED BY <2>1, <2>2, PlanTyped
  <2>4. \A i \in 1..Len(best) : CarriedOut(best, sim, capacity, i)
    <3>. HIDE DEF best
    <3>. QED BY <2>3, OrderCarriedOut
  <2>5. FilledRight(queue, best, filled)
    BY <2>2, FullOrderFills, FilledQueue
  <2>6. Movements(best, capacity) <= Movements(J, capacity)
    BY <2>1, <2>2, MovementsRead DEF Planned
  <2>. HIDE DEF sim, filled
  <2>7. /\ \A i \in 1..Len(best) :
             /\ best[i].tools \subseteq sim[i].loaded /\ Cardinality(sim[i].loaded) <= capacity
             /\ sim[i].taken \subseteq sim[i - 1].loaded \ best[i].tools
             /\ sim[i].put \subseteq best[i].tools \ sim[i - 1].loaded
        /\ ToSet(filled) = ToSet(queue)
        /\ \A i \in 1..Len(queue) : queue[i].tools = {} => filled[i] = queue[i]
    BY <2>4, <2>5 DEF CarriedOut, FilledRight
  <2>. QED BY <2>3, <2>6, <2>7 DEF PreviewKeepsQueue, J, capacity, sim, filled
<1>. QED BY <1>1, PlanInvariant, PTL

\* The next preview of an exact plan that was applied has nothing to change (autoschedule.py 71-77).
THEOREM AppliedPlanStays == Spec => []AppliedPlanIsFinal
<1>1. PlanInv => AppliedPlanIsFinal
  BY PlanShown, FullOrderFills, FilledItself DEF AppliedPlanIsFinal
<1>. QED BY <1>1, PlanInvariant, PTL

\* An exact plan moves the fewest tools of all: no other order of the jobs, and no other choice of what to take
\* out or to bring in early, moves fewer (autoschedule.py 20-50 takes out the tool whose next use is furthest away).
THEOREM ExactPlanIsCheapest == Spec => []PlanIsCheapest
<1>1. PlanInv => PlanIsCheapest
  <2>. SUFFICES ASSUME PlanInv, Shown, Exact(Jobs(queue))
                PROVE  Movements(search.best, Capacity(Jobs(queue))) = CheapestMovements(Jobs(queue), Capacity(Jobs(queue)))
    BY DEF PlanIsCheapest
  <2>1. /\ Numbered(queue) /\ ChangerTyped(changer) /\ search.best \in SetToSeqs(ToSet(Jobs(queue)))
        /\ Final(queue, changer, search.best)
    BY PlanShown
  <2>2. MovesOf(search.best, changer.tools, CapacityOf(changer, Jobs(queue)))
          = CheapestMovements(Jobs(queue), CapacityOf(changer, Jobs(queue)))
    BY <2>1, FinalIsCheapest
  <2>. QED BY <2>2, CapacityRead, MovementsRead
<1>. QED BY <1>1, PlanInvariant, PTL

=============================================================================
