--------------------------- MODULE TelemetryProofs --------------------------
(***************************************************************************)
(* Proofs about the telemetry: the time a node is credited with, the rates *)
(* of its network counters, and the limit on the calls of a client.        *)
(***************************************************************************)
EXTENDS Uptime, NetMetrics, RateLimiter, FiniteSetTheorems, SequenceTheorems, WellFoundedInduction, TLAPS

(***************************************************************************)
(* Induction and sums over finite sets. Both are first-order here: a       *)
(* property of a number is proved of the least exception to it, one of a   *)
(* finite set of the smallest, as WFMin finds them.                        *)
(***************************************************************************)
(* Induction on the natural numbers: what has no least exception has none. *)
LEMMA LeastExists ==
  ASSUME NEW I \in SUBSET Nat, I # {}
  PROVE  \E m \in I : \A i \in I : m <= i
<1>1. PICK m \in I : \A i \in I : ~(<<i, m>> \in OpToRel(<, Nat))
  BY NatLessThanWellFounded, WFMin
<1>2. ASSUME NEW i \in I PROVE m <= i
  <2>1. i < m => <<i, m>> \in OpToRel(<, Nat)
    BY DEF OpToRel
  <2>2. ~(i < m)
    BY <1>1, <1>2, <2>1
  <2>3. i \in Nat /\ m \in Nat
    BY <1>2
  <2> QED BY <2>2, <2>3
<1> QED BY <1>2

-----------------------------------------------------------------------------
(* Sums over finite sets.  SumFunctionOnSet is a recursive function on the *)
(* subsets of the set, which takes an element of its choice at each step.  *)
Pick(s) == CHOOSE x \in s : TRUE
IsTotal(f, S, g) == g = [s \in SUBSET S |-> IF s = {} THEN 0 ELSE f[Pick(s)] + g[s \ {Pick(s)}]]
Total(f, S) == CHOOSE g : IsTotal(f, S, g)

LEMMA SumIs == ASSUME NEW f, NEW S PROVE SumFunctionOnSet(f, S) = Total(f, S)[S]
BY DEF SumFunctionOnSet, FoldFunctionOnSet, MapThenFoldSet, Total, IsTotal, Pick

LEMMA Without ==
  ASSUME NEW s, IsFiniteSet(s), NEW x \in s
  PROVE  /\ IsFiniteSet(s \ {x}) /\ Cardinality(s) \in Nat /\ Cardinality(s \ {x}) \in Nat
         /\ Cardinality(s \ {x}) = Cardinality(s) - 1
BY FS_RemoveElement, FS_CardinalityType

(* Induction on finite sets: of those that are exceptions, one has no      *)
(* exception below it.                                                     *)
LEMMA SmallestSet ==
  ASSUME NEW S, IsFiniteSet(S), NEW W \in SUBSET (SUBSET S), W # {}
  PROVE  \E s \in W : \A u \in W : ~(u \subseteq s /\ u # s)
<1> DEFINE I == {Cardinality(s) : s \in W}
<1>1. \A s \in W : IsFiniteSet(s) /\ Cardinality(s) \in Nat
  BY FS_Subset, FS_CardinalityType
<1>2. PICK m \in I : \A i \in I : m <= i
  <2>1. I \in SUBSET Nat /\ I # {}
    BY <1>1
  <2> QED BY <2>1, LeastExists
<1>3. PICK s \in W : m = Cardinality(s)
  OBVIOUS
<1>4. ASSUME NEW u \in W, u \subseteq s, u # s PROVE FALSE
  <2>1. PICK x \in s : x \notin u
    BY <1>4
  <2>2. u \subseteq s \ {x} /\ IsFiniteSet(s \ {x}) /\ Cardinality(s \ {x}) = Cardinality(s) - 1
    BY <1>1, <1>4, <2>1, Without
  <2>3. Cardinality(u) <= Cardinality(s \ {x})
    BY <2>2, FS_Subset
  <2>4. Cardinality(u) \in Nat /\ Cardinality(s) \in Nat /\ Cardinality(s) <= Cardinality(u)
    BY <1>1, <1>2, <1>3
  <2> QED BY <2>2, <2>3, <2>4
<1> QED BY <1>4

Upto(S, n) == {s \in SUBSET S : Cardinality(s) <= n}
Partial(f, S, n, g) ==
  /\ g \in [Upto(S, n) -> Int]
  /\ \A s \in Upto(S, n) : g[s] = IF s = {} THEN 0 ELSE f[Pick(s)] + g[s \ {Pick(s)}]

(* What a sum can be taken of: a finite set the function is a number on.   *)
Summable(f, S) == IsFiniteSet(S) /\ \A x \in S : f[x] \in Int
RecAt(f, s, g) ==
  /\ g[s] \in Int
  /\ s = {} => g[s] = 0
  /\ s # {} => Pick(s) \in s /\ g[s] = f[Pick(s)] + g[s \ {Pick(s)}]

LEMMA PartialMore ==
  ASSUME NEW f, NEW S, Summable(f, S), NEW n \in Nat,
         NEW g, Partial(f, S, n, g)
  PROVE  \E h : Partial(f, S, n + 1, h)
<1> DEFINE h == [s \in Upto(S, n + 1) |-> IF s = {} THEN 0 ELSE f[Pick(s)] + g[s \ {Pick(s)}]]
<1>1. ASSUME NEW s \in Upto(S, n + 1), s # {}
      PROVE  Pick(s) \in s /\ f[Pick(s)] \in Int /\ s \ {Pick(s)} \in Upto(S, n)
  <2>1. Pick(s) \in s /\ s \in SUBSET S
    BY <1>1 DEF Pick, Upto
  <2>2. IsFiniteSet(s)
    BY <2>1, FS_Subset DEF Summable
  <2>3. Cardinality(s \ {Pick(s)}) = Cardinality(s) - 1 /\ Cardinality(s) \in Nat /\ Cardinality(s) <= n + 1
    BY <1>1, <2>1, <2>2, Without DEF Upto
  <2> QED BY <2>1, <2>3 DEF Upto, Summable
<1>2. \A s \in Upto(S, n) : s \in Upto(S, n + 1)
  <2>1. ASSUME NEW s \in Upto(S, n) PROVE s \in Upto(S, n + 1)
    <3>1. Cardinality(s) \in Nat /\ Cardinality(s) <= n
      BY FS_Subset, FS_CardinalityType DEF Upto, Summable
    <3> QED BY <3>1 DEF Upto
  <2> QED BY <2>1
<1>3. h \in [Upto(S, n + 1) -> Int]
  BY <1>1 DEF Partial
<1>4. \A s \in Upto(S, n) : h[s] = g[s]
  BY <1>2 DEF Partial
<1>5. ASSUME NEW s \in Upto(S, n + 1) PROVE h[s] = IF s = {} THEN 0 ELSE f[Pick(s)] + h[s \ {Pick(s)}]
  BY <1>1, <1>4
<1> HIDE DEF h
<1>6. Partial(f, S, n + 1, h)
  BY <1>3, <1>5 DEF Partial
<1> QED BY <1>6

LEMMA TotalExists ==
  ASSUME NEW f, NEW S, Summable(f, S)
  PROVE  IsTotal(f, S, Total(f, S)) /\ Total(f, S) \in [SUBSET S -> Int]
<1> DEFINE P(n) == \E g : Partial(f, S, n, g)
           I == {n \in Nat : ~P(n)}
<1>1. P(0)
  <2>1. \A s \in Upto(S, 0) : s = {}
    <3>1. ASSUME NEW s \in Upto(S, 0) PROVE s = {}
      <4>1. IsFiniteSet(s) /\ Cardinality(s) \in Nat /\ Cardinality(s) <= 0
        BY FS_Subset, FS_CardinalityType DEF Upto, Summable
      <4>2. Cardinality(s) = 0
        BY <4>1
      <4> QED BY <4>1, <4>2, FS_EmptySet
    <3> QED BY <3>1
  <2>2. Partial(f, S, 0, [s \in Upto(S, 0) |-> 0])
    BY <2>1 DEF Partial
  <2> QED BY <2>2
<1>2. I = {}
  <2> SUFFICES ASSUME I # {} PROVE FALSE
    OBVIOUS
  <2>1. PICK m \in I : \A i \in I : m <= i
    BY LeastExists
  <2>2. m \in Nat /\ ~P(m)
    OBVIOUS
  <2>3. m # 0
    BY <1>1, <2>2
  <2>4. m - 1 \in Nat /\ m - 1 \notin I /\ (m - 1) + 1 = m
    BY <2>1, <2>2, <2>3
  <2>5. PICK g : Partial(f, S, m - 1, g)
    BY <2>4
  <2>6. \E h : Partial(f, S, (m - 1) + 1, h)
    BY <2>4, <2>5, PartialMore
  <2> QED BY <2>2, <2>4, <2>6
<1>3. Cardinality(S) \in Nat
  BY FS_CardinalityType DEF Summable
<1>4. PICK g : Partial(f, S, Cardinality(S), g)
  BY <1>2, <1>3
<1>5. Upto(S, Cardinality(S)) = SUBSET S
  BY FS_Subset DEF Upto, Summable
<1>6. IsTotal(f, S, g) /\ g \in [SUBSET S -> Int]
  <2>1. g \in [SUBSET S -> Int] /\ \A s \in SUBSET S : g[s] = IF s = {} THEN 0 ELSE f[Pick(s)] + g[s \ {Pick(s)}]
    BY <1>4, <1>5 DEF Partial
  <2> QED BY <2>1 DEF IsTotal
<1>7. IsTotal(f, S, Total(f, S))
  BY <1>6 DEF Total
<1>8. ASSUME NEW h, IsTotal(f, S, h) PROVE h \in [SUBSET S -> Int]
  <2>1. \A s \in SUBSET S : h[s] = IF s = {} THEN 0 ELSE f[Pick(s)] + h[s \ {Pick(s)}]
    BY <1>8 DEF IsTotal
  <2> DEFINE J == {s \in SUBSET S : h[s] \notin Int}
  <2>2. J = {}
    <3> SUFFICES ASSUME J # {} PROVE FALSE
      OBVIOUS
    <3>0. J \in SUBSET (SUBSET S) /\ \A s \in SUBSET S : s \in J <=> h[s] \notin Int
      OBVIOUS
    <3> HIDE DEF J
    <3>1. PICK s \in J : \A u \in J : ~(u \subseteq s /\ u # s)
      BY <3>0, SmallestSet DEF Summable
    <3>2. s \in SUBSET S /\ h[s] \notin Int
      BY <3>0
    <3>3. CASE s = {}
      <4>1. h[s] = 0
        BY <2>1, <3>2, <3>3
      <4> QED BY <3>2, <4>1
    <3>4. CASE s # {}
      <4>1. Pick(s) \in s
        BY <3>4 DEF Pick
      <4>2. h[s \ {Pick(s)}] \in Int
        BY <3>0, <3>1, <3>2, <4>1
      <4>3. f[Pick(s)] \in Int
        BY <3>2, <4>1 DEF Summable
      <4>4. h[s] = f[Pick(s)] + h[s \ {Pick(s)}]
        BY <2>1, <3>2, <3>4
      <4> QED BY <3>2, <4>2, <4>3, <4>4
    <3> QED BY <3>3, <3>4
  <2>3. \A s \in SUBSET S : h[s] \in Int
    BY <2>2
  <2>4. h = [s \in SUBSET S |-> h[s]]
    BY <1>8 DEF IsTotal
  <2> QED BY <2>3, <2>4
<1> QED BY <1>7, <1>8

LEMMA TotalRec ==
  ASSUME NEW f, NEW S, Summable(f, S), NEW s \in SUBSET S
  PROVE  RecAt(f, s, Total(f, S))
<1> DEFINE g == Total(f, S)
<1>1. IsTotal(f, S, g) /\ g \in [SUBSET S -> Int]
  BY TotalExists
<1> HIDE DEF g
<1>2. g[s] = IF s = {} THEN 0 ELSE f[Pick(s)] + g[s \ {Pick(s)}]
  BY <1>1 DEF IsTotal
<1>3. g[s] \in Int
  BY <1>1
<1>4. s # {} => Pick(s) \in s
  BY DEF Pick
<1>5. RecAt(f, s, g)
  BY <1>2, <1>3, <1>4 DEF RecAt
<1> QED BY <1>5 DEF g

(* The sum depends on nothing but the values in the set: neither on what   *)
(* else the function is defined for, nor on the set it was begun with.     *)
LEMMA TotalSame ==
  ASSUME NEW f, NEW S, Summable(f, S), NEW e, NEW T, Summable(e, T),
         NEW U \in SUBSET S, U \in SUBSET T, \A x \in U : f[x] = e[x]
  PROVE  Total(f, S)[U] = Total(e, T)[U]
<1> DEFINE g == Total(f, S)
           h == Total(e, T)
<1>1. \A s \in SUBSET U : RecAt(f, s, g) /\ RecAt(e, s, h)
  <2>1. ASSUME NEW s \in SUBSET U PROVE RecAt(f, s, g) /\ RecAt(e, s, h)
    <3>1. s \in SUBSET S /\ s \in SUBSET T
      OBVIOUS
    <3> QED BY <3>1, TotalRec
  <2> QED BY <2>1
<1>2. IsFiniteSet(U)
  BY FS_Subset DEF Summable
<1> HIDE DEF g, h
<1> DEFINE J == {s \in SUBSET U : g[s] # h[s]}
<1>3. J = {}
  <2> SUFFICES ASSUME J # {} PROVE FALSE
    OBVIOUS
  <2>1. J \in SUBSET (SUBSET U) /\ \A s \in SUBSET U : s \in J <=> g[s] # h[s]
    OBVIOUS
  <2> HIDE DEF J
  <2>2. PICK s \in J : \A u \in J : ~(u \subseteq s /\ u # s)
    BY <1>2, <2>1, SmallestSet
  <2>3. s \in SUBSET U /\ g[s] # h[s] /\ RecAt(f, s, g) /\ RecAt(e, s, h)
    BY <1>1, <2>1
  <2>4. s # {} /\ Pick(s) \in s
    BY <2>3 DEF RecAt
  <2>5. g[s \ {Pick(s)}] = h[s \ {Pick(s)}]
    BY <2>1, <2>2, <2>3, <2>4
  <2>6. f[Pick(s)] = e[Pick(s)]
    BY <2>3, <2>4
  <2> QED BY <2>3, <2>4, <2>5, <2>6 DEF RecAt
<1>4. U \notin J
  BY <1>3
<1> QED BY <1>4 DEF g, h

(* Any element can be taken first.                                         *)
LEMMA TotalAny ==
  ASSUME NEW f, NEW S, Summable(f, S)
  PROVE  \A s \in SUBSET S : \A x \in s : Total(f, S)[s] = f[x] + Total(f, S)[s \ {x}]
<1> DEFINE g == Total(f, S)
<1>0. ASSUME NEW s \in SUBSET S PROVE RecAt(f, s, g)
  BY TotalRec
<1> HIDE DEF g
<1> DEFINE P == SUBSET S
           J == {s \in P : \E x \in s : g[s] # f[x] + g[s \ {x}]}
<1>1. \A s \in P : g[s] \in Int /\ (s # {} => Pick(s) \in s /\ g[s] = f[Pick(s)] + g[s \ {Pick(s)}])
  BY <1>0 DEF RecAt
<1>2. \A s \in P : \A x \in s : s \ {x} \in P /\ f[x] \in Int
  BY DEF Summable
<1>3. J \in SUBSET (SUBSET S) /\ \A s \in P : s \in J <=> \E x \in s : g[s] # f[x] + g[s \ {x}]
  OBVIOUS
<1>4. J \subseteq P
  OBVIOUS
<1> HIDE DEF g, P, J
<1>5. J = {}
  <2> SUFFICES ASSUME J # {} PROVE FALSE
    OBVIOUS
  <2>1. PICK s \in J : \A u \in J : ~(u \subseteq s /\ u # s)
    BY <1>3, SmallestSet DEF Summable
  <2>2. s \in P
    BY <1>4
  <2>3. PICK x \in s : g[s] # f[x] + g[s \ {x}]
    BY <1>3, <2>2
  <2> DEFINE c == Pick(s)
             u == s \ {c}
             w == s \ {x}
  <2>4. c \in s /\ g[s] = f[c] + g[u]
    BY <1>1, <2>2, <2>3
  <2> HIDE DEF c
  <2>5. x # c
    BY <2>3, <2>4
  <2>6. u \in P /\ w \in P /\ x \in u /\ c \in w /\ u # s /\ w # s /\ u \subseteq s /\ w \subseteq s
    BY <1>2, <2>2, <2>4, <2>5
  <2>7. u \ {x} = w \ {c}
    OBVIOUS
  <2> HIDE DEF u, w
  <2>8. u \notin J /\ w \notin J
    BY <2>1, <2>6
  <2>9. g[u] = f[x] + g[u \ {x}] /\ g[w] = f[c] + g[w \ {c}]
    BY <1>3, <2>6, <2>8
  <2>10. f[x] \in Int /\ f[c] \in Int
    BY <1>2, <2>2, <2>4
  <2>11. g[u \ {x}] \in Int
    BY <1>1, <1>2, <2>6
  <2>12. g[s] # f[x] + g[w]
    BY <2>3 DEF w
  <2>13. g[w] = f[c] + g[u \ {x}]
    BY <2>7, <2>9
  <2> HIDE DEF u, w
  <2> QED BY <2>4, <2>9, <2>10, <2>11, <2>12, <2>13
<1> QED BY <1>3, <1>5 DEF g, P

-----------------------------------------------------------------------------
LEMMA SumNothing == ASSUME NEW f PROVE SumFunctionOnSet(f, {}) = 0
<1>1. Summable(f, {}) /\ {} \in SUBSET {}
  BY FS_EmptySet DEF Summable
<1>2. RecAt(f, {}, Total(f, {}))
  BY <1>1, TotalRec
<1> QED BY <1>2, SumIs DEF RecAt

LEMMA SumInt ==
  ASSUME NEW f, NEW S, Summable(f, S)
  PROVE  SumFunctionOnSet(f, S) \in Int
<1>1. RecAt(f, S, Total(f, S))
  <2>1. S \in SUBSET S
    OBVIOUS
  <2> QED BY <2>1, TotalRec
<1> QED BY <1>1, SumIs DEF RecAt

LEMMA SummableSubset ==
  ASSUME NEW f, NEW S, Summable(f, S), NEW T \in SUBSET S
  PROVE  Summable(f, T)
BY FS_Subset DEF Summable

LEMMA SumTakeOut ==
  ASSUME NEW f, NEW S, Summable(f, S), NEW x \in S
  PROVE  SumFunctionOnSet(f, S) = f[x] + SumFunctionOnSet(f, S \ {x})
<1> DEFINE T == S \ {x}
<1>1. T \in SUBSET S /\ T \in SUBSET T /\ S \in SUBSET S
  OBVIOUS
<1>2. Total(f, S)[S] = f[x] + Total(f, S)[T]
  BY <1>1, TotalAny
<1>3. Total(f, S)[T] = Total(f, T)[T]
  <2>1. Summable(f, T)
    BY <1>1, SummableSubset
  <2> HIDE DEF T
  <2> QED BY <1>1, <2>1, TotalSame
<1> QED BY <1>2, <1>3, SumIs

LEMMA SumSame ==
  ASSUME NEW f, NEW S, Summable(f, S), NEW e, \A x \in S : f[x] = e[x]
  PROVE  SumFunctionOnSet(f, S) = SumFunctionOnSet(e, S)
<1>1. S \in SUBSET S /\ Summable(e, S)
  BY DEF Summable
<1>2. Total(f, S)[S] = Total(e, S)[S]
  BY <1>1, TotalSame
<1> QED BY <1>2, SumIs

(* A sum changes by as much as the one value that changes.                 *)
LEMMA SumChange ==
  ASSUME NEW f, NEW S, Summable(f, S), NEW e, NEW x \in S, e[x] \in Int,
         \A y \in S \ {x} : f[y] = e[y]
  PROVE  SumFunctionOnSet(e, S) = SumFunctionOnSet(f, S) - f[x] + e[x]
<1> DEFINE T == S \ {x}
<1>1. T \in SUBSET S /\ Summable(e, S)
  BY DEF Summable
<1>2. Summable(f, T)
  BY <1>1, SummableSubset
<1>3. SumFunctionOnSet(f, S) = f[x] + SumFunctionOnSet(f, T)
  BY SumTakeOut
<1>4. SumFunctionOnSet(e, S) = e[x] + SumFunctionOnSet(e, T)
  BY <1>1, SumTakeOut
<1>5. SumFunctionOnSet(f, T) = SumFunctionOnSet(e, T)
  BY <1>2, SumSame
<1>6. SumFunctionOnSet(f, T) \in Int
  BY <1>2, SumInt
<1>7. f[x] \in Int
  BY DEF Summable
<1> QED BY <1>3, <1>4, <1>5, <1>6, <1>7

(* What is nowhere negative has no smaller sum over a larger set.          *)
LEMMA SumLarger ==
  ASSUME NEW f, NEW S, Summable(f, S), \A x \in S : f[x] >= 0, NEW T \in SUBSET S
  PROVE  SumFunctionOnSet(f, T) <= SumFunctionOnSet(f, S) /\ SumFunctionOnSet(f, T) >= 0
<1> DEFINE sum(u) == SumFunctionOnSet(f, u)
<1>1. ASSUME NEW U \in SUBSET S
      PROVE  sum(U) \in Int /\ \A x \in U : sum(U) = f[x] + sum(U \ {x}) /\ f[x] \in Int /\ f[x] >= 0
  <2>1. Summable(f, U)
    BY SummableSubset
  <2>2. \A x \in U : f[x] \in Int /\ f[x] >= 0
    BY <2>1 DEF Summable
  <2> QED BY <2>1, <2>2, SumInt, SumTakeOut
<1> HIDE DEF sum
<1>2. ASSUME NEW L \in SUBSET S PROVE \A U \in SUBSET S : L \subseteq U => sum(L) <= sum(U)
  <2> DEFINE J == {U \in SUBSET S : L \subseteq U /\ ~(sum(L) <= sum(U))}
  <2>1. J = {}
    <3> SUFFICES ASSUME J # {} PROVE FALSE
      OBVIOUS
    <3>0. J \in SUBSET (SUBSET S) /\ \A U \in SUBSET S : U \in J <=> L \subseteq U /\ ~(sum(L) <= sum(U))
      OBVIOUS
    <3> HIDE DEF J
    <3>1. PICK U \in J : \A W \in J : ~(W \subseteq U /\ W # U)
      BY <3>0, SmallestSet DEF Summable
    <3>2. U \in SUBSET S /\ L \subseteq U /\ ~(sum(L) <= sum(U))
      BY <3>0
    <3>3. sum(L) \in Int /\ sum(U) \in Int
      BY <1>1, <3>2
    <3>4. PICK x \in U : x \notin L
      BY <3>2, <3>3
    <3>5. U \ {x} \notin J /\ U \ {x} \in SUBSET S /\ L \subseteq U \ {x}
      BY <3>1, <3>2, <3>4
    <3>6. sum(L) <= sum(U \ {x})
      BY <3>0, <3>5
    <3>7. sum(U) = f[x] + sum(U \ {x}) /\ f[x] \in Int /\ f[x] >= 0 /\ sum(U \ {x}) \in Int
      BY <1>1, <3>2, <3>4, <3>5
    <3> QED BY <3>2, <3>3, <3>6, <3>7
  <2> QED BY <2>1
<1>3. sum({}) = 0
  BY SumNothing DEF sum
<1>4. {} \in SUBSET S /\ {} \subseteq T /\ T \subseteq S /\ S \in SUBSET S
  OBVIOUS
<1>5. sum(T) <= sum(S) /\ sum({}) <= sum(T)
  BY <1>2, <1>4
<1>6. sum(T) \in Int
  BY <1>1
<1> QED BY <1>3, <1>5, <1>6 DEF sum

(* Larger values have a larger sum.                                        *)
LEMMA SumLess ==
  ASSUME NEW f, NEW S, Summable(f, S), NEW e, Summable(e, S), \A x \in S : f[x] <= e[x]
  PROVE  SumFunctionOnSet(f, S) <= SumFunctionOnSet(e, S)
<1> DEFINE sf(u) == SumFunctionOnSet(f, u)
           se(u) == SumFunctionOnSet(e, u)
<1>1. ASSUME NEW U \in SUBSET S
      PROVE  /\ sf(U) \in Int /\ \A x \in U : sf(U) = f[x] + sf(U \ {x})
             /\ se(U) \in Int /\ \A x \in U : se(U) = e[x] + se(U \ {x})
  <2>1. Summable(f, U) /\ Summable(e, U)
    BY SummableSubset
  <2> QED BY <2>1, SumInt, SumTakeOut
<1>2. sf({}) = 0 /\ se({}) = 0
  BY SumNothing
<1> HIDE DEF sf, se
<1> DEFINE J == {U \in SUBSET S : ~(sf(U) <= se(U))}
<1>3. J = {}
  <2> SUFFICES ASSUME J # {} PROVE FALSE
    OBVIOUS
  <2>0. J \in SUBSET (SUBSET S) /\ \A U \in SUBSET S : U \in J <=> ~(sf(U) <= se(U))
    OBVIOUS
  <2> HIDE DEF J
  <2>1. PICK U \in J : \A W \in J : ~(W \subseteq U /\ W # U)
    BY <2>0, SmallestSet DEF Summable
  <2>2. U \in SUBSET S /\ ~(sf(U) <= se(U))
    BY <2>0
  <2>3. PICK x \in U : TRUE
    BY <1>2, <2>2
  <2>4. U \ {x} \in SUBSET S /\ sf(U \ {x}) <= se(U \ {x})
    BY <2>0, <2>1, <2>2
  <2>5. /\ sf(U) = f[x] + sf(U \ {x}) /\ se(U) = e[x] + se(U \ {x})
        /\ sf(U \ {x}) \in Int /\ se(U \ {x}) \in Int
    BY <1>1, <2>2, <2>4
  <2>6. f[x] \in Int /\ e[x] \in Int /\ f[x] <= e[x]
    BY <2>2 DEF Summable
  <2> QED BY <2>2, <2>4, <2>5, <2>6
<1>4. S \notin J
  BY <1>3
<1> QED BY <1>4 DEF sf, se

LEMMA SumZero ==
  ASSUME NEW f, NEW S, Summable(f, S), \A x \in S : f[x] = 0
  PROVE  SumFunctionOnSet(f, S) = 0
<1> DEFINE sum(u) == SumFunctionOnSet(f, u)
<1>1. ASSUME NEW U \in SUBSET S PROVE \A x \in U : sum(U) = 0 + sum(U \ {x})
  <2>1. Summable(f, U)
    BY SummableSubset
  <2>2. \A x \in U : sum(U) = f[x] + sum(U \ {x})
    BY <2>1, SumTakeOut
  <2> HIDE DEF sum
  <2> QED BY <2>2
<1>2. sum({}) = 0
  BY SumNothing
<1> HIDE DEF sum
<1> DEFINE J == {U \in SUBSET S : sum(U) # 0}
<1>3. J = {}
  <2> SUFFICES ASSUME J # {} PROVE FALSE
    OBVIOUS
  <2>0. J \in SUBSET (SUBSET S) /\ \A U \in SUBSET S : U \in J <=> sum(U) # 0
    OBVIOUS
  <2> HIDE DEF J
  <2>1. PICK U \in J : \A W \in J : ~(W \subseteq U /\ W # U)
    BY <2>0, SmallestSet DEF Summable
  <2>2. U \in SUBSET S /\ sum(U) # 0
    BY <2>0
  <2>3. PICK x \in U : TRUE
    BY <1>2, <2>2
  <2>4. sum(U \ {x}) = 0
    BY <2>0, <2>1, <2>2
  <2> QED BY <1>1, <2>2, <2>4
<1>4. sum(S) = 0
  BY <1>3
<1> QED BY <1>4 DEF sum

(* What adds nothing can be left out.                                      *)
LEMMA SumDrop ==
  ASSUME NEW f, NEW S, Summable(f, S), NEW T \in SUBSET S, \A x \in S \ T : f[x] = 0
  PROVE  SumFunctionOnSet(f, S) = SumFunctionOnSet(f, T)
<1> DEFINE sum(u) == SumFunctionOnSet(f, u)
<1>1. ASSUME NEW U \in SUBSET S
      PROVE  sum(U) \in Int /\ \A x \in U : sum(U) = f[x] + sum(U \ {x})
  <2>1. Summable(f, U)
    BY SummableSubset
  <2> QED BY <2>1, SumInt, SumTakeOut
<1> HIDE DEF sum
<1> DEFINE J == {U \in SUBSET S : T \subseteq U /\ sum(U) # sum(T)}
<1>2. J = {}
  <2> SUFFICES ASSUME J # {} PROVE FALSE
    OBVIOUS
  <2>0. J \in SUBSET (SUBSET S) /\ \A U \in SUBSET S : U \in J <=> T \subseteq U /\ sum(U) # sum(T)
    OBVIOUS
  <2> HIDE DEF J
  <2>1. PICK U \in J : \A W \in J : ~(W \subseteq U /\ W # U)
    BY <2>0, SmallestSet DEF Summable
  <2>2. U \in SUBSET S /\ T \subseteq U /\ sum(U) # sum(T)
    BY <2>0
  <2>3. PICK x \in U : x \notin T
    BY <2>2
  <2>4. U \ {x} \in SUBSET S /\ sum(U \ {x}) = sum(T)
    BY <2>0, <2>1, <2>2, <2>3
  <2>5. sum(U) = f[x] + sum(U \ {x}) /\ f[x] = 0 /\ sum(U \ {x}) \in Int
    BY <1>1, <2>2, <2>3, <2>4
  <2> QED BY <2>2, <2>4, <2>5
<1>3. S \notin J
  BY <1>2
<1> QED BY <1>3 DEF sum

LEMMA SumAdd ==
  ASSUME NEW S, NEW f, Summable(f, S), NEW e, Summable(e, S), NEW h, \A x \in S : h[x] = f[x] + e[x]
  PROVE  SumFunctionOnSet(h, S) = SumFunctionOnSet(f, S) + SumFunctionOnSet(e, S)
<1> DEFINE sf(u) == SumFunctionOnSet(f, u)
           se(u) == SumFunctionOnSet(e, u)
           sh(u) == SumFunctionOnSet(h, u)
<1>0. Summable(h, S)
  BY DEF Summable
<1>1. ASSUME NEW U \in SUBSET S
      PROVE  /\ sf(U) \in Int /\ \A x \in U : sf(U) = f[x] + sf(U \ {x})
             /\ se(U) \in Int /\ \A x \in U : se(U) = e[x] + se(U \ {x})
             /\ \A x \in U : sh(U) = h[x] + sh(U \ {x})
  <2>1. Summable(f, U) /\ Summable(e, U) /\ Summable(h, U)
    BY <1>0, SummableSubset
  <2> QED BY <2>1, SumInt, SumTakeOut
<1>2. sf({}) = 0 /\ se({}) = 0 /\ sh({}) = 0
  BY SumNothing
<1> HIDE DEF sf, se, sh
<1> DEFINE J == {U \in SUBSET S : sh(U) # sf(U) + se(U)}
<1>3. J = {}
  <2> SUFFICES ASSUME J # {} PROVE FALSE
    OBVIOUS
  <2>0. J \in SUBSET (SUBSET S) /\ \A U \in SUBSET S : U \in J <=> sh(U) # sf(U) + se(U)
    OBVIOUS
  <2> HIDE DEF J
  <2>1. PICK U \in J : \A W \in J : ~(W \subseteq U /\ W # U)
    BY <2>0, SmallestSet DEF Summable
  <2>2. U \in SUBSET S /\ sh(U) # sf(U) + se(U)
    BY <2>0
  <2>3. PICK x \in U : TRUE
    BY <1>2, <2>2
  <2>4. U \ {x} \in SUBSET S /\ sh(U \ {x}) = sf(U \ {x}) + se(U \ {x})
    BY <2>0, <2>1, <2>2
  <2>5. /\ sf(U) = f[x] + sf(U \ {x}) /\ se(U) = e[x] + se(U \ {x}) /\ sh(U) = h[x] + sh(U \ {x})
        /\ sf(U \ {x}) \in Int /\ se(U \ {x}) \in Int
    BY <1>1, <2>2, <2>4
  <2>6. f[x] \in Int /\ e[x] \in Int /\ h[x] = f[x] + e[x]
    BY <2>2 DEF Summable
  <2> QED BY <2>2, <2>4, <2>5, <2>6
<1>4. S \notin J
  BY <1>3
<1> QED BY <1>4 DEF sf, se, sh

(* A table of numbers adds up to the same by rows and by columns.          *)
LEMMA SumOfSums ==
  ASSUME NEW A, IsFiniteSet(A), NEW B, IsFiniteSet(B), NEW g, \A a \in A, b \in B : g[a][b] \in Int
  PROVE  SumFunctionOnSet([a \in A |-> SumFunctionOnSet(g[a], B)], A)
           = SumFunctionOnSet([b \in B |-> SumFunctionOnSet([a \in A |-> g[a][b]], A)], B)
<1> DEFINE row == [a \in A |-> SumFunctionOnSet(g[a], B)]
           col(b) == [a \in A |-> g[a][b]]
           below(U) == [b \in B |-> SumFunctionOnSet(col(b), U)]
           left(U) == SumFunctionOnSet(row, U)
           right(U) == SumFunctionOnSet(below(U), B)
<1>1. \A a \in A : Summable(g[a], B) /\ row[a] = SumFunctionOnSet(g[a], B) /\ row[a] \in Int
  <2>1. ASSUME NEW a \in A PROVE Summable(g[a], B) /\ row[a] = SumFunctionOnSet(g[a], B)
    BY DEF Summable
  <2> HIDE DEF row
  <2> QED BY <2>1, SumInt
<1>2. \A b \in B : \A U \in SUBSET A : Summable(col(b), U)
  <2>1. ASSUME NEW b \in B, NEW U \in SUBSET A PROVE Summable(col(b), U)
    <3>1. Summable(col(b), A)
      BY DEF Summable
    <3> HIDE DEF col
    <3> QED BY <3>1, SummableSubset
  <2> QED BY <2>1
<1>3. ASSUME NEW U \in SUBSET A
      PROVE  /\ \A b \in B : below(U)[b] = SumFunctionOnSet(col(b), U)
             /\ Summable(below(U), B) /\ right(U) \in Int
  <2>1. \A b \in B : below(U)[b] = SumFunctionOnSet(col(b), U)
    OBVIOUS
  <2>2. \A b \in B : SumFunctionOnSet(col(b), U) \in Int
    <3> HIDE DEF col
    <3> QED BY <1>2, SumInt
  <2> HIDE DEF below, col
  <2>3. Summable(below(U), B)
    BY <2>1, <2>2 DEF Summable
  <2> QED BY <2>1, <2>3, SumInt
<1>4. ASSUME NEW U \in SUBSET A, NEW x \in U
      PROVE  /\ left(U) = row[x] + left(U \ {x}) /\ left(U \ {x}) \in Int
             /\ right(U) = row[x] + right(U \ {x})
  <2>1. \A b \in B : col(b)[x] = g[x][b]
    OBVIOUS
  <2> HIDE DEF row, col, below
  <2>2. U \ {x} \in SUBSET A /\ x \in A
    OBVIOUS
  <2>3. Summable(row, A)
    BY <1>1 DEF Summable
  <2>4. Summable(row, U) /\ Summable(row, U \ {x})
    BY <2>2, <2>3, SummableSubset
  <2>5. left(U) = row[x] + left(U \ {x}) /\ left(U \ {x}) \in Int
    BY <2>4, SumTakeOut, SumInt
  <2>6. \A b \in B : below(U)[b] = g[x][b] + below(U \ {x})[b]
    <3>1. ASSUME NEW b \in B PROVE below(U)[b] = g[x][b] + below(U \ {x})[b]
      <4>1. SumFunctionOnSet(col(b), U) = col(b)[x] + SumFunctionOnSet(col(b), U \ {x})
        BY <1>2, SumTakeOut
      <4> QED BY <1>3, <2>1, <2>2, <4>1
    <3> QED BY <3>1
  <2>7. right(U) = SumFunctionOnSet(g[x], B) + right(U \ {x})
    <3>1. Summable(g[x], B) /\ Summable(below(U \ {x}), B)
      BY <1>1, <1>3, <2>2
    <3> QED BY <2>6, <3>1, SumAdd
  <2> QED BY <1>1, <2>2, <2>5, <2>7
<1>5. left({}) = 0 /\ right({}) = 0
  <2>1. left({}) = 0 /\ \A b \in B : SumFunctionOnSet(col(b), {}) = 0
    BY SumNothing
  <2>2. {} \in SUBSET A
    OBVIOUS
  <2>3. Summable(below({}), B) /\ \A b \in B : below({})[b] = 0
    BY <1>3, <2>1, <2>2
  <2> HIDE DEF below
  <2>4. right({}) = 0
    BY <2>3, SumZero
  <2> QED BY <2>1, <2>4
<1>6. \A x \in A : row[x] \in Int
  BY <1>1
<1>7. \A U \in SUBSET A : right(U) \in Int
  BY <1>3
<1> HIDE DEF row, left, right
<1> DEFINE J == {U \in SUBSET A : left(U) # right(U)}
<1>8. J = {}
  <2> SUFFICES ASSUME J # {} PROVE FALSE
    OBVIOUS
  <2>0. J \in SUBSET (SUBSET A) /\ \A U \in SUBSET A : U \in J <=> left(U) # right(U)
    OBVIOUS
  <2> HIDE DEF J
  <2>1. PICK U \in J : \A W \in J : ~(W \subseteq U /\ W # U)
    BY <2>0, SmallestSet
  <2>2. U \in SUBSET A /\ left(U) # right(U)
    BY <2>0
  <2>3. PICK x \in U : TRUE
    BY <1>5, <2>2
  <2>4. left(U \ {x}) = right(U \ {x})
    BY <2>0, <2>1, <2>2
  <2> QED BY <1>4, <2>2, <2>4
<1>9. left(A) = right(A)
  BY <1>8
<1> QED BY <1>9 DEF left, right, row

-----------------------------------------------------------------------------
(***************************************************************************)
(* What holds of Uptime for any nodes, overlapping heartbeats and deaths   *)
(* of the process.                                                         *)
(*                                                                         *)
(* Time online is counted by ideal, a history that is given the gap        *)
(* between two heartbeats when the later arrives. The tracker computes its *)
(* credit from its own last instant, lastSeen, which may be that of any    *)
(* heartbeat yet, since they overtake one another: Marks are the instants  *)
(* a credit may still be reckoned from or to, between any two of which     *)
(* ideal and the gap that is paid agree (MarksRight). What a node was      *)
(* credited, with what is granted and not booked, is no more than ideal    *)
(* had counted at any of the Points the next credit is reckoned from       *)
(* (TotalPaid), and no more of one day than ideal could hold of it         *)
(* (DayPaid).                                                              *)
(***************************************************************************)
LEMMA Times ==
  ASSUME NEW c \in Int, NEW a \in Int, NEW b \in Int
  PROVE  c * (a + b) = c * a + c * b /\ c * a \in Int
OBVIOUS

LEMMA TimesGrows ==
  ASSUME NEW c \in Nat, NEW a \in Int, NEW b \in Int, a <= b
  PROVE  c * a <= c * b
OBVIOUS

LEMMA DivRight ==
  ASSUME NEW a \in Nat, NEW c \in Nat \ {0}
  PROVE  a \div c \in Nat /\ c * (a \div c) <= a /\ a < c * (a \div c) + c
OBVIOUS

-----------------------------------------------------------------------------
(* What heartbeats have been granted and not booked yet.                   *)
Granted(r, n) == IF r.pc = "book" /\ r.node = n THEN r.secs ELSE 0
GrantedOn(r, n, d) == IF r.pc = "book" /\ r.node = n /\ Day(r.at) = d THEN r.secs ELSE 0
Pend(n) == [b \in Beats |-> Granted(beat[b], n)]
PendDay(n, d) == [b \in Beats |-> GrantedOn(beat[b], n, d)]
Pending(n) == SumFunctionOnSet(Pend(n), Beats)
PendingDay(n, d) == SumFunctionOnSet(PendDay(n, d), Beats)

(* The instants the next credit of a node can be reckoned from, and those  *)
(* at which heartbeats arrived that may still be one.                      *)
Arrived(n) == {b \in Beats : beat[b].pc = "arrived" /\ beat[b].node = n}
Points(n) == IF lastSeen[n] # NotSeen THEN {lastSeen[n]} ELSE {now} \cup {beat[b].at : b \in Arrived(n)}
Marks(n) == {beat[b].at : b \in Arrived(n)} \cup ({lastSeen[n], newest[n]} \ {NotSeen})

Slack(n) == rewound[n] + (TicksPerSec - 1) * quick[n]

(* The ticks of a day that lie before an instant, and a window before it.  *)
Reach(d, t) ==
  LET r == t - d * DayTicks + OnlineWindow IN
  IF r < 0 THEN 0 ELSE IF r > DayTicks - 1 + OnlineWindow THEN DayTicks - 1 + OnlineWindow ELSE r

(* Between two arrivals a node was never online longer than the time       *)
(* between them, and all of it if that is within a window.                 *)
Agrees(n, t1, t2) ==
  /\ 0 <= ideal[n][t2] - ideal[n][t1] /\ ideal[n][t2] - ideal[n][t1] <= t2 - t1
  /\ t2 - t1 <= OnlineWindow => ideal[n][t2] - ideal[n][t1] = t2 - t1

MarksRight(n) ==
  /\ \A t1, t2 \in Marks(n) : t1 <= t2 => Agrees(n, t1, t2)
  /\ \A t \in Marks(n) : newest[n] # NotSeen /\ t <= newest[n]
  /\ newest[n] # NotSeen => newest[n] <= now /\ ideal[n][now] = ideal[n][newest[n]]

TotalPaid(n) == \A t \in Points(n) : TicksPerSec * (credited[n] + Pending(n)) <= ideal[n][t] + Slack(n)
DayPaid(n, d) == \A t \in Points(n) : TicksPerSec * (up[n][d] + PendingDay(n, d)) <= Reach(d, t) + Slack(n)

BeatStates == [pc : {"idle", "arrived", "book"}, node : Fleet \cup {NotSeen}, at : Instants, secs : Nat]

UptimeTyped ==
  /\ now \in Instants
  /\ lastSeen \in [Fleet -> Instants \cup {NotSeen}] /\ newest \in [Fleet -> Instants \cup {NotSeen}]
  /\ up \in [Fleet -> [Days -> Nat]] /\ beat \in [Beats -> BeatStates]
  /\ \A b \in Beats : beat[b].pc # "idle" => beat[b].node \in Fleet /\ beat[b].at <= now
  /\ ideal \in [Fleet -> [Instants -> Nat]]
  /\ credited \in [Fleet -> Nat] /\ rewound \in [Fleet -> Nat] /\ quick \in [Fleet -> Nat]

UptimeInv ==
  /\ UptimeTyped
  /\ \A n \in Fleet : MarksRight(n) /\ TotalPaid(n) /\ \A d \in Days : DayPaid(n, d)

-----------------------------------------------------------------------------
LEMMA UptimeConstants ==
  /\ IsFiniteSet(Beats) /\ NotSeen \notin Int /\ NotSeen \notin Fleet
  /\ TicksPerSec \in Nat \ {0} /\ OnlineWindow \in Nat \ {0} /\ DayTicks \in Nat \ {0}
  /\ MaxTime \in Nat \ {0}
  /\ 0 \in Instants /\ Instants \subseteq Nat
BY UptimeAssumption, ClockAssumption DEF Instants

LEMMA TypedIsTypeOK == UptimeTyped <=> UptimeTypeOK
BY DEF UptimeTyped, UptimeTypeOK, Credit, BeatStates

LEMMA UptimeNats ==
  ASSUME UptimeTyped
  PROVE  /\ now \in Nat /\ 0 \in Instants /\ Instants \subseteq Nat /\ NotSeen \notin Nat /\ NotSeen \notin Instants
         /\ \A n \in Fleet : \A t \in Marks(n) : t \in Instants
         /\ \A n \in Fleet : \A t \in Points(n) : t \in Instants
<1>1. /\ lastSeen \in [Fleet -> Instants \cup {NotSeen}] /\ newest \in [Fleet -> Instants \cup {NotSeen}]
      /\ \A b \in Beats : beat[b].at \in Instants
      /\ now \in Instants
  BY DEF UptimeTyped, BeatStates
<1>2. now \in Nat /\ 0 \in Instants /\ Instants \subseteq Nat /\ NotSeen \notin Nat /\ NotSeen \notin Instants
  <2>1. 0 \in Instants /\ Instants \subseteq Nat /\ NotSeen \notin Int
    BY UptimeConstants
  <2>2. \A i \in Nat : i \in Int
    OBVIOUS
  <2> QED BY <1>1, <2>1, <2>2
<1>3. ASSUME NEW n \in Fleet, NEW t \in Marks(n) PROVE t \in Instants
  BY <1>1, <1>3 DEF Marks, Arrived
<1>4. ASSUME NEW n \in Fleet, NEW t \in Points(n) PROVE t \in Instants
  BY <1>1, <1>4 DEF Points, Arrived
<1> QED BY <1>2, <1>3, <1>4

LEMMA OwedNat ==
  ASSUME NEW w \in [Beats -> BeatStates], NEW n, NEW d
  PROVE  LET p == [b \in Beats |-> Granted(w[b], n)]
             q == [b \in Beats |-> GrantedOn(w[b], n, d)] IN
         /\ Summable(p, Beats) /\ Summable(q, Beats)
         /\ SumFunctionOnSet(p, Beats) \in Nat /\ SumFunctionOnSet(q, Beats) \in Nat
<1> DEFINE p == [b \in Beats |-> Granted(w[b], n)]
           q == [b \in Beats |-> GrantedOn(w[b], n, d)]
<1>1. \A b \in Beats : w[b].secs \in Nat
  BY DEF BeatStates
<1>2. \A b \in Beats : p[b] \in Nat /\ q[b] \in Nat /\ p[b] >= 0 /\ q[b] >= 0
  BY <1>1 DEF Granted, GrantedOn
<1> HIDE DEF p, q
<1>3. Summable(p, Beats) /\ Summable(q, Beats)
  BY <1>2, UptimeConstants DEF Summable
<1>4. {} \in SUBSET Beats
  OBVIOUS
<1>5. SumFunctionOnSet(p, {}) = 0 /\ SumFunctionOnSet(q, {}) = 0
  BY SumNothing
<1>6. SumFunctionOnSet(p, Beats) \in Int /\ SumFunctionOnSet(q, Beats) \in Int
  BY <1>3, SumInt
<1>7. SumFunctionOnSet(p, Beats) >= 0 /\ SumFunctionOnSet(q, Beats) >= 0
  BY <1>2, <1>3, <1>4, <1>5, SumLarger
<1>8. /\ Summable(p, Beats) /\ Summable(q, Beats)
      /\ SumFunctionOnSet(p, Beats) \in Nat /\ SumFunctionOnSet(q, Beats) \in Nat
  BY <1>3, <1>6, <1>7
<1> QED BY <1>8 DEF p, q

LEMMA PendSummable ==
  ASSUME UptimeTyped, NEW n, NEW d
  PROVE  /\ Summable(Pend(n), Beats) /\ Summable(PendDay(n, d), Beats)
         /\ Pending(n) \in Nat /\ PendingDay(n, d) \in Nat
<1>1. beat \in [Beats -> BeatStates]
  BY DEF UptimeTyped
<1> QED BY <1>1, OwedNat DEF Pending, PendingDay, Pend, PendDay

LEMMA PendingNat ==
  ASSUME UptimeTyped', NEW n, NEW d
  PROVE  Pending(n)' \in Nat /\ PendingDay(n, d)' \in Nat
<1>1. beat' \in [Beats -> BeatStates]
  BY DEF UptimeTyped
<1> QED BY <1>1, OwedNat DEF Pending, PendingDay, Pend, PendDay

(* One heartbeat changes what is pending by what it has pending.           *)
Becomes(b, r) == beat' = [beat EXCEPT ![b] = r]

LEMMA PendingMoves ==
  ASSUME UptimeTyped, NEW b \in Beats, NEW r \in BeatStates, Becomes(b, r), NEW n, NEW d
  PROVE  /\ Pending(n)' = Pending(n) - Granted(beat[b], n) + Granted(r, n)
         /\ PendingDay(n, d)' = PendingDay(n, d) - GrantedOn(beat[b], n, d) + GrantedOn(r, n, d)
         /\ {Granted(beat[b], n), Granted(r, n), GrantedOn(beat[b], n, d), GrantedOn(r, n, d)} \subseteq Nat
<1>1. beat \in [Beats -> BeatStates] /\ beat'[b] = r /\ \A c \in Beats \ {b} : beat'[c] = beat[c]
  BY DEF UptimeTyped, Becomes
<1>2. Summable(Pend(n), Beats) /\ Summable(PendDay(n, d), Beats)
  BY PendSummable
<1>3. r.secs \in Nat /\ beat[b].secs \in Nat
  BY <1>1 DEF BeatStates
<1>4. /\ \A c \in Beats \ {b} : Pend(n)[c] = Pend(n)'[c]
      /\ Pend(n)'[b] = Granted(r, n) /\ Pend(n)[b] = Granted(beat[b], n)
  BY <1>1 DEF Pend
<1>5. /\ \A c \in Beats \ {b} : PendDay(n, d)[c] = PendDay(n, d)'[c]
      /\ PendDay(n, d)'[b] = GrantedOn(r, n, d) /\ PendDay(n, d)[b] = GrantedOn(beat[b], n, d)
  BY <1>1 DEF PendDay
<1>6. {Granted(beat[b], n), Granted(r, n), GrantedOn(beat[b], n, d), GrantedOn(r, n, d)} \subseteq Nat
  BY <1>3 DEF Granted, GrantedOn
<1>7. Pending(n)' = SumFunctionOnSet(Pend(n)', Beats) /\ PendingDay(n, d)' = SumFunctionOnSet(PendDay(n, d)', Beats)
  BY DEF Pending, PendingDay
<1>8. SumFunctionOnSet(Pend(n)', Beats) = SumFunctionOnSet(Pend(n), Beats) - Pend(n)[b] + Pend(n)'[b]
  <2>1. Pend(n)'[b] \in Int
    BY <1>4, <1>6
  <2> QED BY <1>2, <1>4, <2>1, SumChange
<1>9. SumFunctionOnSet(PendDay(n, d)', Beats)
        = SumFunctionOnSet(PendDay(n, d), Beats) - PendDay(n, d)[b] + PendDay(n, d)'[b]
  <2>1. PendDay(n, d)'[b] \in Int
    BY <1>5, <1>6
  <2> QED BY <1>2, <1>5, <2>1, SumChange
<1> QED BY <1>4, <1>5, <1>6, <1>7, <1>8, <1>9 DEF Pending, PendingDay

(* A day reaches no further between two instants than the time between     *)
(* them; an instant of the day itself reaches all of it within a window.   *)
LEMMA ReachRight ==
  ASSUME NEW d \in Nat, NEW t \in Nat, NEW u \in Nat, t <= u
  PROVE  /\ Reach(d, t) \in Nat /\ Reach(d, t) <= DayTicks - 1 + OnlineWindow
         /\ Reach(d, t) <= Reach(d, u) /\ Reach(d, u) - Reach(d, t) <= u - t
         /\ Day(u) = d /\ u - t <= OnlineWindow => Reach(d, u) - Reach(d, t) = u - t
<1>1. DayTicks \in Nat \ {0} /\ OnlineWindow \in Nat \ {0}
  BY UptimeConstants
<1>2. DayTicks * Day(u) <= u /\ u < DayTicks * Day(u) + DayTicks
  BY <1>1, DivRight DEF Day
<1>3. DayTicks * d = d * DayTicks /\ d * DayTicks \in Int
  BY <1>1
<1> DEFINE p == d * DayTicks
<1>4. p \in Int /\ (Day(u) = d => p <= u /\ u < p + DayTicks)
  BY <1>2, <1>3
<1> HIDE DEF p
<1>5. /\ Reach(d, t) = (LET r == t - p + OnlineWindow IN IF r < 0 THEN 0 ELSE
                          IF r > DayTicks - 1 + OnlineWindow THEN DayTicks - 1 + OnlineWindow ELSE r)
      /\ Reach(d, u) = (LET r == u - p + OnlineWindow IN IF r < 0 THEN 0 ELSE
                          IF r > DayTicks - 1 + OnlineWindow THEN DayTicks - 1 + OnlineWindow ELSE r)
  BY DEF Reach, p
<1> QED BY <1>1, <1>4, <1>5

LEMMA ReachNat ==
  ASSUME NEW d \in Nat, NEW t \in Nat
  PROVE  Reach(d, t) \in Nat
<1>1. t <= t
  OBVIOUS
<1> QED BY <1>1, ReachRight

LEMMA DivMono ==
  ASSUME NEW a \in Nat, NEW b \in Nat, a <= b, NEW c \in Nat \ {0}
  PROVE  a \div c <= b \div c
<1>1. PICK p \in Nat : p = a \div c /\ c * p <= a
  BY DivRight
<1>2. PICK q \in Nat : q = b \div c /\ b < c * q + c
  BY DivRight
<1>3. ASSUME q + 1 <= p PROVE FALSE
  <2>1. c * (q + 1) <= c * p
    BY <1>3, TimesGrows
  <2>2. c * (q + 1) = c * q + c * 1 /\ c * q \in Int /\ c * p \in Int
    BY Times
  <2> QED BY <1>1, <1>2, <2>1, <2>2
<1> QED BY <1>1, <1>2, <1>3

LEMMA SecondsRight ==
  ASSUME NEW d \in Nat, d > 0
  PROVE  Seconds(d) \in Nat /\ TicksPerSec * Seconds(d) <= d + (IF d < TicksPerSec THEN TicksPerSec - 1 ELSE 0)
<1>1. TicksPerSec \in Nat \ {0}
  BY UptimeConstants
<1>2. CASE d < TicksPerSec
  BY <1>1, <1>2 DEF Seconds
<1>3. CASE ~(d < TicksPerSec)
  BY <1>1, <1>3, DivRight DEF Seconds
<1> QED BY <1>2, <1>3

-----------------------------------------------------------------------------
LEMMA UptimeInitInv == UptimeInit => UptimeInv
<1> SUFFICES ASSUME UptimeInit PROVE UptimeInv
  OBVIOUS
<1>1. /\ now = 0 /\ lastSeen = [n \in Fleet |-> NotSeen] /\ newest = [n \in Fleet |-> NotSeen]
      /\ up = [n \in Fleet |-> [d \in Days |-> 0]] /\ beat = [b \in Beats |-> NoBeat]
      /\ credited = [n \in Fleet |-> 0] /\ rewound = [n \in Fleet |-> 0] /\ quick = [n \in Fleet |-> 0]
      /\ ideal = [n \in Fleet |-> [t \in Instants |-> 0]]
  BY DEF UptimeInit, ClockInit
<1>2. NoBeat \in BeatStates /\ NoBeat.pc = "idle"
  BY UptimeConstants DEF NoBeat, BeatStates
<1>3. UptimeTyped
  BY <1>1, <1>2, UptimeConstants DEF UptimeTyped
<1>4. \A b \in Beats : beat[b].pc = "idle"
  BY <1>1, <1>2
<1>5. ASSUME NEW n \in Fleet PROVE MarksRight(n) /\ TotalPaid(n) /\ \A d \in Days : DayPaid(n, d)
  <2>1. Points(n) = {0} /\ Marks(n) = {} /\ newest[n] = NotSeen
    BY <1>1, <1>4 DEF Points, Marks, Arrived
  <2>2. MarksRight(n)
    BY <2>1 DEF MarksRight
  <2>3. Slack(n) = 0
    BY <1>1, UptimeConstants DEF Slack
  <2>4. ASSUME NEW d \in Nat PROVE Pending(n) = 0 /\ PendingDay(n, d) = 0 /\ Reach(d, 0) \in Nat
    <3>1. /\ \A b \in Beats : Pend(n)[b] = 0 /\ PendDay(n, d)[b] = 0
          /\ Summable(Pend(n), Beats) /\ Summable(PendDay(n, d), Beats)
      BY <1>3, <1>4, PendSummable DEF Pend, PendDay, Granted, GrantedOn
    <3>2. Pending(n) = 0 /\ PendingDay(n, d) = 0
      BY <3>1, SumZero DEF Pending, PendingDay
    <3> QED BY <3>2, ReachRight
  <2>5. Days \subseteq Nat
    BY DEF Days
  <2>6. TotalPaid(n)
    BY <1>1, <2>1, <2>3, <2>4, UptimeConstants DEF TotalPaid
  <2>7. ASSUME NEW d \in Days PROVE DayPaid(n, d)
    <3>1. PendingDay(n, d) = 0 /\ Reach(d, 0) \in Nat /\ up[n][d] = 0
      BY <1>1, <2>4, <2>5
    <3> QED BY <2>1, <2>3, <3>1, UptimeConstants DEF DayPaid
  <2> QED BY <2>2, <2>6, <2>7
<1> QED BY <1>3, <1>5 DEF UptimeInv

(* What neither books nor grants anything, leaves the books balanced.      *)
LEMMA PaidStays ==
  ASSUME UptimeInv, NEW n \in Fleet,
         UNCHANGED <<up[n], credited[n], rewound[n], quick[n]>>,
         Pending(n)' <= Pending(n), Pending(n)' \in Nat,
         \A d \in Days : PendingDay(n, d)' <= PendingDay(n, d) /\ PendingDay(n, d)' \in Nat,
         \A t \in Points(n)' : /\ t \in Nat
                             /\ \E u \in Points(n) : u \in Nat /\ u <= t /\ ideal[n][u] <= ideal[n]'[t]
                                                      /\ ideal[n]'[t] \in Int
  PROVE  TotalPaid(n)' /\ \A d \in Days : DayPaid(n, d)'
<1>0. /\ UptimeTyped /\ TotalPaid(n) /\ \A d \in Days : DayPaid(n, d)
      /\ TicksPerSec \in Nat
  BY UptimeConstants DEF UptimeInv
<1>1. Slack(n)' = Slack(n) /\ Slack(n) \in Int
  BY <1>0, UptimeConstants DEF UptimeTyped, Slack
<1>2. credited[n] \in Nat /\ \A d \in Days : up[n][d] \in Nat /\ d \in Nat
  <2>1. credited \in [Fleet -> Nat] /\ up \in [Fleet -> [Days -> Nat]]
    BY <1>0 DEF UptimeTyped
  <2>2. Days \subseteq Nat
    BY DEF Days
  <2> QED BY <2>1, <2>2
<1>3. ASSUME NEW t \in Points(n)'
      PROVE  TicksPerSec * (credited[n] + Pending(n))' <= ideal[n]'[t] + Slack(n)'
  <2>1. PICK u \in Points(n) : u \in Nat /\ u <= t /\ ideal[n][u] <= ideal[n]'[t] /\ ideal[n]'[t] \in Int
    OBVIOUS
  <2>2. TicksPerSec * (credited[n] + Pending(n)) <= ideal[n][u] + Slack(n)
    BY <1>0, <2>1 DEF TotalPaid
  <2>3. Pending(n) \in Nat
    BY <1>0, PendSummable
  <2>4. credited[n] + Pending(n)' <= credited[n] + Pending(n)
    BY <1>2, <2>3
  <2>5. TicksPerSec * (credited[n] + Pending(n)') <= TicksPerSec * (credited[n] + Pending(n))
    BY <1>0, <1>2, <2>3, <2>4, TimesGrows
  <2>6. TicksPerSec * (credited[n] + Pending(n)') \in Int /\ TicksPerSec * (credited[n] + Pending(n)) \in Int
    BY <1>0, <1>2, <2>3
  <2>7. ideal[n][u] \in Int
    <3>1. u \in Instants
      BY <1>0, UptimeNats
    <3> QED BY <1>0, <3>1 DEF UptimeTyped
  <2> QED BY <1>1, <2>1, <2>2, <2>5, <2>6, <2>7
<1>4. ASSUME NEW d \in Days, NEW t \in Points(n)'
      PROVE  TicksPerSec * (up[n][d] + PendingDay(n, d))' <= Reach(d, t) + Slack(n)'
  <2>1. PICK u \in Points(n) : u \in Nat /\ u <= t /\ t \in Nat
    OBVIOUS
  <2>2. TicksPerSec * (up[n][d] + PendingDay(n, d)) <= Reach(d, u) + Slack(n)
    BY <1>0, <2>1 DEF DayPaid
  <2>3. PendingDay(n, d) \in Nat /\ up[n][d] \in Nat
    BY <1>0, <1>2, PendSummable
  <2>4. up[n][d] + PendingDay(n, d)' <= up[n][d] + PendingDay(n, d)
    BY <2>3
  <2>5. TicksPerSec * (up[n][d] + PendingDay(n, d)') <= TicksPerSec * (up[n][d] + PendingDay(n, d))
    BY <1>0, <2>3, <2>4, TimesGrows
  <2>6. /\ TicksPerSec * (up[n][d] + PendingDay(n, d)') \in Int
        /\ TicksPerSec * (up[n][d] + PendingDay(n, d)) \in Int
    BY <1>0, <2>3
  <2>7. Reach(d, u) <= Reach(d, t) /\ Reach(d, u) \in Nat /\ Reach(d, t) \in Nat
    BY <1>2, <2>1, ReachRight
  <2> QED BY <1>1, <2>2, <2>5, <2>6, <2>7
<1>5. TotalPaid(n)'
  BY <1>3 DEF TotalPaid
<1>6. ASSUME NEW d \in Days PROVE DayPaid(n, d)'
  <2>1. \A t : Reach(d, t)' = Reach(d, t)
    BY DEF Reach
  <2> QED BY <1>4, <2>1 DEF DayPaid
<1> QED BY <1>5, <1>6

(* A heartbeat that arrives is one more mark.                              *)
LEMMA ArrivesStep ==
  ASSUME UptimeInv, NEW b \in Beats, NEW m \in Fleet, BeatArrives(b, m)
  PROVE  UptimeInv'
<1> DEFINE r == [NoBeat EXCEPT !.pc = "arrived", !.node = m, !.at = now]
<1>0. /\ beat[b].pc = "idle" /\ beat' = [beat EXCEPT ![b] = r]
      /\ newest' = [newest EXCEPT ![m] = now]
      /\ ideal' = [ideal EXCEPT ![m][now] = IdealAt(m)]
      /\ UNCHANGED <<now, lastSeen, up, credited, rewound, quick>>
  BY DEF BeatArrives
<1>1. /\ UptimeTyped /\ now \in Instants
      /\ newest \in [Fleet -> Instants \cup {NotSeen}]
      /\ beat \in [Beats -> BeatStates]
      /\ \A c \in Beats : beat[c].pc # "idle" => beat[c].node \in Fleet /\ beat[c].at <= now
      /\ ideal \in [Fleet -> [Instants -> Nat]]
  BY DEF UptimeInv, UptimeTyped
<1>2. /\ now \in Nat /\ Instants \subseteq Nat /\ NotSeen \notin Nat /\ NotSeen \notin Instants
      /\ \A n \in Fleet : \A t \in Marks(n) : t \in Instants
      /\ \A n \in Fleet : \A t \in Points(n) : t \in Instants
      /\ OnlineWindow \in Nat
  BY <1>1, UptimeNats, UptimeConstants
<1>3. r \in BeatStates /\ r.pc = "arrived" /\ r.node = m /\ r.at = now
  <2>1. 0 \in Instants
    BY UptimeConstants
  <2> QED BY <1>1, <2>1 DEF NoBeat, BeatStates
<1> HIDE DEF r
(* What the newest arrival before it adds.                                 *)
<1> DEFINE g == IF newest[m] # NotSeen /\ now - newest[m] <= OnlineWindow THEN now - newest[m] ELSE 0
<1>4. MarksRight(m)
  BY DEF UptimeInv
<1>5. newest[m] # NotSeen => newest[m] \in Instants /\ newest[m] \in Nat /\ newest[m] <= now
  BY <1>1, <1>2, <1>4 DEF MarksRight
<1>6. g \in Nat /\ ideal[m][now] \in Nat /\ IdealAt(m) = ideal[m][now] + g
  BY <1>1, <1>2, <1>5 DEF IdealAt
<1>7. /\ ideal' \in [Fleet -> [Instants -> Nat]]
      /\ ideal'[m][now] = ideal[m][now] + g
      /\ \A t \in Instants : t # now => ideal'[m][t] = ideal[m][t]
      /\ \A n \in Fleet : n # m => ideal'[n] = ideal[n]
  BY <1>0, <1>1, <1>6
<1>8. beat' \in [Beats -> BeatStates] /\ beat'[b] = r /\ \A c \in Beats : c # b => beat'[c] = beat[c]
  BY <1>0, <1>1, <1>3
<1>9. UptimeTyped'
  <2>1. \A c \in Beats : beat'[c].pc # "idle" => beat'[c].node \in Fleet /\ beat'[c].at <= now
    BY <1>1, <1>2, <1>3, <1>8
  <2>2. newest' \in [Fleet -> Instants \cup {NotSeen}]
    BY <1>0, <1>1
  <2> QED BY <1>0, <1>1, <1>7, <1>8, <2>1, <2>2 DEF UptimeTyped
<1>10. ASSUME NEW n \in Fleet, NEW d PROVE Pending(n)' = Pending(n) /\ PendingDay(n, d)' = PendingDay(n, d)
  <2>1. Pending(n) \in Nat /\ PendingDay(n, d) \in Nat
    BY <1>1, PendSummable
  <2>2. Becomes(b, r)
    BY <1>0 DEF Becomes
  <2>3. /\ Pending(n)' = Pending(n) - Granted(beat[b], n) + Granted(r, n)
        /\ PendingDay(n, d)' = PendingDay(n, d) - GrantedOn(beat[b], n, d) + GrantedOn(r, n, d)
    BY <1>1, <1>3, <2>2, PendingMoves
  <2>4. Granted(beat[b], n) = 0 /\ Granted(r, n) = 0 /\ GrantedOn(beat[b], n, d) = 0 /\ GrantedOn(r, n, d) = 0
    BY <1>0, <1>3 DEF Granted, GrantedOn
  <2> QED BY <2>1, <2>3, <2>4
<1>11. ASSUME NEW n \in Fleet PROVE TotalPaid(n)' /\ \A d \in Days : DayPaid(n, d)'
  <2>1. ASSUME NEW t \in Points(n)'
        PROVE  t \in Points(n) /\ t \in Nat /\ ideal[n][t] <= ideal[n]'[t] /\ ideal[n]'[t] \in Int
    <3>1. lastSeen' = lastSeen /\ now' = now
      BY <1>0
    <3>2. t \in Points(n)
      <4>1. CASE lastSeen[n] # NotSeen
        BY <3>1, <4>1 DEF Points
      <4>2. CASE lastSeen[n] = NotSeen
        <5>1. CASE t = now
          BY <4>2, <5>1 DEF Points
        <5>2. ASSUME NEW c \in Arrived(n)', t = beat'[c].at PROVE t \in Points(n)
          <6>1. CASE c = b
            BY <1>3, <1>8, <4>2, <5>2, <6>1 DEF Points
          <6>2. CASE c # b
            <7>1. c \in Arrived(n) /\ t = beat[c].at
              BY <1>8, <5>2, <6>2 DEF Arrived
            <7> QED BY <4>2, <7>1 DEF Points
          <6> QED BY <6>1, <6>2
        <5> QED BY <3>1, <4>2, <5>1, <5>2 DEF Points
      <4> QED BY <4>1, <4>2
    <3>3. t \in Instants /\ t \in Nat
      BY <1>2, <3>2
    <3>4. ideal[n][t] \in Nat /\ ideal'[n][t] \in Nat
      BY <1>1, <1>7, <3>3
    <3>5. ideal[n][t] <= ideal'[n][t]
      BY <1>6, <1>7, <3>3, <3>4
    <3> QED BY <3>2, <3>3, <3>4, <3>5
  <2>2. \A t \in Points(n)' : /\ t \in Nat
                            /\ \E u \in Points(n) : /\ u \in Nat /\ u <= t /\ ideal[n][u] <= ideal[n]'[t]
                                                    /\ ideal[n]'[t] \in Int
    BY <2>1
  <2>3. /\ Pending(n)' <= Pending(n) /\ Pending(n)' \in Nat
        /\ \A d \in Days : PendingDay(n, d)' <= PendingDay(n, d) /\ PendingDay(n, d)' \in Nat
    BY <1>1, <1>10, PendSummable
  <2>4. UNCHANGED <<up[n], credited[n], rewound[n], quick[n]>>
    BY <1>0
  <2> QED BY <2>2, <2>3, <2>4, PaidStays
<1>12. ASSUME NEW n \in Fleet, n # m PROVE MarksRight(n)'
  <2>1. Marks(n)' = Marks(n)
    <3>1. Arrived(n)' = Arrived(n) /\ \A c \in Arrived(n) : beat'[c] = beat[c]
      BY <1>0, <1>3, <1>8, <1>12 DEF Arrived
    <3>2. newest'[n] = newest[n] /\ lastSeen' = lastSeen
      BY <1>0, <1>1, <1>12
    <3> QED BY <3>1, <3>2 DEF Marks
  <2>2. ideal'[n] = ideal[n] /\ newest'[n] = newest[n] /\ now' = now
    BY <1>0, <1>1, <1>7, <1>12
  <2>3. MarksRight(n)
    BY DEF UptimeInv
  <2> QED BY <2>1, <2>2, <2>3 DEF MarksRight, Agrees
<1>13. MarksRight(m)'
  <2>1. \A t \in Marks(m)' : t \in Marks(m) \/ t = now
    <3>1. \A c \in Arrived(m)' : c = b \/ (c \in Arrived(m) /\ beat'[c] = beat[c])
      BY <1>8 DEF Arrived
    <3>2. newest'[m] = now /\ lastSeen' = lastSeen /\ beat'[b].at = now
      BY <1>0, <1>1, <1>3, <1>8
    <3> QED BY <3>1, <3>2 DEF Marks
  <2>2. newest'[m] = now /\ now' = now /\ newest'[m] # NotSeen
    BY <1>0, <1>1, <1>2
  <2>3. \A t \in Marks(m) : /\ t \in Instants /\ t \in Nat /\ t <= newest[m] /\ newest[m] # NotSeen
                           /\ newest[m] \in Nat /\ newest[m] <= now /\ t <= now
    <3>1. \A t \in Marks(m) : t \in Instants /\ t \in Nat /\ t <= newest[m] /\ newest[m] # NotSeen
      BY <1>2, <1>4 DEF MarksRight
    <3> HIDE DEF g
    <3> QED BY <1>2, <1>5, <3>1
  <2>4. ASSUME NEW t1 \in Marks(m), NEW t2 \in Marks(m), t1 <= t2, t2 # now PROVE Agrees(m, t1, t2)'
    <3>1. Agrees(m, t1, t2)
      BY <1>4, <2>4 DEF MarksRight
    <3>2. t1 # now /\ t1 \in Instants /\ t2 \in Instants
      <4>1. t1 \in Nat /\ t2 \in Nat /\ t2 <= now /\ t1 \in Instants /\ t2 \in Instants
        BY <2>3
      <4> QED BY <1>2, <2>4, <4>1
    <3>3. ideal'[m][t1] = ideal[m][t1] /\ ideal'[m][t2] = ideal[m][t2]
      BY <1>7, <2>4, <3>2
    <3> QED BY <3>1, <3>3 DEF Agrees
  <2>5. ASSUME NEW t1 \in Marks(m), t1 # now PROVE Agrees(m, t1, now)'
    <3>1. /\ t1 \in Instants /\ t1 \in Nat /\ t1 <= now /\ t1 <= newest[m] /\ newest[m] # NotSeen
          /\ newest[m] \in Nat /\ newest[m] <= now
      BY <2>3
    <3>2. newest[m] \in Marks(m) /\ ideal[m][now] = ideal[m][newest[m]]
      BY <1>4, <3>1 DEF Marks, MarksRight
    <3>3. Agrees(m, t1, newest[m])
      BY <1>4, <3>1, <3>2 DEF MarksRight
    <3>4. ideal'[m][t1] = ideal[m][t1] /\ ideal'[m][now] = ideal[m][newest[m]] + g
      BY <1>7, <2>5, <3>1, <3>2
    <3>5. ideal[m][t1] \in Nat /\ ideal[m][newest[m]] \in Nat
      <4>1. newest[m] \in Instants
        BY <1>2, <3>2
      <4> QED BY <1>1, <3>1, <4>1
    <3>6. g = IF now - newest[m] <= OnlineWindow THEN now - newest[m] ELSE 0
      BY <3>1
    <3> DEFINE x == ideal[m][t1]
               y == ideal[m][newest[m]]
               w == newest[m]
    <3>7. /\ x \in Nat /\ y \in Nat /\ w \in Nat /\ t1 <= w /\ w <= now
          /\ 0 <= y - x /\ y - x <= w - t1 /\ (w - t1 <= OnlineWindow => y - x = w - t1)
          /\ g = IF now - w <= OnlineWindow THEN now - w ELSE 0
      BY <3>1, <3>3, <3>5, <3>6 DEF Agrees
    <3> HIDE DEF g, x, y, w
    <3>8. /\ 0 <= y + g - x /\ y + g - x <= now - t1
          /\ now - t1 <= OnlineWindow => y + g - x = now - t1
      BY <1>2, <3>1, <3>7
    <3>9. ideal'[m][t1] = x /\ ideal'[m][now] = y + g
      BY <3>4 DEF x, y
    <3>10. x \in Nat /\ y + g \in Nat /\ g \in Nat /\ y \in Nat /\ OnlineWindow \in Nat /\ now \in Nat /\ t1 \in Nat
      BY <1>2, <1>6, <3>1, <3>7
    <3> DEFINE z == y + g
    <3>11. z \in Nat /\ 0 <= z - x /\ z - x <= now - t1 /\ (now - t1 <= OnlineWindow => z - x = now - t1)
      BY <3>7, <3>8, <3>10
    <3>12. ideal'[m][t1] = x /\ ideal'[m][now'] = z /\ now' = now
      BY <2>2, <3>9
    <3> HIDE DEF z
    <3> QED BY <3>10, <3>11, <3>12 DEF Agrees
  <2>6. Agrees(m, now, now)'
    <3>1. ideal'[m][now] \in Nat
      BY <1>1, <1>7
    <3> QED BY <1>2, <2>2, <3>1 DEF Agrees
  <2>7. ASSUME NEW t1 \in Marks(m)', NEW t2 \in Marks(m)', t1 <= t2 PROVE Agrees(m, t1, t2)'
    <3>0. now' = now
      BY <1>0
    <3>1. CASE t2 = now /\ t1 = now
      BY <2>6, <3>0, <3>1 DEF Agrees
    <3>2. CASE t2 = now /\ t1 # now
      <4>1. t1 \in Marks(m)
        BY <2>1, <3>2
      <4>2. Agrees(m, t1, now)'
        BY <2>5, <3>2, <4>1
      <4> QED BY <3>0, <3>2, <4>2 DEF Agrees
    <3>3. CASE t2 # now
      <4>1. t2 \in Marks(m) /\ t2 <= now /\ t2 \in Nat
        BY <2>1, <2>3, <3>3
      <4>2. t1 # now
        BY <1>2, <2>7, <3>3, <4>1
      <4>3. t1 \in Marks(m)
        BY <2>1, <4>2
      <4> QED BY <2>4, <2>7, <3>3, <4>1, <4>3
    <3> QED BY <3>1, <3>2, <3>3
  <2>8. \A t \in Marks(m)' : newest'[m] # NotSeen /\ t <= newest'[m]
    BY <1>2, <2>1, <2>2, <2>3
  <2>9. newest'[m] # NotSeen => newest'[m] <= now' /\ ideal'[m][now'] = ideal'[m][newest'[m]]
    BY <1>2, <2>2
  <2> QED BY <2>7, <2>8, <2>9 DEF MarksRight
<1>14. \A n \in Fleet : MarksRight(n)'
  BY <1>12, <1>13
<1>15. Days' = Days
  BY DEF Days, Day
<1> QED BY <1>9, <1>11, <1>14, <1>15 DEF UptimeInv

(* A mark is no later than now, and counts no more than now does.          *)
LEMMA MarkAgrees ==
  ASSUME UptimeInv, NEW n \in Fleet, NEW t \in Marks(n)
  PROVE  /\ t \in Nat /\ t \in Instants /\ now \in Nat /\ t <= now
         /\ ideal[n][t] \in Nat /\ ideal[n][now] \in Nat /\ ideal[n][t] <= ideal[n][now]
<1>1. /\ UptimeTyped /\ MarksRight(n) /\ now \in Instants
      /\ ideal \in [Fleet -> [Instants -> Nat]]
      /\ newest \in [Fleet -> Instants \cup {NotSeen}]
  BY DEF UptimeInv, UptimeTyped
<1>2. t \in Nat /\ t \in Instants /\ now \in Nat /\ Instants \subseteq Nat
  BY <1>1, UptimeNats
<1>3. newest[n] # NotSeen /\ t <= newest[n] /\ newest[n] <= now /\ ideal[n][now] = ideal[n][newest[n]]
  BY <1>1 DEF MarksRight
<1>4. newest[n] \in Instants /\ newest[n] \in Nat /\ newest[n] \in Marks(n)
  BY <1>1, <1>2, <1>3 DEF Marks
<1>5. Agrees(n, t, newest[n])
  BY <1>1, <1>3, <1>4 DEF MarksRight
<1>6. ideal[n][t] \in Nat /\ ideal[n][newest[n]] \in Nat
  BY <1>1, <1>2, <1>4
<1> QED BY <1>2, <1>3, <1>4, <1>5, <1>6 DEF Agrees

(* The marks of a node that gains none stay right.                         *)
LEMMA MarksStay ==
  ASSUME NEW n, MarksRight(n), Marks(n)' \subseteq Marks(n),
         ideal'[n] = ideal[n], newest'[n] = newest[n], now' = now
  PROVE  MarksRight(n)'
BY DEF MarksRight, Agrees

(* A heartbeat that was granted time no longer counts.                     *)
LEMMA Granting ==
  ASSUME UptimeInv, NEW b \in Beats, beat[b].pc = "book", Becomes(b, NoBeat),
         UNCHANGED <<now, lastSeen, newest, ideal, rewound, quick>>
  PROVE  /\ NoBeat \in BeatStates
         /\ beat' \in [Beats -> BeatStates]
         /\ \A c \in Beats : beat'[c].pc # "idle" => beat'[c].node \in Fleet /\ beat'[c].at <= now
         /\ \A n \in Fleet : MarksRight(n)' /\ Points(n)' = Points(n)
         /\ \A n : Granted(NoBeat, n) = 0 /\ \A d : GrantedOn(NoBeat, n, d) = 0
<1>1. NoBeat \in BeatStates /\ NoBeat.pc = "idle"
  BY UptimeConstants DEF NoBeat, BeatStates
<1>2. /\ beat \in [Beats -> BeatStates] 
      /\ \A c \in Beats : beat[c].pc # "idle" => beat[c].node \in Fleet /\ beat[c].at <= now
  BY DEF UptimeInv, UptimeTyped
<1>3. beat' \in [Beats -> BeatStates] /\ beat'[b] = NoBeat /\ \A c \in Beats : c # b => beat'[c] = beat[c]
  BY <1>1, <1>2 DEF Becomes
<1>4. \A c \in Beats : beat'[c].pc # "idle" => beat'[c].node \in Fleet /\ beat'[c].at <= now
  BY <1>1, <1>2, <1>3
<1>5. ASSUME NEW n \in Fleet PROVE MarksRight(n)' /\ Points(n)' = Points(n)
  <2>1. Arrived(n)' = Arrived(n) /\ \A c \in Arrived(n) : beat'[c] = beat[c]
    BY <1>1, <1>3 DEF Arrived
  <2>2. Marks(n)' = Marks(n)
    BY <2>1 DEF Marks
  <2>3. Points(n)' = Points(n)
    BY <2>1 DEF Points
  <2>4. MarksRight(n) /\ Marks(n)' \subseteq Marks(n)
    BY <2>2 DEF UptimeInv
  <2> QED BY <2>3, <2>4, MarksStay
<1>6. \A n : Granted(NoBeat, n) = 0 /\ \A d : GrantedOn(NoBeat, n, d) = 0
  BY <1>1 DEF Granted, GrantedOn
<1> QED BY <1>1, <1>3, <1>4, <1>5, <1>6

LEMMA FailsStep ==
  ASSUME UptimeInv, NEW b \in Beats, upsertUptimeFails(b)
  PROVE  UptimeInv'
<1>1. /\ Becomes(b, NoBeat) /\ beat[b].pc = "book"
      /\ UNCHANGED <<now, lastSeen, up, credited, newest, ideal, rewound, quick>>
  BY DEF upsertUptimeFails, Becomes
<1>2. /\ beat' \in [Beats -> BeatStates] /\ NoBeat \in BeatStates
      /\ \A c \in Beats : beat'[c].pc # "idle" => beat'[c].node \in Fleet /\ beat'[c].at <= now
      /\ \A n \in Fleet : MarksRight(n)' /\ Points(n)' = Points(n)
      /\ \A n : Granted(NoBeat, n) = 0 /\ \A d : GrantedOn(NoBeat, n, d) = 0
  BY <1>1, Granting
<1>3. UptimeTyped
  BY DEF UptimeInv
<1>4. UptimeTyped'
  BY <1>1, <1>2, <1>3 DEF UptimeTyped
<1>5. ASSUME NEW n \in Fleet PROVE TotalPaid(n)' /\ \A d \in Days : DayPaid(n, d)'
  <2>1. ASSUME NEW d
        PROVE  /\ Pending(n)' <= Pending(n) /\ PendingDay(n, d)' <= PendingDay(n, d)
               /\ Pending(n)' \in Int /\ PendingDay(n, d)' \in Int
    <3>1. Pending(n) \in Nat /\ PendingDay(n, d) \in Nat
      BY <1>3, PendSummable
    <3>2. /\ Pending(n)' = Pending(n) - Granted(beat[b], n) + Granted(NoBeat, n)
          /\ PendingDay(n, d)' = PendingDay(n, d) - GrantedOn(beat[b], n, d) + GrantedOn(NoBeat, n, d)
          /\ {Granted(beat[b], n), Granted(NoBeat, n), GrantedOn(beat[b], n, d), GrantedOn(NoBeat, n, d)} \subseteq Nat
      BY <1>1, <1>2, <1>3, PendingMoves
    <3> QED BY <1>2, <3>1, <3>2
  <2>2. Pending(n)' \in Nat /\ \A d : PendingDay(n, d)' \in Nat
    BY <1>4, PendingNat
  <2>3. ASSUME NEW t \in Points(n)'
        PROVE  t \in Points(n) /\ t \in Nat /\ ideal[n][t] <= ideal'[n][t] /\ ideal'[n][t] \in Int
    <3>1. t \in Points(n) /\ ideal' = ideal
      BY <1>1, <1>2
    <3>2. t \in Instants /\ t \in Nat
      BY <1>3, <3>1, UptimeNats
    <3>3. ideal[n][t] \in Nat
      BY <1>3, <3>2 DEF UptimeTyped
    <3> QED BY <3>1, <3>2, <3>3
  <2>4. UNCHANGED <<up[n], credited[n], rewound[n], quick[n]>>
    BY <1>1
  <2> QED BY <2>1, <2>2, <2>3, <2>4, PaidStays
<1>6. Days' = Days
  BY DEF Days, Day
<1> QED BY <1>2, <1>4, <1>5, <1>6 DEF UptimeInv

(* What is booked is no longer pending: the sum of the two stays.          *)
LEMMA BooksStep ==
  ASSUME UptimeInv, NEW b \in Beats, upsertUptime(b)
  PROVE  UptimeInv'
<1> DEFINE m == beat[b].node
           e == Day(beat[b].at)
           secs == beat[b].secs
<1>1. /\ Becomes(b, NoBeat) /\ beat[b].pc = "book"
      /\ up' = [up EXCEPT ![m][e] = @ + secs]
      /\ credited' = [credited EXCEPT ![m] = @ + secs]
      /\ UNCHANGED <<now, lastSeen, newest, ideal, rewound, quick>>
  BY DEF upsertUptime, Becomes
<1>2. /\ beat' \in [Beats -> BeatStates] /\ NoBeat \in BeatStates
      /\ \A c \in Beats : beat'[c].pc # "idle" => beat'[c].node \in Fleet /\ beat'[c].at <= now
      /\ \A n \in Fleet : MarksRight(n)' /\ Points(n)' = Points(n)
      /\ \A n : Granted(NoBeat, n) = 0 /\ \A d : GrantedOn(NoBeat, n, d) = 0
  BY <1>1, Granting
<1>3. /\ UptimeTyped /\ up \in [Fleet -> [Days -> Nat]] /\ credited \in [Fleet -> Nat]
      /\ beat \in [Beats -> BeatStates] /\ m \in Fleet
  BY <1>1 DEF UptimeInv, UptimeTyped
<1>4. /\ secs \in Nat /\ Granted(beat[b], m) = secs /\ GrantedOn(beat[b], m, e) = secs
      /\ \A n : n # m => Granted(beat[b], n) = 0
      /\ \A n, d : n # m \/ d # e => GrantedOn(beat[b], n, d) = 0
  BY <1>1, <1>3 DEF BeatStates, Granted, GrantedOn
<1> HIDE DEF m, e, secs
<1>5. /\ credited' \in [Fleet -> Nat] /\ credited'[m] = credited[m] + secs
      /\ \A n \in Fleet : n # m => credited'[n] = credited[n]
  BY <1>1, <1>3, <1>4
<1>6. /\ \A n \in Fleet : n # m => up'[n] = up[n]
      /\ \A d \in Days : up'[m][d] = IF d = e THEN up[m][d] + secs ELSE up[m][d]
      /\ up' \in [Fleet -> [Days -> Nat]]
  <2> DEFINE row == [up[m] EXCEPT ![e] = @ + secs]
  <2>1. up[m] \in [Days -> Nat]
    BY <1>3
  <2>2. row \in [Days -> Nat] /\ \A d \in Days : row[d] = IF d = e THEN up[m][d] + secs ELSE up[m][d]
    <3>1. row = [d \in Days |-> IF d = e THEN up[m][d] + secs ELSE up[m][d]]
      BY <2>1
    <3> HIDE DEF row
    <3>2. \A d \in Days : up[m][d] \in Nat /\ up[m][d] + secs \in Nat
      BY <1>4, <2>1
    <3>3. \A d \in Days : (IF d = e THEN up[m][d] + secs ELSE up[m][d]) \in Nat
      BY <3>2
    <3> QED BY <3>1, <3>3
  <2>3. up' = [up EXCEPT ![m] = row]
    BY <1>1
  <2> HIDE DEF row
  <2> QED BY <1>3, <2>2, <2>3
<1>7. UptimeTyped'
  BY <1>1, <1>2, <1>3, <1>5, <1>6 DEF UptimeTyped
<1>8. ASSUME NEW n \in Fleet PROVE TotalPaid(n)' /\ \A d \in Days : DayPaid(n, d)'
  <2>1. TotalPaid(n) /\ \A d \in Days : DayPaid(n, d)
    BY DEF UptimeInv
  <2>2. ASSUME NEW d \in Days
        PROVE  /\ credited'[n] + Pending(n)' = credited[n] + Pending(n)
               /\ up'[n][d] + PendingDay(n, d)' = up[n][d] + PendingDay(n, d)
    <3>1. Pending(n) \in Nat /\ PendingDay(n, d) \in Nat
      BY <1>3, PendSummable
    <3>2. /\ Pending(n)' = Pending(n) - Granted(beat[b], n) + Granted(NoBeat, n)
          /\ PendingDay(n, d)' = PendingDay(n, d) - GrantedOn(beat[b], n, d) + GrantedOn(NoBeat, n, d)
      BY <1>1, <1>2, <1>3, PendingMoves
    <3>3. credited[n] \in Nat /\ up[n][d] \in Nat
      BY <1>3
    <3>4. CASE n # m
      BY <1>2, <1>4, <1>5, <1>6, <3>1, <3>2, <3>3, <3>4
    <3>5. CASE n = m
      <4>1. credited'[n] + Pending(n)' = credited[n] + Pending(n)
        BY <1>2, <1>4, <1>5, <3>1, <3>2, <3>3, <3>5
      <4>2. CASE d = e
        BY <1>2, <1>4, <1>6, <3>1, <3>2, <3>3, <3>5, <4>1, <4>2
      <4>3. CASE d # e
        <5>1. GrantedOn(beat[b], n, d) = 0
          BY <1>4, <4>3
        <5> QED BY <1>2, <1>6, <3>1, <3>2, <3>3, <3>5, <4>1, <4>3, <5>1
      <4> QED BY <4>2, <4>3
    <3> QED BY <3>4, <3>5
  <2>3. Slack(n)' = Slack(n) /\ Points(n)' = Points(n) /\ ideal' = ideal
    BY <1>1, <1>2 DEF Slack
  <2>4. \E d \in Days : TRUE
    <3>1. 0 \in Days
      BY UptimeConstants, DivRight DEF Days, Day
    <3> QED BY <3>1
  <2>5. TotalPaid(n)'
    BY <2>1, <2>2, <2>3, <2>4 DEF TotalPaid
  <2>6. ASSUME NEW d \in Days PROVE DayPaid(n, d)'
    <3>1. \A t : Reach(d, t)' = Reach(d, t)
      BY DEF Reach
    <3> QED BY <2>1, <2>2, <2>3, <3>1 DEF DayPaid
  <2> QED BY <2>5, <2>6
<1>9. Days' = Days
  BY DEF Days, Day
<1> QED BY <1>2, <1>7, <1>8, <1>9 DEF UptimeInv

(* A new process reckons from its first heartbeats, which are not earlier  *)
(* than any before.                                                        *)
LEMMA RestartStep ==
  ASSUME UptimeInv, UptimeRestart
  PROVE  UptimeInv'
<1>1. /\ lastSeen' = [n \in Fleet |-> NotSeen] /\ beat' = [b \in Beats |-> NoBeat]
      /\ UNCHANGED <<now, up, credited, newest, ideal, rewound, quick>>
  BY DEF UptimeRestart
<1>2. NoBeat \in BeatStates /\ NoBeat.pc = "idle"
  BY UptimeConstants DEF NoBeat, BeatStates
<1>3. UptimeTyped
  BY DEF UptimeInv
<1>4. beat' \in [Beats -> BeatStates] /\ \A c \in Beats : beat'[c].pc = "idle"
  BY <1>1, <1>2
<1>5. UptimeTyped'
  BY <1>1, <1>3, <1>4 DEF UptimeTyped
<1>6. ASSUME NEW n \in Fleet PROVE MarksRight(n)' /\ Points(n)' = {now}
  <2>1. Arrived(n)' = {} /\ lastSeen'[n] = NotSeen
    BY <1>1, <1>4 DEF Arrived
  <2>2. Marks(n)' \subseteq Marks(n)
    BY <1>1, <2>1 DEF Marks
  <2>3. MarksRight(n)
    BY DEF UptimeInv
  <2>4. MarksRight(n)'
    BY <1>1, <2>2, <2>3, MarksStay
  <2> QED BY <1>1, <2>1, <2>4 DEF Points
<1>7. ASSUME NEW n \in Fleet PROVE TotalPaid(n)' /\ \A d \in Days : DayPaid(n, d)'
  <2>1. ASSUME NEW d
        PROVE  /\ Pending(n)' <= Pending(n) /\ PendingDay(n, d)' <= PendingDay(n, d)
               /\ Pending(n)' \in Nat /\ PendingDay(n, d)' \in Nat
    <3>1. Pending(n) \in Nat /\ PendingDay(n, d) \in Nat
      BY <1>3, PendSummable
    <3> DEFINE p == [b \in Beats |-> Granted(beat'[b], n)]
               q == [b \in Beats |-> GrantedOn(beat'[b], n, d)]
    <3>2. \A b \in Beats : p[b] = 0 /\ q[b] = 0
      BY <1>4 DEF Granted, GrantedOn
    <3>3. Pending(n)' = SumFunctionOnSet(p, Beats) /\ PendingDay(n, d)' = SumFunctionOnSet(q, Beats)
      BY DEF Pending, PendingDay, Pend, PendDay
    <3> HIDE DEF p, q
    <3>4. Summable(p, Beats) /\ Summable(q, Beats)
      BY <3>2, UptimeConstants DEF Summable
    <3>5. Pending(n)' = 0 /\ PendingDay(n, d)' = 0
      BY <3>2, <3>3, <3>4, SumZero
    <3> QED BY <3>1, <3>5
  <2>2. now \in Nat /\ now \in Instants
    BY <1>3, UptimeNats DEF UptimeTyped
  <2>3. ideal[n][now] \in Nat
    BY <1>3, <2>2 DEF UptimeTyped
  <2>4. \E u \in Points(n) : u \in Nat /\ u <= now /\ ideal[n][u] <= ideal[n][now]
    <3>1. CASE lastSeen[n] = NotSeen
      BY <2>2, <2>3, <3>1 DEF Points
    <3>2. CASE lastSeen[n] # NotSeen
      <4>1. lastSeen[n] \in Marks(n) /\ lastSeen[n] \in Points(n)
        BY <3>2 DEF Marks, Points
      <4> QED BY <4>1, MarkAgrees
    <3> QED BY <3>1, <3>2
  <2>5. \A t \in Points(n)' : /\ t \in Nat
                            /\ \E u \in Points(n) : /\ u \in Nat /\ u <= t /\ ideal[n][u] <= ideal[n]'[t]
                                                    /\ ideal[n]'[t] \in Int
    BY <1>1, <1>6, <2>2, <2>3, <2>4
  <2>6. UNCHANGED <<up[n], credited[n], rewound[n], quick[n]>>
    BY <1>1
  <2> QED BY <2>1, <2>5, <2>6, PaidStays
<1>8. Days' = Days
  BY DEF Days, Day
<1> QED BY <1>5, <1>6, <1>7, <1>8 DEF UptimeInv

(* Time that passes is not time online until a heartbeat says so.          *)
LEMMA PassesStep ==
  ASSUME UptimeInv, UptimePasses
  PROVE  UptimeInv'
<1>1. /\ now < MaxTime /\ now' = now + 1
      /\ ideal' = [n \in Fleet |-> [ideal[n] EXCEPT ![now + 1] = ideal[n][now]]]
      /\ UNCHANGED <<lastSeen, up, beat, credited, newest, rewound, quick>>
  BY DEF UptimePasses, Passes
<1>2. /\ UptimeTyped /\ now \in Instants /\ now \in Nat
      /\ ideal \in [Fleet -> [Instants -> Nat]]
      /\ \A b \in Beats : beat[b].pc # "idle" => beat[b].node \in Fleet /\ beat[b].at <= now
      /\ \A b \in Beats : beat[b].at \in Nat
      /\ \A n \in Fleet : \A t \in Points(n) : t \in Instants /\ t \in Nat
  <2>1. UptimeTyped /\ now \in Instants /\ ideal \in [Fleet -> [Instants -> Nat]] /\ beat \in [Beats -> BeatStates]
        /\ \A b \in Beats : beat[b].pc # "idle" => beat[b].node \in Fleet /\ beat[b].at <= now
    BY DEF UptimeInv, UptimeTyped
  <2>2. \A b \in Beats : beat[b].at \in Instants
    BY <2>1 DEF BeatStates
  <2> QED BY <2>1, <2>2, UptimeNats
<1>3. now + 1 \in Instants /\ now' \in Instants
  BY <1>1, <1>2, UptimeConstants DEF Instants
<1>4. /\ ideal' \in [Fleet -> [Instants -> Nat]]
      /\ \A n \in Fleet : ideal'[n][now + 1] = ideal[n][now]
      /\ \A n \in Fleet, t \in Instants : t # now + 1 => ideal'[n][t] = ideal[n][t]
  BY <1>1, <1>2, <1>3
<1>5. UptimeTyped'
  <2>1. \A b \in Beats : beat'[b].pc # "idle" => beat'[b].node \in Fleet /\ beat'[b].at <= now'
    BY <1>1, <1>2
  <2> QED BY <1>1, <1>2, <1>3, <1>4, <2>1 DEF UptimeTyped
<1>6. ASSUME NEW n \in Fleet PROVE MarksRight(n)'
  <2>1. Marks(n)' = Marks(n)
    BY <1>1 DEF Marks, Arrived
  <2>2. MarksRight(n) /\ newest' = newest
    BY <1>1 DEF UptimeInv
  <2>3. \A t \in Marks(n) : t \in Instants /\ ideal'[n][t] = ideal[n][t]
    <3>1. ASSUME NEW t \in Marks(n) PROVE t \in Instants /\ t # now + 1
      BY <1>2, MarkAgrees
    <3> QED BY <1>4, <3>1
  <2>4. ASSUME NEW t1 \in Marks(n), NEW t2 \in Marks(n), t1 <= t2 PROVE Agrees(n, t1, t2)'
    BY <2>2, <2>3, <2>4 DEF MarksRight, Agrees
  <2>5. newest[n] # NotSeen => newest[n] \in Marks(n)
    BY DEF Marks
  <2>6. newest[n] # NotSeen => newest[n] <= now + 1 /\ ideal'[n][now + 1] = ideal'[n][newest[n]]
    <3>1. newest[n] # NotSeen => newest[n] \in Nat /\ newest[n] <= now
      BY <2>5, MarkAgrees
    <3> QED BY <1>2, <1>4, <2>2, <2>3, <2>5, <3>1 DEF MarksRight
  <2>7. \A t \in Marks(n) : newest[n] # NotSeen /\ t <= newest[n]
    BY <2>2 DEF MarksRight
  <2> QED BY <1>1, <2>1, <2>2, <2>4, <2>6, <2>7 DEF MarksRight
<1>7. ASSUME NEW n \in Fleet PROVE TotalPaid(n)' /\ \A d \in Days : DayPaid(n, d)'
  <2>1. ASSUME NEW d
        PROVE  /\ Pending(n)' <= Pending(n) /\ PendingDay(n, d)' <= PendingDay(n, d)
               /\ Pending(n)' \in Nat /\ PendingDay(n, d)' \in Nat
    <3>1. Pending(n) \in Nat /\ PendingDay(n, d) \in Nat
      BY <1>2, PendSummable
    <3>2. Pending(n)' = Pending(n) /\ PendingDay(n, d)' = PendingDay(n, d)
      BY <1>1 DEF Pending, PendingDay, Pend, PendDay
    <3> QED BY <3>1, <3>2
  <2>2. ASSUME NEW t \in Points(n)'
        PROVE  /\ t \in Nat
               /\ \E u \in Points(n) : /\ u \in Nat /\ u <= t /\ ideal[n][u] <= ideal[n]'[t]
                                       /\ ideal[n]'[t] \in Int
    <3>1. CASE t \in Points(n)
      <4>1. t \in Instants /\ t \in Nat
        BY <1>2, <3>1
      <4>2. t # now + 1
        <5>1. CASE lastSeen[n] # NotSeen
          <6>1. t \in Marks(n)
            BY <3>1, <5>1 DEF Points, Marks
          <6> QED BY <1>2, <6>1, MarkAgrees
        <5>2. CASE lastSeen[n] = NotSeen
          BY <1>2, <3>1, <5>2 DEF Points, Arrived
        <5> QED BY <5>1, <5>2
      <4>3. ideal'[n][t] = ideal[n][t] /\ ideal[n][t] \in Nat
        BY <1>2, <1>4, <4>1, <4>2
      <4> QED BY <3>1, <4>1, <4>3
    <3>2. CASE t \notin Points(n)
      <4>1. lastSeen[n] = NotSeen /\ t = now + 1
        BY <1>1, <3>2 DEF Points, Arrived
      <4>2. now \in Points(n) /\ ideal[n][now] \in Nat /\ ideal'[n][t] = ideal[n][now]
        BY <1>2, <1>4, <4>1 DEF Points
      <4> QED BY <1>2, <4>1, <4>2
    <3> QED BY <3>1, <3>2
  <2>3. UNCHANGED <<up[n], credited[n], rewound[n], quick[n]>>
    BY <1>1
  <2> QED BY <2>1, <2>2, <2>3, PaidStays
<1>8. Days' = Days
  BY DEF Days, Day
<1> QED BY <1>5, <1>6, <1>7, <1>8 DEF UptimeInv

(* A credit that is covered by what the points gained.                     *)
LEMMA Covered ==
  ASSUME NEW c \in Nat, NEW x \in Int, NEW g \in Int, NEW i \in Int, NEW j \in Int,
         NEW s \in Int, NEW u \in Int,
         c * x <= i + s, c * g <= (j - i) + (u - s)
  PROVE  c * (x + g) <= j + u
<1>1. c * (x + g) = c * x + c * g /\ c * x \in Int /\ c * g \in Int
  BY Times
<1> QED BY <1>1

(* Two marks of a node a credit is reckoned between.                       *)
LEMMA MarksAgree ==
  ASSUME UptimeInv, NEW n \in Fleet, NEW t1 \in Marks(n), NEW t2 \in Marks(n), t1 <= t2
  PROVE  /\ 0 <= ideal[n][t2] - ideal[n][t1] /\ ideal[n][t2] - ideal[n][t1] <= t2 - t1
         /\ t2 - t1 <= OnlineWindow => ideal[n][t2] - ideal[n][t1] = t2 - t1
BY DEF UptimeInv, MarksRight, Agrees

(* RecordHeartbeat moves the point to the heartbeat it records: what it    *)
(* credits is what the node gained between the two, and where it moves     *)
(* back, the slack grows by the stretch it gives away.                     *)
Serves(b, n, at, last) == n = beat[b].node /\ at = beat[b].at /\ last = lastSeen[n]

LEMMA RecordStepAt ==
  ASSUME UptimeInv, NEW b \in Beats, RecordHeartbeat(b),
         NEW m, NEW at, NEW last, Serves(b, m, at, last)
  PROVE  UptimeInv'
<1> DEFINE gap == IF last = NotSeen THEN 0 ELSE at - last
           r == IF Credits(gap) THEN [beat[b] EXCEPT !.pc = "book", !.secs = Seconds(gap)] ELSE NoBeat
           gain == IF Credits(gap) THEN Seconds(gap) ELSE 0
           back == IF gap < 0 THEN -gap ELSE 0
           up1 == IF Credits(gap) /\ gap < TicksPerSec THEN 1 ELSE 0
<1>0. m = beat[b].node /\ at = beat[b].at /\ last = lastSeen[m]
  BY DEF Serves
<1>1. /\ beat[b].pc = "arrived"
      /\ lastSeen' = [lastSeen EXCEPT ![m] = at]
      /\ Becomes(b, r)
      /\ rewound' = [rewound EXCEPT ![m] = IF gap < 0 THEN @ - gap ELSE @]
      /\ quick' = [quick EXCEPT ![m] = IF Credits(gap) /\ gap < TicksPerSec THEN @ + 1 ELSE @]
      /\ UNCHANGED <<now, up, credited, newest, ideal>>
  BY <1>0 DEF RecordHeartbeat, Delta, Becomes
<1>2. /\ UptimeTyped /\ beat \in [Beats -> BeatStates] /\ beat[b] \in BeatStates
      /\ \A c \in Beats : beat[c].pc # "idle" => beat[c].node \in Fleet /\ beat[c].at <= now
      /\ lastSeen \in [Fleet -> Instants \cup {NotSeen}]
      /\ rewound \in [Fleet -> Nat] /\ quick \in [Fleet -> Nat]
      /\ credited \in [Fleet -> Nat] /\ up \in [Fleet -> [Days -> Nat]]
      /\ ideal \in [Fleet -> [Instants -> Nat]]
  BY DEF UptimeInv, UptimeTyped
<1>3. m \in Fleet /\ b \in Arrived(m) /\ at \in Marks(m)
  BY <1>0, <1>1, <1>2 DEF Arrived, Marks
<1>4. /\ OnlineWindow \in Nat /\ TicksPerSec \in Nat /\ TicksPerSec > 0 /\ NotSeen \notin Nat
      /\ Instants \subseteq Nat /\ now \in Nat
  BY <1>2, UptimeConstants, UptimeNats
<1>5. at \in Nat /\ at \in Instants /\ at <= now /\ ideal[m][at] \in Nat
  BY <1>3, MarkAgrees
<1>6. last # NotSeen => /\ last \in Marks(m) /\ last \in Nat /\ last \in Instants
                        /\ ideal[m][last] \in Nat /\ Points(m) = {last}
  <2>1. last # NotSeen => last \in Marks(m)
    BY <1>0 DEF Marks
  <2>2. last # NotSeen => Points(m) = {last}
    BY <1>0 DEF Points
  <2> QED BY <1>3, <2>1, <2>2, MarkAgrees
<1>7. gap \in Int /\ (Credits(gap) <=> gap > 0 /\ gap <= OnlineWindow) /\ (Credits(gap) => gap \in Nat)
  <2>1. gap \in Int
    BY <1>5, <1>6
  <2> HIDE DEF gap
  <2> QED BY <1>4, <2>1 DEF Credits
<1>8. /\ gain \in Nat /\ back \in Nat /\ up1 \in Nat
      /\ Credits(gap) => TicksPerSec * gain <= gap + (TicksPerSec - 1) * up1
  <2> HIDE DEF gap
  <2>1. back \in Nat /\ up1 \in Nat
    BY <1>4, <1>7
  <2>2. CASE Credits(gap)
    <3>1. /\ Seconds(gap) \in Nat
          /\ TicksPerSec * Seconds(gap) <= gap + (IF gap < TicksPerSec THEN TicksPerSec - 1 ELSE 0)
      BY <1>7, <2>2, SecondsRight
    <3>2. (TicksPerSec - 1) * up1 = IF gap < TicksPerSec THEN TicksPerSec - 1 ELSE 0
      BY <1>4, <1>7, <2>2
    <3> QED BY <2>1, <2>2, <3>1, <3>2
  <2>3. CASE ~Credits(gap)
    BY <2>1, <2>3
  <2> QED BY <2>2, <2>3
<1>9. /\ r \in BeatStates /\ r.pc # "arrived"
      /\ r.pc # "idle" => r.node = m /\ r.at = at
      /\ \A n : Granted(r, n) = IF n = m THEN gain ELSE 0
      /\ \A n, d : GrantedOn(r, n, d) = IF n = m /\ d = Day(at) THEN gain ELSE 0
  <2> HIDE DEF gap
  <2>1. CASE Credits(gap)
    <3>1. r = [beat[b] EXCEPT !.pc = "book", !.secs = Seconds(gap)] /\ gain = Seconds(gap)
      BY <2>1
    <3> HIDE DEF r, gain
    <3>2. r \in BeatStates /\ r.pc = "book" /\ r.node = m /\ r.at = at /\ r.secs = gain
      BY <1>0, <1>2, <1>8, <3>1 DEF BeatStates
    <3> QED BY <3>2 DEF Granted, GrantedOn
  <2>2. CASE ~Credits(gap)
    <3>1. r = NoBeat /\ gain = 0
      BY <2>2
    <3> HIDE DEF r, gain
    <3>2. r \in BeatStates /\ r.pc = "idle"
      BY <3>1, UptimeConstants DEF NoBeat, BeatStates
    <3> QED BY <3>1, <3>2 DEF Granted, GrantedOn
  <2> QED BY <2>1, <2>2
<1>10. /\ rewound' \in [Fleet -> Nat] /\ rewound'[m] = rewound[m] + back
       /\ quick' \in [Fleet -> Nat] /\ quick'[m] = quick[m] + up1
       /\ \A n \in Fleet : n # m => rewound'[n] = rewound[n] /\ quick'[n] = quick[n]
  <2>1. rewound[m] \in Nat /\ quick[m] \in Nat
    BY <1>2, <1>3
  <2>2. /\ (IF gap < 0 THEN rewound[m] - gap ELSE rewound[m]) = rewound[m] + back
        /\ (IF Credits(gap) /\ gap < TicksPerSec THEN quick[m] + 1 ELSE quick[m]) = quick[m] + up1
    <3> HIDE DEF gap
    <3> QED BY <1>7, <2>1
  <2>3. /\ rewound' = [rewound EXCEPT ![m] = rewound[m] + back]
        /\ quick' = [quick EXCEPT ![m] = quick[m] + up1]
    BY <1>1, <2>2
  <2> HIDE DEF back, up1
  <2> QED BY <1>2, <1>3, <1>8, <2>1, <2>3
<1>11. /\ beat' \in [Beats -> BeatStates] /\ beat'[b] = r /\ \A c \in Beats : c # b => beat'[c] = beat[c]
  <2> HIDE DEF r
  <2> QED BY <1>1, <1>2, <1>9 DEF Becomes
<1>12. UptimeTyped'
  <2>1. \A c \in Beats : beat'[c].pc # "idle" => beat'[c].node \in Fleet /\ beat'[c].at <= now
    BY <1>2, <1>3, <1>5, <1>9, <1>11
  <2>2. lastSeen' \in [Fleet -> Instants \cup {NotSeen}]
    BY <1>1, <1>2, <1>5
  <2> QED BY <1>1, <1>2, <1>10, <1>11, <2>1, <2>2 DEF UptimeTyped
<1> DEFINE more == back + (TicksPerSec - 1) * up1
           on(d) == IF d = Day(at) THEN gain ELSE 0
<1>13. Slack(m)' = Slack(m) + more /\ Slack(m) \in Int /\ more \in Int
  <2> HIDE DEF back, up1
  <2>1. /\ rewound[m] \in Int /\ quick[m] \in Int /\ back \in Int /\ up1 \in Int /\ TicksPerSec - 1 \in Int
        /\ rewound'[m] = rewound[m] + back /\ quick'[m] = quick[m] + up1
    BY <1>2, <1>3, <1>4, <1>8, <1>10
  <2>2. /\ (TicksPerSec - 1) * (quick[m] + up1) = (TicksPerSec - 1) * quick[m] + (TicksPerSec - 1) * up1
        /\ (TicksPerSec - 1) * quick[m] \in Int /\ (TicksPerSec - 1) * up1 \in Int
    BY <2>1, Times
  <2> QED BY <2>1, <2>2 DEF Slack
<1>14. \E p \in Points(m) : /\ p \in Instants /\ p \in Nat
                            /\ TicksPerSec * gain <= (ideal[m][at] - ideal[m][p]) + more
                            /\ \A d \in Nat : TicksPerSec * on(d) <= (Reach(d, at) - Reach(d, p)) + more
  <2>1. CASE last = NotSeen
    <3>1. gap = 0
      BY <2>1
    <3> HIDE DEF gap
    <3>2. gain = 0 /\ back = 0 /\ up1 = 0
      BY <1>7, <3>1
    <3>3. at \in Points(m)
      BY <1>0, <1>3, <2>1 DEF Points
    <3>4. \A d \in Nat : Reach(d, at) \in Nat
      BY <1>5, ReachNat
    <3> HIDE DEF gain, back, up1
    <3>5. more = 0 /\ \A d \in Nat : on(d) = 0
      BY <1>4, <3>2
    <3> HIDE DEF more, on
    <3> QED BY <1>4, <1>5, <3>2, <3>3, <3>4, <3>5
  <2>2. CASE last # NotSeen
    <3>1. last \in Points(m) /\ last \in Instants /\ last \in Nat /\ ideal[m][last] \in Nat /\ last \in Marks(m)
      BY <1>6, <2>2
    <3>2. gap = at - last
      BY <2>2
    <3> HIDE DEF gap
    <3>3. CASE gap < 0
      <4>1. gain = 0 /\ back = -gap /\ up1 = 0
        BY <1>4, <1>7, <3>3
      <4>2. at <= last
        BY <1>5, <3>1, <3>2, <3>3
      <4>3. ideal[m][last] - ideal[m][at] <= last - at
        BY <1>3, <3>1, <4>2, MarksAgree
      <4>4. \A d \in Nat : Reach(d, last) - Reach(d, at) <= last - at /\ Reach(d, last) \in Nat /\ Reach(d, at) \in Nat
        BY <1>5, <3>1, <4>2, ReachRight, ReachNat
      <4> HIDE DEF gain, back, up1
      <4>5. more = last - at /\ \A d \in Nat : on(d) = 0
        BY <1>4, <1>5, <3>1, <3>2, <4>1
      <4> HIDE DEF more, on
      <4> QED BY <1>4, <1>5, <3>1, <4>1, <4>3, <4>4, <4>5
    <3>4. CASE gap >= 0
      <4>1. last <= at
        BY <1>5, <3>1, <3>2, <3>4
      <4>2. /\ 0 <= ideal[m][at] - ideal[m][last]
            /\ at - last <= OnlineWindow => ideal[m][at] - ideal[m][last] = at - last
        BY <1>3, <3>1, <4>1, MarksAgree
      <4>3. \A d \in Nat : /\ Reach(d, last) <= Reach(d, at) /\ Reach(d, last) \in Nat /\ Reach(d, at) \in Nat
                           /\ d = Day(at) /\ at - last <= OnlineWindow => Reach(d, at) - Reach(d, last) = at - last
        <5>1. ASSUME NEW d \in Nat
              PROVE  /\ Reach(d, last) <= Reach(d, at) /\ Reach(d, last) \in Nat /\ Reach(d, at) \in Nat
                     /\ Day(at) = d /\ at - last <= OnlineWindow => Reach(d, at) - Reach(d, last) = at - last
          <6>1. Reach(d, last) \in Nat
            BY <1>5, <3>1, <4>1, ReachRight
          <6>2. Reach(d, at) \in Nat
            BY <1>5, ReachNat
          <6>3. /\ Reach(d, last) <= Reach(d, at)
                /\ Day(at) = d /\ at - last <= OnlineWindow => Reach(d, at) - Reach(d, last) = at - last
            BY <1>5, <3>1, <4>1, ReachRight
          <6> QED BY <6>1, <6>2, <6>3
        <5> QED BY <5>1
      <4>4. CASE ~Credits(gap)
        <5>1. gain = 0 /\ back = 0 /\ up1 = 0
          BY <1>7, <3>4, <4>4
        <5> HIDE DEF gain, back, up1
        <5>2. more = 0 /\ \A d \in Nat : on(d) = 0
          BY <1>4, <5>1
        <5> HIDE DEF more, on
        <5> QED BY <1>4, <1>5, <3>1, <4>2, <4>3, <5>1, <5>2
      <4>5. CASE Credits(gap)
        <5>1. back = 0 /\ at - last <= OnlineWindow /\ TicksPerSec * gain <= gap + (TicksPerSec - 1) * up1
          BY <1>7, <1>8, <3>2, <3>4, <4>5
        <5>2. more \in Int /\ gain \in Nat /\ up1 \in Nat
          BY <1>8, <1>13
        <5> HIDE DEF gain, back, up1
        <5>3. TicksPerSec * gain <= at - last + more /\ more >= 0
          <6>1. (TicksPerSec - 1) * up1 \in Nat
            BY <1>4, <5>2
          <6> QED BY <1>4, <1>5, <3>1, <3>2, <5>1, <5>2, <6>1
        <5> HIDE DEF more
        <5>4. ideal[m][at] - ideal[m][last] = at - last
          BY <4>2, <5>1
        <5>5. ASSUME NEW d \in Nat PROVE TicksPerSec * on(d) <= (Reach(d, at) - Reach(d, last)) + more
          <6>1. CASE d = Day(at)
            <7>1. on(d) = gain /\ Reach(d, at) - Reach(d, last) = at - last
              BY <4>3, <5>1, <6>1
            <7> QED BY <5>3, <7>1
          <6>2. CASE d # Day(at)
            <7>1. on(d) = 0 /\ Reach(d, last) <= Reach(d, at) /\ Reach(d, last) \in Nat /\ Reach(d, at) \in Nat
              BY <4>3, <6>2
            <7> HIDE DEF on
            <7> QED BY <1>4, <5>2, <5>3, <7>1
          <6> QED BY <6>1, <6>2
        <5> QED BY <3>1, <5>3, <5>4, <5>5
      <4> QED BY <4>4, <4>5
    <3>5. gap \in Int
      BY <1>7
    <3> QED BY <3>3, <3>4, <3>5
  <2> QED BY <2>1, <2>2
<1>15. ASSUME NEW n \in Fleet, NEW d
       PROVE  /\ Pending(n)' = Pending(n) + (IF n = m THEN gain ELSE 0)
              /\ PendingDay(n, d)' = PendingDay(n, d) + (IF n = m THEN on(d) ELSE 0)
              /\ Pending(n) \in Nat /\ PendingDay(n, d) \in Nat /\ on(d) \in Nat
  <2> HIDE DEF r, gain
  <2>1. Pending(n) \in Nat /\ PendingDay(n, d) \in Nat
    BY <1>2, PendSummable
  <2>2. /\ Pending(n)' = Pending(n) - Granted(beat[b], n) + Granted(r, n)
        /\ PendingDay(n, d)' = PendingDay(n, d) - GrantedOn(beat[b], n, d) + GrantedOn(r, n, d)
    BY <1>1, <1>2, <1>9, PendingMoves
  <2>3. Granted(beat[b], n) = 0 /\ GrantedOn(beat[b], n, d) = 0
    BY <1>1 DEF Granted, GrantedOn
  <2>4. Granted(r, n) = IF n = m THEN gain ELSE 0
    BY <1>9
  <2>5. GrantedOn(r, n, d) = (IF n = m THEN on(d) ELSE 0) /\ on(d) \in Nat
    BY <1>8, <1>9
  <2> HIDE DEF on
  <2> QED BY <1>8, <2>1, <2>2, <2>3, <2>4, <2>5
<1>16. TotalPaid(m)' /\ \A d \in Days : DayPaid(m, d)'
  <2>1. PICK p \in Points(m) : /\ p \in Instants /\ p \in Nat
                               /\ TicksPerSec * gain <= (ideal[m][at] - ideal[m][p]) + more
                               /\ \A d \in Nat : TicksPerSec * on(d) <= (Reach(d, at) - Reach(d, p)) + more
    BY <1>14
  <2>2. /\ TicksPerSec * (credited[m] + Pending(m)) <= ideal[m][p] + Slack(m)
        /\ \A d \in Days : TicksPerSec * (up[m][d] + PendingDay(m, d)) <= Reach(d, p) + Slack(m)
    BY <1>3, <2>1 DEF UptimeInv, TotalPaid, DayPaid
  <2>3. lastSeen'[m] = at /\ at # NotSeen /\ Points(m)' = {at}
    <3>1. lastSeen'[m] = at /\ at # NotSeen
      BY <1>1, <1>2, <1>3, <1>4, <1>5
    <3> QED BY <3>1 DEF Points
  <2>4. ideal[m][p] \in Nat /\ credited[m] \in Nat /\ \A d \in Days : up[m][d] \in Nat /\ d \in Nat
    <3>1. Days \subseteq Nat
      BY DEF Days
    <3> QED BY <1>2, <1>3, <2>1, <3>1
  <2> HIDE DEF gain, more, on
  <2>5. TicksPerSec * ((credited[m] + Pending(m)) + gain) <= ideal[m][at] + (Slack(m) + more)
    <3>1. credited[m] + Pending(m) \in Int /\ gain \in Int
      BY <1>3, <1>8, <1>15, <2>4
    <3>2. TicksPerSec * gain <= (ideal[m][at] - ideal[m][p]) + ((Slack(m) + more) - Slack(m))
      BY <1>4, <1>5, <1>8, <1>13, <2>1, <2>4
    <3> QED BY <1>4, <1>5, <1>13, <2>2, <2>4, <3>1, <3>2, Covered
  <2>6. ASSUME NEW d \in Days
        PROVE  TicksPerSec * ((up[m][d] + PendingDay(m, d)) + on(d)) <= Reach(d, at) + (Slack(m) + more)
    <3>1. up[m][d] + PendingDay(m, d) \in Int /\ on(d) \in Int /\ d \in Nat
      BY <1>3, <1>15, <2>4
    <3>2. Reach(d, at) \in Int /\ Reach(d, p) \in Int
      BY <1>5, <2>1, <3>1, ReachRight
    <3>3. TicksPerSec * on(d) <= (Reach(d, at) - Reach(d, p)) + ((Slack(m) + more) - Slack(m))
      BY <1>4, <1>13, <2>1, <3>1, <3>2
    <3> QED BY <1>4, <1>13, <2>2, <3>1, <3>2, <3>3, Covered
  <2>7. TotalPaid(m)'
    <3>1. credited'[m] + Pending(m)' = (credited[m] + Pending(m)) + gain
      BY <1>1, <1>3, <1>8, <1>15, <2>4
    <3>2. ideal' = ideal /\ Slack(m)' = Slack(m) + more /\ Points(m)' = {at}
      BY <1>1, <1>13, <2>3
    <3> QED BY <2>5, <3>1, <3>2 DEF TotalPaid
  <2>8. ASSUME NEW d \in Days PROVE DayPaid(m, d)'
    <3>1. up'[m][d] + PendingDay(m, d)' = (up[m][d] + PendingDay(m, d)) + on(d)
      BY <1>1, <1>3, <1>15, <2>4
    <3>2. Slack(m)' = Slack(m) + more /\ Points(m)' = {at} /\ \A t : Reach(d, t)' = Reach(d, t)
      BY <1>13, <2>3 DEF Reach
    <3> QED BY <2>6, <3>1, <3>2 DEF DayPaid
  <2> QED BY <2>7, <2>8
<1>17. ASSUME NEW n \in Fleet, n # m
       PROVE  Points(n)' = Points(n) /\ Marks(n)' = Marks(n)
  <2> HIDE DEF r
  <2>1. Arrived(n)' = Arrived(n) /\ \A c \in Arrived(n) : beat'[c] = beat[c]
    BY <1>0, <1>1, <1>9, <1>11, <1>17 DEF Arrived
  <2>2. lastSeen'[n] = lastSeen[n] /\ newest' = newest /\ now' = now
    BY <1>1, <1>2, <1>17
  <2> QED BY <2>1, <2>2 DEF Points, Marks
<1>18. ASSUME NEW n \in Fleet, n # m PROVE TotalPaid(n)' /\ \A d \in Days : DayPaid(n, d)'
  <2>1. /\ Pending(n)' <= Pending(n) /\ Pending(n)' \in Nat
        /\ \A d \in Days : PendingDay(n, d)' <= PendingDay(n, d) /\ PendingDay(n, d)' \in Nat
    BY <1>15, <1>18
  <2>2. ASSUME NEW t \in Points(n)'
        PROVE  t \in Points(n) /\ t \in Nat /\ ideal[n][t] <= ideal'[n][t] /\ ideal'[n][t] \in Int
    <3>1. t \in Points(n) /\ ideal' = ideal
      BY <1>1, <1>17, <1>18
    <3>2. t \in Instants /\ t \in Nat
      BY <1>2, <3>1, UptimeNats
    <3>3. ideal[n][t] \in Nat
      BY <1>2, <3>2
    <3> QED BY <3>1, <3>2, <3>3
  <2>3. UNCHANGED <<up[n], credited[n], rewound[n], quick[n]>>
    BY <1>1, <1>10, <1>18
  <2> QED BY <2>1, <2>2, <2>3, PaidStays
<1>19. ASSUME NEW n \in Fleet PROVE MarksRight(n)'
  <2>1. Marks(n)' \subseteq Marks(n)
    <3>1. CASE n # m
      BY <1>17, <3>1
    <3>2. CASE n = m
      <4>1. lastSeen'[m] = at /\ newest' = newest
        BY <1>1, <1>2, <1>3, <1>5
      <4>2. \A c \in Arrived(m)' : c \in Arrived(m) /\ beat'[c] = beat[c]
        <5> HIDE DEF r
        <5> QED BY <1>9, <1>11 DEF Arrived
      <4> QED BY <1>3, <3>2, <4>1, <4>2 DEF Marks
    <3> QED BY <3>1, <3>2
  <2>2. MarksRight(n)
    BY DEF UptimeInv
  <2>3. ideal' = ideal /\ newest' = newest /\ now' = now
    BY <1>1
  <2> QED BY <2>1, <2>2, <2>3, MarksStay
<1>20. Days' = Days
  BY DEF Days, Day
<1>21. \A n \in Fleet : TotalPaid(n)' /\ \A d \in Days : DayPaid(n, d)'
  BY <1>16, <1>18
<1> QED BY <1>12, <1>19, <1>20, <1>21 DEF UptimeInv

LEMMA RecordStep ==
  ASSUME UptimeInv, NEW b \in Beats, RecordHeartbeat(b)
  PROVE  UptimeInv'
<1>1. \E m, at, last : Serves(b, m, at, last)
  BY DEF Serves
<1> QED BY <1>1, RecordStepAt

LEMMA UptimeNextInv == UptimeInv /\ [UptimeNext]_uptimeVars => UptimeInv'
<1> SUFFICES ASSUME UptimeInv, [UptimeNext]_uptimeVars PROVE UptimeInv'
  OBVIOUS
<1>1. ASSUME NEW b \in Beats, NEW n \in Fleet, BeatArrives(b, n) PROVE UptimeInv'
  BY <1>1, ArrivesStep
<1>2. ASSUME NEW b \in Beats, RecordHeartbeat(b) PROVE UptimeInv'
  BY <1>2, RecordStep
<1>3. ASSUME NEW b \in Beats, upsertUptime(b) PROVE UptimeInv'
  BY <1>3, BooksStep
<1>4. ASSUME NEW b \in Beats, upsertUptimeFails(b) PROVE UptimeInv'
  BY <1>4, FailsStep
<1>5. CASE UptimeRestart
  BY <1>5, RestartStep
<1>6. CASE UptimePasses
  BY <1>6, PassesStep
<1>7. CASE UNCHANGED uptimeVars
  <2>1. UNCHANGED <<now, lastSeen, up, beat, credited, newest, ideal, rewound, quick>>
    BY <1>7 DEF uptimeVars
  <2>2. UptimeTyped'
    BY <2>1 DEF UptimeInv, UptimeTyped
  <2>3. ASSUME NEW n \in Fleet PROVE MarksRight(n)'
    <3>1. Marks(n)' = Marks(n) /\ MarksRight(n)
      BY <2>1 DEF UptimeInv, Marks, Arrived
    <3> QED BY <2>1, <3>1, MarksStay
  <2>4. ASSUME NEW n \in Fleet PROVE TotalPaid(n)'
    <3>1. TotalPaid(n)
      BY DEF UptimeInv
    <3> QED BY <2>1, <3>1 DEF TotalPaid, Points, Arrived, Pending, Pend, Slack
  <2>5. ASSUME NEW n \in Fleet, NEW d \in Days PROVE DayPaid(n, d)'
    <3>1. DayPaid(n, d)
      BY DEF UptimeInv
    <3> QED BY <2>1, <3>1 DEF DayPaid, Points, Arrived, PendingDay, PendDay, Slack, Reach
  <2>6. Days' = Days
    BY DEF Days, Day
  <2> QED BY <2>2, <2>3, <2>4, <2>5, <2>6 DEF UptimeInv
<1> QED BY <1>1, <1>2, <1>3, <1>4, <1>5, <1>6, <1>7 DEF UptimeNext

LEMMA UptimeAlways == UptimeSpec => []UptimeInv
<1> QED BY UptimeInitInv, UptimeNextInv, PTL DEF UptimeSpec

(* The tracker's state, its rows and what is remembered of them are always *)
(* what they should be (pkg/store/uptime.go).                              *)
THEOREM UptimeTypes == UptimeSpec => []UptimeTypeOK
<1>1. UptimeInv => UptimeTypeOK
  BY TypedIsTypeOK DEF UptimeInv
<1> QED BY <1>1, UptimeAlways, PTL

(* Whatever heartbeats overtake one another, fail or are lost with the     *)
(* process, RecordHeartbeat credits no node more time than it was online,  *)
(* and no day more than the day and a window, but for the stretches it     *)
(* gives away and the seconds it rounds up.                                *)
THEOREM CreditEarned == UptimeSpec => []CreditBounded
<1>1. UptimeInv => CreditBounded
  <2> SUFFICES ASSUME UptimeInv PROVE CreditBounded
    OBVIOUS
  <2>1. ASSUME NEW n \in Fleet
        PROVE  /\ TicksPerSec * credited[n] <= ideal[n][now] + Slack(n)
               /\ \A d \in Days : TicksPerSec * up[n][d] < DayTicks + OnlineWindow + Slack(n)
    <3>1. /\ UptimeTyped /\ TotalPaid(n) /\ \A d \in Days : DayPaid(n, d)
          /\ now \in Instants /\ ideal \in [Fleet -> [Instants -> Nat]]
          /\ credited \in [Fleet -> Nat] /\ up \in [Fleet -> [Days -> Nat]]
          /\ TicksPerSec \in Nat /\ OnlineWindow \in Nat /\ DayTicks \in Nat /\ Days \subseteq Nat
      BY UptimeConstants DEF UptimeInv, UptimeTyped, Days
    <3>2. Slack(n) \in Int
      BY UptimeConstants DEF UptimeInv, UptimeTyped, Slack
    <3>3. \E t \in Points(n) : t \in Nat /\ ideal[n][t] \in Nat /\ ideal[n][t] <= ideal[n][now] /\ ideal[n][now] \in Nat
      <4>1. now \in Nat /\ ideal[n][now] \in Nat
        BY <3>1, UptimeNats
      <4>2. CASE lastSeen[n] = NotSeen
        <5>1. now \in Points(n)
          BY <4>2 DEF Points
        <5> QED BY <4>1, <5>1
      <4>3. CASE lastSeen[n] # NotSeen
        <5>1. lastSeen[n] \in Marks(n) /\ lastSeen[n] \in Points(n)
          BY <4>3 DEF Marks, Points
        <5> QED BY <5>1, MarkAgrees
      <4> QED BY <4>2, <4>3
    <3>4. PICK t \in Points(n) : t \in Nat /\ ideal[n][t] \in Nat /\ ideal[n][t] <= ideal[n][now] /\ ideal[n][now] \in Nat
      BY <3>3
    <3>5. TicksPerSec * credited[n] <= ideal[n][now] + Slack(n)
      <4>1. Pending(n) \in Nat /\ credited[n] \in Nat
        BY <3>1, PendSummable
      <4>2. /\ TicksPerSec * credited[n] <= TicksPerSec * (credited[n] + Pending(n))
            /\ TicksPerSec * credited[n] \in Int /\ TicksPerSec * (credited[n] + Pending(n)) \in Int
        BY <3>1, <4>1, TimesGrows
      <4>3. TicksPerSec * (credited[n] + Pending(n)) <= ideal[n][t] + Slack(n)
        BY <3>1 DEF TotalPaid
      <4> QED BY <3>2, <3>4, <4>2, <4>3
    <3>6. ASSUME NEW d \in Days PROVE TicksPerSec * up[n][d] < DayTicks + OnlineWindow + Slack(n)
      <4>1. PendingDay(n, d) \in Nat /\ up[n][d] \in Nat /\ d \in Nat
        BY <3>1, PendSummable
      <4>2. /\ TicksPerSec * up[n][d] <= TicksPerSec * (up[n][d] + PendingDay(n, d))
            /\ TicksPerSec * up[n][d] \in Int /\ TicksPerSec * (up[n][d] + PendingDay(n, d)) \in Int
        BY <3>1, <4>1, TimesGrows
      <4>3. TicksPerSec * (up[n][d] + PendingDay(n, d)) <= Reach(d, t) + Slack(n)
        BY <3>1 DEF DayPaid
      <4>4. Reach(d, t) \in Nat /\ Reach(d, t) <= DayTicks - 1 + OnlineWindow
        <5>1. t <= t
          BY <3>4
        <5> QED BY <3>4, <4>1, <5>1, ReachRight
      <4> QED BY <3>1, <3>2, <4>2, <4>3, <4>4
    <3> QED BY <3>5, <3>6
  <2>2. ASSUME NEW n \in Fleet
        PROVE  rewound[n] \in Nat /\ (TicksPerSec - 1) * quick[n] \in Int /\ ideal[n][now] \in Int
    BY UptimeConstants DEF UptimeInv, UptimeTyped
  <2>3. DayTicks \in Int /\ OnlineWindow \in Int
    BY UptimeConstants
  <2> QED BY <2>1, <2>2, <2>3 DEF CreditBounded, TotalBounded, DayBounded, Slack
<1> QED BY <1>1, UptimeAlways, PTL

-----------------------------------------------------------------------------
(* What a node was credited is in its rows, and no row is of a day ahead.  *)
(* So a page may add the rows of any stretch of days up to today in any    *)
(* order: by days or by nodes.                                             *)
Booked ==
  \A n \in Fleet :
    /\ credited[n] = SumFunctionOnSet(up[n], Days)
    /\ \A d \in Days : d > Day(now) => up[n][d] = 0

LEMMA DaysRight ==
  /\ IsFiniteSet(Days) /\ Days \subseteq Nat /\ IsFiniteSet(Fleet)
  /\ \A t \in Instants : Day(t) \in Days
  /\ \A t, u \in Instants : t <= u => Day(t) <= Day(u)
<1>1. DayTicks \in Nat \ {0} /\ MaxTime \in Nat /\ Instants \subseteq Nat
  BY UptimeConstants
<1>2. \A t \in Nat : Day(t) \in Nat
  BY <1>1, DivRight DEF Day
<1>3. \A t, u \in Nat : t <= u => Day(t) <= Day(u)
  BY <1>1, DivMono DEF Day
<1>4. ASSUME NEW t \in Instants PROVE Day(t) \in Days
  <2>1. t \in Nat /\ t <= MaxTime
    BY DEF Instants
  <2>2. Day(t) \in Nat /\ Day(MaxTime) \in Nat /\ Day(t) <= Day(MaxTime)
    BY <1>1, <1>2, <1>3, <2>1
  <2> QED BY <2>2 DEF Days
<1>5. IsFiniteSet(Days)
  <2>1. 0 \in Int /\ Day(MaxTime) \in Int
    BY <1>1, <1>2
  <2> QED BY <2>1, FS_Interval DEF Days
<1>6. Days \subseteq Nat
  BY DEF Days
<1> QED BY <1>1, <1>3, <1>4, <1>5, <1>6, UptimeAssumption

LEMMA RowsSummable ==
  ASSUME UptimeTyped, NEW n \in Fleet
  PROVE  /\ \A d \in Days : up[n][d] \in Nat /\ up[n][d] \in Int /\ up[n][d] >= 0
         /\ Summable(up[n], Days)
<1>1. \A d \in Days : up[n][d] \in Nat
  BY DEF UptimeTyped
<1>2. \A d \in Days : up[n][d] \in Int /\ up[n][d] >= 0
  BY <1>1
<1> QED BY <1>1, <1>2, DaysRight DEF Summable

LEMMA BookedInit == UptimeInit => Booked
<1> SUFFICES ASSUME UptimeInit, NEW n \in Fleet
             PROVE  /\ credited[n] = SumFunctionOnSet(up[n], Days)
                    /\ \A d \in Days : d > Day(now) => up[n][d] = 0
  BY DEF Booked
<1>1. credited[n] = 0 /\ \A d \in Days : up[n][d] = 0
  BY DEF UptimeInit
<1>2. Summable(up[n], Days)
  BY <1>1, DaysRight DEF Summable
<1> QED BY <1>1, <1>2, SumZero

LEMMA BookedStep == UptimeTyped /\ UptimeTyped' /\ Booked /\ [UptimeNext]_uptimeVars => Booked'
<1> SUFFICES ASSUME UptimeTyped, UptimeTyped', Booked, [UptimeNext]_uptimeVars,
                    NEW m \in Fleet
             PROVE  /\ credited'[m] = SumFunctionOnSet(up'[m], Days)
                    /\ \A d \in Days : d > Day(now') => up'[m][d] = 0
  BY DEF Booked, Day, Days
<1>0. /\ credited[m] = SumFunctionOnSet(up[m], Days) /\ \A d \in Days : d > Day(now) => up[m][d] = 0
      /\ now \in Instants /\ now' \in Instants /\ Days \subseteq Nat /\ Day(now) \in Nat /\ Day(now') \in Nat
  <2>1. now \in Instants /\ now' \in Instants
    BY DEF UptimeTyped, Instants
  <2> QED BY <2>1, DaysRight DEF Booked
<1>1. ASSUME now <= now', UNCHANGED <<up, credited>>
      PROVE  /\ credited'[m] = SumFunctionOnSet(up'[m], Days)
             /\ \A d \in Days : d > Day(now') => up'[m][d] = 0
  <2>1. Day(now) <= Day(now')
    BY <1>0, <1>1, DaysRight
  <2>2. ASSUME NEW d \in Days, d > Day(now') PROVE d > Day(now)
    <3>1. d \in Nat
      BY <1>0
    <3> QED BY <1>0, <2>1, <2>2, <3>1
  <2> QED BY <1>0, <1>1, <2>2
<1>2. ASSUME NEW b \in Beats, upsertUptime(b)
      PROVE  /\ credited'[m] = SumFunctionOnSet(up'[m], Days)
             /\ \A d \in Days : d > Day(now') => up'[m][d] = 0
  <2>1. PICK n \in Fleet, k \in Days, s \in Nat :
          /\ up' = [up EXCEPT ![n][k] = @ + s] /\ credited' = [credited EXCEPT ![n] = @ + s]
          /\ now' = now /\ ~(k > Day(now))
    <3>1. beat[b].pc = "book" /\ beat[b] \in BeatStates
      BY <1>2 DEF upsertUptime, UptimeTyped
    <3>2. beat[b].node \in Fleet /\ beat[b].at \in Instants /\ beat[b].at <= now /\ beat[b].secs \in Nat
      BY <3>1 DEF UptimeTyped, BeatStates
    <3>3. Day(beat[b].at) \in Days /\ Day(beat[b].at) \in Nat /\ Day(beat[b].at) <= Day(now)
      BY <1>0, <3>2, DaysRight
    <3>4. ~(Day(beat[b].at) > Day(now))
      BY <1>0, <3>3
    <3> QED BY <1>2, <3>2, <3>3, <3>4 DEF upsertUptime
  <2>2. /\ \A d \in Days : up'[m][d] = up[m][d] + IF m = n /\ d = k THEN s ELSE 0
        /\ credited'[m] = credited[m] + IF m = n THEN s ELSE 0
    <3>1. up \in [Fleet -> [Days -> Nat]] /\ credited \in [Fleet -> Nat]
      BY DEF UptimeTyped
    <3>2. ASSUME NEW d \in Days PROVE up'[m][d] = up[m][d] + IF m = n /\ d = k THEN s ELSE 0
      <4>1. up[m] \in [Days -> Nat] /\ up[m][d] \in Nat
        BY <3>1
      <4> QED BY <2>1, <3>1, <4>1
    <3>3. credited'[m] = credited[m] + IF m = n THEN s ELSE 0
      BY <2>1, <3>1
    <3> QED BY <3>2, <3>3
  <2>3. \A d \in Days : d > Day(now') => up'[m][d] = 0
    BY <1>0, <2>1, <2>2
  <2>4. credited[m] \in Nat /\ Summable(up[m], Days) /\ \A d \in Days : up[m][d] \in Nat
    BY RowsSummable DEF UptimeTyped
  <2>5. CASE m = n
    <3>1. up'[m][k] = up[m][k] + s /\ up[m][k] \in Nat /\ \A d \in Days \ {k} : up[m][d] = up'[m][d]
      BY <2>2, <2>4, <2>5
    <3>2. up'[m][k] \in Int
      BY <3>1
    <3>3. SumFunctionOnSet(up'[m], Days) = SumFunctionOnSet(up[m], Days) - up[m][k] + up'[m][k]
      BY <2>4, <3>1, <3>2, SumChange
    <3>4. credited'[m] = credited[m] + s
      BY <2>2, <2>5
    <3> QED BY <1>0, <2>3, <2>4, <3>1, <3>3, <3>4
  <2>6. CASE m # n
    <3>1. credited'[m] = credited[m] /\ \A d \in Days : up[m][d] = up'[m][d]
      BY <2>2, <2>4, <2>6
    <3> QED BY <1>0, <2>3, <2>4, <3>1, SumSame
  <2> QED BY <2>5, <2>6
<1>3. now \in Nat
  BY <1>0, UptimeConstants
<1>4. ASSUME UNCHANGED <<now, up, credited>>
      PROVE  /\ credited'[m] = SumFunctionOnSet(up'[m], Days)
             /\ \A d \in Days : d > Day(now') => up'[m][d] = 0
  BY <1>1, <1>3, <1>4
<1>5. CASE UptimePasses
  BY <1>1, <1>3, <1>5 DEF UptimePasses, Passes
<1>6. ASSUME NEW b \in Beats, (\E n \in Fleet : BeatArrives(b, n)) \/ RecordHeartbeat(b) \/ upsertUptimeFails(b)
      PROVE  UNCHANGED <<now, up, credited>>
  <2>1. CASE \E n \in Fleet : BeatArrives(b, n)
    BY <2>1 DEF BeatArrives
  <2>2. CASE RecordHeartbeat(b)
    BY <2>2 DEF RecordHeartbeat
  <2>3. CASE upsertUptimeFails(b)
    BY <2>3 DEF upsertUptimeFails
  <2> QED BY <1>6, <2>1, <2>2, <2>3
<1>7. CASE UptimeRestart \/ UNCHANGED uptimeVars
  BY <1>4, <1>7 DEF UptimeRestart, uptimeVars
<1> QED BY <1>2, <1>4, <1>5, <1>6, <1>7 DEF UptimeNext

(* The buckets of a window hold what its rows hold.                        *)
LEMMA WindowSums ==
  ASSUME now \in Instants, NEW k \in Nat, NEW f, \A d \in Days : f[d] \in Int,
         \A d \in Days : d > Day(now) => f[d] = 0
  PROVE  SumFunctionOnSet([d \in Buckets(k) |-> IF d \in Days THEN f[d] ELSE 0], Buckets(k))
           = SumFunctionOnSet(f, {d \in Days : d >= Cutoff(k)})
<1> DEFINE e == [d \in Buckets(k) |-> IF d \in Days THEN f[d] ELSE 0]
           W == {d \in Days : d >= Cutoff(k)}
           V == Buckets(k) \cap Days
<1>1. Day(now) \in Nat /\ Days \subseteq Nat /\ IsFiniteSet(Days)
  BY DaysRight
<1>2. PICK c \in Int : c = Cutoff(k) /\ Buckets(k) = c .. Day(now)
  <2>1. Day(now) - ClampDays(k) + 1 \in Int
    BY <1>1 DEF ClampDays
  <2> QED BY <2>1 DEF Cutoff, Buckets
<1>3. IsFiniteSet(Buckets(k))
  BY <1>1, <1>2, FS_Interval
<1>4. V \subseteq Buckets(k) /\ V \subseteq W /\ \A d \in W \ V : d > Day(now)
  <2>1. ASSUME NEW d \in V PROVE d \in W
    BY <1>1, <1>2, <2>1
  <2>2. ASSUME NEW d \in W \ V PROVE d > Day(now)
    <3>1. d \in Nat /\ d >= c /\ d \notin c .. Day(now)
      BY <1>1, <1>2, <2>2
    <3> QED BY <1>1, <3>1
  <2> QED BY <2>1, <2>2
<1>5. Summable(e, Buckets(k)) /\ \A d \in Buckets(k) \ V : e[d] = 0
  <2>1. \A d \in Buckets(k) : e[d] \in Int
    OBVIOUS
  <2>2. \A d \in Buckets(k) \ V : e[d] = 0
    OBVIOUS
  <2> QED BY <1>3, <2>1, <2>2 DEF Summable
<1>6. Summable(f, W) /\ \A d \in W \ V : f[d] = 0
  <2>1. IsFiniteSet(W)
    BY <1>1, FS_Subset
  <2> QED BY <1>4, <2>1 DEF Summable
<1>7. \A d \in V : e[d] = f[d]
  OBVIOUS
<1> HIDE DEF e, W, V
<1>8. SumFunctionOnSet(e, Buckets(k)) = SumFunctionOnSet(e, V)
  BY <1>4, <1>5, SumDrop
<1>9. SumFunctionOnSet(f, W) = SumFunctionOnSet(f, V)
  BY <1>4, <1>6, SumDrop
<1>10. SumFunctionOnSet(e, V) = SumFunctionOnSet(f, V)
  BY <1>4, <1>5, <1>7, SummableSubset, SumSame
<1> QED BY <1>8, <1>9, <1>10 DEF e, W

LEMMA PagesAgree ==
  ASSUME UptimeTyped, Booked, NEW k \in Nat
  PROVE  /\ \A n \in Fleet : SumFunctionOnSet(NodeUptimeDaily(n, k), Buckets(k)) = NodeUptime(n, k)
         /\ SumFunction(FleetUptimeDaily(k)) = SumFunction(AllNodesUptime(k))
<1> DEFINE W == {d \in Days : d >= Cutoff(k)}
           M == {m \in Fleet : \E d \in Days : d >= Cutoff(k) /\ up[m][d] > 0}
           onDay == [d \in Days |-> SumFunctionOnSet([n \in Fleet |-> up[n][d]], Fleet)]
           ofNode == [n \in Fleet |-> SumFunctionOnSet(up[n], W)]
<1>0. now \in Instants /\ IsFiniteSet(Days) /\ IsFiniteSet(Fleet)
  BY DaysRight DEF UptimeTyped
<1>1. \A n \in Fleet : \A d \in Days :
        /\ up[n][d] \in Nat /\ up[n][d] \in Int /\ up[n][d] >= 0
        /\ d > Day(now) => up[n][d] = 0
  BY RowsSummable DEF Booked
<1>2. ASSUME NEW n \in Fleet
      PROVE  SumFunctionOnSet(NodeUptimeDaily(n, k), Buckets(k)) = NodeUptime(n, k)
  <2>1. (\A d \in Days : up[n][d] \in Int) /\ \A d \in Days : d > Day(now) => up[n][d] = 0
    BY <1>1
  <2> QED BY <1>0, <2>1, WindowSums DEF NodeUptimeDaily, NodeUptime
<1>3. \A d \in Days : onDay[d] \in Int /\ (d > Day(now) => onDay[d] = 0)
  <2>1. ASSUME NEW d \in Days PROVE onDay[d] \in Int /\ (d > Day(now) => onDay[d] = 0)
    <3> DEFINE all == [n \in Fleet |-> up[n][d]]
    <3>1. Summable(all, Fleet) /\ (d > Day(now) => \A n \in Fleet : all[n] = 0)
      BY <1>0, <1>1 DEF Summable
    <3>2. onDay[d] = SumFunctionOnSet(all, Fleet)
      OBVIOUS
    <3> HIDE DEF all, onDay
    <3> QED BY <3>1, <3>2, SumInt, SumZero
  <2> QED BY <2>1
<1>4. SumFunction(FleetUptimeDaily(k)) = SumFunctionOnSet(onDay, W)
  <2>1. /\ DOMAIN FleetUptimeDaily(k) = Buckets(k)
        /\ FleetUptimeDaily(k) = [d \in Buckets(k) |-> IF d \in Days THEN onDay[d] ELSE 0]
    BY DEF FleetUptimeDaily
  <2> HIDE DEF onDay
  <2>2. SumFunctionOnSet([d \in Buckets(k) |-> IF d \in Days THEN onDay[d] ELSE 0], Buckets(k))
          = SumFunctionOnSet(onDay, W)
    BY <1>0, <1>3, WindowSums
  <2> QED BY <2>1, <2>2 DEF SumFunction
<1>5. IsFiniteSet(W) /\ W \subseteq Days
  BY <1>0, FS_Subset
<1>6. SumFunctionOnSet(onDay, W) = SumFunctionOnSet(ofNode, Fleet)
  <2> DEFINE e == [d \in W |-> SumFunctionOnSet([n \in Fleet |-> up[n][d]], Fleet)]
  <2>1. \A n \in Fleet, d \in W : up[n][d] \in Int
    BY <1>1, <1>5
  <2>2. Summable(onDay, W) /\ \A d \in W : onDay[d] = e[d]
    BY <1>3, <1>5 DEF Summable
  <2> HIDE DEF W
  <2>3. SumFunctionOnSet(ofNode, Fleet) = SumFunctionOnSet(e, W)
    BY <1>0, <1>5, <2>1, SumOfSums
  <2> HIDE DEF onDay, e
  <2>4. SumFunctionOnSet(onDay, W) = SumFunctionOnSet(e, W)
    BY <2>2, SumSame
  <2> QED BY <2>3, <2>4
<1>7. \A n \in Fleet : Summable(up[n], W) /\ ofNode[n] = SumFunctionOnSet(up[n], W)
  BY <1>1, <1>5 DEF Summable
<1>8. M \subseteq Fleet /\ \A n \in Fleet \ M : \A d \in W : up[n][d] = 0
  <2>1. ASSUME NEW n \in Fleet \ M, NEW d \in W PROVE up[n][d] = 0
    <3>1. up[n][d] \in Nat /\ ~(up[n][d] > 0)
      BY <1>1, <2>1
    <3> QED BY <3>1
  <2> QED BY <2>1
<1>9. DOMAIN AllNodesUptime(k) = M /\ \A n \in M : AllNodesUptime(k)[n] = ofNode[n]
  BY DEF AllNodesUptime, NodeUptime
<1> HIDE DEF W, M, onDay, ofNode
<1>10. Summable(ofNode, Fleet) /\ \A n \in Fleet \ M : ofNode[n] = 0
  <2>1. \A n \in Fleet : ofNode[n] \in Int
    BY <1>7, SumInt
  <2>2. \A n \in Fleet \ M : ofNode[n] = 0
    BY <1>7, <1>8, SumZero
  <2> QED BY <1>0, <2>1, <2>2 DEF Summable
<1>11. SumFunctionOnSet(ofNode, Fleet) = SumFunctionOnSet(ofNode, M)
  BY <1>8, <1>10, SumDrop
<1>12. SumFunctionOnSet(ofNode, M) = SumFunctionOnSet(AllNodesUptime(k), M)
  <2>1. Summable(ofNode, M)
    BY <1>8, <1>10, SummableSubset
  <2> QED BY <1>9, <2>1, SumSame
<1> QED BY <1>2, <1>4, <1>6, <1>9, <1>11, <1>12 DEF SumFunction

(* What the status page shows of a window is the same added up by days and *)
(* by nodes, for any fleet, and while the longest window holds all days it *)
(* is what was credited (NodeUptime, NodeUptimeDaily, AllNodesUptime,      *)
(* FleetUptimeDaily).                                                      *)
THEOREM DrilldownsCorrect == UptimeSpec => []DrilldownAgrees
<1>1. UptimeTyped /\ Booked => DrilldownAgrees
  <2> SUFFICES ASSUME UptimeTyped, Booked PROVE DrilldownAgrees
    OBVIOUS
  <2>1. ASSUME Day(now) < 90, NEW n \in Fleet PROVE NodeUptime(n, 90) = credited[n]
    <3>1. now \in Instants /\ Day(now) \in Nat /\ Days \subseteq Nat
      BY DaysRight DEF UptimeTyped
    <3>2. \A d \in Days : d >= Cutoff(90)
      BY <2>1, <3>1 DEF Cutoff, ClampDays
    <3>3. {d \in Days : d >= Cutoff(90)} = Days
      BY <3>2
    <3> QED BY <3>3 DEF NodeUptime, Booked
  <2>2. 0 .. Day(MaxTime) + 1 \subseteq Nat
    OBVIOUS
  <2> QED BY <2>1, <2>2, PagesAgree DEF DrilldownAgrees
<1>2. UptimeInv => UptimeTyped
  BY DEF UptimeInv
<1> QED BY <1>1, <1>2, UptimeAlways, BookedInit, BookedStep, PTL DEF UptimeSpec

-----------------------------------------------------------------------------
(***************************************************************************)
(* What holds of NetMetrics for any interfaces, moduli, thresholds and     *)
(* number of overlapping heartbeats.                                       *)
(*                                                                         *)
(* Readings can be recorded in any order, but whichever two of them meet,  *)
(* the one with the later instant has counted at least as much: Ordered.   *)
(* So a rate, which is only computed forward in time, is of a growth, and  *)
(* a reading that is cached after a later one leaves no gap.               *)
(***************************************************************************)
CarrierStates == [pc : {"idle", "carried", "rates"}, sample : [Ifaces -> Samples] \cup {NoSample},
                  rate : [Ifaces -> Rates]]

NetTyped ==
  /\ now \in Instants
  /\ events \in [Ifaces -> [Counters -> Events]] /\ zeroAt \in [Ifaces -> [Counters -> Events]]
  /\ resets \in [Ifaces -> 0 .. MaxResets] /\ collected \in 0 .. MaxHeartbeats
  /\ carrier \in [Carriers -> CarrierStates]
  /\ \A h \in Carriers : carrier[h].pc = "carried" => carrier[h].sample \in [Ifaces -> Samples]
  /\ cached \in [Ifaces -> Samples \cup {NoSample}] /\ origin \in [Ifaces -> Samples \cup {NoSample}]
  /\ \A i \in Ifaces : cached[i] # NoSample => origin[i] # NoSample
  /\ table \in [Ifaces -> SUBSET [ts : Instants, read : Readings]]
  /\ rated \in [Ifaces -> [Counters -> SUBSET Events]] /\ unrated \in [Ifaces -> [Counters -> SUBSET Events]]

(* The samples of i the server still works with.                           *)
KnownOf(i) ==
  ({cached[i]} \cup {carrier[h].sample[i] : h \in {g \in Carriers : carrier[g].pc = "carried"}}) \ {NoSample}

Precedes(s, t) == \A c \in Counters : s.events[c] <= t.events[c]

Ordered ==
  \A i \in Ifaces : \A s \in KnownOf(i) :
    /\ s.ts <= now
    /\ \A c \in Counters : s.events[c] <= events[i][c]
    /\ \A t \in KnownOf(i) : s.ts < t.ts => Precedes(s, t)

RightRate(r) == Over(r) \cap r.clean \subseteq r.true

NetInv ==
  /\ NetTyped
  /\ Ordered
  /\ \A h \in Carriers, i \in Ifaces : RightRate(carrier[h].rate[i])
  /\ AlarmsRight
  /\ EveryEventRated

LEMMA CounterTypes ==
  /\ Instants \subseteq Nat /\ 0 \in Instants
  /\ Events \subseteq Nat /\ 0 \in Events /\ 0 .. KernelMod - 1 \subseteq Nat
BY ClockAssumption, NetMetricsAssumption DEF Instants, Events

LEMMA LimitType == \A c \in Counters : Limit(c) \in Nat \ {0}
BY NetMetricsAssumption DEF Limit

LEMMA NoRateTyped == NoRate \in Rates /\ RightRate(NoRate)
<1>1. NoRate \in Rates
  BY CounterTypes DEF NoRate, Rates
<1>2. Over(NoRate) = {}
  BY DEF Over, NoRate
<1> QED BY <1>1, <1>2 DEF RightRate

LEMMA NoCarrierTyped ==
  /\ NoCarrier \in CarrierStates /\ NoCarrier.pc = "idle"
  /\ \A i \in Ifaces : RightRate(NoCarrier.rate[i])
BY NoRateTyped DEF NoCarrier, CarrierStates

LEMMA KnownTyped ==
  ASSUME NetTyped, NEW i \in Ifaces, NEW s \in KnownOf(i)
  PROVE  s \in Samples
BY DEF NetTyped, KnownOf

LEMMA SampleTyped ==
  ASSUME NetTyped, NEW i \in Ifaces
  PROVE  /\ Sample(i) \in Samples /\ Sample(i).ts = now /\ Sample(i).events = events[i]
<1>1. ASSUME NEW c \in Counters PROVE Reading(i)[c] \in 0 .. KernelMod - 1
  <2>1. KernelMod \in Nat \ {0} /\ events[i][c] - zeroAt[i][c] \in Int
    BY CounterTypes, NetMetricsAssumption DEF NetTyped
  <2> QED BY <2>1 DEF Reading
<1>2. Reading(i) \in Readings
  BY <1>1 DEF Reading, Readings
<1> QED BY <1>2 DEF Sample, Samples, NetTyped

(* Time and counters only go forward, and what is new to the server is the *)
(* reading of now.                                                         *)
LEMMA OrderKept ==
  ASSUME NetTyped, Ordered, now' \in Instants, now <= now',
         \A i \in Ifaces, c \in Counters : events'[i][c] \in Events /\ events[i][c] <= events'[i][c],
         \A i \in Ifaces : KnownOf(i)' \subseteq KnownOf(i) \cup {Sample(i)}
  PROVE  Ordered'
<1> SUFFICES ASSUME NEW i \in Ifaces, NEW s \in KnownOf(i)'
             PROVE  /\ s.ts <= now'
                    /\ \A c \in Counters : s.events[c] <= events'[i][c]
                    /\ \A t \in KnownOf(i)' : s.ts < t.ts => Precedes(s, t)
  BY DEF Ordered, Precedes
<1>1. ASSUME NEW t \in KnownOf(i)'
      PROVE  /\ t \in Samples /\ t.ts \in Nat /\ \A c \in Counters : t.events[c] \in Nat
             /\ t.ts <= now /\ \A c \in Counters : t.events[c] <= events[i][c]
             /\ t \in KnownOf(i) \/ (t.ts = now /\ t.events = events[i])
  <2>1. CASE t \in KnownOf(i)
    BY <2>1, KnownTyped, CounterTypes DEF Samples, Ordered
  <2>2. CASE t = Sample(i)
    <3>1. t \in Samples /\ t.ts = now /\ t.events = events[i]
      BY <2>2, SampleTyped
    <3>2. t.ts \in Nat /\ \A c \in Counters : t.events[c] \in Nat
      BY <3>1, CounterTypes DEF Samples
    <3> QED BY <3>1, <3>2
  <2> QED BY <2>1, <2>2
<1>2. {now, now'} \subseteq Nat /\ \A c \in Counters : {events[i][c], events'[i][c]} \subseteq Nat
  <2>1. now \in Instants /\ \A c \in Counters : events[i][c] \in Events /\ events'[i][c] \in Events
    BY DEF NetTyped
  <2> QED BY <2>1, CounterTypes
<1>3. ASSUME NEW t \in KnownOf(i)', s.ts < t.ts PROVE Precedes(s, t)
  <2>1. CASE t.ts = now /\ t.events = events[i]
    BY <1>1, <2>1 DEF Precedes
  <2>2. CASE t \in KnownOf(i)
    <3>1. s \in KnownOf(i)
      BY <1>1, <1>2, <1>3
    <3> QED BY <1>3, <2>2, <3>1 DEF Ordered
  <2> QED BY <1>1, <2>1, <2>2
<1> QED BY <1>1, <1>2, <1>3

(* A rate between two readings the server works with.                      *)
LEMMA RateTyped ==
  ASSUME NetTyped, Ordered, NEW i \in Ifaces, NEW new \in KnownOf(i), NEW old,
         old = cached[i]
  PROVE  RateOf(old, new) \in Rates /\ RightRate(RateOf(old, new))
<1>1. CASE ~HasWindow(old, new)
  BY <1>1, NoRateTyped DEF RateOf
<1>2. CASE HasWindow(old, new)
  <2> DEFINE r == RateOf(old, new)
  <2>1. old \in KnownOf(i) /\ old \in Samples /\ new \in Samples
    BY <1>2, KnownTyped DEF HasWindow, KnownOf
  <2>2. /\ {old.ts, new.ts} \subseteq Nat /\ old.ts < new.ts /\ new.ts \in Instants
        /\ Precedes(old, new)
    BY <1>2, <2>1, CounterTypes DEF HasWindow, Ordered, Samples
  <2>3. /\ r.window = new.ts - old.ts
        /\ r.diff = [c \in Counters |-> diffUint64(new.read[c], old.read[c])]
        /\ r.clean = Clean(old, new)
        /\ r.true = {c \in Counters : Grown(old, new, c) >= Limit(c) * (new.ts - old.ts)}
    BY <1>2 DEF RateOf
  <2>4. ASSUME NEW c \in Counters
        PROVE  /\ {old.read[c], new.read[c]} \subseteq 0 .. KernelMod - 1
               /\ diffUint64(new.read[c], old.read[c]) \in Nat
               /\ Grown(old, new, c) \in Nat
               /\ c \in r.clean => diffUint64(new.read[c], old.read[c]) = Grown(old, new, c)
    <3>1. {old.read[c], new.read[c]} \subseteq 0 .. KernelMod - 1
      BY <2>1 DEF Samples, Readings
    <3>2. KernelMod \in Nat /\ ServerMod \in Nat /\ KernelMod <= ServerMod
      BY NetMetricsAssumption
    <3>3. old.events[c] \in Nat /\ new.events[c] \in Nat /\ old.events[c] <= new.events[c]
      BY <2>1, <2>2, CounterTypes DEF Samples, Precedes
    <3>4. Grown(old, new, c) \in Nat
      BY <3>3 DEF Grown
    <3>5. diffUint64(new.read[c], old.read[c]) \in Nat
      BY <3>1, <3>2 DEF diffUint64
    <3>6. c \in r.clean => new.read[c] - old.read[c] = Grown(old, new, c)
      BY <2>3 DEF Clean
    <3>7. new.read[c] - old.read[c] = Grown(old, new, c)
            => diffUint64(new.read[c], old.read[c]) = Grown(old, new, c)
      BY <3>1, <3>2, <3>4 DEF diffUint64
    <3> QED BY <3>1, <3>4, <3>5, <3>6, <3>7
  <2>5. new.ts - old.ts \in Instants
    BY <2>2, ClockAssumption DEF Instants
  <2>6. r \in Rates
    <3>1. r.diff \in [Counters -> Nat] /\ r.clean \in SUBSET Counters /\ r.true \in SUBSET Counters
      BY <2>3, <2>4 DEF Clean
    <3> QED BY <1>2, <2>3, <2>5, <3>1 DEF RateOf, Rates
  <2>7. ASSUME NEW c \in Over(r) \cap r.clean PROVE c \in r.true
    <3>1. c \in Counters /\ r.diff[c] >= Limit(c) * r.window
      BY <2>7 DEF Over
    <3>2. r.diff[c] = Grown(old, new, c)
      BY <2>3, <2>4, <2>7, <3>1
    <3> QED BY <2>3, <3>1, <3>2
  <2>8. RightRate(r)
    BY <2>7 DEF RightRate
  <2> QED BY <2>6, <2>8
<1> QED BY <1>1, <1>2

LEMMA NetInitInv == NetInit => NetInv
<1> SUFFICES ASSUME NetInit PROVE NetInv
  OBVIOUS
<1>1. /\ now = 0 /\ now \in Instants
      /\ cached = [i \in Ifaces |-> NoSample] /\ origin = [i \in Ifaces |-> NoSample]
      /\ carrier = [h \in Carriers |-> NoCarrier]
      /\ alarms = {}
  BY CounterTypes DEF NetInit, ClockInit
<1>2. /\ events = [i \in Ifaces |-> [c \in Counters |-> 0]] /\ zeroAt = events
      /\ resets = [i \in Ifaces |-> 0] /\ collected = 0
      /\ table = [i \in Ifaces |-> {}]
      /\ rated = [i \in Ifaces |-> [c \in Counters |-> {}]] /\ unrated = rated
  BY DEF NetInit
<1>3. 0 \in 0 .. MaxResets /\ 0 \in 0 .. MaxHeartbeats
  BY NetMetricsAssumption
<1>4. NetTyped
  BY <1>1, <1>2, <1>3, NoCarrierTyped, CounterTypes DEF NetTyped
<1>5. \A i \in Ifaces : KnownOf(i) = {}
  BY <1>1, NoCarrierTyped DEF KnownOf
<1>6. Ordered /\ AlarmsRight /\ EveryEventRated
  BY <1>1, <1>5 DEF Ordered, AlarmsRight, EveryEventRated
<1> QED BY <1>1, <1>4, <1>6, NoCarrierTyped DEF NetInv

(* A step that neither records nor rates anything.                         *)
LEMMA KeepsRates ==
  ASSUME NetInv, NetTyped', Ordered',
         UNCHANGED <<cached, origin, rated, unrated, alarms>>,
         \A h \in Carriers, i \in Ifaces : RightRate(carrier'[h].rate[i])
  PROVE  NetInv'
<1>1. AlarmsRight' /\ EveryEventRated'
  BY DEF NetInv, AlarmsRight, EveryEventRated
<1> QED BY <1>1 DEF NetInv, RightRate, Over, Limit

(* What new adds to what was rated of i since its first cached reading.    *)
LEMMA RatedOnTime ==
  ASSUME NetInv, NEW i \in Ifaces, NEW c \in Counters, NEW new \in KnownOf(i), cached[i] # NoSample,
         NEW more, more = rated[i][c] \cup unrated[i][c]
                            \cup IF new.ts >= cached[i].ts THEN Between(cached[i], new, c) ELSE {}
  PROVE  Between(origin[i], new, c) \subseteq more
<1>1. /\ cached[i] \in KnownOf(i) /\ cached[i] \in Samples /\ new \in Samples
      /\ origin[i] \in Samples
  BY KnownTyped DEF NetInv, KnownOf, NetTyped
<1>2. /\ {cached[i].ts, new.ts} \subseteq Nat
      /\ {origin[i].events[c], cached[i].events[c], new.events[c]} \subseteq Nat
  BY <1>1, CounterTypes DEF Samples
<1>3. Between(origin[i], cached[i], c) \subseteq rated[i][c] \cup unrated[i][c]
  BY DEF NetInv, EveryEventRated
<1>4. CASE new.ts >= cached[i].ts
  <2>1. Between(origin[i], new, c) \subseteq Between(origin[i], cached[i], c) \cup Between(cached[i], new, c)
    BY <1>2 DEF Between
  <2> QED BY <1>3, <1>4, <2>1
<1>5. CASE ~(new.ts >= cached[i].ts)
  <2>1. new.events[c] <= cached[i].events[c]
    BY <1>1, <1>2, <1>5 DEF NetInv, Ordered, Precedes
  <2>2. Between(origin[i], new, c) \subseteq Between(origin[i], cached[i], c)
    BY <1>2, <2>1 DEF Between
  <2> QED BY <1>3, <2>2
<1> QED BY <1>4, <1>5

LEMMA ReadingStep ==
  ASSUME NetInv, NEW h \in Carriers, RecordNetworkSamples(h)
  PROVE  NetInv'
<1> DEFINE new == carrier[h].sample
           rate == [i \in Ifaces |-> RateOf(cached[i], new[i])]
<1>1. /\ new \in [Ifaces -> Samples] /\ carrier[h].pc = "carried"
      /\ \A i \in Ifaces : new[i] \in Samples /\ new[i] # NoSample /\ new[i] \in KnownOf(i)
  BY NoSampleAssumption DEF RecordNetworkSamples, NetInv, NetTyped, KnownOf
<1>2. rate \in [Ifaces -> Rates] /\ \A i \in Ifaces : RightRate(rate[i])
  BY <1>1, RateTyped DEF NetInv
<1>3. /\ carrier' = [carrier EXCEPT ![h] = [pc |-> "rates", sample |-> NoSample, rate |-> rate]]
      /\ cached' = new /\ UNCHANGED <<now, events, zeroAt, resets, collected, alarms>>
      /\ origin' = [i \in Ifaces |-> IF cached[i] = NoSample THEN new[i] ELSE origin[i]]
      /\ rated' = [i \in Ifaces |-> [c \in Counters |-> rated[i][c] \cup
                     IF HasWindow(cached[i], new[i]) THEN Between(cached[i], new[i], c) ELSE {}]]
      /\ unrated' = [i \in Ifaces |-> [c \in Counters |-> unrated[i][c] \cup
                       IF cached[i] # NoSample /\ new[i].ts = cached[i].ts
                       THEN Between(cached[i], new[i], c) ELSE {}]]
  BY DEF RecordNetworkSamples
<1> HIDE DEF rate
<1>4. [pc |-> "rates", sample |-> NoSample, rate |-> rate] \in CarrierStates
  BY <1>2 DEF CarrierStates
<1>5. ASSUME NEW i \in Ifaces, NEW c \in Counters, cached[i] # NoSample
      PROVE  Between(cached[i], new[i], c) \subseteq Events
  <2>1. cached[i] \in Samples /\ new[i] \in Samples
    BY <1>1, <1>5 DEF NetInv, NetTyped
  <2>2. cached[i].events[c] \in Events /\ new[i].events[c] \in Events
    BY <2>1 DEF Samples
  <2> QED BY <2>2, NetMetricsAssumption DEF Between, Events
<1>6. rated' \in [Ifaces -> [Counters -> SUBSET Events]]
      /\ unrated' \in [Ifaces -> [Counters -> SUBSET Events]]
  BY <1>3, <1>5 DEF HasWindow, NetInv, NetTyped
<1>7. table' \in [Ifaces -> SUBSET [ts : Instants, read : Readings]]
  <2>1. \A i \in Ifaces : Row(new[i]) \in [ts : Instants, read : Readings]
    BY <1>1 DEF Row, Samples
  <2>2. CASE UNCHANGED table
    BY <2>2 DEF NetInv, NetTyped
  <2>3. ASSUME NEW stored \in SUBSET Ifaces,
               table' = [i \in Ifaces |->
                           {r \in table[i] \cup (IF i \in stored THEN {Row(new[i])} ELSE {}) :
                              r.ts >= now - SampleRetention}]
        PROVE  table' \in [Ifaces -> SUBSET [ts : Instants, read : Readings]]
    BY <2>1, <2>3 DEF NetInv, NetTyped
  <2> QED BY <2>2, <2>3 DEF RecordNetworkSamples
<1>8. NetTyped'
  <2>1. carrier' \in [Carriers -> CarrierStates]
        /\ \A g \in Carriers : carrier'[g].pc = "carried" => carrier'[g] = carrier[g] /\ carrier[g].pc = "carried"
    BY <1>3, <1>4 DEF NetInv, NetTyped
  <2>2. /\ cached' \in [Ifaces -> Samples \cup {NoSample}] /\ origin' \in [Ifaces -> Samples \cup {NoSample}]
        /\ \A i \in Ifaces : cached'[i] # NoSample => origin'[i] # NoSample
    BY <1>1, <1>3 DEF NetInv, NetTyped
  <2> QED BY <1>3, <1>6, <1>7, <2>1, <2>2 DEF NetInv, NetTyped, Instants, Events, Samples, Readings
<1>9. Ordered'
  <2>1. \A i \in Ifaces : KnownOf(i)' \subseteq KnownOf(i) \cup {Sample(i)}
    <3>1. \A g \in Carriers : carrier'[g].pc = "carried" => carrier'[g] = carrier[g]
      BY <1>3, <1>4 DEF NetInv, NetTyped
    <3> QED BY <1>1, <1>3, <3>1 DEF KnownOf
  <2>2. now <= now' /\ \A i \in Ifaces, c \in Counters : events'[i][c] \in Events /\ events[i][c] <= events'[i][c]
    BY <1>3, CounterTypes DEF NetInv, NetTyped
  <2> QED BY <1>3, <2>1, <2>2, OrderKept DEF NetInv, NetTyped
<1>10. \A g \in Carriers, i \in Ifaces : RightRate(carrier'[g].rate[i])
  BY <1>2, <1>3 DEF NetInv, NetTyped
<1>11. EveryEventRated'
  <2> SUFFICES ASSUME NEW i \in Ifaces, NEW c \in Counters
               PROVE  Between(origin'[i], new[i], c) \subseteq rated'[i][c] \cup unrated'[i][c]
    BY <1>3 DEF EveryEventRated
  <2>1. CASE cached[i] = NoSample
    <3>1. new[i].events[c] \in Nat
      BY <1>1, CounterTypes DEF Samples
    <3>2. origin'[i] = new[i]
      BY <1>3, <2>1
    <3>3. Between(new[i], new[i], c) = {}
      BY <3>1 DEF Between
    <3> QED BY <3>2, <3>3
  <2>2. CASE cached[i] # NoSample
    <3>1. PICK more : more = rated[i][c] \cup unrated[i][c]
                               \cup IF new[i].ts >= cached[i].ts THEN Between(cached[i], new[i], c) ELSE {}
      OBVIOUS
    <3>2. Between(origin[i], new[i], c) \subseteq more
      BY <1>1, <2>2, <3>1, RatedOnTime
    <3>3. new[i].ts \in Nat /\ cached[i].ts \in Nat
      BY <1>1, <2>2, CounterTypes DEF Samples, NetInv, NetTyped
    <3>4. more \subseteq rated'[i][c] \cup unrated'[i][c]
      <4>1. /\ rated'[i][c] = rated[i][c] \cup IF HasWindow(cached[i], new[i])
                                               THEN Between(cached[i], new[i], c) ELSE {}
            /\ unrated'[i][c] = unrated[i][c] \cup IF new[i].ts = cached[i].ts
                                                   THEN Between(cached[i], new[i], c) ELSE {}
        BY <1>3, <2>2
      <4>2. new[i].ts >= cached[i].ts => HasWindow(cached[i], new[i]) \/ new[i].ts = cached[i].ts
        BY <2>2, <3>3 DEF HasWindow
      <4> QED BY <3>1, <4>1, <4>2
    <3>5. origin'[i] = origin[i]
      BY <1>3, <2>2
    <3> QED BY <3>2, <3>4, <3>5
  <2> QED BY <2>1, <2>2
<1>12. AlarmsRight'
  BY <1>3 DEF NetInv, AlarmsRight
<1> QED BY <1>8, <1>9, <1>10, <1>11, <1>12 DEF NetInv, RightRate, Over, Limit

LEMMA NetStep == NetInv /\ [NetNext]_netVars => NetInv'
<1> SUFFICES ASSUME NetInv, [NetNext]_netVars PROVE NetInv'
  OBVIOUS
<1>0. /\ NetTyped /\ Ordered /\ now \in Instants /\ now \in Nat
      /\ \A i \in Ifaces, c \in Counters :
           events[i][c] \in Events /\ events[i][c] \in Nat /\ events[i][c] <= events[i][c]
      /\ \A h \in Carriers, i \in Ifaces : RightRate(carrier[h].rate[i])
  <2>1. now \in Nat
    BY CounterTypes DEF NetInv, NetTyped
  <2>2. ASSUME NEW i \in Ifaces, NEW c \in Counters PROVE events[i][c] \in Events /\ events[i][c] \in Nat
    BY CounterTypes DEF NetInv, NetTyped
  <2> QED BY <2>1, <2>2 DEF NetInv, NetTyped
<1>1. ASSUME NEW i \in Ifaces, NEW c \in Counters, CounterCounts(i, c) PROVE NetInv'
  <2>1. /\ events' = [events EXCEPT ![i][c] = @ + 1] /\ events[i][c] + 1 \in Events
        /\ UNCHANGED <<now, zeroAt, resets, collected, carrier, cached, table, origin, rated, unrated, alarms>>
    BY <1>0, <1>1, NetMetricsAssumption DEF CounterCounts, Events
  <2>2. /\ events' \in [Ifaces -> [Counters -> Events]]
        /\ \A j \in Ifaces, d \in Counters : events'[j][d] \in Events /\ events[j][d] <= events'[j][d]
    BY <1>0, <2>1 DEF NetTyped
  <2>3. NetTyped'
    BY <2>1, <2>2 DEF NetInv, NetTyped, Instants, Events, Samples, Readings
  <2>4. Ordered'
    BY <1>0, <2>1, <2>2, OrderKept DEF KnownOf
  <2> QED BY <1>0, <2>1, <2>3, <2>4, KeepsRates
<1>2. ASSUME NEW i \in Ifaces, CountersReset(i) PROVE NetInv'
  <2>1. /\ zeroAt' = [zeroAt EXCEPT ![i] = events[i]] /\ resets' = [resets EXCEPT ![i] = @ + 1]
        /\ resets[i] + 1 \in 0 .. MaxResets
        /\ UNCHANGED <<now, events, collected, carrier, cached, table, origin, rated, unrated, alarms>>
    BY <1>0, <1>2, NetMetricsAssumption DEF CountersReset, NetTyped
  <2>2. NetTyped'
    BY <2>1 DEF NetInv, NetTyped, Instants, Events, Samples, Readings
  <2>3. Ordered'
    BY <1>0, <2>1, OrderKept DEF KnownOf
  <2> QED BY <1>0, <2>1, <2>2, <2>3, KeepsRates
<1>3. ASSUME NEW h \in Carriers, CollectNetworkInterfaces(h) PROVE NetInv'
  <2> DEFINE s == [NoCarrier EXCEPT !.pc = "carried", !.sample = [i \in Ifaces |-> Sample(i)]]
  <2>1. /\ carrier' = [carrier EXCEPT ![h] = s] /\ collected' \in 0 .. MaxHeartbeats
        /\ UNCHANGED <<now, events, zeroAt, resets, cached, table, origin, rated, unrated, alarms>>
    BY <1>0, <1>3, NetMetricsAssumption DEF CollectNetworkInterfaces, NetTyped
  <2>2. /\ s \in CarrierStates /\ s.pc = "carried" /\ s.rate = NoCarrier.rate
        /\ s.sample = [i \in Ifaces |-> Sample(i)] /\ s.sample \in [Ifaces -> Samples]
    BY <1>0, SampleTyped, NoCarrierTyped DEF NoCarrier, CarrierStates
  <2> HIDE DEF s
  <2>3. /\ carrier' \in [Carriers -> CarrierStates]
        /\ \A g \in Carriers : carrier'[g] = IF g = h THEN s ELSE carrier[g]
    BY <2>1, <2>2 DEF NetInv, NetTyped
  <2>4. NetTyped'
    BY <2>1, <2>2, <2>3 DEF NetInv, NetTyped, Instants, Events, Samples, Readings
  <2>5. \A i \in Ifaces : KnownOf(i)' \subseteq KnownOf(i) \cup {Sample(i)}
    BY <2>1, <2>2, <2>3 DEF KnownOf
  <2>6. Ordered'
    BY <1>0, <2>1, <2>5, OrderKept
  <2>7. \A g \in Carriers, i \in Ifaces : RightRate(carrier'[g].rate[i])
    BY <1>0, <2>2, <2>3, NoCarrierTyped
  <2> QED BY <2>1, <2>4, <2>6, <2>7, KeepsRates
<1>4. ASSUME NEW h \in Carriers, carrier' = [carrier EXCEPT ![h] = NoCarrier],
             UNCHANGED <<now, events, zeroAt, resets, collected, cached, table, origin, rated, unrated>>
      PROVE  /\ NetTyped' /\ Ordered'
             /\ \A g \in Carriers, i \in Ifaces : RightRate(carrier'[g].rate[i])
  <2>1. /\ carrier' \in [Carriers -> CarrierStates]
        /\ \A g \in Carriers : carrier'[g] = IF g = h THEN NoCarrier ELSE carrier[g]
    BY <1>4, NoCarrierTyped DEF NetInv, NetTyped
  <2>2. NetTyped'
    BY <1>4, <2>1, NoCarrierTyped DEF NetInv, NetTyped, Instants, Events, Samples, Readings
  <2>3. \A i \in Ifaces : KnownOf(i)' \subseteq KnownOf(i)
    BY <1>4, <2>1, NoCarrierTyped DEF KnownOf
  <2>4. Ordered'
    BY <1>0, <1>4, <2>3, OrderKept
  <2> QED BY <1>0, <2>1, <2>2, <2>4, NoCarrierTyped
<1>5. ASSUME NEW h \in Carriers, RecordFails(h) PROVE NetInv'
  BY <1>4, <1>5, KeepsRates DEF RecordFails
<1>6. ASSUME NEW h \in Carriers, EvaluateNetworkAlerts(h) PROVE NetInv'
  <2>1. NetTyped' /\ Ordered' /\ \A g \in Carriers, i \in Ifaces : RightRate(carrier'[g].rate[i])
    BY <1>4, <1>6 DEF EvaluateNetworkAlerts
  <2>2. \A i \in Ifaces, k \in Kinds : Alarm(carrier[h].rate[i], i, k).right
    BY <1>0 DEF Alarm, RightRate
  <2>3. AlarmsRight'
    BY <1>6, <2>2 DEF EvaluateNetworkAlerts, NetInv, AlarmsRight
  <2>4. EveryEventRated'
    BY <1>6 DEF EvaluateNetworkAlerts, NetInv, EveryEventRated
  <2> QED BY <2>1, <2>3, <2>4 DEF NetInv, RightRate, Over, Limit
<1>7. ASSUME NEW h \in Carriers, RecordNetworkSamples(h) PROVE NetInv'
  BY <1>7, ReadingStep
<1>8. ASSUME NetRestart PROVE NetInv'
  <2>1. /\ cached' = [i \in Ifaces |-> NoSample] /\ origin' = [i \in Ifaces |-> NoSample]
        /\ carrier' = [h \in Carriers |-> NoCarrier]
        /\ UNCHANGED <<now, events, zeroAt, resets, collected, table, rated, unrated, alarms>>
    BY <1>8 DEF NetRestart
  <2>2. NetTyped'
    BY <2>1, NoCarrierTyped DEF NetInv, NetTyped, Instants, Events, Samples, Readings
  <2>3. \A i \in Ifaces : KnownOf(i)' = {}
    BY <2>1, NoCarrierTyped DEF KnownOf
  <2>4. Ordered' /\ EveryEventRated' /\ AlarmsRight'
    BY <2>1, <2>3 DEF Ordered, EveryEventRated, NetInv, AlarmsRight
  <2>5. \A g \in Carriers, i \in Ifaces : RightRate(carrier'[g].rate[i])
    BY <2>1, NoCarrierTyped
  <2> QED BY <2>2, <2>4, <2>5 DEF NetInv, RightRate, Over, Limit
<1>9. ASSUME NetPasses PROVE NetInv'
  <2>1. /\ now' \in Instants /\ now <= now'
        /\ UNCHANGED <<events, zeroAt, resets, collected, carrier, cached, table, origin, rated, unrated, alarms>>
    BY <1>0, <1>9, ClockAssumption DEF NetPasses, Passes, Instants
  <2>2. NetTyped'
    BY <2>1 DEF NetInv, NetTyped, Instants, Events, Samples, Readings
  <2>3. Ordered'
    BY <1>0, <2>1, OrderKept DEF KnownOf
  <2> QED BY <1>0, <2>1, <2>2, <2>3, KeepsRates
<1>10. ASSUME UNCHANGED netVars PROVE NetInv'
  <2>1. UNCHANGED <<now, events, zeroAt, resets, collected, carrier, cached, table, origin, rated, unrated, alarms>>
    BY <1>10 DEF netVars
  <2>2. NetTyped'
    BY <2>1 DEF NetInv, NetTyped, Instants, Events, Samples, Readings
  <2>3. Ordered'
    BY <1>0, <2>1, OrderKept DEF KnownOf
  <2> QED BY <1>0, <2>1, <2>2, <2>3, KeepsRates
<1> QED BY <1>1, <1>2, <1>3, <1>5, <1>6, <1>7, <1>8, <1>9, <1>10 DEF NetNext

LEMMA AlwaysNetInv == NetSpec => []NetInv
BY NetInitInv, NetStep, PTL DEF NetSpec

(* Readings, rates and rows keep their types; no difference of two         *)
(* readings is negative, whatever the kernel's counters wrap at.           *)
THEOREM NetTypes == NetSpec => []NetTypeOK
<1>1. NetInv => NetTypeOK
  BY DEF NetInv, NetTyped, CarrierStates, NetTypeOK
<1> QED BY <1>1, AlwaysNetInv, PTL

(* No alarm is wrong about a counter that neither reset nor wrapped, for   *)
(* any number of heartbeats that overlap and overtake each other           *)
(* (RecordNetworkSamples, evaluateNetworkAlerts).                          *)
THEOREM AlarmsTrue == NetSpec => []AlarmsRight
<1>1. NetInv => AlarmsRight
  BY DEF NetInv
<1> QED BY <1>1, AlwaysNetInv, PTL

(* Nothing a counter counted since a process first read it escapes every   *)
(* rate, but for readings of the same second.                              *)
THEOREM NothingUnrated == NetSpec => []EveryEventRated
<1>1. NetInv => EveryEventRated
  BY DEF NetInv
<1> QED BY <1>1, AlwaysNetInv, PTL

-----------------------------------------------------------------------------
(* The traffic series.  As long as an interface has neither reset nor      *)
(* wrapped, a row of a later instant shows no smaller reading, in whatever *)
(* order the rows were recorded: Rising.  So what one bucket shows lies    *)
(* above all that the buckets before it show.                              *)
ShownOf(i) == table[i] \cup {Row(s) : s \in KnownOf(i)}

ZeroStart == \A i \in Ifaces : resets[i] = 0 => \A c \in Counters : zeroAt[i][c] = 0

RisesOn(i, c) ==
  \A p \in ShownOf(i) :
    /\ p.ts <= now /\ p.read[c] <= events[i][c]
    /\ \A q \in ShownOf(i) : p.ts < q.ts => p.read[c] <= q.read[c]

Rising ==
  \A i \in Ifaces, c \in Counters : resets[i] = 0 /\ events[i][c] < KernelMod => RisesOn(i, c)

LEMMA ShownTyped ==
  ASSUME NetTyped, NEW i \in Ifaces, NEW p \in ShownOf(i)
  PROVE  p.ts \in Nat /\ p.ts <= MaxTime /\ \A c \in Counters : p.read[c] \in Nat
<1>1. \E ts \in Instants, read \in Readings : p.ts = ts /\ p.read = read
  <2>1. CASE p \in table[i]
    <3>1. table[i] \in SUBSET [ts : Instants, read : Readings]
      BY DEF NetTyped
    <3> QED BY <2>1, <3>1
  <2>2. ASSUME NEW s \in KnownOf(i), p = Row(s) PROVE \E ts \in Instants, read \in Readings : p.ts = ts /\ p.read = read
    <3>1. s.ts \in Instants /\ s.read \in Readings
      BY KnownTyped DEF Samples
    <3> QED BY <2>2, <3>1 DEF Row
  <2> QED BY <2>1, <2>2 DEF ShownOf
<1>2. PICK ts \in Instants, read \in Readings : p.ts = ts /\ p.read = read
  BY <1>1
<1>3. ts \in Nat /\ ts <= MaxTime
  BY CounterTypes DEF Instants
<1>4. \A c \in Counters : read[c] \in Nat
  BY CounterTypes DEF Readings
<1> QED BY <1>2, <1>3, <1>4

LEMMA RisingKept ==
  ASSUME NetTyped, ZeroStart, Rising, now' \in Nat, now <= now',
         \A i \in Ifaces, c \in Counters : events'[i][c] \in Nat /\ events[i][c] <= events'[i][c],
         \A i \in Ifaces : resets'[i] = 0 => resets[i] = 0,
         \A i \in Ifaces : ShownOf(i)' \subseteq ShownOf(i) \cup {Row(Sample(i))}
  PROVE  Rising'
<1> SUFFICES ASSUME NEW i \in Ifaces, NEW c \in Counters, resets'[i] = 0, events'[i][c] < KernelMod
             PROVE  RisesOn(i, c)'
  BY DEF Rising
<1>1. now \in Nat /\ events[i][c] \in Nat /\ events'[i][c] \in Nat /\ events[i][c] <= events'[i][c]
  BY CounterTypes DEF NetTyped
<1>2. KernelMod \in Nat \ {0}
  BY NetMetricsAssumption
<1>3. events[i][c] < KernelMod /\ resets[i] = 0 /\ zeroAt[i][c] = 0
  BY <1>1, <1>2 DEF ZeroStart
<1>4. RisesOn(i, c)
  BY <1>3 DEF Rising
<1>5. Row(Sample(i)).ts = now /\ Row(Sample(i)).read[c] = events[i][c]
  <2>1. (events[i][c] - 0) % KernelMod = events[i][c]
    BY <1>1, <1>2, <1>3
  <2> QED BY <1>3, <2>1 DEF Row, Sample, Reading
<1>6. ASSUME NEW p \in ShownOf(i)'
      PROVE  /\ p.ts \in Nat /\ p.read[c] \in Nat /\ p.ts <= now /\ p.read[c] <= events[i][c]
             /\ p \in ShownOf(i) \/ (p.ts = now /\ p.read[c] = events[i][c])
  <2>1. CASE p \in ShownOf(i)
    BY <1>4, <2>1, ShownTyped DEF RisesOn
  <2>2. CASE p = Row(Sample(i))
    BY <1>1, <1>5, <2>2
  <2> QED BY <2>1, <2>2
<1>7. ASSUME NEW p \in ShownOf(i)', NEW q \in ShownOf(i)', p.ts < q.ts PROVE p.read[c] <= q.read[c]
  <2>1. p \in ShownOf(i)
    BY <1>1, <1>6, <1>7
  <2>2. CASE q \in ShownOf(i)
    BY <1>4, <1>7, <2>1, <2>2 DEF RisesOn
  <2>3. CASE q.read[c] = events[i][c]
    BY <1>6, <2>3
  <2> QED BY <1>6, <2>2, <2>3
<1>8. ASSUME NEW p \in ShownOf(i)' PROVE p.ts <= now' /\ p.read[c] <= events'[i][c]
  BY <1>1, <1>6
<1> QED BY <1>7, <1>8 DEF RisesOn

LEMMA RisingInit == NetInit => ZeroStart /\ Rising
<1> SUFFICES ASSUME NetInit PROVE ZeroStart /\ Rising
  OBVIOUS
<1>1. /\ cached = [i \in Ifaces |-> NoSample] /\ carrier = [h \in Carriers |-> NoCarrier]
      /\ zeroAt = [i \in Ifaces |-> [c \in Counters |-> 0]] /\ table = [i \in Ifaces |-> {}]
  BY DEF NetInit
<1>2. \A i \in Ifaces : ShownOf(i) = {}
  BY <1>1, NoCarrierTyped DEF KnownOf, ShownOf
<1> QED BY <1>1, <1>2 DEF ZeroStart, Rising, RisesOn

LEMMA RisingStep ==
  NetTyped /\ NetTyped' /\ ZeroStart /\ Rising /\ [NetNext]_netVars => ZeroStart' /\ Rising'
<1> SUFFICES ASSUME NetTyped, NetTyped', ZeroStart, Rising, [NetNext]_netVars PROVE ZeroStart' /\ Rising'
  OBVIOUS
<1>0. /\ now \in Nat /\ now' \in Nat /\ now <= now
      /\ \A i \in Ifaces, c \in Counters :
           events[i][c] \in Nat /\ events'[i][c] \in Nat /\ events[i][c] <= events[i][c]
      /\ \A i \in Ifaces : resets[i] \in Nat
  <2>1. now \in Nat /\ now' \in Nat
    BY CounterTypes DEF NetTyped, Instants
  <2>2. ASSUME NEW i \in Ifaces, NEW c \in Counters PROVE events[i][c] \in Nat /\ events'[i][c] \in Nat
    BY CounterTypes DEF NetTyped, Events
  <2>3. \A i \in Ifaces : resets[i] \in Nat
    BY DEF NetTyped
  <2> QED BY <2>1, <2>2, <2>3
<1>1. ASSUME NEW i \in Ifaces, NEW c \in Counters, CounterCounts(i, c) PROVE ZeroStart' /\ Rising'
  <2>1. /\ events' = [events EXCEPT ![i][c] = @ + 1]
        /\ UNCHANGED <<now, zeroAt, resets, carrier, cached, table>>
    BY <1>1 DEF CounterCounts
  <2>2. \A j \in Ifaces, d \in Counters : events[j][d] <= events'[j][d]
    BY <1>0, <2>1 DEF NetTyped
  <2>3. \A j \in Ifaces : ShownOf(j)' = ShownOf(j)
    BY <2>1 DEF ShownOf, KnownOf
  <2> QED BY <1>0, <2>1, <2>2, <2>3, RisingKept DEF ZeroStart
<1>2. ASSUME NEW i \in Ifaces, CountersReset(i) PROVE ZeroStart' /\ Rising'
  <2>1. /\ zeroAt' = [zeroAt EXCEPT ![i] = events[i]] /\ resets' = [resets EXCEPT ![i] = @ + 1]
        /\ UNCHANGED <<now, events, carrier, cached, table>>
    BY <1>2 DEF CountersReset
  <2>2. resets'[i] # 0 /\ \A j \in Ifaces \ {i} : resets'[j] = resets[j] /\ zeroAt'[j] = zeroAt[j]
    BY <1>0, <2>1 DEF NetTyped
  <2>3. \A j \in Ifaces : ShownOf(j)' = ShownOf(j)
    BY <2>1 DEF ShownOf, KnownOf
  <2>4. \A j \in Ifaces : resets'[j] = 0 => resets[j] = 0
    BY <2>2
  <2> QED BY <1>0, <2>1, <2>2, <2>3, <2>4, RisingKept DEF ZeroStart
<1>3. ASSUME NEW h \in Carriers, CollectNetworkInterfaces(h) PROVE ZeroStart' /\ Rising'
  <2> DEFINE s == [NoCarrier EXCEPT !.pc = "carried", !.sample = [i \in Ifaces |-> Sample(i)]]
  <2>1. /\ carrier' = [carrier EXCEPT ![h] = s]
        /\ UNCHANGED <<now, events, zeroAt, resets, cached, table>>
    BY <1>3 DEF CollectNetworkInterfaces
  <2>2. s.pc = "carried" /\ \A i \in Ifaces : s.sample[i] = Sample(i)
    BY DEF NoCarrier
  <2> HIDE DEF s
  <2>3. \A g \in Carriers : carrier'[g] = IF g = h THEN s ELSE carrier[g]
    BY <2>1 DEF NetTyped
  <2>4. \A i \in Ifaces : KnownOf(i)' \subseteq KnownOf(i) \cup {Sample(i)}
    BY <2>1, <2>2, <2>3 DEF KnownOf
  <2>5. \A i \in Ifaces : ShownOf(i)' \subseteq ShownOf(i) \cup {Row(Sample(i))}
    BY <2>1, <2>4 DEF ShownOf, Row
  <2> QED BY <1>0, <2>1, <2>5, RisingKept DEF ZeroStart
<1>4. ASSUME NEW h \in Carriers, carrier' = [carrier EXCEPT ![h] = NoCarrier],
             UNCHANGED <<now, events, zeroAt, resets, cached, table>>
      PROVE  ZeroStart' /\ Rising'
  <2>1. \A g \in Carriers : carrier'[g] = IF g = h THEN NoCarrier ELSE carrier[g]
    BY <1>4 DEF NetTyped
  <2>2. \A i \in Ifaces : KnownOf(i)' \subseteq KnownOf(i)
    BY <1>4, <2>1, NoCarrierTyped DEF KnownOf
  <2>3. \A i \in Ifaces : ShownOf(i)' \subseteq ShownOf(i)
    BY <1>4, <2>2 DEF ShownOf, Row
  <2> QED BY <1>0, <1>4, <2>3, RisingKept DEF ZeroStart
<1>5. ASSUME NEW h \in Carriers, RecordFails(h) \/ EvaluateNetworkAlerts(h) PROVE ZeroStart' /\ Rising'
  BY <1>4, <1>5 DEF RecordFails, EvaluateNetworkAlerts
<1>6. ASSUME NEW h \in Carriers, RecordNetworkSamples(h) PROVE ZeroStart' /\ Rising'
  <2>1. /\ cached' = carrier[h].sample /\ carrier[h].pc = "carried"
        /\ \A g \in Carriers : carrier'[g].pc = "carried" => carrier[g].pc = "carried" /\ carrier'[g] = carrier[g]
        /\ \A i \in Ifaces : table'[i] \subseteq table[i] \cup {Row(carrier[h].sample[i])}
        /\ UNCHANGED <<now, events, zeroAt, resets>>
    <3>1. cached' = carrier[h].sample /\ carrier[h].pc = "carried" /\ UNCHANGED <<now, events, zeroAt, resets>>
      BY <1>6 DEF RecordNetworkSamples
    <3>2. \A g \in Carriers : carrier'[g].pc = "carried" => carrier[g].pc = "carried" /\ carrier'[g] = carrier[g]
      <4>1. \E r : r.pc = "rates" /\ carrier' = [carrier EXCEPT ![h] = r]
        BY <1>6 DEF RecordNetworkSamples
      <4>2. PICK r : r.pc = "rates" /\ carrier' = [carrier EXCEPT ![h] = r]
        BY <4>1
      <4>3. \A g \in Carriers : carrier'[g] = IF g = h THEN r ELSE carrier[g]
        BY <4>2 DEF NetTyped
      <4> QED BY <4>2, <4>3
    <3>3. \A i \in Ifaces : table'[i] \subseteq table[i] \cup {Row(carrier[h].sample[i])}
      <4>1. ASSUME NEW stored \in SUBSET Ifaces,
                   table' = [i \in Ifaces |->
                               {r \in table[i] \cup (IF i \in stored THEN {Row(carrier[h].sample[i])} ELSE {}) :
                                  r.ts >= now - SampleRetention}]
            PROVE  \A i \in Ifaces : table'[i] \subseteq table[i] \cup {Row(carrier[h].sample[i])}
        BY <4>1
      <4> QED BY <1>6, <4>1 DEF RecordNetworkSamples
    <3> QED BY <3>1, <3>2, <3>3
  <2>2. \A i \in Ifaces : carrier[h].sample[i] \in KnownOf(i)
    <3>1. \A i \in Ifaces : carrier[h].sample[i] \in Samples
      BY <2>1 DEF NetTyped
    <3> QED BY <2>1, <3>1, NoSampleAssumption DEF KnownOf
  <2>3. \A i \in Ifaces : KnownOf(i)' \subseteq KnownOf(i)
    BY <2>1, <2>2 DEF KnownOf
  <2>4. \A i \in Ifaces : ShownOf(i)' \subseteq ShownOf(i)
    BY <2>1, <2>2, <2>3 DEF ShownOf, Row
  <2> QED BY <1>0, <2>1, <2>4, RisingKept DEF ZeroStart
<1>7. CASE NetRestart
  <2>1. /\ cached' = [i \in Ifaces |-> NoSample] /\ carrier' = [h \in Carriers |-> NoCarrier]
        /\ UNCHANGED <<now, events, zeroAt, resets, table>>
    BY <1>7 DEF NetRestart
  <2>2. \A i \in Ifaces : KnownOf(i)' = {}
    BY <2>1, NoCarrierTyped DEF KnownOf
  <2>3. \A i \in Ifaces : ShownOf(i)' \subseteq ShownOf(i)
    BY <2>1, <2>2 DEF ShownOf
  <2> QED BY <1>0, <2>1, <2>3, RisingKept DEF ZeroStart
<1>8. CASE NetPasses \/ UNCHANGED netVars
  <2>1. now <= now' /\ UNCHANGED <<events, zeroAt, resets, carrier, cached, table>>
    BY <1>0, <1>8 DEF NetPasses, Passes, netVars
  <2>2. \A i \in Ifaces : ShownOf(i)' = ShownOf(i)
    BY <2>1 DEF ShownOf, KnownOf
  <2> QED BY <1>0, <2>1, <2>2, RisingKept DEF ZeroStart
<1> QED BY <1>1, <1>2, <1>3, <1>5, <1>6, <1>7, <1>8 DEF NetNext

(* The largest and the smallest of some numbers below a bound.             *)
LEMMA Extremes ==
  ASSUME NEW R \in SUBSET Nat, R # {}, NEW top \in Nat, \A r \in R : r <= top
  PROVE  /\ Max(R) \in R /\ \A r \in R : r <= Max(R)
         /\ Min(R) \in R /\ \A r \in R : Min(R) <= r
<1>1. \E m \in R : \A r \in R : m <= r
  BY LeastExists
<1>2. \E m \in R : \A r \in R : m >= r
  <2> DEFINE I == {top - r : r \in R}
  <2>0. \A r \in R : top - r \in Nat
    <3>1. ASSUME NEW r \in R PROVE top - r \in Nat
      <4>1. r \in Nat /\ r <= top
        OBVIOUS
      <4> QED BY <4>1
    <3> QED BY <3>1
  <2>1. I \in SUBSET Nat /\ I # {}
    BY <2>0
  <2>2. PICK i \in I : \A j \in I : i <= j
    <3> HIDE DEF I
    <3> QED BY <2>1, LeastExists
  <2>3. PICK m \in R : i = top - m
    OBVIOUS
  <2>4. ASSUME NEW r \in R PROVE m >= r
    <3>1. top - m <= top - r
      BY <2>2, <2>3
    <3>2. m \in Nat /\ r \in Nat
      OBVIOUS
    <3> QED BY <3>1, <3>2
  <2> QED BY <2>4
<1>3. Min(R) \in R /\ \A r \in R : Min(R) <= r
  BY <1>1 DEF Min
<1>4. Max(R) \in R /\ \A r \in R : Max(R) >= r
  BY <1>2 DEF Max
<1>5. \A r \in R : r <= Max(R)
  BY <1>4
<1> QED BY <1>3, <1>4, <1>5

(* Stretches that lie one above the other are together no longer than what *)
(* they all lie in.                                                        *)
Stretches(S, lo, hi, top) ==
  /\ S \subseteq Nat
  /\ \A b \in S : lo[b] \in Nat /\ hi[b] \in Nat /\ lo[b] <= hi[b] /\ hi[b] <= top
  /\ \A a, b \in S : a < b => hi[a] <= lo[b]

Lengths(S, lo, hi) == [b \in S |-> hi[b] - lo[b]]

LEMMA StretchesFit ==
  ASSUME NEW S, IsFiniteSet(S), NEW lo, NEW hi, NEW top \in Nat, Stretches(S, lo, hi, top)
  PROVE  SumFunctionOnSet(Lengths(S, lo, hi), S) <= top
<1> DEFINE f == Lengths(S, lo, hi)
<1>0. ASSUME NEW b \in S
      PROVE  /\ lo[b] \in Nat /\ hi[b] \in Nat /\ lo[b] <= hi[b] /\ hi[b] <= top
             /\ f[b] = hi[b] - lo[b] /\ f[b] \in Int
  BY DEF Stretches, Lengths
<1> HIDE DEF f
<1> DEFINE sum(u) == SumFunctionOnSet(f, u)
           Fits(U) == \A l \in 0 .. top : (\A b \in U : l <= lo[b]) => sum(U) <= top - l
<1>1. ASSUME NEW U \in SUBSET S
      PROVE  sum(U) \in Int /\ \A x \in U : sum(U) = f[x] + sum(U \ {x})
  <2>1. IsFiniteSet(U)
    BY FS_Subset
  <2>2. \A x \in U : f[x] \in Int
    BY <1>0
  <2>3. Summable(f, U)
    BY <2>1, <2>2 DEF Summable
  <2> QED BY <2>3, SumInt, SumTakeOut
<1>2. sum({}) = 0
  BY SumNothing
<1> HIDE DEF sum
<1>3. Fits({})
  BY <1>2
<1>4. ASSUME NEW U \in SUBSET S, U # {}, \A x \in U : Fits(U \ {x}) PROVE Fits(U)
  <2> SUFFICES ASSUME NEW l \in 0 .. top, \A b \in U : l <= lo[b] PROVE sum(U) <= top - l
    OBVIOUS
  <2>1. PICK x \in U : \A b \in U : x <= b
    <3>1. U \in SUBSET Nat
      BY DEF Stretches
    <3> QED BY <1>4, <3>1, LeastExists
  <2>2. lo[x] \in Nat /\ hi[x] \in Nat /\ lo[x] <= hi[x] /\ hi[x] <= top /\ f[x] = hi[x] - lo[x] /\ l <= lo[x]
    BY <1>0
  <2>3. hi[x] \in 0 .. top
    BY <2>2
  <2>4. ASSUME NEW b \in U \ {x} PROVE hi[x] <= lo[b]
    <3>1. x \in Nat /\ b \in Nat /\ x <= b /\ x # b
      BY <2>1 DEF Stretches
    <3>2. x < b /\ x \in S /\ b \in S
      BY <3>1
    <3> QED BY <3>2 DEF Stretches
  <2>5. sum(U \ {x}) <= top - hi[x]
    BY <1>4, <2>3, <2>4
  <2>6. sum(U) = f[x] + sum(U \ {x}) /\ sum(U \ {x}) \in Int
    BY <1>1
  <2> QED BY <2>2, <2>5, <2>6
<1> HIDE DEF Fits
<1> DEFINE J == {U \in SUBSET S : ~Fits(U)}
<1>5. J = {}
  <2> SUFFICES ASSUME J # {} PROVE FALSE
    OBVIOUS
  <2>0. J \in SUBSET (SUBSET S) /\ \A U \in SUBSET S : U \in J <=> ~Fits(U)
    OBVIOUS
  <2>1. PICK U \in J : \A W \in J : ~(W \subseteq U /\ W # U)
    <3>1. J \in SUBSET (SUBSET S)
      OBVIOUS
    <3> HIDE DEF J
    <3> QED BY <3>1, SmallestSet
  <2> HIDE DEF J
  <2>2. U \in SUBSET S /\ ~Fits(U) /\ U # {}
    BY <1>3, <2>0
  <2>3. ASSUME NEW x \in U PROVE Fits(U \ {x})
    <3>1. U \ {x} \in SUBSET S /\ U \ {x} \subseteq U /\ U \ {x} # U
      BY <2>2
    <3> QED BY <2>0, <2>1, <3>1
  <2> QED BY <1>4, <2>2, <2>3
<1>6. Fits(S)
  BY <1>5
<1>7. 0 \in 0 .. top /\ \A b \in S : 0 <= lo[b]
  BY <1>0
<1>8. sum(S) <= top - 0
  BY <1>6, <1>7 DEF Fits
<1>9. sum(S) <= top
  BY <1>8
<1> QED BY <1>9 DEF sum, f

LEMMA SeriesFits ==
  ASSUME NetTyped, Rising, NEW i \in Ifaces, NEW w \in Instants,
         resets[i] = 0, events[i]["rxErrors"] < KernelMod
  PROVE  SumFunction([b \in DOMAIN NetworkSeries(i, w) |-> NetworkSeries(i, w)[b].rxErrors])
           <= events[i]["rxErrors"]
<1> DEFINE c == "rxErrors"
           S == SeriesBuckets(i, w)
           R(b) == Read(InSeries(i, w, b), c)
           lo == [b \in S |-> Min(R(b))]
           hi == [b \in S |-> Max(R(b))]
           f == [b \in S |-> Max(R(b)) - Min(R(b))]
<1>1. c \in Counters /\ RisesOn(i, c)
  BY DEF Counters, Rising
<1>2. BucketSecs \in Nat \ {0} /\ MaxTime \in Nat
  BY NetMetricsAssumption, ClockAssumption
<1>3. events[i][c] \in Nat
  <2>1. events[i][c] \in Events
    BY <1>1 DEF NetTyped
  <2> QED BY <2>1, CounterTypes
<1>4. ASSUME NEW p \in table[i]
      PROVE  /\ p.ts \in Nat /\ p.ts <= MaxTime /\ p.read[c] \in Nat /\ p.read[c] <= events[i][c]
             /\ \A q \in table[i] : p.ts < q.ts => p.read[c] <= q.read[c]
  <2>1. p \in ShownOf(i) /\ table[i] \subseteq ShownOf(i)
    BY DEF ShownOf
  <2> QED BY <1>1, <2>1, ShownTyped DEF RisesOn
<1>5. S \subseteq Nat /\ IsFiniteSet(S)
  <2>1. ASSUME NEW b \in S PROVE b \in 0 .. MaxTime \div BucketSecs
    <3>1. PICK r \in table[i] : b = r.ts \div BucketSecs
      BY <2>1 DEF SeriesBuckets
    <3>2. r.ts \in Nat /\ r.ts <= MaxTime
      BY <1>4
    <3>3. r.ts \div BucketSecs \in Nat /\ MaxTime \div BucketSecs \in Nat
      BY <1>2, <3>2, DivRight
    <3>4. r.ts \div BucketSecs <= MaxTime \div BucketSecs
      BY <1>2, <3>2, DivMono
    <3> QED BY <3>1, <3>3, <3>4
  <2>2. 0 \in Int /\ MaxTime \div BucketSecs \in Int
    BY <1>2, DivRight
  <2>3. IsFiniteSet(0 .. MaxTime \div BucketSecs)
    BY <2>2, FS_Interval
  <2>4. MaxTime \div BucketSecs \in Nat
    BY <1>2, DivRight
  <2> HIDE DEF S
  <2>5. S \in SUBSET (0 .. MaxTime \div BucketSecs)
    BY <2>1
  <2>6. IsFiniteSet(S)
    BY <2>3, <2>5, FS_Subset
  <2> QED BY <2>5, <2>6
<1>6. ASSUME NEW b \in S
      PROVE  /\ lo[b] \in R(b) /\ hi[b] \in R(b)
             /\ lo[b] \in Nat /\ hi[b] \in Nat /\ lo[b] <= hi[b] /\ hi[b] <= events[i][c]
  <2>1. R(b) # {}
    BY DEF SeriesBuckets, InSeries, Read
  <2>2. R(b) \in SUBSET Nat /\ \A r \in R(b) : r <= events[i][c]
    BY <1>4 DEF InSeries, Read
  <2>3. lo[b] = Min(R(b)) /\ hi[b] = Max(R(b))
    OBVIOUS
  <2> HIDE DEF R, lo, hi
  <2>4. Max(R(b)) \in R(b) /\ (\A r \in R(b) : r <= Max(R(b))) /\ Min(R(b)) \in R(b)
    BY <1>3, <2>1, <2>2, Extremes
  <2> QED BY <2>2, <2>3, <2>4
<1>7. ASSUME NEW a \in S, NEW b \in S, a < b PROVE hi[a] <= lo[b]
  <2>1. PICK p \in table[i] : p.ts \div BucketSecs = a /\ p.read[c] = hi[a]
    <3>1. hi[a] \in R(a)
      BY <1>6
    <3> HIDE DEF hi
    <3> QED BY <3>1 DEF InSeries, Read
  <2>2. PICK q \in table[i] : q.ts \div BucketSecs = b /\ q.read[c] = lo[b]
    <3>1. lo[b] \in R(b)
      BY <1>6
    <3> HIDE DEF lo
    <3> QED BY <3>1 DEF InSeries, Read
  <2>3. p.ts \in Nat /\ q.ts \in Nat /\ a \in Nat /\ b \in Nat
    BY <1>4, <1>5
  <2>4. q.ts <= p.ts => b <= a
    BY <1>2, <2>1, <2>2, <2>3, DivMono
  <2>5. p.ts < q.ts
    BY <1>7, <2>3, <2>4
  <2> HIDE DEF lo, hi
  <2> QED BY <1>4, <2>1, <2>2, <2>5
<1>8. f = Lengths(S, lo, hi)
  <2> HIDE DEF S, R
  <2> QED BY DEF Lengths
<1>9. SumFunctionOnSet(f, S) <= events[i][c]
  <2>1. Stretches(S, lo, hi, events[i][c])
    <3> HIDE DEF S, R, lo, hi
    <3> QED BY <1>5, <1>6, <1>7 DEF Stretches
  <2> HIDE DEF S, R, lo, hi, f
  <2> QED BY <1>3, <1>5, <1>8, <2>1, StretchesFit
<1>10. DOMAIN NetworkSeries(i, w) = S /\ [b \in DOMAIN NetworkSeries(i, w) |-> NetworkSeries(i, w)[b].rxErrors] = f
  BY DEF NetworkSeries
<1>11. DOMAIN f = S
  OBVIOUS
<1> HIDE DEF S, f
<1> QED BY <1>9, <1>10, <1>11 DEF SumFunction

(* While an interface has neither reset nor wrapped, the errors its        *)
(* traffic series shows never add up to more than there were, whatever     *)
(* rows failed to be stored, for any buckets and window (NetworkSeries).   *)
THEOREM SeriesCorrect == NetSpec => []SeriesNotInflated
<1>1. NetTyped /\ Rising => SeriesNotInflated
  BY SeriesFits DEF SeriesNotInflated
<1>2. NetInv => NetTyped
  BY DEF NetInv
<1> QED BY <1>1, <1>2, AlwaysNetInv, RisingInit, RisingStep, PTL DEF NetSpec

-----------------------------------------------------------------------------
(***************************************************************************)
(* What holds of RateLimiter for any clients, limit and window, whatever   *)
(* order the overlapping calls get the mutex in.                           *)
(*                                                                         *)
(* The loop of Allow and the sweep only take from a list what no call that *)
(* is still to come can count: the hits of a list are calls let through,   *)
(* and those later than the last window all are (HitsRight). So Allow      *)
(* decides on as many calls as there were, unless it is overtaken, and     *)
(* each call that is overtaken lets at most one more into a window         *)
(* (WindowRight).                                                          *)
(***************************************************************************)
(* How many of the first i hits of a list are later than y.                *)
LaterOnes(s, i, y) == {j \in 1 .. i : s[j] > y}
Later(s, i, y) == Cardinality(LaterOnes(s, i, y))
Hits(s, y) == Later(s, Len(s), y)

(* The loop of Allow after i of a list's hits.                             *)
Iteration(s, cutoff, keep, i) == IF s[i] > cutoff THEN Append(keep[i - 1], s[i]) ELSE keep[i - 1]
IsLoop(s, cutoff, keep) ==
  keep = [i \in 0 .. Len(s) |-> IF i = 0 THEN <<>> ELSE Iteration(s, cutoff, keep, i)]
Loop(s, cutoff) == CHOOSE keep : IsLoop(s, cutoff, keep)
LoopUpto(s, cutoff, n, keep) ==
  /\ keep \in [0 .. n -> Seq(Instants)] /\ keep[0] = <<>>
  /\ \A i \in 1 .. n : keep[i] = Iteration(s, cutoff, keep, i)

LEMMA AfterIsLoop == ASSUME NEW s, NEW c PROVE After(s, c) = Loop(s, c)[Len(s)]
BY DEF After, Loop, IsLoop, Iteration

LEMMA LoopExists ==
  ASSUME NEW s \in Seq(Instants), NEW c \in Int
  PROVE  LoopUpto(s, c, Len(s), Loop(s, c))
<1>0. Len(s) \in Nat /\ \A i \in 1 .. Len(s) : s[i] \in Instants
  OBVIOUS
<1> DEFINE P(n) == \E keep : LoopUpto(s, c, n, keep)
<1>1. P(0)
  <2>1. LoopUpto(s, c, 0, [i \in 0 .. 0 |-> <<>>])
    BY DEF LoopUpto
  <2> QED BY <2>1
<1>2. ASSUME NEW n \in 0 .. Len(s), P(n), n + 1 <= Len(s) PROVE P(n + 1)
  <2>1. PICK keep : LoopUpto(s, c, n, keep)
    BY <1>2
  <2> DEFINE more == [i \in 0 .. n + 1 |-> IF i <= n THEN keep[i] ELSE Iteration(s, c, keep, n + 1)]
  <2>2. /\ keep \in [0 .. n -> Seq(Instants)] /\ keep[0] = <<>>
        /\ \A i \in 1 .. n : keep[i] = Iteration(s, c, keep, i)
    BY <2>1 DEF LoopUpto
  <2>3. n \in Nat /\ n + 1 \in 1 .. Len(s) /\ (n + 1) - 1 = n /\ n \in 0 .. n
    BY <1>0, <1>2
  <2>4. keep[n] \in Seq(Instants) /\ s[n + 1] \in Instants
    BY <1>0, <2>2, <2>3
  <2>5. Iteration(s, c, keep, n + 1) \in Seq(Instants)
    BY <2>3, <2>4 DEF Iteration
  <2>6. more \in [0 .. n + 1 -> Seq(Instants)]
    <3>1. \A i \in 0 .. n + 1 : i <= n => i \in 0 .. n
      BY <2>3
    <3> QED BY <2>2, <2>5, <3>1
  <2>7. more[0] = <<>> /\ \A i \in 0 .. n : more[i] = keep[i]
    BY <2>2, <2>3
  <2>8. more[n + 1] = Iteration(s, c, keep, n + 1)
    BY <2>3
  <2> HIDE DEF more
  <2>9. ASSUME NEW i \in 1 .. n + 1 PROVE more[i] = Iteration(s, c, more, i)
    <3>1. i - 1 \in 0 .. n /\ (i \in 1 .. n \/ i = n + 1)
      BY <2>3
    <3>2. Iteration(s, c, more, i) = Iteration(s, c, keep, i)
      BY <2>7, <3>1 DEF Iteration
    <3>3. CASE i \in 1 .. n
      <4>1. i \in 0 .. n
        BY <2>3, <3>3
      <4> QED BY <2>2, <2>7, <3>2, <3>3, <4>1
    <3>4. CASE i = n + 1
      BY <2>8, <3>2, <3>4
    <3> QED BY <3>1, <3>3, <3>4
  <2>10. LoopUpto(s, c, n + 1, more)
    BY <2>6, <2>7, <2>9 DEF LoopUpto
  <2> QED BY <2>10
<1> HIDE DEF P
<1>3. P(Len(s))
  <2> DEFINE I == {n \in 0 .. Len(s) : ~P(n)}
  <2>1. I = {}
    <3> SUFFICES ASSUME I # {} PROVE FALSE
      OBVIOUS
    <3>1. I \in SUBSET Nat /\ \A n \in 0 .. Len(s) : n \in I <=> ~P(n)
      OBVIOUS
    <3>2. \A n \in I : n \in 0 .. Len(s)
      OBVIOUS
    <3> HIDE DEF I
    <3>3. PICK n \in I : \A i \in I : n <= i
      BY <3>1, LeastExists
    <3>4. n # 0 /\ n \in 0 .. Len(s) /\ ~P(n)
      BY <1>1, <3>1, <3>2
    <3>5. n - 1 \in 0 .. Len(s) /\ ~(n <= n - 1) /\ (n - 1) + 1 = n /\ n <= Len(s)
      BY <1>0, <3>4
    <3>6. P(n - 1)
      BY <3>1, <3>3, <3>5
    <3>7. P((n - 1) + 1)
      BY <1>2, <3>5, <3>6
    <3> QED BY <3>4, <3>5, <3>7
  <2>2. Len(s) \in 0 .. Len(s)
    BY <1>0
  <2> QED BY <2>1, <2>2
<1>4. PICK keep : LoopUpto(s, c, Len(s), keep)
  BY <1>3 DEF P
<1>5. IsLoop(s, c, keep)
  <2>1. keep \in [0 .. Len(s) -> Seq(Instants)]
    BY <1>4 DEF LoopUpto
  <2>2. ASSUME NEW i \in 0 .. Len(s) PROVE keep[i] = IF i = 0 THEN <<>> ELSE Iteration(s, c, keep, i)
    <3>1. i = 0 \/ i \in 1 .. Len(s)
      BY <1>0
    <3> QED BY <1>4, <3>1 DEF LoopUpto
  <2> QED BY <2>1, <2>2 DEF IsLoop
<1>6. IsLoop(s, c, Loop(s, c))
  BY <1>5 DEF Loop
<1> DEFINE h == Loop(s, c)
<1>7. h = [i \in 0 .. Len(s) |-> IF i = 0 THEN <<>> ELSE Iteration(s, c, h, i)]
  BY <1>6 DEF IsLoop
<1> HIDE DEF h
<1>8. h[0] = <<>> /\ \A i \in 1 .. Len(s) : h[i] = Iteration(s, c, h, i)
  <2>1. 0 \in 0 .. Len(s) /\ \A i \in 1 .. Len(s) : i \in 0 .. Len(s) /\ i # 0
    BY <1>0
  <2> QED BY <1>7, <2>1
<1>9. \A i \in 0 .. Len(s) : h[i] \in Seq(Instants)
  <2> DEFINE I == {n \in 0 .. Len(s) : h[n] \notin Seq(Instants)}
  <2>1. I = {}
    <3> SUFFICES ASSUME I # {} PROVE FALSE
      OBVIOUS
    <3>1. I \in SUBSET Nat /\ \A n \in 0 .. Len(s) : n \in I <=> h[n] \notin Seq(Instants)
      OBVIOUS
    <3>2. \A n \in I : n \in 0 .. Len(s)
      OBVIOUS
    <3> HIDE DEF I
    <3>3. PICK n \in I : \A i \in I : n <= i
      BY <3>1, LeastExists
    <3>4. n # 0 /\ n \in 0 .. Len(s) /\ h[n] \notin Seq(Instants)
      <4>1. <<>> \in Seq(Instants)
        OBVIOUS
      <4>2. n \in 0 .. Len(s) /\ h[n] \notin Seq(Instants)
        BY <3>1, <3>2
      <4> QED BY <1>8, <4>1, <4>2
    <3>5. n - 1 \in 0 .. Len(s) /\ ~(n <= n - 1) /\ n \in 1 .. Len(s)
      BY <1>0, <3>4
    <3>6. h[n - 1] \in Seq(Instants) /\ s[n] \in Instants
      BY <1>0, <3>1, <3>3, <3>5
    <3>7. Append(h[n - 1], s[n]) \in Seq(Instants)
      BY <3>6
    <3>8. Iteration(s, c, h, n) \in Seq(Instants)
      BY <3>6, <3>7 DEF Iteration
    <3>9. h[n] = Iteration(s, c, h, n)
      BY <1>8, <3>5
    <3> QED BY <3>4, <3>8, <3>9
  <2> QED BY <2>1
<1>10. h \in [0 .. Len(s) -> Seq(Instants)]
  BY <1>7, <1>9
<1>11. LoopUpto(s, c, Len(s), h)
  BY <1>8, <1>10 DEF LoopUpto
<1> QED BY <1>11 DEF h

LEMMA LaterNat ==
  ASSUME NEW s, NEW i \in Nat, NEW y
  PROVE  Later(s, i, y) \in Nat /\ IsFiniteSet(LaterOnes(s, i, y)) /\ (i = 0 => Later(s, i, y) = 0)
<1>1. IsFiniteSet(1 .. i)
  BY FS_Interval
<1>2. IsFiniteSet(LaterOnes(s, i, y))
  BY <1>1, FS_Subset DEF LaterOnes
<1>3. i = 0 => LaterOnes(s, i, y) = {}
  BY DEF LaterOnes
<1> QED BY <1>2, <1>3, FS_CardinalityType, FS_EmptySet DEF Later

LEMMA LaterMore ==
  ASSUME NEW s, NEW i \in Nat, NEW y
  PROVE  Later(s, i + 1, y) = Later(s, i, y) + IF s[i + 1] > y THEN 1 ELSE 0
<1>1. Later(s, i, y) \in Nat /\ IsFiniteSet(LaterOnes(s, i, y))
  BY LaterNat
<1>2. CASE s[i + 1] > y
  <2>1. LaterOnes(s, i + 1, y) = LaterOnes(s, i, y) \cup {i + 1} /\ i + 1 \notin LaterOnes(s, i, y)
    BY <1>2 DEF LaterOnes
  <2>2. Cardinality(LaterOnes(s, i, y) \cup {i + 1}) = Cardinality(LaterOnes(s, i, y)) + 1
    BY <1>1, <2>1, FS_AddElement
  <2> QED BY <1>2, <2>1, <2>2 DEF Later
<1>3. CASE ~(s[i + 1] > y)
  <2>1. LaterOnes(s, i + 1, y) = LaterOnes(s, i, y)
    BY <1>3 DEF LaterOnes
  <2> QED BY <1>1, <1>3, <2>1 DEF Later
<1> QED BY <1>2, <1>3

LEMMA HitsAppend ==
  ASSUME NEW s \in Seq(Instants), NEW x \in Instants, NEW y
  PROVE  /\ Hits(s, y) \in Nat
         /\ Hits(Append(s, x), y) = Hits(s, y) + IF x > y THEN 1 ELSE 0
<1> DEFINE r == Append(s, x)
<1>1. Len(s) \in Nat /\ Len(r) = Len(s) + 1 /\ r[Len(s) + 1] = x /\ \A j \in 1 .. Len(s) : r[j] = s[j]
  OBVIOUS
<1> HIDE DEF r
<1>2. LaterOnes(r, Len(s), y) = LaterOnes(s, Len(s), y)
  BY <1>1 DEF LaterOnes
<1>3. Later(r, Len(s) + 1, y) = Later(r, Len(s), y) + IF x > y THEN 1 ELSE 0
  BY <1>1, LaterMore
<1>4. Later(s, Len(s), y) \in Nat
  BY <1>1, LaterNat
<1>5. Hits(r, y) = Hits(s, y) + IF x > y THEN 1 ELSE 0
  BY <1>1, <1>2, <1>3 DEF Hits, Later
<1> QED BY <1>4, <1>5 DEF Hits, r

LEMMA HitsNone == ASSUME NEW y PROVE Hits(<<>>, y) = 0
<1>1. Len(<<>>) = 0
  OBVIOUS
<1> QED BY <1>1, LaterNat DEF Hits

(* No hit of a list is more than MaxLag younger than one appended after    *)
(* it.                                                                     *)
Tidy(s) == \A i, j \in 1 .. Len(s) : i < j => s[i] <= s[j] + MaxLag

(* What the loop has kept after i hits.                                    *)
KeptRight(s, c, r, i) ==
  /\ \A y \in Int : Hits(r, y) \in Nat /\ Hits(r, y) <= Later(s, i, y) /\ (y >= c => Hits(r, y) = Later(s, i, y))
  /\ Len(r) = Later(s, i, c)
  /\ \A j \in 1 .. Len(r) : \E k \in 1 .. i : r[j] = s[k]
  /\ Tidy(s) => Tidy(r)

LEMMA KeptMore ==
  ASSUME NEW s \in Seq(Instants), NEW c \in Int, NEW n \in Nat, n + 1 <= Len(s),
         NEW r \in Seq(Instants), KeptRight(s, c, r, n)
  PROVE  /\ s[n + 1] > c => KeptRight(s, c, Append(r, s[n + 1]), n + 1)
         /\ ~(s[n + 1] > c) => KeptRight(s, c, r, n + 1)
<1> DEFINE x == s[n + 1]
           q == Append(r, x)
<1>1. Len(s) \in Nat /\ Len(r) \in Nat /\ n + 1 \in 1 .. Len(s) /\ \A i \in 1 .. Len(s) : s[i] \in Instants
  OBVIOUS
<1>2. x \in Instants /\ x \in Nat
  BY <1>1 DEF Instants
<1>3. \A y : Later(s, n + 1, y) = Later(s, n, y) + IF x > y THEN 1 ELSE 0
  BY LaterMore
<1>4. \A y : Later(s, n, y) \in Nat
  BY LaterNat
<1>5. \A y : Hits(r, y) \in Nat /\ Hits(q, y) = Hits(r, y) + IF x > y THEN 1 ELSE 0
  BY <1>2, HitsAppend
<1>6. Len(q) = Len(r) + 1 /\ q[Len(r) + 1] = x /\ \A j \in 1 .. Len(r) : q[j] = r[j]
  BY <1>2
<1>7. /\ \A y \in Int : Hits(r, y) <= Later(s, n, y) /\ (y >= c => Hits(r, y) = Later(s, n, y))
      /\ Len(r) = Later(s, n, c)
      /\ \A j \in 1 .. Len(r) : \E k \in 1 .. n : r[j] = s[k]
      /\ Tidy(s) => Tidy(r)
  BY DEF KeptRight
<1> HIDE DEF x, q
<1>8. CASE x > c
  <2>1. ASSUME NEW y \in Int
        PROVE  Hits(q, y) \in Nat /\ Hits(q, y) <= Later(s, n + 1, y) /\ (y >= c => Hits(q, y) = Later(s, n + 1, y))
    <3>1. /\ Hits(r, y) \in Nat /\ Later(s, n, y) \in Nat
          /\ Hits(r, y) <= Later(s, n, y) /\ (y >= c => Hits(r, y) = Later(s, n, y))
      BY <1>4, <1>5, <1>7
    <3>2. /\ Hits(q, y) = Hits(r, y) + IF x > y THEN 1 ELSE 0
          /\ Later(s, n + 1, y) = Later(s, n, y) + IF x > y THEN 1 ELSE 0
      BY <1>3, <1>5
    <3> QED BY <3>1, <3>2
  <2>2. Len(q) = Later(s, n + 1, c)
    BY <1>3, <1>4, <1>6, <1>7, <1>8
  <2>3. ASSUME NEW j \in 1 .. Len(q) PROVE \E k \in 1 .. n + 1 : q[j] = s[k]
    <3>1. CASE j = Len(r) + 1
      BY <1>6, <3>1 DEF x
    <3>2. CASE j # Len(r) + 1
      <4>1. j \in 1 .. Len(r)
        BY <1>1, <1>6, <3>2
      <4>2. PICK k \in 1 .. n : r[j] = s[k]
        BY <1>7, <4>1
      <4> QED BY <1>6, <4>1, <4>2
    <3> QED BY <3>1, <3>2
  <2>4. ASSUME Tidy(s) PROVE Tidy(q)
    <3>1. ASSUME NEW i \in 1 .. Len(q), NEW j \in 1 .. Len(q), i < j PROVE q[i] <= q[j] + MaxLag
      <4>1. i \in 1 .. Len(r)
        BY <1>1, <1>6, <3>1
      <4>2. CASE j = Len(r) + 1
        <5>1. PICK k \in 1 .. n : r[i] = s[k]
          BY <1>7, <4>1
        <5>2. k \in 1 .. Len(s) /\ k < n + 1
          BY <1>1
        <5>3. s[k] <= x + MaxLag
          BY <1>1, <2>4, <5>2 DEF Tidy, x
        <5> QED BY <1>6, <4>1, <4>2, <5>1, <5>3
      <4>3. CASE j # Len(r) + 1
        <5>1. j \in 1 .. Len(r)
          BY <1>1, <1>6, <4>3
        <5> QED BY <1>6, <1>7, <2>4, <3>1, <4>1, <5>1 DEF Tidy
      <4> QED BY <4>2, <4>3
    <3> QED BY <3>1 DEF Tidy
  <2>5. KeptRight(s, c, q, n + 1)
    BY <2>1, <2>2, <2>3, <2>4 DEF KeptRight
  <2> QED BY <1>8, <2>5 DEF q, x
<1>9. CASE ~(x > c)
  <2>1. ASSUME NEW y \in Int
        PROVE  Hits(r, y) \in Nat /\ Hits(r, y) <= Later(s, n + 1, y) /\ (y >= c => Hits(r, y) = Later(s, n + 1, y))
    <3>1. /\ Hits(r, y) \in Nat /\ Later(s, n, y) \in Nat
          /\ Hits(r, y) <= Later(s, n, y) /\ (y >= c => Hits(r, y) = Later(s, n, y))
      BY <1>4, <1>5, <1>7
    <3>2. Later(s, n + 1, y) = Later(s, n, y) + IF x > y THEN 1 ELSE 0
      BY <1>3
    <3>3. y >= c => ~(x > y)
      BY <1>2, <1>9
    <3> QED BY <3>1, <3>2, <3>3
  <2>2. Len(r) = Later(s, n + 1, c)
    BY <1>3, <1>4, <1>7, <1>9
  <2>3. \A j \in 1 .. Len(r) : \E k \in 1 .. n + 1 : r[j] = s[k]
    BY <1>7
  <2>4. KeptRight(s, c, r, n + 1)
    BY <1>7, <2>1, <2>2, <2>3 DEF KeptRight
  <2> QED BY <1>9, <2>4 DEF x
<1> QED BY <1>8, <1>9

(* What the loop keeps is what lies after the cutoff, in its order.        *)
LEMMA AfterRight ==
  ASSUME NEW s \in Seq(Instants), NEW c \in Int
  PROVE  After(s, c) \in Seq(Instants) /\ KeptRight(s, c, After(s, c), Len(s))
<1> DEFINE h == Loop(s, c)
<1>1. LoopUpto(s, c, Len(s), h)
  BY LoopExists
<1> HIDE DEF h
<1>2. /\ \A n \in 0 .. Len(s) : h[n] \in Seq(Instants)
      /\ h[0] = <<>> /\ \A i \in 1 .. Len(s) : h[i] = Iteration(s, c, h, i)
  BY <1>1 DEF LoopUpto
<1>3. Len(s) \in Nat
  OBVIOUS
<1>4. KeptRight(s, c, h[0], 0)
  <2>1. \A y : Hits(<<>>, y) = 0 /\ Later(s, 0, y) = 0
    BY HitsNone, LaterNat
  <2>2. Len(<<>>) = 0 /\ Tidy(<<>>)
    BY DEF Tidy
  <2> QED BY <1>2, <2>1, <2>2 DEF KeptRight
<1>5. \A n \in 0 .. Len(s) : KeptRight(s, c, h[n], n)
  <2> DEFINE I == {n \in 0 .. Len(s) : ~KeptRight(s, c, h[n], n)}
  <2>1. I = {}
    <3> SUFFICES ASSUME I # {} PROVE FALSE
      OBVIOUS
    <3>1. I \in SUBSET Nat /\ \A n \in 0 .. Len(s) : n \in I <=> ~KeptRight(s, c, h[n], n)
      OBVIOUS
    <3>2. \A n \in I : n \in 0 .. Len(s)
      OBVIOUS
    <3> HIDE DEF I
    <3>3. PICK n \in I : \A i \in I : n <= i
      BY <3>1, LeastExists
    <3>4. n # 0 /\ n \in 0 .. Len(s) /\ ~KeptRight(s, c, h[n], n)
      BY <1>4, <3>1, <3>2
    <3> DEFINE m == n - 1
    <3>5. m \in 0 .. Len(s) /\ m \in Nat /\ ~(n <= m) /\ n \in 1 .. Len(s) /\ n = m + 1 /\ m + 1 <= Len(s)
      BY <1>3, <3>4
    <3>6. h[m] \in Seq(Instants) /\ KeptRight(s, c, h[m], m)
      BY <1>2, <3>1, <3>3, <3>5
    <3>7. h[n] = IF s[n] > c THEN Append(h[m], s[n]) ELSE h[m]
      BY <1>2, <3>5 DEF Iteration
    <3> HIDE DEF m
    <3>8. /\ s[n] > c => KeptRight(s, c, Append(h[m], s[n]), n)
          /\ ~(s[n] > c) => KeptRight(s, c, h[m], n)
      BY <3>5, <3>6, KeptMore
    <3> QED BY <3>4, <3>7, <3>8
  <2> QED BY <2>1
<1>6. Len(s) \in 0 .. Len(s)
  BY <1>3
<1> QED BY <1>2, <1>5, <1>6, AfterIsLoop DEF h

-----------------------------------------------------------------------------
LEMMA LimiterConstants ==
  /\ NoKey \notin Keys /\ HitLimit \in Nat \ {0} /\ HitWindow \in Nat \ {0} /\ SweepEv \in Nat \ {0}
  /\ MaxLag \in Nat /\ MaxLag + HitWindow <= HitWindow * SweepEv /\ HitWindow * SweepEv \in Nat
  /\ MaxTime \in Nat \ {0} /\ 0 \in Instants /\ Instants \subseteq Nat /\ IsFiniteSet(Instants)
<1>1. /\ NoKey \notin Keys /\ HitLimit \in Nat \ {0} /\ HitWindow \in Nat \ {0} /\ SweepEv \in Nat \ {0}
      /\ MaxLag \in Nat /\ MaxLag <= (SweepEv - 1) * HitWindow
  BY LimiterAssumption
<1>2. HitWindow * ((SweepEv - 1) + 1) = HitWindow * (SweepEv - 1) + HitWindow * 1
  BY <1>1, Times
<1>3. (SweepEv - 1) * HitWindow = HitWindow * (SweepEv - 1) /\ HitWindow * 1 = HitWindow /\ (SweepEv - 1) + 1 = SweepEv
  BY <1>1
<1>4. HitWindow * SweepEv \in Nat /\ HitWindow * (SweepEv - 1) \in Nat
  BY <1>1
<1>5. MaxTime \in Nat \ {0} /\ 0 \in Instants /\ Instants \subseteq Nat /\ IsFiniteSet(Instants)
  BY ClockAssumption, FS_Interval DEF Instants
<1> QED BY <1>1, <1>2, <1>3, <1>4, <1>5

(* The instants after y, and the calls of k let through at them.           *)
Since(y) == {s \in Instants : s > y}
Let(k, y) == SumFunctionOnSet(admitted[k], Since(y))

LimTyped ==
  /\ now \in Instants /\ hits \in [Keys -> Seq(Instants)]
  /\ lastSweep \in Instants /\ latest \in Instants
  /\ attempt \in [Attempts -> [pc : {"idle", "waiting", "allowed", "denied"},
                               key : Keys \cup {NoKey}, at : Instants]]
  /\ \A a \in Attempts : attempt[a].pc # "idle" => attempt[a].key \in Keys
  /\ admitted \in [Keys -> [Instants -> Nat]] /\ late \in [Keys -> Nat]

(* A request waits no longer than MaxLag for the mutex.                    *)
Timely == \A a \in Attempts : attempt[a].pc = "waiting" => attempt[a].at <= now /\ now <= attempt[a].at + MaxLag

ListRight(s) == Tidy(s) /\ Len(s) <= HitLimit /\ \A i \in 1 .. Len(s) : s[i] <= now

(* The hits of a client are calls let through, and all of those that can   *)
(* still count.                                                            *)
HitsRight(k) ==
  \A y \in Int : /\ Hits(hits[k], y) <= Let(k, y)
                 /\ y >= latest - HitWindow => Hits(hits[k], y) = Let(k, y)

WindowRight(k) == \A t \in Instants : SumFunctionOnSet(admitted[k], InWindow(t)) <= HitLimit + late[k]

LimInv ==
  /\ LimTyped /\ Timely
  /\ \A k \in Keys : ListRight(hits[k]) /\ HitsRight(k) /\ WindowRight(k)

LEMMA AdmittedSummable ==
  ASSUME NEW f \in [Instants -> Nat], NEW S \in SUBSET Instants
  PROVE  /\ Summable(f, S) /\ SumFunctionOnSet(f, S) \in Nat
         /\ \A T \in SUBSET S : SumFunctionOnSet(f, T) <= SumFunctionOnSet(f, S)
<1>1. Summable(f, S) /\ \A x \in S : f[x] >= 0
  <2>1. \A x \in S : f[x] \in Nat
    OBVIOUS
  <2>2. IsFiniteSet(S)
    BY LimiterConstants, FS_Subset
  <2>3. \A x \in S : f[x] \in Int /\ f[x] >= 0
    BY <2>1
  <2> QED BY <2>2, <2>3 DEF Summable
<1>2. SumFunctionOnSet(f, S) \in Int
  BY <1>1, SumInt
<1>3. {} \in SUBSET S /\ SumFunctionOnSet(f, {}) = 0
  BY SumNothing
<1>4. \A T \in SUBSET S : SumFunctionOnSet(f, T) <= SumFunctionOnSet(f, S)
  BY <1>1, SumLarger
<1> QED BY <1>1, <1>2, <1>3, <1>4

LEMMA AdmittedMore ==
  ASSUME NEW f \in [Instants -> Nat], NEW x \in Instants, NEW S \in SUBSET Instants
  PROVE  SumFunctionOnSet([f EXCEPT ![x] = @ + 1], S) = SumFunctionOnSet(f, S) + IF x \in S THEN 1 ELSE 0
<1> DEFINE e == [f EXCEPT ![x] = @ + 1]
<1>1. e[x] = f[x] + 1 /\ f[x] \in Nat /\ \A y \in Instants \ {x} : f[y] = e[y]
  OBVIOUS
<1>2. Summable(f, S) /\ SumFunctionOnSet(f, S) \in Nat
  BY AdmittedSummable
<1> HIDE DEF e
<1>3. CASE x \in S
  <2>1. e[x] \in Int /\ \A y \in S \ {x} : f[y] = e[y]
    BY <1>1
  <2>2. SumFunctionOnSet(e, S) = SumFunctionOnSet(f, S) - f[x] + e[x]
    BY <1>2, <1>3, <2>1, SumChange
  <2>3. SumFunctionOnSet(e, S) = SumFunctionOnSet(f, S) + 1
    BY <1>1, <1>2, <2>2
  <2> QED BY <1>3, <2>3 DEF e
<1>4. CASE x \notin S
  <2>1. \A y \in S : f[y] = e[y]
    BY <1>1, <1>4
  <2>2. SumFunctionOnSet(f, S) = SumFunctionOnSet(e, S)
    BY <1>2, <2>1, SumSame
  <2> QED BY <1>2, <1>4, <2>2 DEF e
<1> QED BY <1>3, <1>4

(* A list that has lost only what no longer counts at an instant.          *)
Covers(q, s, at) ==
  /\ q \in Seq(Instants) /\ ListRight(q)
  /\ \A y \in Int : Hits(q, y) \in Nat /\ Hits(q, y) <= Hits(s, y) /\ (y >= at - HitWindow => Hits(q, y) = Hits(s, y))

LEMMA HitsNat ==
  ASSUME NEW s \in Seq(Instants), NEW y
  PROVE  Hits(s, y) \in Nat /\ Hits(s, y) <= Len(s)
<1>1. Len(s) \in Nat
  OBVIOUS
<1>2. IsFiniteSet(1 .. Len(s)) /\ Cardinality(1 .. Len(s)) = Len(s)
  BY <1>1, FS_Interval
<1>3. LaterOnes(s, Len(s), y) \in SUBSET (1 .. Len(s))
  BY DEF LaterOnes
<1>4. Cardinality(LaterOnes(s, Len(s), y)) <= Len(s)
  BY <1>2, <1>3, FS_Subset
<1> QED BY <1>1, <1>4, LaterNat DEF Hits, Later

(* The sweep takes from a list only what no longer counts: all its hits    *)
(* are older than a window when its last is older than SweepEv of them.    *)
LEMMA SweptCovers ==
  ASSUME LimTyped, NEW k \in Keys, ListRight(hits[k]), NEW at \in Nat
  PROVE  Covers(Swept(at)[k], hits[k], at)
<1> DEFINE s == hits[k]
<1>1. s \in Seq(Instants) /\ ListRight(s) /\ now \in Nat
  BY LimiterConstants DEF LimTyped
<1>5. Len(s) \in Nat /\ \A i \in 1 .. Len(s) : s[i] \in Nat
  <2>1. \A i \in 1 .. Len(s) : s[i] \in Instants
    BY <1>1
  <2>2. Len(s) \in Nat
    BY <1>1
  <2>3. Instants \subseteq Nat
    BY LimiterConstants
  <2> QED BY <2>1, <2>2, <2>3
<1>2. \A y : Hits(s, y) \in Nat
  BY <1>1, HitsNat
<1>3. CASE Swept(at)[k] = s
  BY <1>1, <1>2, <1>3 DEF Covers
<1>4. CASE Swept(at)[k] = <<>> /\ Idle(k, at - HitWindow * SweepEv)
  <2>1. \A i \in 1 .. Len(s) : s[i] < at - HitWindow
    <3>1. CASE s = <<>>
      BY <3>1
    <3>2. CASE s # <<>>
      <4>1. Len(s) \in Nat /\ Len(s) \in 1 .. Len(s) /\ Last(s) = s[Len(s)] /\ \A i \in 1 .. Len(s) : s[i] \in Nat
        BY <1>1, <1>5, <3>2 DEF Last
      <4>2. s[Len(s)] < at - HitWindow * SweepEv
        BY <1>4, <3>2, <4>1 DEF Idle
      <4>3. ASSUME NEW i \in 1 .. Len(s) PROVE s[i] <= s[Len(s)] + MaxLag
        <5>1. i < Len(s) => s[i] <= s[Len(s)] + MaxLag
          BY <1>1, <4>1 DEF ListRight, Tidy
        <5>2. CASE i = Len(s)
          BY <4>1, <5>2, LimiterConstants
        <5> QED BY <4>1, <5>1, <5>2
      <4>4. ASSUME NEW i \in 1 .. Len(s) PROVE s[i] < at - HitWindow
        <5>1. /\ s[i] <= s[Len(s)] + MaxLag /\ s[i] \in Nat /\ s[Len(s)] \in Nat
              /\ s[Len(s)] < at - HitWindow * SweepEv
          BY <4>1, <4>2, <4>3
        <5> DEFINE z == HitWindow * SweepEv
        <5>2. z \in Nat /\ MaxLag + HitWindow <= z /\ MaxLag \in Nat /\ HitWindow \in Nat
              /\ s[Len(s)] < at - z
          BY <5>1, LimiterConstants
        <5> HIDE DEF z
        <5> QED BY <5>1, <5>2
      <4> QED BY <4>4
    <3> QED BY <3>1, <3>2
  <2>2. ASSUME NEW y \in Int, y >= at - HitWindow PROVE Hits(s, y) = 0
    <3>1. Len(s) \in Nat /\ \A i \in 1 .. Len(s) : s[i] \in Nat
      BY <1>5
    <3>2. LaterOnes(s, Len(s), y) = {}
      BY <2>1, <2>2, <3>1, LimiterConstants DEF LaterOnes
    <3> QED BY <3>2, FS_EmptySet DEF Hits, Later
  <2>3. ListRight(<<>>) /\ <<>> \in Seq(Instants)
    BY LimiterConstants DEF ListRight, Tidy
  <2>4. \A y : Hits(<<>>, y) = 0
    BY HitsNone
  <2> QED BY <1>2, <1>4, <2>2, <2>3, <2>4 DEF Covers
<1> QED BY <1>3, <1>4 DEF Swept

LEMMA SweptIs ==
  ASSUME LimTyped, NEW at
  PROVE  Swept(at) = [m \in Keys |-> Swept(at)[m]]
BY DEF LimTyped, Swept

LEMMA Cutoffs ==
  ASSUME NEW y \in Int, NEW l \in Int, NEW m \in Int, NEW w \in Int, l >= m, y >= l - w
  PROVE  y >= m - w
OBVIOUS

LEMMA KeptCovers ==
  ASSUME LimTyped, NEW k \in Keys, ListRight(hits[k]), NEW at \in Nat
  PROVE  Covers(Kept(k, at), hits[k], at) /\ Len(Kept(k, at)) = Hits(hits[k], at - HitWindow)
<1> DEFINE q == Swept(at)[k]
           c == at - HitWindow
           r == After(q, c)
<1>1. Covers(q, hits[k], at)
  BY SweptCovers
<1>2. c \in Int /\ q \in Seq(Instants) /\ ListRight(q) /\ now \in Nat
  BY <1>1, LimiterConstants DEF Covers, LimTyped
<1> HIDE DEF q
<1>3. r \in Seq(Instants) /\ KeptRight(q, c, r, Len(q))
  BY <1>2, AfterRight
<1> HIDE DEF c, r
<1>4. /\ \A y \in Int : Hits(r, y) \in Nat /\ Hits(r, y) <= Hits(q, y) /\ (y >= c => Hits(r, y) = Hits(q, y))
      /\ Len(r) = Hits(q, c)
      /\ \A j \in 1 .. Len(r) : \E i \in 1 .. Len(q) : r[j] = q[i]
      /\ Tidy(q) => Tidy(r)
  BY <1>3 DEF KeptRight, Hits
<1>5. ListRight(r)
  <2>1. Hits(q, c) <= Len(q) /\ Hits(q, c) \in Nat /\ Len(q) \in Nat
    BY <1>2, HitsNat
  <2>2. Len(r) <= HitLimit
    BY <1>2, <1>4, <2>1, LimiterConstants DEF ListRight
  <2>3. \A j \in 1 .. Len(r) : r[j] <= now
    BY <1>2, <1>4 DEF ListRight
  <2> QED BY <1>2, <1>4, <2>2, <2>3 DEF ListRight
<1>6. ASSUME NEW y \in Int
      PROVE  Hits(r, y) \in Nat /\ Hits(r, y) <= Hits(hits[k], y) /\ (y >= c => Hits(r, y) = Hits(hits[k], y))
  <2>1. Hits(r, y) \in Nat /\ Hits(r, y) <= Hits(q, y) /\ (y >= c => Hits(r, y) = Hits(q, y))
    BY <1>4
  <2>2. Hits(q, y) \in Nat /\ Hits(q, y) <= Hits(hits[k], y) /\ (y >= c => Hits(q, y) = Hits(hits[k], y))
    BY <1>1 DEF Covers, c
  <2>3. Hits(hits[k], y) \in Nat
    BY HitsNat DEF LimTyped
  <2> QED BY <2>1, <2>2, <2>3
<1>7. Covers(r, hits[k], at)
  BY <1>3, <1>5, <1>6 DEF Covers, c
<1>8. Len(r) = Hits(hits[k], c)
  <2>1. c >= c
    BY <1>2
  <2>2. Hits(q, c) = Hits(hits[k], c)
    BY <1>1, <1>2, <2>1 DEF Covers, c
  <2> QED BY <1>4, <2>2
<1> QED BY <1>7, <1>8 DEF Kept, q, r, c

-----------------------------------------------------------------------------
(* What a decided call does to the list of a client that gains no hit.     *)
LEMMA ListSheds ==
  ASSUME LimInv, NEW k \in Keys, NEW at \in Nat, Covers(hits'[k], hits[k], at),
         admitted'[k] = admitted[k], now' = now, latest' \in Nat, latest' >= latest, latest' >= at
  PROVE  ListRight(hits[k])' /\ HitsRight(k)'
<1>1. /\ latest \in Nat /\ HitWindow \in Nat /\ HitsRight(k) /\ ListRight(hits'[k])
      /\ hits[k] \in Seq(Instants) /\ admitted[k] \in [Instants -> Nat]
  BY LimiterConstants DEF LimInv, LimTyped, Covers
<1>2. \A y : Let(k, y)' = Let(k, y) /\ Let(k, y) \in Nat
  <2>1. \A y : Since(y) \in SUBSET Instants /\ Since(y)' = Since(y)
    BY DEF Since
  <2> QED BY <1>1, <2>1, AdmittedSummable DEF Let
<1>3. ASSUME NEW y \in Int
      PROVE  /\ Hits(hits'[k], y) <= Let(k, y)'
             /\ y >= latest' - HitWindow => Hits(hits'[k], y) = Let(k, y)'
  <2>1. /\ Hits(hits'[k], y) \in Nat /\ Hits(hits'[k], y) <= Hits(hits[k], y)
        /\ y >= at - HitWindow => Hits(hits'[k], y) = Hits(hits[k], y)
    BY DEF Covers
  <2>2. /\ Hits(hits[k], y) <= Let(k, y)
        /\ y >= latest - HitWindow => Hits(hits[k], y) = Let(k, y)
    BY <1>1 DEF HitsRight
  <2>3. Hits(hits[k], y) \in Nat
    BY <1>1, HitsNat
  <2>4. Let(k, y)' = Let(k, y) /\ Let(k, y) \in Nat
    BY <1>2
  <2>5. y >= latest' - HitWindow => y >= latest - HitWindow /\ y >= at - HitWindow
    <3>1. latest' \in Int /\ latest \in Int /\ at \in Int /\ HitWindow \in Int /\ latest' >= latest /\ latest' >= at
      BY <1>1
    <3> QED BY <3>1, Cutoffs
  <2> QED BY <2>1, <2>2, <2>3, <2>4, <2>5
<1>4. HitsRight(k)'
  BY <1>3 DEF HitsRight, Hits, Later, LaterOnes
<1>5. ListRight(hits[k])'
  BY <1>1 DEF ListRight, Tidy
<1> QED BY <1>4, <1>5

LEMMA WindowStays ==
  ASSUME NEW k, WindowRight(k), admitted'[k] = admitted[k], late'[k] = late[k]
  PROVE  WindowRight(k)'
BY DEF WindowRight, InWindow

LEMMA DecidedRight ==
  ASSUME LimInv, NEW a \in Attempts, NEW v \in {"allowed", "denied"}, Decided(a, v)
  PROVE  /\ attempt[a].at \in Nat /\ attempt[a].at \in Instants /\ attempt[a].key \in Keys
         /\ attempt[a].at <= now /\ now <= attempt[a].at + MaxLag
         /\ now' = now /\ latest' \in Instants /\ latest' \in Nat /\ lastSweep' \in Instants /\ latest \in Nat
         /\ latest' >= latest /\ latest' >= attempt[a].at
         /\ attempt' \in [Attempts -> [pc : {"idle", "waiting", "allowed", "denied"},
                                       key : Keys \cup {NoKey}, at : Instants]]
         /\ \A c \in Attempts : attempt'[c].pc # "idle" => attempt'[c].key \in Keys
         /\ Timely'
<1>1. /\ attempt[a].pc = "waiting"
      /\ lastSweep' = IF attempt[a].at - lastSweep > HitWindow THEN attempt[a].at ELSE lastSweep
      /\ latest' = IF attempt[a].at > latest THEN attempt[a].at ELSE latest
      /\ attempt' = [attempt EXCEPT ![a].pc = v]
      /\ now' = now
  BY DEF Decided
<1> DEFINE States == [pc : {"idle", "waiting", "allowed", "denied"}, key : Keys \cup {NoKey}, at : Instants]
<1>2. /\ lastSweep \in Instants /\ latest \in Instants /\ attempt \in [Attempts -> States] /\ Timely
      /\ \A c \in Attempts : attempt[c].pc # "idle" => attempt[c].key \in Keys
  BY DEF LimInv, LimTyped
<1>3. \A c \in Attempts : attempt[c].at \in Instants /\ attempt[c] \in States
  BY <1>2
<1>4. attempt[a].at \in Nat /\ latest \in Nat /\ attempt[a].key \in Keys
  BY <1>1, <1>2, <1>3, LimiterConstants
<1>5. [attempt[a] EXCEPT !.pc = v] \in States
  BY <1>3
<1>6. attempt' = [attempt EXCEPT ![a] = [attempt[a] EXCEPT !.pc = v]]
  BY <1>1
<1>7. attempt' \in [Attempts -> States]
  <2> HIDE DEF States
  <2> QED BY <1>2, <1>5, <1>6
<1>8. \A c \in Attempts : IF c = a THEN attempt'[c].pc = v /\ attempt'[c].key = attempt[a].key
                                   ELSE attempt'[c] = attempt[c]
  BY <1>2, <1>3, <1>6
<1>9. Timely' /\ \A c \in Attempts : attempt'[c].pc # "idle" => attempt'[c].key \in Keys
  BY <1>1, <1>2, <1>4, <1>8 DEF Timely
<1>10. attempt[a].at <= now /\ now <= attempt[a].at + MaxLag
  BY <1>1, <1>2 DEF Timely
<1>11. latest' \in Instants /\ lastSweep' \in Instants
  BY <1>1, <1>2, <1>3
<1>12. latest' \in Nat /\ latest' >= latest /\ latest' >= attempt[a].at
  BY <1>1, <1>4
<1> QED BY <1>1, <1>3, <1>4, <1>7, <1>9, <1>10, <1>11, <1>12

(* A call that is turned away takes nothing but what no longer counts.     *)
LEMMA DenyStep ==
  ASSUME LimInv, NEW a \in Attempts, Deny(a)
  PROVE  LimInv'
<1>1. PICK k : k = attempt[a].key
  OBVIOUS
<1>2. PICK at : at = attempt[a].at
  OBVIOUS
<1>3. /\ Decided(a, "denied") /\ UNCHANGED <<admitted, late>>
      /\ hits' = [Swept(at) EXCEPT ![k] = Kept(k, at)]
  BY <1>1, <1>2 DEF Deny
<1>4. /\ at \in Nat /\ k \in Keys /\ now' = now
      /\ latest' \in Instants /\ latest' \in Nat /\ lastSweep' \in Instants
      /\ latest' >= latest /\ latest' >= at
      /\ attempt' \in [Attempts -> [pc : {"idle", "waiting", "allowed", "denied"},
                                    key : Keys \cup {NoKey}, at : Instants]]
      /\ \A c \in Attempts : attempt'[c].pc # "idle" => attempt'[c].key \in Keys
      /\ Timely'
  BY <1>1, <1>2, <1>3, DecidedRight
<1>5. LimTyped /\ \A m \in Keys : ListRight(hits[m]) /\ WindowRight(m)
  BY DEF LimInv
<1>6. ASSUME NEW m \in Keys PROVE Covers(hits'[m], hits[m], at)
  <2>1. Covers(Swept(at)[m], hits[m], at) /\ Covers(Kept(m, at), hits[m], at)
    BY <1>4, <1>5, SweptCovers, KeptCovers
  <2>2. hits'[m] = IF m = k THEN Kept(m, at) ELSE Swept(at)[m]
    BY <1>3, <1>4, <1>5, SweptIs
  <2> QED BY <2>1, <2>2
<1>7. hits' \in [Keys -> Seq(Instants)]
  <2>1. hits' = [m \in Keys |-> hits'[m]]
    BY <1>3, <1>4, <1>5, SweptIs
  <2>2. \A m \in Keys : hits'[m] \in Seq(Instants)
    BY <1>6 DEF Covers
  <2> QED BY <2>1, <2>2
<1>8. LimTyped'
  BY <1>3, <1>4, <1>5, <1>7 DEF LimTyped
<1>9. ASSUME NEW m \in Keys PROVE (ListRight(hits[m]) /\ HitsRight(m) /\ WindowRight(m))'
  <2>1. ListRight(hits[m])' /\ HitsRight(m)'
    BY <1>3, <1>4, <1>6, ListSheds
  <2>2. WindowRight(m)'
    BY <1>3, <1>5, WindowStays
  <2> QED BY <2>1, <2>2
<1> QED BY <1>4, <1>8, <1>9 DEF LimInv

(* A call that is let through is one more hit of its client, and counts    *)
(* with no more than HitLimit - 1 others as long as it is none that was    *)
(* overtaken.                                                              *)
LEMMA AllowStep ==
  ASSUME LimInv, NEW a \in Attempts, Allow(a)
  PROVE  LimInv'
<1>1. PICK k : k = attempt[a].key
  OBVIOUS
<1>2. PICK at : at = attempt[a].at
  OBVIOUS
<1> DEFINE r == Kept(k, at)
           q == Append(r, at)
<1>3. /\ Decided(a, "allowed") /\ Len(r) < HitLimit
      /\ hits' = [Swept(at) EXCEPT ![k] = q]
      /\ admitted' = [admitted EXCEPT ![k][at] = @ + 1]
      /\ late' = [late EXCEPT ![k] = IF at < latest THEN @ + 1 ELSE @]
  BY <1>1, <1>2 DEF Allow, Room
<1>4. /\ at \in Nat /\ at \in Instants /\ k \in Keys /\ now' = now /\ at <= now /\ now <= at + MaxLag
      /\ latest' \in Instants /\ latest' \in Nat /\ lastSweep' \in Instants /\ latest \in Nat
      /\ latest' >= latest /\ latest' >= at
      /\ attempt' \in [Attempts -> [pc : {"idle", "waiting", "allowed", "denied"},
                                    key : Keys \cup {NoKey}, at : Instants]]
      /\ \A c \in Attempts : attempt'[c].pc # "idle" => attempt'[c].key \in Keys
      /\ Timely'
  BY <1>1, <1>2, <1>3, DecidedRight
<1>5. /\ LimTyped /\ \A m \in Keys : ListRight(hits[m]) /\ HitsRight(m) /\ WindowRight(m)
      /\ admitted \in [Keys -> [Instants -> Nat]] /\ late \in [Keys -> Nat] /\ hits \in [Keys -> Seq(Instants)]
      /\ now \in Nat
  BY LimiterConstants DEF LimInv, LimTyped
<1>6. /\ Covers(r, hits[k], at) /\ Len(r) = Hits(hits[k], at - HitWindow)
      /\ r \in Seq(Instants) /\ ListRight(r)
  <2>1. Covers(r, hits[k], at) /\ Len(r) = Hits(hits[k], at - HitWindow)
    BY <1>4, <1>5, KeptCovers
  <2> QED BY <2>1 DEF Covers
<1> HIDE DEF r
<1>7. q \in Seq(Instants) /\ \A y : Hits(r, y) \in Nat /\ Hits(q, y) = Hits(r, y) + IF at > y THEN 1 ELSE 0
  BY <1>4, <1>6, HitsAppend
<1>8. ListRight(q)
  <2>1. Len(q) = Len(r) + 1 /\ Len(r) \in Nat /\ q[Len(r) + 1] = at /\ \A j \in 1 .. Len(r) : q[j] = r[j]
    BY <1>4, <1>6
  <2> HIDE DEF q
  <2>2. Tidy(r) /\ \A i \in 1 .. Len(r) : r[i] <= now /\ r[i] \in Nat
    <3>1. \A i \in 1 .. Len(r) : r[i] \in Instants
      BY <1>6
    <3> QED BY <1>6, <3>1, LimiterConstants DEF ListRight
  <2>3. \A i, j \in 1 .. Len(q) : i < j => q[i] <= q[j] + MaxLag
    <3>1. ASSUME NEW i \in 1 .. Len(q), NEW j \in 1 .. Len(q), i < j PROVE q[i] <= q[j] + MaxLag
      <4>1. i \in 1 .. Len(r) /\ (j \in 1 .. Len(r) \/ j = Len(r) + 1)
        BY <2>1, <3>1
      <4>2. CASE j \in 1 .. Len(r)
        BY <2>1, <2>2, <3>1, <4>1, <4>2 DEF Tidy
      <4>3. CASE j = Len(r) + 1
        <5>1. q[i] = r[i] /\ q[j] = at /\ r[i] <= now /\ r[i] \in Nat
          BY <2>1, <2>2, <4>1, <4>3
        <5> QED BY <1>4, <1>5, <5>1, LimiterConstants
      <4> QED BY <4>1, <4>2, <4>3
    <3> QED BY <3>1
  <2>4. ASSUME NEW i \in 1 .. Len(q) PROVE q[i] <= now
    <3>1. i \in 1 .. Len(r) \/ i = Len(r) + 1
      BY <2>1
    <3> QED BY <1>4, <2>1, <2>2, <3>1
  <2>5. Len(q) <= HitLimit
    BY <1>3, <2>1, LimiterConstants
  <2> QED BY <2>3, <2>4, <2>5 DEF ListRight, Tidy
<1> HIDE DEF q
<1>9. ASSUME NEW m \in Keys
      PROVE  hits'[m] = IF m = k THEN q ELSE Swept(at)[m]
  BY <1>3, <1>4, <1>5, SweptIs
<1>10. /\ \A m \in Keys : m # k => admitted'[m] = admitted[m] /\ late'[m] = late[m]
       /\ admitted'[k] = [admitted[k] EXCEPT ![at] = @ + 1] /\ admitted[k] \in [Instants -> Nat]
       /\ admitted' \in [Keys -> [Instants -> Nat]] /\ late' \in [Keys -> Nat]
       /\ late[k] \in Nat /\ late'[k] = IF at < latest THEN late[k] + 1 ELSE late[k]
  <2> DEFINE f == [admitted[k] EXCEPT ![at] = @ + 1]
  <2>1. admitted' = [admitted EXCEPT ![k] = f]
    BY <1>3
  <2>2. f \in [Instants -> Nat] /\ admitted[k] \in [Instants -> Nat]
    BY <1>4, <1>5
  <2>3. f = [admitted[k] EXCEPT ![at] = @ + 1]
    OBVIOUS
  <2> HIDE DEF f
  <2>4. /\ late[k] \in Nat /\ late' \in [Keys -> Nat] /\ late'[k] = IF at < latest THEN late[k] + 1 ELSE late[k]
        /\ \A m \in Keys : m # k => late'[m] = late[m]
    BY <1>3, <1>4, <1>5
  <2> QED BY <1>4, <1>5, <2>1, <2>2, <2>3, <2>4
<1>11. hits' \in [Keys -> Seq(Instants)]
  <2>1. hits' = [m \in Keys |-> hits'[m]]
    BY <1>3, <1>4, <1>5, SweptIs
  <2>2. \A m \in Keys : hits'[m] \in Seq(Instants)
    <3>1. ASSUME NEW m \in Keys PROVE Swept(at)[m] \in Seq(Instants)
      BY <1>4, <1>5, SweptCovers DEF Covers
    <3> QED BY <1>7, <1>9, <3>1
  <2> QED BY <2>1, <2>2
<1>12. LimTyped'
  BY <1>4, <1>5, <1>10, <1>11 DEF LimTyped
<1>13. ASSUME NEW m \in Keys, m # k PROVE (ListRight(hits[m]) /\ HitsRight(m) /\ WindowRight(m))'
  <2>1. Covers(hits'[m], hits[m], at)
    BY <1>4, <1>5, <1>9, <1>13, SweptCovers
  <2>2. ListRight(hits[m])' /\ HitsRight(m)'
    BY <1>4, <1>10, <1>13, <2>1, ListSheds
  <2>3. WindowRight(m)'
    BY <1>5, <1>10, <1>13, WindowStays
  <2> QED BY <2>2, <2>3
<1>14. ListRight(hits[k])'
  <2>1. hits'[k] = q /\ now' = now
    BY <1>4, <1>9
  <2> QED BY <1>8, <2>1 DEF ListRight, Tidy
<1>15. \A S \in SUBSET Instants :
         /\ SumFunctionOnSet(admitted'[k], S) = SumFunctionOnSet(admitted[k], S) + IF at \in S THEN 1 ELSE 0
         /\ SumFunctionOnSet(admitted[k], S) \in Nat
  <2>1. admitted[k] \in [Instants -> Nat] /\ admitted'[k] = [admitted[k] EXCEPT ![at] = @ + 1]
    BY <1>10
  <2>2. \A S \in SUBSET Instants :
          SumFunctionOnSet([admitted[k] EXCEPT ![at] = @ + 1], S)
            = SumFunctionOnSet(admitted[k], S) + IF at \in S THEN 1 ELSE 0
    BY <1>4, <2>1, AdmittedMore
  <2>3. \A S \in SUBSET Instants : SumFunctionOnSet(admitted[k], S) \in Nat
    BY <2>1, AdmittedSummable
  <2> QED BY <2>1, <2>2, <2>3
<1>16. \A y : /\ Let(k, y)' = Let(k, y) + (IF at > y THEN 1 ELSE 0) /\ Let(k, y) \in Nat
  <2>1. \A y : Since(y) \in SUBSET Instants /\ Since(y)' = Since(y) /\ (at \in Since(y) <=> at > y)
    BY <1>4 DEF Since
  <2> QED BY <1>15, <2>1 DEF Let
<1>17. HitsRight(k)'
  <2>1. ASSUME NEW y \in Int
        PROVE  /\ Hits(q, y) <= Let(k, y)'
               /\ y >= latest' - HitWindow => Hits(q, y) = Let(k, y)'
    <3>1. /\ Hits(r, y) \in Nat /\ Hits(r, y) <= Hits(hits[k], y)
          /\ y >= at - HitWindow => Hits(r, y) = Hits(hits[k], y)
      BY <1>6 DEF Covers
    <3>2. /\ Hits(hits[k], y) <= Let(k, y)
          /\ y >= latest - HitWindow => Hits(hits[k], y) = Let(k, y)
      BY <1>4, <1>5 DEF HitsRight
    <3>3. Hits(hits[k], y) \in Nat
      BY <1>4, <1>5, HitsNat
    <3>4. Let(k, y)' = Let(k, y) + (IF at > y THEN 1 ELSE 0) /\ Let(k, y) \in Nat
      BY <1>16
    <3>5. y >= latest' - HitWindow => y >= latest - HitWindow /\ y >= at - HitWindow
      <4>1. latest' \in Int /\ latest \in Int /\ at \in Int /\ HitWindow \in Int /\ latest' >= latest /\ latest' >= at
        BY <1>4, LimiterConstants
      <4> QED BY <4>1, Cutoffs
    <3>6. Hits(q, y) = Hits(r, y) + IF at > y THEN 1 ELSE 0
      BY <1>7
    <3> QED BY <3>1, <3>2, <3>3, <3>4, <3>5, <3>6
  <2>2. hits'[k] = q
    BY <1>4, <1>9
  <2> QED BY <2>1, <2>2 DEF HitsRight, Hits, Later, LaterOnes
<1>18. WindowRight(k)'
  <2>1. ASSUME NEW t \in Instants
        PROVE  SumFunctionOnSet(admitted'[k], InWindow(t)) <= HitLimit + late'[k]
    <3> DEFINE old == SumFunctionOnSet(admitted[k], InWindow(t))
    <3>1. InWindow(t) \in SUBSET Instants /\ HitLimit \in Nat /\ t \in Nat
      BY LimiterConstants DEF InWindow
    <3>2. /\ SumFunctionOnSet(admitted'[k], InWindow(t)) = old + (IF at \in InWindow(t) THEN 1 ELSE 0)
          /\ old \in Nat
      BY <1>15, <3>1
    <3>3. old <= HitLimit + late[k]
      BY <1>4, <1>5 DEF WindowRight
    <3> HIDE DEF old
    <3>4. CASE at \in InWindow(t) /\ ~(at < latest)
      <4> DEFINE c == at - HitWindow
      <4>1. c \in Int /\ c >= latest - HitWindow
        BY <1>4, <3>4, LimiterConstants
      <4>2. InWindow(t) \in SUBSET Since(c) /\ Since(c) \in SUBSET Instants
        <5>1. t - HitWindow >= c /\ t - HitWindow \in Int /\ c \in Int
          BY <1>4, <3>1, <3>4, LimiterConstants DEF InWindow
        <5>2. \A x \in Instants : x \in Nat
          BY LimiterConstants
        <5> HIDE DEF c
        <5> QED BY <5>1, <5>2 DEF InWindow, Since
      <4>3. old <= Let(k, c)
        BY <1>10, <4>2, AdmittedSummable DEF Let, old
      <4>4. Let(k, c) = Len(r) /\ Len(r) \in Nat
        <5>1. Hits(hits[k], c) = Let(k, c)
          BY <1>4, <1>5, <4>1 DEF HitsRight
        <5> QED BY <1>6, <5>1
      <4> HIDE DEF c
      <4>5. late'[k] = late[k] /\ late[k] \in Nat
        BY <1>10, <3>4
      <4> QED BY <1>3, <3>1, <3>2, <3>4, <4>3, <4>4, <4>5
    <3>5. CASE ~(at \in InWindow(t)) \/ at < latest
      <4>1. late[k] \in Nat /\ late'[k] = IF at < latest THEN late[k] + 1 ELSE late[k]
        BY <1>10
      <4>2. CASE at < latest
        BY <3>1, <3>2, <3>3, <4>1, <4>2
      <4>3. CASE ~(at < latest)
        BY <3>1, <3>2, <3>3, <3>5, <4>1, <4>3
      <4> QED BY <4>2, <4>3
    <3> QED BY <3>4, <3>5
  <2> QED BY <2>1 DEF WindowRight, InWindow
<1>19. \A m \in Keys : (ListRight(hits[m]) /\ HitsRight(m) /\ WindowRight(m))'
  BY <1>13, <1>14, <1>17, <1>18
<1> QED BY <1>4, <1>12, <1>19 DEF LimInv

LEMMA KeyStays ==
  ASSUME LimInv, NEW k \in Keys, hits'[k] = hits[k], admitted'[k] = admitted[k], late'[k] = late[k],
         latest' = latest, now' \in Nat, now' >= now
  PROVE  (ListRight(hits[k]) /\ HitsRight(k) /\ WindowRight(k))'
<1>1. /\ ListRight(hits[k]) /\ HitsRight(k) /\ WindowRight(k) /\ hits[k] \in Seq(Instants) /\ now \in Nat
  BY LimiterConstants DEF LimInv, LimTyped
<1>2. ListRight(hits[k])'
  <2>1. \A i \in 1 .. Len(hits[k]) : hits[k][i] \in Nat /\ hits[k][i] <= now
    <3>1. \A i \in 1 .. Len(hits[k]) : hits[k][i] \in Instants
      BY <1>1
    <3> QED BY <1>1, <3>1, LimiterConstants DEF ListRight
  <2>2. \A i \in 1 .. Len(hits[k]) : hits[k][i] <= now'
    BY <1>1, <2>1
  <2> QED BY <1>1, <2>2 DEF ListRight, Tidy
<1>3. \A y : Since(y)' = Since(y)
  BY DEF Since
<1>4. HitsRight(k)'
  BY <1>1, <1>3 DEF HitsRight, Let, Hits, Later, LaterOnes
<1>5. WindowRight(k)'
  BY <1>1, WindowStays
<1> QED BY <1>2, <1>4, <1>5

AttemptStates == [pc : {"idle", "waiting", "allowed", "denied"}, key : Keys \cup {NoKey}, at : Instants]

(* An attempt that comes to be another; nobody else's wait changes.        *)
LEMMA AttemptBecomes ==
  ASSUME LimInv, NEW a \in Attempts, NEW x \in AttemptStates, attempt' = [attempt EXCEPT ![a] = x], now' = now,
         x.pc # "idle" => x.key \in Keys, x.pc = "waiting" => x.at = now
  PROVE  /\ attempt' \in [Attempts -> AttemptStates] /\ Timely'
         /\ \A c \in Attempts : attempt'[c].pc # "idle" => attempt'[c].key \in Keys
<1>1. /\ attempt \in [Attempts -> AttemptStates] /\ Timely
      /\ \A c \in Attempts : attempt[c].pc # "idle" => attempt[c].key \in Keys
      /\ now \in Nat /\ MaxLag \in Nat
  BY LimiterConstants DEF LimInv, LimTyped, AttemptStates
<1>2. attempt' \in [Attempts -> AttemptStates] /\ \A c \in Attempts : attempt'[c] = IF c = a THEN x ELSE attempt[c]
  BY <1>1
<1>3. Timely'
  BY <1>1, <1>2 DEF Timely
<1>4. \A c \in Attempts : attempt'[c].pc # "idle" => attempt'[c].key \in Keys
  BY <1>1, <1>2
<1> QED BY <1>2, <1>3, <1>4

LEMMA ArriveStep ==
  ASSUME LimInv, NEW a \in Attempts, NEW k \in Keys, AttemptArrives(a, k)
  PROVE  LimInv'
<1>1. /\ attempt' = [attempt EXCEPT ![a] = [pc |-> "waiting", key |-> k, at |-> now]]
      /\ UNCHANGED <<now, hits, lastSweep, admitted, latest, late>>
  BY DEF AttemptArrives
<1>2. LimTyped /\ now \in Instants /\ now \in Nat
  BY LimiterConstants DEF LimInv, LimTyped
<1> DEFINE x == [pc |-> "waiting", key |-> k, at |-> now]
<1>3. x \in AttemptStates /\ x.key \in Keys /\ x.at = now
  BY <1>2 DEF AttemptStates
<1> HIDE DEF x
<1>4. /\ attempt' \in [Attempts -> AttemptStates] /\ Timely'
      /\ \A c \in Attempts : attempt'[c].pc # "idle" => attempt'[c].key \in Keys
  <2>1. attempt' = [attempt EXCEPT ![a] = x] /\ now' = now
    BY <1>1 DEF x
  <2> QED BY <1>3, <2>1, AttemptBecomes
<1>5. LimTyped'
  BY <1>1, <1>2, <1>4 DEF LimTyped, AttemptStates
<1>6. \A m \in Keys : (ListRight(hits[m]) /\ HitsRight(m) /\ WindowRight(m))'
  BY <1>1, <1>2, KeyStays
<1> QED BY <1>4, <1>5, <1>6 DEF LimInv

LEMMA NoAttemptRight == NoAttempt \in AttemptStates /\ NoAttempt.pc = "idle"
BY LimiterConstants DEF NoAttempt, AttemptStates

LEMMA FailStep ==
  ASSUME LimInv, NEW a \in Attempts, AttemptFails(a)
  PROVE  LimInv'
<1>1. /\ attempt' = [attempt EXCEPT ![a] = NoAttempt]
      /\ UNCHANGED <<now, hits, lastSweep, admitted, latest, late>>
  BY DEF AttemptFails
<1>2. LimTyped /\ now \in Nat
  BY LimiterConstants DEF LimInv, LimTyped
<1>3. /\ attempt' \in [Attempts -> AttemptStates] /\ Timely'
      /\ \A c \in Attempts : attempt'[c].pc # "idle" => attempt'[c].key \in Keys
  BY <1>1, NoAttemptRight, AttemptBecomes
<1>4. LimTyped'
  BY <1>1, <1>2, <1>3 DEF LimTyped, AttemptStates
<1>5. \A m \in Keys : (ListRight(hits[m]) /\ HitsRight(m) /\ WindowRight(m))'
  BY <1>1, <1>2, KeyStays
<1> QED BY <1>3, <1>4, <1>5 DEF LimInv

(* A success forgets the hits of the client, and what they were.           *)
LEMMA EmptyRight ==
  ASSUME LimTyped', NEW k \in Keys, hits'[k] = <<>>, admitted'[k] = NoneAdmitted
  PROVE  (ListRight(hits[k]) /\ HitsRight(k) /\ WindowRight(k))'
<1>1. NoneAdmitted \in [Instants -> Nat] /\ \A t \in Instants : NoneAdmitted[t] = 0
  BY DEF NoneAdmitted
<1>2. ASSUME NEW S \in SUBSET Instants PROVE SumFunctionOnSet(NoneAdmitted, S) = 0
  <2>1. Summable(NoneAdmitted, S) /\ \A t \in S : NoneAdmitted[t] = 0
    BY <1>1, AdmittedSummable
  <2> QED BY <2>1, SumZero
<1>3. ListRight(hits[k])'
  BY LimiterConstants DEF ListRight, Tidy
<1>4. HitsRight(k)'
  <2>1. ASSUME NEW y PROVE Let(k, y)' = 0 /\ Hits(hits'[k], y) = 0
    <3>1. Since(y) \in SUBSET Instants /\ Since(y)' = Since(y)
      BY DEF Since
    <3>2. Let(k, y)' = SumFunctionOnSet(NoneAdmitted, Since(y))
      BY <3>1 DEF Let
    <3> QED BY <1>2, <3>1, <3>2, HitsNone
  <2>2. \A y : 0 <= Let(k, y)' /\ Hits(hits'[k], y) = Let(k, y)' /\ Hits(hits'[k], y) <= Let(k, y)'
    BY <2>1
  <2> QED BY <2>2 DEF HitsRight, Hits, Later, LaterOnes
<1>5. WindowRight(k)'
  <2>1. late'[k] \in Nat
    BY DEF LimTyped
  <2>2. \A t \in Instants : SumFunctionOnSet(admitted'[k], InWindow(t)) = 0
    <3>1. \A t \in Instants : InWindow(t) \in SUBSET Instants
      BY DEF InWindow
    <3> QED BY <1>2, <3>1
  <2> QED BY <2>1, <2>2, LimiterConstants DEF WindowRight, InWindow
<1> QED BY <1>3, <1>4, <1>5

LEMMA ResetStep ==
  ASSUME LimInv, NEW a \in Attempts, Reset(a)
  PROVE  LimInv'
<1>0. PICK k : k = attempt[a].key
  OBVIOUS
<1>1. /\ attempt[a].pc = "allowed"
      /\ hits' = [hits EXCEPT ![k] = <<>>] /\ admitted' = [admitted EXCEPT ![k] = NoneAdmitted]
      /\ late' = [late EXCEPT ![k] = 0] /\ attempt' = [attempt EXCEPT ![a] = NoAttempt]
      /\ UNCHANGED <<now, lastSweep, latest>>
  BY <1>0 DEF Reset
<1>2. /\ LimTyped /\ now \in Nat /\ k \in Keys
      /\ hits \in [Keys -> Seq(Instants)] /\ admitted \in [Keys -> [Instants -> Nat]] /\ late \in [Keys -> Nat]
  BY <1>0, <1>1, LimiterConstants DEF LimInv, LimTyped
<1>3. /\ attempt' \in [Attempts -> AttemptStates] /\ Timely'
      /\ \A c \in Attempts : attempt'[c].pc # "idle" => attempt'[c].key \in Keys
  BY <1>1, NoAttemptRight, AttemptBecomes
<1>4. /\ hits' \in [Keys -> Seq(Instants)] /\ admitted' \in [Keys -> [Instants -> Nat]] /\ late' \in [Keys -> Nat]
      /\ hits'[k] = <<>> /\ admitted'[k] = NoneAdmitted
      /\ \A m \in Keys : m # k => hits'[m] = hits[m] /\ admitted'[m] = admitted[m] /\ late'[m] = late[m]
  <2>1. NoneAdmitted \in [Instants -> Nat] /\ <<>> \in Seq(Instants)
    BY DEF NoneAdmitted
  <2>2. hits' \in [Keys -> Seq(Instants)] /\ hits'[k] = <<>> /\ \A m \in Keys : m # k => hits'[m] = hits[m]
    BY <1>1, <1>2, <2>1
  <2> DEFINE F == [Instants -> Nat]
  <2>3. admitted \in [Keys -> F] /\ NoneAdmitted \in F
    BY <1>2, <2>1
  <2> HIDE DEF F
  <2>4. /\ admitted' \in [Keys -> F] /\ admitted'[k] = NoneAdmitted
        /\ \A m \in Keys : m # k => admitted'[m] = admitted[m]
    BY <1>1, <1>2, <2>3
  <2>5. late' \in [Keys -> Nat] /\ \A m \in Keys : m # k => late'[m] = late[m]
    BY <1>1, <1>2
  <2> QED BY <2>2, <2>4, <2>5 DEF F
<1>5. LimTyped'
  BY <1>1, <1>2, <1>3, <1>4 DEF LimTyped, AttemptStates
<1>6. ASSUME NEW m \in Keys PROVE (ListRight(hits[m]) /\ HitsRight(m) /\ WindowRight(m))'
  <2>1. CASE m = k
    BY <1>4, <1>5, <2>1, EmptyRight
  <2>2. CASE m # k
    BY <1>1, <1>2, <1>4, <2>2, KeyStays
  <2> QED BY <2>1, <2>2
<1> QED BY <1>3, <1>5, <1>6 DEF LimInv

LEMMA LimiterPassesStep ==
  ASSUME LimInv, LimiterPasses
  PROVE  LimInv'
<1>1. /\ now < MaxTime /\ now' = now + 1
      /\ \A a \in Attempts : attempt[a].pc = "waiting" => now - attempt[a].at < MaxLag
      /\ UNCHANGED <<hits, lastSweep, attempt, admitted, latest, late>>
  BY DEF LimiterPasses, Passes
<1>2. /\ LimTyped /\ now \in Instants /\ now \in Nat /\ Timely
      /\ \A a \in Attempts : attempt[a].at \in Nat
  <2>1. /\ LimTyped /\ now \in Instants /\ Timely
        /\ attempt \in [Attempts -> AttemptStates]
    BY DEF LimInv, LimTyped, AttemptStates
  <2>2. \A a \in Attempts : attempt[a].at \in Instants
    BY <2>1 DEF AttemptStates
  <2> QED BY <2>1, <2>2, LimiterConstants
<1>3. now' \in Instants /\ now' \in Nat /\ now' >= now
  BY <1>1, <1>2, LimiterConstants DEF Instants
<1>4. Timely'
  <2>1. ASSUME NEW a \in Attempts, attempt[a].pc = "waiting"
        PROVE  attempt[a].at <= now + 1 /\ now + 1 <= attempt[a].at + MaxLag
    BY <1>1, <1>2, <2>1, LimiterConstants DEF Timely
  <2> QED BY <1>1, <2>1 DEF Timely
<1>5. LimTyped'
  BY <1>1, <1>2, <1>3 DEF LimTyped
<1>6. \A m \in Keys : (ListRight(hits[m]) /\ HitsRight(m) /\ WindowRight(m))'
  BY <1>1, <1>3, KeyStays
<1> QED BY <1>4, <1>5, <1>6 DEF LimInv

LEMMA LimiterInitInv == LimiterInit => LimInv
<1> SUFFICES ASSUME LimiterInit PROVE LimInv
  OBVIOUS
<1>1. /\ now = 0 /\ lastSweep = 0 /\ latest = 0
      /\ hits = [k \in Keys |-> <<>>] /\ attempt = [a \in Attempts |-> NoAttempt]
      /\ admitted = [k \in Keys |-> NoneAdmitted] /\ late = [k \in Keys |-> 0]
  BY DEF LimiterInit, ClockInit
<1>2. NoneAdmitted \in [Instants -> Nat] /\ \A t \in Instants : NoneAdmitted[t] = 0
  BY DEF NoneAdmitted
<1>3. LimTyped
  <2>1. attempt \in [Attempts -> AttemptStates]
    BY <1>1, NoAttemptRight
  <2>2. hits \in [Keys -> Seq(Instants)] /\ admitted \in [Keys -> [Instants -> Nat]] /\ late \in [Keys -> Nat]
    BY <1>1, <1>2
  <2>3. \A a \in Attempts : attempt[a].pc = "idle"
    BY <1>1, NoAttemptRight
  <2> QED BY <1>1, <2>1, <2>2, <2>3, LimiterConstants DEF LimTyped, AttemptStates
<1>4. Timely
  BY <1>1, NoAttemptRight DEF Timely
<1>5. ASSUME NEW S \in SUBSET Instants PROVE SumFunctionOnSet(NoneAdmitted, S) = 0
  <2>1. Summable(NoneAdmitted, S) /\ \A t \in S : NoneAdmitted[t] = 0
    BY <1>2, AdmittedSummable
  <2> QED BY <2>1, SumZero
<1>6. ASSUME NEW k \in Keys PROVE ListRight(hits[k]) /\ HitsRight(k) /\ WindowRight(k)
  <2>1. hits[k] = <<>> /\ admitted[k] = NoneAdmitted /\ late[k] = 0
    BY <1>1
  <2>2. ListRight(hits[k])
    BY <2>1, LimiterConstants DEF ListRight, Tidy
  <2>3. \A y : Let(k, y) = 0 /\ Hits(hits[k], y) = 0
    <3>1. \A y : Since(y) \in SUBSET Instants
      BY DEF Since
    <3> QED BY <1>5, <2>1, <3>1, HitsNone DEF Let
  <2>4. HitsRight(k)
    BY <2>3 DEF HitsRight
  <2>5. WindowRight(k)
    <3>1. \A t \in Instants : InWindow(t) \in SUBSET Instants
      BY DEF InWindow
    <3> QED BY <1>5, <2>1, <3>1, LimiterConstants DEF WindowRight
  <2> QED BY <2>2, <2>4, <2>5
<1> QED BY <1>3, <1>4, <1>6 DEF LimInv

LEMMA LimiterNextInv == LimInv /\ [LimiterNext]_limiterVars => LimInv'
<1> SUFFICES ASSUME LimInv, [LimiterNext]_limiterVars PROVE LimInv'
  OBVIOUS
<1>1. ASSUME NEW a \in Attempts, NEW k \in Keys, AttemptArrives(a, k) PROVE LimInv'
  BY <1>1, ArriveStep
<1>2. ASSUME NEW a \in Attempts, Allow(a) PROVE LimInv'
  BY <1>2, AllowStep
<1>3. ASSUME NEW a \in Attempts, Deny(a) PROVE LimInv'
  BY <1>3, DenyStep
<1>4. ASSUME NEW a \in Attempts, AttemptFails(a) PROVE LimInv'
  BY <1>4, FailStep
<1>5. ASSUME NEW a \in Attempts, Reset(a) PROVE LimInv'
  BY <1>5, ResetStep
<1>6. CASE LimiterPasses
  BY <1>6, LimiterPassesStep
<1>7. CASE UNCHANGED limiterVars
  <2>1. UNCHANGED <<now, hits, lastSweep, attempt, admitted, latest, late>>
    BY <1>7 DEF limiterVars
  <2>2. LimTyped' /\ Timely' /\ now' \in Nat /\ now' >= now
    BY <2>1, LimiterConstants DEF LimInv, LimTyped, Timely
  <2>3. \A m \in Keys : (ListRight(hits[m]) /\ HitsRight(m) /\ WindowRight(m))'
    BY <2>1, <2>2, KeyStays
  <2> QED BY <2>2, <2>3 DEF LimInv
<1> QED BY <1>1, <1>2, <1>3, <1>4, <1>5, <1>6, <1>7 DEF LimiterNext

LEMMA LimiterAlways == LimiterSpec => []LimInv
<1> QED BY LimiterInitInv, LimiterNextInv, PTL DEF LimiterSpec

(* The limiter's lists are never longer than the limit, and its state is   *)
(* what it should be (pkg/store/ratelimit.go).                             *)
THEOREM LimiterTypes == LimiterSpec => []LimiterTypeOK
<1>1. LimInv => LimiterTypeOK
  BY DEF LimInv, LimTyped, ListRight, LimiterTypeOK
<1> QED BY <1>1, LimiterAlways, PTL

(* Allow lets no client through more often in any window than the limit,   *)
(* beyond one call for each that was decided after a younger one, in       *)
(* whatever order requests get the mutex and whatever the sweep takes.     *)
THEOREM WindowsBounded == LimiterSpec => []WindowBounded
<1>1. LimInv => WindowBounded
  BY DEF LimInv, WindowRight, WindowBounded
<1> QED BY <1>1, LimiterAlways, PTL

(* Allow turns a client away only for calls it let through: those it       *)
(* counts at the instant of the call are all in the window before it.      *)
THEOREM DenialsJustified == LimiterSpec => DenialJustified
<1> DEFINE Just(a) == attempt[a].pc = "waiting" /\ attempt'[a].pc = "denied" =>
                        SumFunctionOnSet(admitted[attempt[a].key],
                                         {s \in Instants : s > attempt[a].at - HitWindow}) >= HitLimit
<1>1. LimInv /\ [LimiterNext]_limiterVars => \A a \in Attempts : Just(a)
  <2> SUFFICES ASSUME LimInv, [LimiterNext]_limiterVars, NEW a \in Attempts,
                      attempt[a].pc = "waiting", attempt'[a].pc = "denied"
               PROVE  SumFunctionOnSet(admitted[attempt[a].key],
                                       {s \in Instants : s > attempt[a].at - HitWindow}) >= HitLimit
    OBVIOUS
  <2>1. attempt \in [Attempts -> AttemptStates]
    BY DEF LimInv, LimTyped, AttemptStates
  <2>2. Deny(a)
    <3>1. ASSUME NEW c \in Attempts, NEW k \in Keys, AttemptArrives(c, k) PROVE FALSE
      BY <2>1, <3>1 DEF AttemptArrives
    <3>2. ASSUME NEW c \in Attempts, Allow(c) PROVE FALSE
      BY <2>1, <3>2 DEF Allow, Decided, AttemptStates
    <3>3. ASSUME NEW c \in Attempts, AttemptFails(c) \/ Reset(c) PROVE FALSE
      BY <2>1, <3>3, NoAttemptRight DEF AttemptFails, Reset
    <3>4. ~LimiterPasses
      BY DEF LimiterPasses
    <3>5. ASSUME NEW c \in Attempts, Deny(c) PROVE c = a
      BY <2>1, <3>5 DEF Deny, Decided
    <3>6. ~UNCHANGED limiterVars
      BY DEF limiterVars
    <3> QED BY <3>1, <3>2, <3>3, <3>4, <3>5, <3>6 DEF LimiterNext
  <2>3. PICK k : k = attempt[a].key
    OBVIOUS
  <2>4. PICK at : at = attempt[a].at
    OBVIOUS
  <2>5. at \in Nat /\ k \in Keys
    BY <2>2, <2>3, <2>4, DecidedRight DEF Deny
  <2>6. ~(Len(Kept(k, at)) < HitLimit)
    BY <2>2, <2>3, <2>4 DEF Deny, Room
  <2>7. LimTyped /\ ListRight(hits[k]) /\ HitsRight(k) /\ hits[k] \in Seq(Instants)
        /\ admitted[k] \in [Instants -> Nat]
    BY <2>5 DEF LimInv, LimTyped
  <2> DEFINE c == at - HitWindow
  <2>8. c \in Int
    BY <2>5, LimiterConstants
  <2>9. Len(Kept(k, at)) = Hits(hits[k], c)
    BY <2>5, <2>7, KeptCovers
  <2>10. Hits(hits[k], c) \in Nat /\ Hits(hits[k], c) <= Let(k, c) /\ Let(k, c) \in Nat
    <3>1. Since(c) \in SUBSET Instants
      BY DEF Since
    <3> HIDE DEF c
    <3> QED BY <2>7, <2>8, <3>1, HitsNat, AdmittedSummable DEF HitsRight, Let
  <2>11. Let(k, c) >= HitLimit
    <3> HIDE DEF c
    <3> QED BY <2>6, <2>9, <2>10, LimiterConstants
  <2> QED BY <2>3, <2>4, <2>11 DEF Let, Since
<1> QED BY <1>1, LimiterAlways, PTL DEF LimiterSpec, DenialJustified
=============================================================================
