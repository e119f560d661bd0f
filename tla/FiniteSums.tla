----------------------------- MODULE FiniteSums -----------------------------
(***************************************************************************)
(* Sums over a finite set, as MapThenSumSet of the community modules takes *)
(* them: a recursive function on the subsets, which adds the value of an   *)
(* element to the sum over the rest.                                       *)
(*                                                                         *)
(* The proofs are by a smallest counterexample, which the library's WFMin  *)
(* provides for a set of naturals and for a set of subsets.                *)
(***************************************************************************)
EXTENDS FiniteSetsExt, FiniteSetTheorems, NaturalsInduction, TLAPS

Pick(s) == CHOOSE x \in s : TRUE

\* One unfolding of the recursion.
Unfolded(f, g, s) == IF s = {} THEN 0 ELSE f[Pick(s)] + g[s \ {Pick(s)}]

\* The function that maps every subset of S to the sum of f over it.
Sums(f, S) == CHOOSE g : g = [s \in SUBSET S |-> Unfolded(f, g, s)]

LEMMA SumIsMapThenSum ==
    ASSUME NEW S, NEW f
    PROVE  MapThenSumSet(LAMBDA x : f[x], S) = Sums(f, S)[S]
BY DEF MapThenSumSet, MapThenFoldSet, Sums, Unfolded, Pick

LEMMA PickFacts ==
    ASSUME NEW S, NEW s \in SUBSET S, s # {}
    PROVE  Pick(s) \in s /\ Pick(s) \in S /\ s \ {Pick(s)} \in SUBSET S /\ s \ {Pick(s)} # s
BY DEF Pick

\* A nonempty set of subsets of a finite set has one that contains no other.
LEMMA MinimalSubset ==
    ASSUME NEW S, IsFiniteSet(S), NEW T \in SUBSET SUBSET S, T # {}
    PROVE  \E s \in T : \A r \in T : r \subseteq s => r = s
<1>1. IsWellFoundedOn(StrictSubsetOrdering(S), SUBSET S)
  BY FS_StrictSubsetOrderingWellFounded, FS_FiniteSubsetsOfFinite
<1>2. PICK s \in T : \A r \in T : ~(<<r, s>> \in StrictSubsetOrdering(S))
  BY <1>1, WFMin
<1>3. ASSUME NEW r \in T, r \subseteq s, r # s PROVE FALSE
  <2>1. <<r, s>> \in (SUBSET S) \X (SUBSET S)
    OBVIOUS
  <2>2. <<r, s>> \in StrictSubsetOrdering(S)
    BY <2>1, <1>3 DEF StrictSubsetOrdering
  <2> QED
    BY <1>2, <2>2
<1> QED
  BY <1>3

\* The recursion has a solution: on the subsets of up to k elements for every k.
LEMMA SolutionExists ==
    ASSUME NEW S, IsFiniteSet(S), NEW f \in [S -> Int]
    PROVE  \E g : g = [s \in SUBSET S |-> Unfolded(f, g, s)]
<1> DEFINE Level(k) == {s \in SUBSET S : Cardinality(s) <= k}
           Solved(k) == \E g \in [Level(k) -> Int] : \A s \in Level(k) : g[s] = Unfolded(f, g, s)
           Bad == {k \in Nat : ~Solved(k)}
<1>1. ASSUME NEW s \in SUBSET S
      PROVE  /\ Cardinality(s) \in Nat /\ Cardinality(s) <= Cardinality(S)
             /\ s = {} <=> Cardinality(s) = 0
             /\ s # {} => Cardinality(s \ {Pick(s)}) = Cardinality(s) - 1
  <2>1. IsFiniteSet(s) /\ Cardinality(s) <= Cardinality(S)
    BY FS_Subset
  <2>2. Cardinality(s) \in Nat /\ (s = {} <=> Cardinality(s) = 0)
    BY <2>1, FS_CardinalityType, FS_EmptySet
  <2>3. ASSUME s # {} PROVE Cardinality(s \ {Pick(s)}) = Cardinality(s) - 1
    <3>1. Pick(s) \in s
      BY <2>3 DEF Pick
    <3> QED
      BY <2>1, <3>1, FS_RemoveElement
  <2> QED
    BY <2>1, <2>2, <2>3
<1>2. Solved(0)
  <2> DEFINE g == [s \in Level(0) |-> 0]
  <2>1. ASSUME NEW s \in Level(0) PROVE s = {}
    <3>1. s \in SUBSET S /\ Cardinality(s) <= 0
      OBVIOUS
    <3>2. Cardinality(s) \in Nat /\ (s = {} <=> Cardinality(s) = 0)
      BY <1>1, <3>1
    <3> QED
      BY <3>1, <3>2
  <2> HIDE DEF Level
  <2>2. g \in [Level(0) -> Int] /\ \A s \in Level(0) : g[s] = 0
    OBVIOUS
  <2>3. \A s \in Level(0) : Unfolded(f, g, s) = 0
    BY <2>1 DEF Unfolded
  <2> HIDE DEF g
  <2> QED
    BY <2>2, <2>3
<1>3. ASSUME NEW k \in Nat, Solved(k) PROVE Solved(k + 1)
  <2>1. PICK g \in [Level(k) -> Int] : \A s \in Level(k) : g[s] = Unfolded(f, g, s)
    BY <1>3
  <2> DEFINE h == [s \in Level(k + 1) |-> Unfolded(f, g, s)]
  <2>2. ASSUME NEW s \in Level(k + 1), s # {}
        PROVE  s \ {Pick(s)} \in Level(k) /\ s \ {Pick(s)} \in Level(k + 1) /\ f[Pick(s)] \in Int
    <3>1. s \in SUBSET S /\ Cardinality(s) <= k + 1
      OBVIOUS
    <3>2. Pick(s) \in S /\ s \ {Pick(s)} \in SUBSET S
      BY <2>2, <3>1, PickFacts
    <3>3. Cardinality(s \ {Pick(s)}) = Cardinality(s) - 1 /\ Cardinality(s) \in Nat
      BY <1>1, <2>2, <3>1
    <3> QED
      BY <3>1, <3>2, <3>3
  <2> HIDE DEF Level
  <2>3. h \in [Level(k + 1) -> Int]
    <3>1. ASSUME NEW s \in Level(k + 1) PROVE Unfolded(f, g, s) \in Int
      <4>1. CASE s = {}
        BY <4>1 DEF Unfolded
      <4>2. CASE s # {}
        <5>1. f[Pick(s)] \in Int /\ g[s \ {Pick(s)}] \in Int
          BY <2>2, <4>2
        <5> QED
          BY <4>2, <5>1 DEF Unfolded
      <4> QED
        BY <4>1, <4>2
    <3> QED
      BY <3>1
  <2>4. ASSUME NEW s \in Level(k) PROVE s \in Level(k + 1)
    <3>1. s \in SUBSET S /\ Cardinality(s) <= k
      BY DEF Level
    <3>2. Cardinality(s) \in Nat
      BY <1>1, <3>1
    <3> QED
      BY <3>1, <3>2 DEF Level
  <2>5. \A s \in Level(k) : h[s] = g[s]
    BY <2>1, <2>4
  <2>6. ASSUME NEW s \in Level(k + 1) PROVE h[s] = Unfolded(f, h, s)
    <3>1. h[s] = Unfolded(f, g, s)
      OBVIOUS
    <3> HIDE DEF h
    <3> QED
      BY <2>2, <2>5, <3>1 DEF Unfolded
  <2> QED
    BY <2>3, <2>6
<1>4. Bad = {}
  <2> SUFFICES ASSUME Bad # {} PROVE FALSE
    OBVIOUS
  <2>1. PICK m \in Bad : \A k \in Bad : ~(k < m)
    <3>1. IsWellFoundedOn(OpToRel(<, Nat), Nat)
      BY NatLessThanWellFounded
    <3>2. Bad \subseteq Nat
      OBVIOUS
    <3> HIDE DEF Bad
    <3>3. PICK m \in Bad : \A k \in Bad : ~(<<k, m>> \in OpToRel(<, Nat))
      BY <3>1, <3>2, WFMin
    <3>4. ASSUME NEW k \in Bad, k < m PROVE FALSE
      <4>1. <<k, m>> \in OpToRel(<, Nat)
        BY <3>2, <3>4 DEF OpToRel
      <4> QED
        BY <3>3, <4>1
    <3> QED
      BY <3>4
  <2> HIDE DEF Solved
  <2>2. m \in Nat /\ ~Solved(m) /\ m # 0
    BY <1>2
  <2>3. m - 1 \in Nat /\ m - 1 \notin Bad /\ m - 1 + 1 = m
    BY <2>1, <2>2
  <2>4. Solved(m - 1)
    BY <2>3
  <2> HIDE DEF Bad
  <2>5. Solved(m - 1 + 1)
    BY <1>3, <2>3, <2>4
  <2> QED
    BY <2>2, <2>3, <2>5
<1>5. Solved(Cardinality(S))
  <2>1. Cardinality(S) \in Nat
    BY FS_CardinalityType
  <2> HIDE DEF Solved
  <2> QED
    BY <1>4, <2>1
<1>6. Level(Cardinality(S)) = SUBSET S
  BY <1>1
<1>7. PICK g \in [SUBSET S -> Int] : \A s \in SUBSET S : g[s] = Unfolded(f, g, s)
  <2> HIDE DEF Level
  <2> QED
    BY <1>5, <1>6
<1>8. g = [s \in SUBSET S |-> Unfolded(f, g, s)]
  BY <1>7
<1> QED
  BY <1>8

LEMMA SumsUnfold ==
    ASSUME NEW S, IsFiniteSet(S), NEW f \in [S -> Int], NEW s \in SUBSET S
    PROVE  Sums(f, S)[s] = Unfolded(f, Sums(f, S), s)
<1>1. Sums(f, S) = [r \in SUBSET S |-> Unfolded(f, Sums(f, S), r)]
  BY SolutionExists DEF Sums
<1> DEFINE g == Sums(f, S)
<1>2. g = [r \in SUBSET S |-> Unfolded(f, g, r)]
  BY <1>1
<1> HIDE DEF g
<1>3. g[s] = Unfolded(f, g, s)
  BY <1>2
<1> QED
  BY <1>3 DEF g

\* The sum over a nonempty set, and over the empty set.
LEMMA SumsStep ==
    ASSUME NEW S, IsFiniteSet(S), NEW f \in [S -> Int], NEW s \in SUBSET S
    PROVE  /\ s = {} => Sums(f, S)[s] = 0
           /\ s # {} => Sums(f, S)[s] = f[Pick(s)] + Sums(f, S)[s \ {Pick(s)}]
BY SumsUnfold DEF Unfolded

\* A property of sums that holds of {}, and of s if it does of s without an element,
\* holds of every subset: B is the set of the subsets that do not have it.
LEMMA NoneBad ==
    ASSUME NEW S, IsFiniteSet(S), NEW B \in SUBSET SUBSET S,
           {} \notin B,
           \A s \in SUBSET S : s # {} /\ s \ {Pick(s)} \notin B => s \notin B
    PROVE  B = {}
<1> SUFFICES ASSUME B # {} PROVE FALSE
  OBVIOUS
<1>1. PICK s \in B : \A r \in B : r \subseteq s => r = s
  BY MinimalSubset
<1>2. s \in SUBSET S /\ s # {}
  OBVIOUS
<1>3. s \ {Pick(s)} # s /\ s \ {Pick(s)} \subseteq s
  BY <1>2, PickFacts
<1>4. s \ {Pick(s)} \notin B
  BY <1>1, <1>3
<1> QED
  BY <1>2, <1>4

LEMMA SumsType ==
    ASSUME NEW S, IsFiniteSet(S), NEW f \in [S -> Int], NEW t \in SUBSET S
    PROVE  Sums(f, S)[t] \in Int
<1> DEFINE B == {s \in SUBSET S : Sums(f, S)[s] \notin Int}
<1>1. {} \notin B
  <2>1. Sums(f, S)[{}] = 0
    BY SumsStep
  <2> QED
    BY <2>1
<1>2. ASSUME NEW s \in SUBSET S, s # {}, s \ {Pick(s)} \notin B PROVE s \notin B
  <2>1. s \ {Pick(s)} \in SUBSET S /\ f[Pick(s)] \in Int
    BY <1>2, PickFacts
  <2>2. Sums(f, S)[s \ {Pick(s)}] \in Int
    BY <1>2, <2>1
  <2> QED
    BY <1>2, <2>1, <2>2, SumsStep
<1>3. B \in SUBSET SUBSET S
  OBVIOUS
<1> HIDE DEF B
<1>4. B = {}
  BY <1>1, <1>2, <1>3, NoneBad
<1> QED
  BY <1>4 DEF B

\* One value changes, and every sum over a set with its element changes as much.
LEMMA SumsChange ==
    ASSUME NEW S, IsFiniteSet(S), NEW f \in [S -> Int], NEW h \in [S -> Int],
           NEW e \in S, \A x \in S : x # e => h[x] = f[x], NEW t \in SUBSET S
    PROVE  Sums(h, S)[t] = Sums(f, S)[t] + (IF e \in t THEN h[e] - f[e] ELSE 0)
<1> DEFINE Change(s) == IF e \in s THEN h[e] - f[e] ELSE 0
           B == {s \in SUBSET S : Sums(h, S)[s] # Sums(f, S)[s] + Change(s)}
<1>1. {} \notin B
  <2>1. Sums(f, S)[{}] = 0 /\ Sums(h, S)[{}] = 0
    BY SumsStep
  <2> QED
    BY <2>1
<1>2. ASSUME NEW s \in SUBSET S, s # {}, s \ {Pick(s)} \notin B PROVE s \notin B
  <2> DEFINE r == s \ {Pick(s)}
  <2>1. Pick(s) \in s /\ Pick(s) \in S /\ r \in SUBSET S
    BY <1>2, PickFacts
  <2>2. Sums(h, S)[r] = Sums(f, S)[r] + Change(r)
    BY <1>2, <2>1
  <2>3. /\ Sums(h, S)[s] = h[Pick(s)] + Sums(h, S)[r]
        /\ Sums(f, S)[s] = f[Pick(s)] + Sums(f, S)[r]
    BY <1>2, SumsStep
  <2>4. Sums(h, S)[r] \in Int /\ Sums(f, S)[r] \in Int
    BY <2>1, SumsType
  <2>5. CASE Pick(s) = e
    <3>1. Change(r) = 0 /\ Change(s) = h[Pick(s)] - f[Pick(s)]
      BY <2>1, <2>5
    <3>2. h[Pick(s)] \in Int /\ f[Pick(s)] \in Int
      BY <2>1
    <3> HIDE DEF r, Change
    <3> QED
      BY <2>2, <2>3, <2>4, <3>1, <3>2
  <2>6. CASE Pick(s) # e
    <3>1. Change(r) = Change(s) /\ h[Pick(s)] = f[Pick(s)]
      BY <2>1, <2>6
    <3>2. f[Pick(s)] \in Int /\ Change(s) \in Int
      BY <2>1
    <3> HIDE DEF r, Change
    <3> QED
      BY <2>2, <2>3, <2>4, <3>1, <3>2
  <2> QED
    BY <2>5, <2>6
<1>3. B \in SUBSET SUBSET S
  OBVIOUS
<1> HIDE DEF B
<1>4. B = {}
  BY <1>1, <1>2, <1>3, NoneBad
<1> QED
  BY <1>4 DEF B

LEMMA SumsZero ==
    ASSUME NEW S, IsFiniteSet(S), NEW f \in [S -> Int], \A x \in S : f[x] = 0,
           NEW t \in SUBSET S
    PROVE  Sums(f, S)[t] = 0
<1> DEFINE B == {s \in SUBSET S : Sums(f, S)[s] # 0}
<1>1. {} \notin B
  <2>1. Sums(f, S)[{}] = 0
    BY SumsStep
  <2> QED
    BY <2>1
<1>2. ASSUME NEW s \in SUBSET S, s # {}, s \ {Pick(s)} \notin B PROVE s \notin B
  <2>1. s \ {Pick(s)} \in SUBSET S /\ f[Pick(s)] = 0
    BY <1>2, PickFacts
  <2>2. Sums(f, S)[s \ {Pick(s)}] = 0
    BY <1>2, <2>1
  <2> QED
    BY <1>2, <2>1, <2>2, SumsStep
<1>3. B \in SUBSET SUBSET S
  OBVIOUS
<1> HIDE DEF B
<1>4. B = {}
  BY <1>1, <1>2, <1>3, NoneBad
<1> QED
  BY <1>4 DEF B

\* Any element may be taken out first, not only the one the recursion picks.
LEMMA SumsRemove ==
    ASSUME NEW S, IsFiniteSet(S), NEW f \in [S -> Int], NEW t \in SUBSET S, NEW x \in t
    PROVE  Sums(f, S)[t] = f[x] + Sums(f, S)[t \ {x}]
<1> DEFINE Good(s) == \A e \in s : Sums(f, S)[s] = f[e] + Sums(f, S)[s \ {e}]
           B == {s \in SUBSET S : ~Good(s)}
<1>1. B = {}
  <2> SUFFICES ASSUME B # {} PROVE FALSE
    OBVIOUS
  <2>1. B \in SUBSET SUBSET S
    OBVIOUS
  <2>2. PICK s \in B : \A r \in B : r \subseteq s => r = s
    <3> HIDE DEF B
    <3> QED
      BY <2>1, MinimalSubset
  <2>3. s \in SUBSET S /\ ~Good(s)
    OBVIOUS
  <2>4. ASSUME NEW r \in SUBSET S, r \subseteq s, r # s PROVE Good(r)
    <3>1. r \notin B
      BY <2>2, <2>4
    <3> HIDE DEF Good
    <3> QED
      BY <3>1
  <2>5. PICK e \in s : Sums(f, S)[s] # f[e] + Sums(f, S)[s \ {e}]
    BY <2>3
  <2> DEFINE p == Pick(s)
             both == s \ {p, e}
  <2>6. p \in s /\ Sums(f, S)[s] = f[p] + Sums(f, S)[s \ {p}]
    <3>1. s \in SUBSET S /\ s # {}
      BY <2>3, <2>5
    <3> HIDE DEF B, Good
    <3>2. Pick(s) \in s
      BY <3>1, PickFacts
    <3>3. Sums(f, S)[s] = f[Pick(s)] + Sums(f, S)[s \ {Pick(s)}]
      BY <3>1, SumsStep
    <3> QED
      BY <3>2, <3>3
  <2>7. p # e
    BY <2>5, <2>6
  <2>8. Good(s \ {p}) /\ Good(s \ {e})
    BY <2>3, <2>4, <2>5, <2>6
  <2>9. /\ e \in s \ {p} /\ p \in s \ {e} /\ both \in SUBSET S
        /\ (s \ {p}) \ {e} = both /\ (s \ {e}) \ {p} = both
    BY <2>3, <2>5, <2>6, <2>7
  <2>10. /\ Sums(f, S)[s \ {p}] = f[e] + Sums(f, S)[both]
         /\ Sums(f, S)[s \ {e}] = f[p] + Sums(f, S)[both]
    <3> HIDE DEF p, both
    <3> QED
      BY <2>8, <2>9
  <2>11. f[e] \in Int /\ f[p] \in Int /\ Sums(f, S)[both] \in Int
    BY <2>3, <2>5, <2>6, <2>9, SumsType
  <2> HIDE DEF p, both, Good, B
  <2> QED
    BY <2>5, <2>6, <2>10, <2>11
<1>2. Good(t)
  <2>1. t \notin B /\ t \in SUBSET S
    BY <1>1
  <2> HIDE DEF Good
  <2> QED
    BY <2>1
<1> QED
  BY <1>2

\* A sum depends on the values over its set only.
LEMMA SumsAgree ==
    ASSUME NEW T, IsFiniteSet(T), NEW S \in SUBSET T,
           NEW f \in [S -> Int], NEW h \in [T -> Int], \A x \in S : h[x] = f[x],
           NEW t \in SUBSET S
    PROVE  Sums(h, T)[t] = Sums(f, S)[t]
<1> DEFINE B == {s \in SUBSET S : Sums(h, T)[s] # Sums(f, S)[s]}
<1>1. IsFiniteSet(S) /\ \A s \in SUBSET S : s \in SUBSET T
  BY FS_Subset
<1>2. {} \notin B
  <2>1. Sums(f, S)[{}] = 0 /\ Sums(h, T)[{}] = 0
    BY <1>1, SumsStep
  <2> QED
    BY <2>1
<1>3. ASSUME NEW s \in SUBSET S, s # {}, s \ {Pick(s)} \notin B PROVE s \notin B
  <2>1. Pick(s) \in S /\ s \ {Pick(s)} \in SUBSET S
    BY <1>3, PickFacts
  <2>2. Sums(h, T)[s \ {Pick(s)}] = Sums(f, S)[s \ {Pick(s)}]
    BY <1>3, <2>1
  <2>3. /\ Sums(h, T)[s] = h[Pick(s)] + Sums(h, T)[s \ {Pick(s)}]
        /\ Sums(f, S)[s] = f[Pick(s)] + Sums(f, S)[s \ {Pick(s)}]
    BY <1>1, <1>3, SumsStep
  <2>4. h[Pick(s)] = f[Pick(s)]
    BY <2>1
  <2> QED
    BY <2>2, <2>3, <2>4
<1>4. B \in SUBSET SUBSET S
  OBVIOUS
<1> HIDE DEF B
<1>5. B = {}
  BY <1>1, <1>2, <1>3, <1>4, NoneBad
<1> QED
  BY <1>5 DEF B

-----------------------------------------------------------------------------
\* What the proofs about components use: one value changes; all values are 0;
\* the set gains an element.
SumOf(f, S) == MapThenSumSet(LAMBDA x : f[x], S)

LEMMA SumChanged ==
    ASSUME NEW S, IsFiniteSet(S), NEW f \in [S -> Int], NEW h \in [S -> Int],
           NEW e \in S, \A x \in S : x # e => h[x] = f[x]
    PROVE  SumOf(h, S) = SumOf(f, S) + h[e] - f[e]
<1>1. Sums(h, S)[S] = Sums(f, S)[S] + (h[e] - f[e])
  BY SumsChange
<1>2. Sums(f, S)[S] \in Int /\ h[e] \in Int /\ f[e] \in Int
  BY SumsType
<1>3. SumOf(h, S) = Sums(h, S)[S] /\ SumOf(f, S) = Sums(f, S)[S]
  BY SumIsMapThenSum DEF SumOf
<1> QED
  BY <1>1, <1>2, <1>3

LEMMA SumOfZeros ==
    ASSUME NEW S, IsFiniteSet(S), NEW f \in [S -> Int], \A x \in S : f[x] = 0
    PROVE  SumOf(f, S) = 0
<1>1. SumOf(f, S) = Sums(f, S)[S]
  BY SumIsMapThenSum DEF SumOf
<1> QED
  BY <1>1, SumsZero

LEMMA SumIsInt ==
    ASSUME NEW S, IsFiniteSet(S), NEW f \in [S -> Int]
    PROVE  SumOf(f, S) \in Int
<1>1. SumOf(f, S) = Sums(f, S)[S]
  BY SumIsMapThenSum DEF SumOf
<1> QED
  BY <1>1, SumsType

LEMMA SumExtended ==
    ASSUME NEW S, IsFiniteSet(S), NEW e, e \notin S,
           NEW f \in [S -> Int], NEW h \in [S \cup {e} -> Int], \A x \in S : h[x] = f[x]
    PROVE  SumOf(h, S \cup {e}) = SumOf(f, S) + h[e]
<1> DEFINE T == S \cup {e}
<1>1. IsFiniteSet(T) /\ S \in SUBSET T /\ T \ {e} = S /\ e \in T /\ T \in SUBSET T
  BY FS_AddElement
<1>2. h \in [T -> Int] /\ SumOf(h, S \cup {e}) = SumOf(h, T)
  OBVIOUS
<1> HIDE DEF T
<1>3. Sums(h, T)[T] = h[e] + Sums(h, T)[S]
  <2>1. Sums(h, T)[T] = h[e] + Sums(h, T)[T \ {e}]
    BY <1>1, <1>2, SumsRemove
  <2> QED
    BY <1>1, <2>1
<1>4. Sums(h, T)[S] = Sums(f, S)[S]
  BY <1>1, <1>2, SumsAgree
<1>5. SumOf(h, T) = Sums(h, T)[T] /\ SumOf(f, S) = Sums(f, S)[S]
  BY SumIsMapThenSum DEF SumOf
<1>6. h[e] \in Int /\ Sums(f, S)[S] \in Int
  BY <1>1, <1>2, SumsType
<1> QED
  BY <1>2, <1>3, <1>4, <1>5, <1>6
=============================================================================
