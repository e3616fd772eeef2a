----------------------------- MODULE SumsProofs -----------------------------
(***************************************************************************)
(* Laws of Sum, for every finite set.  MapThenSumSet is defined by a       *)
(* recursive function that takes some member out of the set at each step;  *)
(* the proofs show that such a function exists, that it does not matter    *)
(* which member is taken out, and what follows from this.                  *)
(***************************************************************************)
EXTENDS Sums, FiniteSetTheorems, WellFoundedInduction, TLAPS

\* What holds of a finite set whenever it holds of its proper subsets holds of all its subsets.
LEMMA SubsetInduction ==
    ASSUME NEW S, IsFiniteSet(S), NEW Good,
           \A T \in SUBSET S : (\A U \in SUBSET T : U # T => U \in Good) => T \in Good
    PROVE  \A T \in SUBSET S : T \in Good
<1> DEFINE Bad == {T \in SUBSET S : T \notin Good}
<1>1. SUFFICES ASSUME Bad # {} PROVE FALSE
  OBVIOUS
<1>2. IsWellFoundedOn(StrictSubsetOrdering(S), SUBSET S)
  BY FS_StrictSubsetOrderingWellFounded, FS_FiniteSubsetsOfFinite
<1>3. Bad \subseteq SUBSET S
  OBVIOUS
<1> HIDE DEF Bad
<1>4. PICK T \in Bad : \A U \in Bad : <<U, T>> \notin StrictSubsetOrdering(S)
  BY <1>1, <1>2, <1>3, WFMin
<1>5. \A U \in SUBSET T : U # T => U \in Good
  BY <1>3, <1>4 DEF StrictSubsetOrdering, Bad
<1> QED
  BY <1>3, <1>4, <1>5 DEF Bad

\* A finite set of integers has a least member.
LEMMA MinOfFinite ==
    ASSUME NEW S \in SUBSET Int, IsFiniteSet(S), S # {}
    PROVE  Min(S) \in S /\ \A x \in S : Min(S) <= x
<1> DEFINE Good == {T \in SUBSET S : T # {} => \E x \in T : \A y \in T : x <= y}
<1>1. ASSUME NEW T \in SUBSET S, \A U \in SUBSET T : U # T => U \in Good
      PROVE  T \in Good
  <2> SUFFICES ASSUME T # {} PROVE \E x \in T : \A y \in T : x <= y
    OBVIOUS
  <2>1. PICK x \in T : TRUE
    OBVIOUS
  <2>2. T \ {x} \in Good
    BY <1>1
  <2>3. CASE T \ {x} = {}
    BY <2>3
  <2>4. CASE T \ {x} # {}
    <3>1. PICK m \in T \ {x} : \A y \in T \ {x} : m <= y
      BY <2>2, <2>4
    <3>2. m \in Int /\ x \in Int /\ \A y \in T : y \in Int
      OBVIOUS
    <3> QED
      BY <3>1, <3>2
  <2> QED
    BY <2>3, <2>4
<1> HIDE DEF Good
<1>2. S \in Good
  BY <1>1, SubsetInduction
<1> QED
  BY <1>2 DEF Good, Min

-----------------------------------------------------------------------------
(***************************************************************************)
(* The recursion behind Sum.                                               *)
(***************************************************************************)
\* The member that is taken out, and the function that adds up what f gives to subsets of S.
Pick(s) == CHOOSE x \in s : TRUE
Iterates(g, f, S) ==
    g = [s \in SUBSET S |-> IF s = {} THEN 0 ELSE f[Pick(s)] + g[s \ {Pick(s)}]]

\* Sum is such a function's value.
LEMMA SumIterates ==
    ASSUME NEW f, NEW S
    PROVE  Sum(f, S) = (CHOOSE g : Iterates(g, f, S))[S]
BY DEF Sum, MapThenSumSet, MapThenFoldSet, Iterates, Pick

\* Such functions agree where both are defined.
LEMMA IteratesAgree ==
    ASSUME NEW f, NEW S, IsFiniteSet(S), NEW T \in SUBSET S,
           NEW g, Iterates(g, f, S), NEW h, Iterates(h, f, T)
    PROVE  \A U \in SUBSET T : g[U] = h[U]
<1> DEFINE Good == {U \in SUBSET T : g[U] = h[U]}
<1>1. ASSUME NEW U \in SUBSET T, \A V \in SUBSET U : V # U => V \in Good
      PROVE  U \in Good
  <2>1. /\ g[U] = IF U = {} THEN 0 ELSE f[Pick(U)] + g[U \ {Pick(U)}]
        /\ h[U] = IF U = {} THEN 0 ELSE f[Pick(U)] + h[U \ {Pick(U)}]
    BY DEF Iterates
  <2>2. U # {} => Pick(U) \in U
    BY DEF Pick
  <2>3. U # {} => U \ {Pick(U)} \in Good
    BY <1>1, <2>2
  <2> QED
    BY <2>1, <2>3
<1>2. IsFiniteSet(T)
  BY FS_Subset
<1> HIDE DEF Good
<1>3. \A U \in SUBSET T : U \in Good
  BY <1>1, <1>2, SubsetInduction
<1> QED
  BY <1>3 DEF Good

\* There is one for every finite set.
LEMMA IteratesExists ==
    ASSUME NEW f, NEW S, IsFiniteSet(S)
    PROVE  \E g : Iterates(g, f, S)
<1> DEFINE Good == {T \in SUBSET S : \E g : Iterates(g, f, T)}
           of(T) == CHOOSE g : Iterates(g, f, T)
<1>1. ASSUME NEW T \in SUBSET S, \A U \in SUBSET T : U # T => U \in Good
      PROVE  T \in Good
  <2> DEFINE g == [s \in SUBSET T |-> IF s = T /\ T # {} THEN f[Pick(T)] + of(T \ {Pick(T)})[T \ {Pick(T)}]
                                      ELSE IF s = {} THEN 0 ELSE of(s)[s]]
  <2>1. ASSUME NEW U \in SUBSET T, U # T
        PROVE  Iterates(of(U), f, U)
    BY <1>1, <2>1
  <2>2. \A U : U # {} => Pick(U) \in U
    BY DEF Pick
  <2> HIDE DEF of
  <2>3. ASSUME NEW s \in SUBSET T
        PROVE  g[s] = IF s = {} THEN 0 ELSE f[Pick(s)] + g[s \ {Pick(s)}]
    <3> DEFINE rest == s \ {Pick(s)}
    <3>1. CASE s = {}
      BY <3>1
    <3>2. CASE s # {}
      <4>1. rest \in SUBSET T /\ rest # T /\ rest \in SUBSET s /\ IsFiniteSet(s)
        BY <3>2, <2>2, FS_Subset
      <4>2. g[rest] = of(rest)[rest]
        <5>1. CASE rest = {}
          <6>1. of({})[{}] = 0
            BY <5>1, <4>1, <2>1 DEF Iterates
          <6> QED
            BY <5>1, <6>1, <4>1
        <5>2. CASE rest # {}
          BY <5>2, <4>1
        <5> QED
          BY <5>1, <5>2
      <4>3. CASE s = T
        BY <3>2, <4>2, <4>3
      <4>4. CASE s # T
        <5>1. Iterates(of(s), f, s) /\ Iterates(of(rest), f, rest)
          BY <2>1, <4>1, <4>4
        <5>2. of(s)[rest] = of(rest)[rest]
          BY <5>1, <4>1, IteratesAgree
        <5>3. of(s)[s] = f[Pick(s)] + of(s)[rest]
          BY <5>1, <3>2 DEF Iterates
        <5> QED
          BY <3>2, <4>2, <4>4, <5>2, <5>3
      <4> QED
        BY <4>3, <4>4
    <3> QED
      BY <3>1, <3>2
  <2> HIDE DEF g
  <2>4. DOMAIN g = SUBSET T /\ g = [s \in SUBSET T |-> g[s]]
    BY DEF g
  <2>5. Iterates(g, f, T)
    BY <2>3, <2>4 DEF Iterates
  <2> QED
    BY <2>5
<1> HIDE DEF Good
<1>2. S \in Good
  BY <1>1, SubsetInduction
<1> QED
  BY <1>2 DEF Good

\* Sum conforms to the recursion.
LEMMA SumPick ==
    ASSUME NEW f, NEW S, IsFiniteSet(S)
    PROVE  Sum(f, S) = IF S = {} THEN 0 ELSE f[Pick(S)] + Sum(f, S \ {Pick(S)})
<1> DEFINE of(T) == CHOOSE g : Iterates(g, f, T)
           rest == S \ {Pick(S)}
<1>1. Iterates(of(S), f, S)
  BY IteratesExists
<1>2. Sum(f, S) = of(S)[S] /\ Sum(f, rest) = of(rest)[rest]
  BY SumIterates
<1>3. CASE S = {}
  BY <1>1, <1>2, <1>3 DEF Iterates
<1>4. CASE S # {}
  <2>1. rest \in SUBSET S /\ IsFiniteSet(rest)
    BY FS_Subset
  <2>2. Iterates(of(rest), f, rest)
    BY <2>1, IteratesExists
  <2> HIDE DEF of
  <2>3. of(S)[rest] = of(rest)[rest]
    BY <1>1, <2>1, <2>2, IteratesAgree
  <2>4. of(S)[S] = f[Pick(S)] + of(S)[rest]
    BY <1>1, <1>4 DEF Iterates
  <2> QED
    BY <1>2, <1>4, <2>3, <2>4
<1> QED
  BY <1>3, <1>4

-----------------------------------------------------------------------------
(***************************************************************************)
(* Laws.                                                                   *)
(***************************************************************************)
LEMMA SumEmpty == \A f : Sum(f, {}) = 0
BY SumPick, FS_EmptySet

LEMMA SumInt ==
    ASSUME NEW S, IsFiniteSet(S), NEW f, \A x \in S : f[x] \in Int
    PROVE  Sum(f, S) \in Int
<1> DEFINE Good == {T \in SUBSET S : Sum(f, T) \in Int}
<1>1. ASSUME NEW T \in SUBSET S, \A U \in SUBSET T : U # T => U \in Good
      PROVE  T \in Good
  <2>1. IsFiniteSet(T)
    BY FS_Subset
  <2>2. T # {} => Pick(T) \in T
    BY DEF Pick
  <2>3. T # {} => T \ {Pick(T)} \in Good
    BY <1>1, <2>2
  <2> QED
    <3>1. CASE T = {}
      BY <3>1, SumEmpty
    <3>2. CASE T # {}
      <4>1. Sum(f, T) = f[Pick(T)] + Sum(f, T \ {Pick(T)})
        BY <2>1, <3>2, SumPick
      <4>2. f[Pick(T)] \in Int /\ Sum(f, T \ {Pick(T)}) \in Int
        BY <2>2, <2>3, <3>2
      <4> QED
        BY <4>1, <4>2
    <3> QED
      BY <3>1, <3>2
<1> HIDE DEF Good
<1>2. S \in Good
  BY <1>1, SubsetInduction
<1> QED
  BY <1>2 DEF Good

LEMMA SumNat ==
    ASSUME NEW S, IsFiniteSet(S), NEW f, \A x \in S : f[x] \in Nat
    PROVE  Sum(f, S) \in Nat
<1> DEFINE Good == {T \in SUBSET S : Sum(f, T) \in Nat}
<1>1. ASSUME NEW T \in SUBSET S, \A U \in SUBSET T : U # T => U \in Good
      PROVE  T \in Good
  <2>1. IsFiniteSet(T)
    BY FS_Subset
  <2>2. T # {} => Pick(T) \in T
    BY DEF Pick
  <2>3. T # {} => T \ {Pick(T)} \in Good
    BY <1>1, <2>2
  <2> QED
    <3>1. CASE T = {}
      BY <3>1, SumEmpty
    <3>2. CASE T # {}
      <4>1. Sum(f, T) = f[Pick(T)] + Sum(f, T \ {Pick(T)})
        BY <2>1, <3>2, SumPick
      <4>2. f[Pick(T)] \in Nat /\ Sum(f, T \ {Pick(T)}) \in Nat
        BY <2>2, <2>3, <3>2
      <4> QED
        BY <4>1, <4>2
    <3> QED
      BY <3>1, <3>2
<1> HIDE DEF Good
<1>2. S \in Good
  BY <1>1, SubsetInduction
<1> QED
  BY <1>2 DEF Good

\* Whichever member is taken out, the rest adds up to what is missing.
LEMMA SumRemove ==
    ASSUME NEW S, IsFiniteSet(S), NEW f, \A x \in S : f[x] \in Int, NEW a \in S
    PROVE  Sum(f, S) = f[a] + Sum(f, S \ {a})
<1> DEFINE Good == {T \in SUBSET S : \A x \in T : Sum(f, T) = f[x] + Sum(f, T \ {x})}
<1>1. ASSUME NEW T \in SUBSET S, \A U \in SUBSET T : U # T => U \in Good
      PROVE  T \in Good
  <2> SUFFICES ASSUME NEW x \in T PROVE Sum(f, T) = f[x] + Sum(f, T \ {x})
    OBVIOUS
  <2> DEFINE y == Pick(T)
  <2>1. IsFiniteSet(T) /\ y \in T
    BY FS_Subset DEF Pick
  <2>2. Sum(f, T) = f[y] + Sum(f, T \ {y})
    BY <2>1, SumPick
  <2> HIDE DEF y
  <2>3. CASE x = y
    BY <2>2, <2>3
  <2>4. CASE x # y
    <3>1. T \ {y} \in Good /\ T \ {x} \in Good
      BY <1>1, <2>1
    <3>2. x \in T \ {y} /\ y \in T \ {x}
      BY <2>1, <2>4
    <3>3. Sum(f, T \ {y}) = f[x] + Sum(f, (T \ {y}) \ {x})
      BY <3>1, <3>2
    <3>4. Sum(f, T \ {x}) = f[y] + Sum(f, (T \ {x}) \ {y})
      BY <3>1, <3>2
    <3>5. (T \ {y}) \ {x} = (T \ {x}) \ {y}
      OBVIOUS
    <3>6. IsFiniteSet((T \ {x}) \ {y}) /\ \A z \in (T \ {x}) \ {y} : f[z] \in Int
      BY <2>1, FS_Subset
    <3>7. Sum(f, (T \ {x}) \ {y}) \in Int
      BY <3>6, SumInt
    <3>8. f[x] \in Int /\ f[y] \in Int
      BY <2>1
    <3>9. \A p, q, r \in Int : p + (q + r) = q + (p + r)
      OBVIOUS
    <3>10. Sum(f, T) = f[y] + (f[x] + Sum(f, (T \ {x}) \ {y}))
      BY <2>2, <3>3, <3>5
    <3>11. Sum(f, T) = f[x] + (f[y] + Sum(f, (T \ {x}) \ {y}))
      BY <3>7, <3>8, <3>9, <3>10
    <3> QED
      BY <3>4, <3>11
  <2> QED
    BY <2>3, <2>4
<1> HIDE DEF Good
<1>2. S \in Good
  BY <1>1, SubsetInduction
<1> QED
  BY <1>2 DEF Good

\* Only what the members get matters.
LEMMA SumEqual ==
    ASSUME NEW S, IsFiniteSet(S), NEW f, NEW g, \A x \in S : f[x] = g[x]
    PROVE  Sum(f, S) = Sum(g, S)
<1> DEFINE Good == {T \in SUBSET S : Sum(f, T) = Sum(g, T)}
<1>1. ASSUME NEW T \in SUBSET S, \A U \in SUBSET T : U # T => U \in Good
      PROVE  T \in Good
  <2>1. IsFiniteSet(T)
    BY FS_Subset
  <2>2. T # {} => Pick(T) \in T
    BY DEF Pick
  <2>3. T # {} => T \ {Pick(T)} \in Good
    BY <1>1, <2>2
  <2> QED
    BY <2>1, <2>2, <2>3, SumPick
<1> HIDE DEF Good
<1>2. S \in Good
  BY <1>1, SubsetInduction
<1> QED
  BY <1>2 DEF Good

\* When one member gets something else, that is the difference.
LEMMA SumChange ==
    ASSUME NEW S, IsFiniteSet(S), NEW a \in S,
           NEW f, \A x \in S : f[x] \in Int, NEW g, \A x \in S : g[x] \in Int,
           \A x \in S \ {a} : g[x] = f[x]
    PROVE  Sum(g, S) = Sum(f, S) - f[a] + g[a]
<1>1. IsFiniteSet(S \ {a})
  BY FS_Subset
<1>2. Sum(g, S \ {a}) = Sum(f, S \ {a}) /\ Sum(f, S \ {a}) \in Int
  BY <1>1, SumEqual, SumInt
<1>3. Sum(f, S) = f[a] + Sum(f, S \ {a}) /\ Sum(g, S) = g[a] + Sum(g, S \ {a})
  BY SumRemove
<1> QED
  BY <1>2, <1>3

\* Sums of two functions add up to the sum of what they give together.
LEMMA SumPlus ==
    ASSUME NEW S, IsFiniteSet(S), NEW f, \A x \in S : f[x] \in Int, NEW g, \A x \in S : g[x] \in Int,
           NEW h, \A x \in S : h[x] = f[x] + g[x]
    PROVE  Sum(h, S) = Sum(f, S) + Sum(g, S)
<1> DEFINE Good == {T \in SUBSET S : Sum(h, T) = Sum(f, T) + Sum(g, T)}
<1>1. ASSUME NEW T \in SUBSET S, \A U \in SUBSET T : U # T => U \in Good
      PROVE  T \in Good
  <2>1. IsFiniteSet(T)
    BY FS_Subset
  <2>2. CASE T = {}
    BY <2>2, SumEmpty
  <2>3. CASE T # {}
    <3> DEFINE y == Pick(T)
               rest == T \ {y}
    <3>1. y \in T
      BY <2>3 DEF Pick
    <3>2. rest \in Good /\ IsFiniteSet(rest) /\ rest \in SUBSET S
      BY <1>1, <2>1, <3>1, FS_Subset
    <3>3. Sum(f, rest) \in Int /\ Sum(g, rest) \in Int
      BY <3>2, SumInt
    <3>4. /\ Sum(f, T) = f[y] + Sum(f, rest) /\ Sum(g, T) = g[y] + Sum(g, rest)
          /\ Sum(h, T) = h[y] + Sum(h, rest)
      BY <2>1, <2>3, SumPick
    <3>5. f[y] \in Int /\ g[y] \in Int /\ h[y] = f[y] + g[y]
      BY <3>1
    <3> QED
      BY <3>2, <3>3, <3>4, <3>5
  <2> QED
    BY <2>2, <2>3
<1> HIDE DEF Good
<1>2. S \in Good
  BY <1>1, SubsetInduction
<1> QED
  BY <1>2 DEF Good

\* The same amount to each of n members is n times the amount.
LEMMA SumConstant ==
    ASSUME NEW S, IsFiniteSet(S), NEW c \in Int, NEW f, \A x \in S : f[x] = c
    PROVE  Sum(f, S) = c * Cardinality(S)
<1> DEFINE Good == {T \in SUBSET S : Sum(f, T) = c * Cardinality(T)}
<1>1. ASSUME NEW T \in SUBSET S, \A U \in SUBSET T : U # T => U \in Good
      PROVE  T \in Good
  <2>1. IsFiniteSet(T)
    BY FS_Subset
  <2>2. CASE T = {}
    BY <2>2, SumEmpty, FS_EmptySet
  <2>3. CASE T # {}
    <3>1. Pick(T) \in T
      BY <2>3 DEF Pick
    <3>2. T \ {Pick(T)} \in Good
      BY <1>1, <3>1
    <3>3. Cardinality(T) = Cardinality(T \ {Pick(T)}) + 1 /\ Cardinality(T \ {Pick(T)}) \in Nat
      BY <2>1, <3>1, FS_RemoveElement, FS_CardinalityType, FS_Subset
    <3>4. Sum(f, T) = c + c * Cardinality(T \ {Pick(T)})
      BY <2>1, <2>3, <3>1, <3>2, SumPick
    <3>5. \A n \in Nat : c + c * n = c * (n + 1)
      OBVIOUS
    <3> QED
      BY <3>3, <3>4, <3>5
  <2> QED
    BY <2>2, <2>3
<1> HIDE DEF Good
<1>2. S \in Good
  BY <1>1, SubsetInduction
<1> QED
  BY <1>2 DEF Good

\* Members that get nothing can be left out.
LEMMA SumSupport ==
    ASSUME NEW S, IsFiniteSet(S), NEW T \in SUBSET S, NEW f, \A x \in S : f[x] \in Int,
           \A x \in S \ T : f[x] = 0
    PROVE  Sum(f, S) = Sum(f, T)
<1> DEFINE Good == {U \in SUBSET S : Sum(f, U) = Sum(f, U \cap T)}
<1>1. ASSUME NEW U \in SUBSET S, \A V \in SUBSET U : V # U => V \in Good
      PROVE  U \in Good
  <2>1. IsFiniteSet(U) /\ IsFiniteSet(U \cap T)
    BY FS_Subset
  <2>2. CASE U \subseteq T
    <3>1. U \cap T = U
      BY <2>2
    <3> QED
      BY <3>1
  <2>3. CASE ~(U \subseteq T)
    <3>1. PICK x \in U : x \notin T
      BY <2>3
    <3>2. U \ {x} \in Good
      BY <1>1
    <3>3. (U \ {x}) \cap T = U \cap T
      BY <3>1
    <3>4. Sum(f, U) = f[x] + Sum(f, U \ {x})
      BY <2>1, SumRemove
    <3>5. Sum(f, U \ {x}) = Sum(f, U \cap T) /\ Sum(f, U \cap T) \in Int
      BY <2>1, <3>2, <3>3, SumInt
    <3> QED
      BY <3>1, <3>4, <3>5
  <2> QED
    BY <2>2, <2>3
<1> HIDE DEF Good
<1>2. S \in Good
  BY <1>1, SubsetInduction
<1>3. S \cap T = T
  OBVIOUS
<1> QED
  BY <1>2, <1>3 DEF Good

\* One member alone.
LEMMA SumSingle ==
    ASSUME NEW S, IsFiniteSet(S), NEW a, NEW c \in Int,
           NEW f, \A x \in S : f[x] = IF x = a THEN c ELSE 0
    PROVE  Sum(f, S) = IF a \in S THEN c ELSE 0
<1>1. \A x \in S : f[x] \in Int
  OBVIOUS
<1>2. CASE a \in S
  <2>1. Sum(f, S) = Sum(f, {a})
    BY <1>1, <1>2, SumSupport
  <2>2. Sum(f, {a}) = c * Cardinality({a})
    BY <1>2, FS_Singleton, SumConstant
  <2>3. Cardinality({a}) = 1 /\ c * 1 = c
    BY FS_Singleton
  <2> QED
    BY <1>2, <2>1, <2>2, <2>3
<1>3. CASE a \notin S
  <2>1. Sum(f, S) = Sum(f, {})
    BY <1>1, <1>3, SumSupport
  <2> QED
    BY <1>3, <2>1, SumEmpty
<1> QED
  BY <1>2, <1>3

\* The same amount is taken from some of the members.
Charged(f, S, T, c) == [x \in S |-> IF x \in T THEN f[x] - c ELSE f[x]]

LEMMA SumCharged ==
    ASSUME NEW S, IsFiniteSet(S), NEW T \in SUBSET S, NEW c \in Int,
           NEW f, \A x \in S : f[x] \in Int
    PROVE  Sum(Charged(f, S, T, c), S) = Sum(f, S) - c * Cardinality(T)
<1> DEFINE d == [x \in S |-> IF x \in T THEN -c ELSE 0]
           g == Charged(f, S, T, c)
<1>1. \A x \in S : d[x] \in Int /\ g[x] = f[x] + d[x]
  BY DEF Charged
<1>2. IsFiniteSet(T) /\ Cardinality(T) \in Nat
  BY FS_Subset, FS_CardinalityType
<1>3. (\A x \in T : d[x] = -c) /\ \A x \in S \ T : d[x] = 0
  OBVIOUS
<1> HIDE DEF d, g
<1>4. Sum(g, S) = Sum(f, S) + Sum(d, S)
  BY <1>1, SumPlus
<1>5. Sum(d, S) = Sum(d, T)
  BY <1>1, <1>3, SumSupport
<1>6. Sum(d, T) = (-c) * Cardinality(T)
  BY <1>2, <1>3, SumConstant
<1>7. (-c) * Cardinality(T) = -(c * Cardinality(T)) /\ c * Cardinality(T) \in Int
  BY <1>2
<1>8. Sum(f, S) \in Int
  BY SumInt
<1> QED
  BY <1>4, <1>5, <1>6, <1>7, <1>8 DEF g

\* Each owner gets what the members that are its own hold.
Owned(f, S, own, u) == Sum(f, {x \in S : own[x] = u})
Gathered(f, S, own, U) == [u \in U |-> Owned(f, S, own, u)]

LEMMA SumOfGathered ==
    ASSUME NEW S, IsFiniteSet(S), NEW U, IsFiniteSet(U), NEW own,
           NEW f, \A x \in S : f[x] \in Int
    PROVE  Sum(Gathered(f, S, own, U), U) = Sum(f, {x \in S : own[x] \in U})
<1> DEFINE In(T) == {x \in T : own[x] \in U}
           Of(T, u) == {x \in T : own[x] = u}
           Good == {T \in SUBSET S : Sum(Gathered(f, T, own, U), U) = Sum(f, In(T))}
<1>1. ASSUME NEW T \in SUBSET S, \A V \in SUBSET T : V # T => V \in Good
      PROVE  T \in Good
  <2>1. IsFiniteSet(T) /\ \A x \in T : f[x] \in Int
    BY FS_Subset
  <2>2. ASSUME NEW V \in SUBSET T, NEW u PROVE IsFiniteSet(Of(V, u)) /\ Sum(f, Of(V, u)) \in Int
    <3>1. IsFiniteSet(Of(V, u)) /\ \A x \in Of(V, u) : f[x] \in Int
      BY <2>1, FS_Subset
    <3> HIDE DEF Of
    <3> QED
      BY <3>1, SumInt
  <2>3. CASE T = {}
    <3>1. In(T) = {} /\ \A u \in U : Of(T, u) = {}
      BY <2>3
    <3>2. \A u \in U : Gathered(f, T, own, U)[u] = 0
      BY <3>1, SumEmpty DEF Gathered, Owned
    <3>3. Sum(Gathered(f, T, own, U), U) = 0 * Cardinality(U) /\ Cardinality(U) \in Nat
      BY <3>2, SumConstant, FS_CardinalityType
    <3>4. Sum(Gathered(f, T, own, U), U) = 0
      BY <3>3
    <3>5. Sum(f, In(T)) = 0
      BY <3>1, SumEmpty
    <3> QED
      BY <3>4, <3>5
  <2>4. CASE T # {}
    <3>1. PICK a \in T : TRUE
      BY <2>4
    <3> DEFINE R == T \ {a}
               g == Gathered(f, R, own, U)
               h == Gathered(f, T, own, U)
    <3>2. R \in SUBSET T /\ R # T
      BY <3>1
    <3>3. Sum(g, U) = Sum(f, In(R))
      BY <1>1, <3>2
    <3>4. \A u \in U : /\ g[u] = Sum(f, Of(R, u)) /\ g[u] \in Int
                       /\ h[u] = Sum(f, Of(T, u)) /\ h[u] \in Int
      BY <2>2, <3>2 DEF Gathered, Owned
    <3>5. \A u \in U : u # own[a] => Of(T, u) = Of(R, u)
      OBVIOUS
    <3>6. \A u \in U \ {own[a]} : h[u] = g[u]
      BY <3>4, <3>5
    <3>7. CASE own[a] \in U
      <4>1. In(R) = In(T) \ {a} /\ a \in In(T) /\ Of(R, own[a]) = Of(T, own[a]) \ {a} /\ a \in Of(T, own[a])
        BY <3>1, <3>7
      <4>2. IsFiniteSet(In(T)) /\ \A x \in In(T) : f[x] \in Int
        BY <2>1, FS_Subset
      <4>3. IsFiniteSet(Of(T, own[a])) /\ \A x \in Of(T, own[a]) : f[x] \in Int
        BY <2>1, <2>2
      <4> HIDE DEF In, Of, g, h, R
      <4>4. Sum(f, In(T)) = f[a] + Sum(f, In(R))
        BY <4>1, <4>2, SumRemove
      <4>5. Sum(f, Of(T, own[a])) = f[a] + Sum(f, Of(R, own[a]))
        BY <4>1, <4>3, SumRemove
      <4>6. Sum(h, U) = Sum(g, U) - g[own[a]] + h[own[a]]
        BY <3>4, <3>6, <3>7, SumChange
      <4>7. h[own[a]] = f[a] + g[own[a]] /\ g[own[a]] \in Int /\ f[a] \in Int
        BY <2>1, <3>1, <3>4, <3>7, <4>5
      <4>8. Sum(g, U) \in Int
        BY <3>4, SumInt
      <4>9. Sum(h, U) = Sum(f, In(T))
        BY <3>3, <4>4, <4>6, <4>7, <4>8
      <4> QED
        BY <4>9 DEF h
    <3>8. CASE own[a] \notin U
      <4>1. In(R) = In(T)
        BY <3>8
      <4>2. \A u \in U : h[u] = g[u]
        BY <3>6, <3>8
      <4> HIDE DEF g, h, In, R
      <4>3. Sum(h, U) = Sum(g, U)
        BY <4>2, SumEqual
      <4>4. Sum(h, U) = Sum(f, In(T))
        BY <3>3, <4>1, <4>3
      <4> QED
        BY <4>4 DEF h
    <3> QED
      BY <3>7, <3>8
  <2> QED
    BY <2>3, <2>4
<1> HIDE DEF Good
<1>2. S \in Good
  BY <1>1, SubsetInduction
<1> QED
  BY <1>2 DEF Good

LEMMA SumOne == ASSUME NEW a, NEW f, f[a] \in Int PROVE Sum(f, {a}) = f[a]
<1>1. IsFiniteSet({a}) /\ \A x \in {a} : f[x] = f[a]
  BY FS_Singleton
<1>2. Sum(f, {a}) = f[a] * Cardinality({a}) /\ Cardinality({a}) = 1
  BY <1>1, SumConstant, FS_Singleton
<1> QED
  BY <1>2

\* Summands that are nowhere more do not add up to more.
LEMMA SumAtMost ==
    ASSUME NEW S, IsFiniteSet(S), NEW f, NEW g,
           \A x \in S : f[x] \in Int /\ g[x] \in Int /\ f[x] <= g[x]
    PROVE  Sum(f, S) <= Sum(g, S)
<1> DEFINE d == [x \in S |-> g[x] - f[x]]
<1>1. \A x \in S : d[x] \in Nat /\ d[x] \in Int /\ g[x] = f[x] + d[x]
  OBVIOUS
<1> HIDE DEF d
<1>2. Sum(d, S) \in Nat /\ Sum(f, S) \in Int
  BY <1>1, SumNat, SumInt
<1>3. Sum(g, S) = Sum(f, S) + Sum(d, S)
  BY <1>1, SumPlus
<1> QED
  BY <1>2, <1>3

\* One of several amounts is at most all of them.
LEMMA SumAtLeast ==
    ASSUME NEW S, IsFiniteSet(S), NEW f, \A x \in S : f[x] \in Nat, NEW a \in S
    PROVE  f[a] <= Sum(f, S)
<1>1. IsFiniteSet(S \ {a})
  BY FS_Subset
<1>2. Sum(f, S \ {a}) \in Nat
  BY <1>1, SumNat
<1>3. Sum(f, S) = f[a] + Sum(f, S \ {a})
  BY SumRemove
<1> QED
  BY <1>2, <1>3

\* A table of numbers adds up by rows as it does by columns.
LEMMA SumSwap ==
    ASSUME NEW S, IsFiniteSet(S), NEW T, IsFiniteSet(T),
           NEW f, \A x \in S, y \in T : f[x][y] \in Int
    PROVE  Sum([x \in S |-> Sum(f[x], T)], S)
              = Sum([y \in T |-> Sum([x \in S |-> f[x][y]], S)], T)
<1> DEFINE rows == [x \in S |-> Sum(f[x], T)]
           column == [y \in T |-> [x \in S |-> f[x][y]]]
           columns(U) == [y \in T |-> Sum(column[y], U)]
           Good == {U \in SUBSET S : Sum(rows, U) = Sum(columns(U), T)}
<1>1. \A x \in S : rows[x] = Sum(f[x], T) /\ rows[x] \in Int
  BY SumInt
<1>2. \A y \in T, x \in S : column[y][x] = f[x][y] /\ column[y][x] \in Int
  OBVIOUS
<1>3. ASSUME NEW U \in SUBSET S PROVE \A y \in T : columns(U)[y] = Sum(column[y], U)
  OBVIOUS
<1> HIDE DEF rows, column
<1>4. ASSUME NEW U \in SUBSET S, \A V \in SUBSET U : V # U => V \in Good
      PROVE  U \in Good
  <2> HIDE DEF columns
  <2>1. IsFiniteSet(U)
    BY FS_Subset
  <2>2. CASE U = {}
    <3>1. \A y \in T : columns(U)[y] = 0
      BY <1>3, <2>2, SumEmpty
    <3>2. Sum(columns(U), T) = 0 * Cardinality(T)
      BY <3>1, SumConstant
    <3>3. Cardinality(T) \in Nat
      BY FS_CardinalityType
    <3> QED
      BY <2>2, <3>2, <3>3, SumEmpty
  <2>3. CASE U # {}
    <3> DEFINE a == Pick(U)
               rest == U \ {a}
    <3>1. a \in U /\ a \in S
      BY <2>3 DEF Pick
    <3>2. rest \in Good /\ IsFiniteSet(rest) /\ rest \in SUBSET S
      BY <1>4, <2>1, <3>1, FS_Subset
    <3>3. Sum(rows, U) = rows[a] + Sum(rows, rest)
      BY <2>1, <2>3, SumPick
    <3>4. \A y \in T : Sum(column[y], U) = column[y][a] + Sum(column[y], rest)
      BY <2>1, <2>3, SumPick
    <3>5. \A y \in T : columns(rest)[y] \in Int
      BY <1>2, <1>3, <3>2, SumInt
    <3>6. \A y \in T : columns(U)[y] = f[a][y] + columns(rest)[y] /\ f[a][y] \in Int
      BY <1>2, <1>3, <3>1, <3>2, <3>4
    <3> HIDE DEF a, rest
    <3>7. Sum(columns(U), T) = Sum(f[a], T) + Sum(columns(rest), T)
      BY <3>5, <3>6, SumPlus
    <3> QED
      BY <1>1, <3>1, <3>2, <3>3, <3>7
  <2> QED
    BY <2>2, <2>3
<1> HIDE DEF Good
<1>5. S \in Good
  BY <1>4, SubsetInduction
<1>6. Sum(rows, S) = Sum(columns(S), T)
  BY <1>5 DEF Good
<1>7. columns(S) = [y \in T |-> Sum([x \in S |-> f[x][y]], S)]
  BY DEF column
<1> QED
  BY <1>6, <1>7 DEF rows

LEMMA MaxOfFinite ==
    ASSUME NEW S \in SUBSET Int, IsFiniteSet(S), S # {}
    PROVE  Max(S) \in S /\ \A x \in S : x <= Max(S)
<1> DEFINE Good == {T \in SUBSET S : T # {} => \E x \in T : \A y \in T : y <= x}
<1>1. ASSUME NEW T \in SUBSET S, \A U \in SUBSET T : U # T => U \in Good
      PROVE  T \in Good
  <2> SUFFICES ASSUME T # {} PROVE \E x \in T : \A y \in T : y <= x
    OBVIOUS
  <2>1. PICK x \in T : TRUE
    OBVIOUS
  <2>2. T \ {x} \in Good
    BY <1>1
  <2>3. CASE T \ {x} = {}
    BY <2>3
  <2>4. CASE T \ {x} # {}
    <3>1. PICK m \in T \ {x} : \A y \in T \ {x} : y <= m
      BY <2>2, <2>4
    <3>2. m \in Int /\ x \in Int /\ \A y \in T : y \in Int
      OBVIOUS
    <3> QED
      BY <3>1, <3>2
  <2> QED
    BY <2>3, <2>4
<1> HIDE DEF Good
<1>2. S \in Good
  BY <1>1, SubsetInduction
<1> QED
  BY <1>2 DEF Good, Max

\* As many things at most are in the range of a function as in its domain.
LEMMA FiniteImage ==
    ASSUME NEW S, IsFiniteSet(S), NEW f
    PROVE  IsFiniteSet({f[x] : x \in S})
<1> DEFINE g == [x \in S |-> f[x]]
           T == {f[x] : x \in S}
<1>1. g \in Surjection(S, T)
  BY DEF Surjection
<1> QED
  BY <1>1, FS_Surjection
=============================================================================
