---------------------------- MODULE SumTheorems ----------------------------
(***************************************************************************)
(* Sums over finite sets: what MapThenSumSet computes.  The community      *)
(* module defines it as a fold that takes the elements in the order in     *)
(* which CHOOSE picks them; here it is shown that the order does not       *)
(* matter.  Inductions are on the size of a smallest counterexample.       *)
(***************************************************************************)
EXTENDS Integers, FiniteSetsExt, FiniteSetTheorems, WellFoundedInduction, TLAPS

\* The sum of f[x] over the x in S.
SumOver(f, S) == MapThenSumSet(LAMBDA x : f[x], S)

\* The element of s that the fold takes first.
First(s) == CHOOSE x \in s : TRUE

\* One step of the fold.
Added(g, f, s) == IF s = {} THEN 0 ELSE f[First(s)] + g[s \ {First(s)}]

\* g sums f over every subset of S.
Adds(g, f, S) == \A s \in SUBSET S : g[s] = Added(g, f, s)

Integral(f, S) == \A x \in S : f[x] \in Int

-----------------------------------------------------------------------------
\* A nonempty set of natural numbers has a smallest element.
LEMMA Smallest ==
    ASSUME NEW I, I \subseteq Nat, I # {}
    PROVE  \E x \in I : \A y \in I : x =< y
<1>1. PICK x \in I : \A y \in I : ~ (<<y, x>> \in OpToRel(<, Nat))
  BY NatLessThanWellFounded, WFMin, Zenon
<1>2. \A y \in I : ~ (y < x)
  BY <1>1 DEF OpToRel
<1> QED
  BY <1>2

\* Among sets of subsets of a finite set there is one of smallest size.
LEMMA SmallestSubset ==
    ASSUME NEW S, IsFiniteSet(S), NEW B, B \subseteq SUBSET S, B # {}
    PROVE  \E s \in B : \A t \in B : Cardinality(s) =< Cardinality(t)
<1> DEFINE I == {Cardinality(s) : s \in B}
<1>1. I \subseteq Nat /\ I # {}
  BY FS_Subset, FS_CardinalityType
<1>2. PICK n \in I : \A m \in I : n =< m
  <2> HIDE DEF I
  <2> QED
    BY <1>1, Smallest
<1> QED
  BY <1>2

LEMMA FirstIn ==
    ASSUME NEW s, s # {}
    PROVE  First(s) \in s
BY DEF First

\* Taking an element out of a subset of a finite set.
LEMMA Without ==
    ASSUME NEW S, IsFiniteSet(S), NEW s \in SUBSET S, NEW x \in s
    PROVE  /\ s \ {x} \in SUBSET S
           /\ Cardinality(s) \in Nat /\ Cardinality(s \ {x}) \in Nat
           /\ Cardinality(s \ {x}) = Cardinality(s) - 1
           /\ Cardinality(s) =< Cardinality(S)
<1>1. IsFiniteSet(s) /\ Cardinality(s) =< Cardinality(S)
  BY FS_Subset
<1>2. IsFiniteSet(s \ {x}) /\ Cardinality(s \ {x}) = Cardinality(s) - 1
  BY <1>1, FS_RemoveElement
<1> QED
  BY <1>1, <1>2, FS_CardinalityType

-----------------------------------------------------------------------------
\* g sums f over the subsets with at most n elements.
AddsUpTo(g, f, S, n) ==
    \A s \in SUBSET S : Cardinality(s) =< n => g[s] = Added(g, f, s)

\* The fold's equation has a solution.
LEMMA AddsExists ==
    ASSUME NEW S, IsFiniteSet(S), NEW f, Integral(f, S)
    PROVE  \E g \in [SUBSET S -> Int] : Adds(g, f, S)
<1> DEFINE B == {n \in Nat : ~ \E g \in [SUBSET S -> Int] : AddsUpTo(g, f, S, n)}
<1>1. ASSUME B # {}
      PROVE  FALSE
  <2>1. PICK n \in B : \A m \in B : n =< m
    <3>1. B \subseteq Nat
      OBVIOUS
    <3> HIDE DEF B
    <3> QED
      BY <1>1, <3>1, Smallest
  <2>2. n \in Nat
    OBVIOUS
  <2>3. CASE n = 0
    <3>1. PICK g : g = [s \in SUBSET S |-> 0]
      OBVIOUS
    <3>2. g \in [SUBSET S -> Int]
      BY <3>1
    <3>3. ASSUME NEW s \in SUBSET S, Cardinality(s) =< 0
          PROVE  g[s] = Added(g, f, s)
      <4>1. IsFiniteSet(s) /\ Cardinality(s) \in Nat
        BY FS_Subset, FS_CardinalityType
      <4>2. s = {}
        BY <3>3, <4>1, FS_EmptySet
      <4> QED
        BY <3>1, <4>2 DEF Added
    <3> QED
      BY <2>3, <3>2, <3>3 DEF AddsUpTo
  <2>4. CASE n # 0
    <3>1. PICK k \in Nat : n = k + 1
      BY <2>2, <2>4
    <3>2. k \notin B
      <4> HIDE DEF B
      <4> QED
        BY <2>1, <3>1
    <3>3. PICK h \in [SUBSET S -> Int] : AddsUpTo(h, f, S, k)
      BY <3>2
    <3>4. PICK g : g = [s \in SUBSET S |-> Added(h, f, s)]
      OBVIOUS
    <3>5. ASSUME NEW s \in SUBSET S
          PROVE  Added(h, f, s) \in Int
      <4>1. CASE s = {}
        BY <4>1 DEF Added
      <4>2. CASE s # {}
        <5>1. First(s) \in s /\ First(s) \in S
          BY <4>2, FirstIn
        <5>2. f[First(s)] \in Int /\ h[s \ {First(s)}] \in Int
          BY <5>1 DEF Integral
        <5> QED
          BY <4>2, <5>2 DEF Added
      <4> QED
        BY <4>1, <4>2
    <3>6. g \in [SUBSET S -> Int]
      BY <3>4, <3>5
    <3>7. ASSUME NEW s \in SUBSET S, Cardinality(s) =< n
          PROVE  g[s] = Added(g, f, s)
      <4>1. CASE s = {}
        BY <3>4, <4>1 DEF Added
      <4>2. CASE s # {}
        <5>1. First(s) \in s
          BY <4>2, FirstIn
        <5>2. PICK r : r = s \ {First(s)}
          OBVIOUS
        <5>3. r \in SUBSET S /\ Cardinality(r) =< k
          BY <3>1, <3>7, <5>1, <5>2, Without
        <5>4. h[r] = Added(h, f, r) /\ g[r] = Added(h, f, r)
          BY <3>3, <3>4, <5>3 DEF AddsUpTo
        <5> QED
          BY <3>4, <4>2, <5>2, <5>4 DEF Added
      <4> QED
        BY <4>1, <4>2
    <3> QED
      BY <3>6, <3>7 DEF AddsUpTo
  <2> QED
    BY <2>3, <2>4
<1>2. Cardinality(S) \in Nat
  BY FS_CardinalityType
<1>3. PICK g \in [SUBSET S -> Int] : AddsUpTo(g, f, S, Cardinality(S))
  BY <1>1, <1>2
<1>4. Adds(g, f, S)
  BY <1>3, FS_Subset DEF Adds, AddsUpTo
<1> QED
  BY <1>4

\* Solutions over a set and over a part of it agree on the part.
LEMMA AddsAgree ==
    ASSUME NEW S, IsFiniteSet(S), NEW T \in SUBSET S, NEW f, NEW e, NEW g, NEW h,
           \A x \in T : f[x] = e[x], Adds(g, f, S), Adds(h, e, T)
    PROVE  \A s \in SUBSET T : g[s] = h[s]
<1> DEFINE B == {s \in SUBSET T : g[s] # h[s]}
<1> SUFFICES ASSUME B # {} PROVE FALSE
  OBVIOUS
<1>1. PICK s \in B : \A t \in B : Cardinality(s) =< Cardinality(t)
  <2>1. B \subseteq SUBSET S
    OBVIOUS
  <2> HIDE DEF B
  <2> QED
    BY <2>1, SmallestSubset
<1>2. g[s] = Added(g, f, s) /\ h[s] = Added(h, e, s)
  BY DEF Adds
<1>3. CASE s = {}
  BY <1>2, <1>3 DEF Added
<1>4. CASE s # {}
  <2>1. First(s) \in s /\ First(s) \in T
    BY <1>4, FirstIn
  <2>2. PICK r : r = s \ {First(s)}
    OBVIOUS
  <2>3. /\ r \in SUBSET T
        /\ Cardinality(r) \in Nat /\ Cardinality(s) \in Nat /\ Cardinality(r) = Cardinality(s) - 1
    BY <2>1, <2>2, Without
  <2>4. g[r] = h[r]
    BY <1>1, <2>3
  <2> QED
    BY <1>2, <1>4, <2>1, <2>2, <2>4 DEF Added
<1> QED
  BY <1>3, <1>4

\* Any element may be taken first.
AnyOrder(g, f, S) == \A s \in SUBSET S : \A x \in s : g[s] = f[x] + g[s \ {x}]

LEMMA AnyFirst ==
    ASSUME NEW S, IsFiniteSet(S), NEW f, Integral(f, S),
           NEW g \in [SUBSET S -> Int], Adds(g, f, S)
    PROVE  AnyOrder(g, f, S)
<1> DEFINE B == {s \in SUBSET S : \E x \in s : g[s] # f[x] + g[s \ {x}]}
<1> SUFFICES ASSUME B # {} PROVE FALSE
  BY DEF AnyOrder
<1>1. PICK s \in B : \A t \in B : Cardinality(s) =< Cardinality(t)
  <2>1. B \subseteq SUBSET S
    OBVIOUS
  <2> HIDE DEF B
  <2> QED
    BY <2>1, SmallestSubset
<1>2. PICK x \in s : g[s] # f[x] + g[s \ {x}]
  OBVIOUS
<1>3. PICK y : y = First(s)
  OBVIOUS
<1>4. y \in s /\ x \in S /\ y \in S
  BY <1>2, <1>3, FirstIn
<1>5. g[s] = f[y] + g[s \ {y}]
  BY <1>3, <1>4 DEF Adds, Added
<1>6. x # y
  BY <1>2, <1>5
<1>7. PICK a, b, c : a = s \ {x} /\ b = s \ {y} /\ c = s \ {x, y}
  OBVIOUS
<1>8. /\ a \in SUBSET S /\ b \in SUBSET S /\ c \in SUBSET S
      /\ y \in a /\ x \in b /\ c = a \ {y} /\ c = b \ {x}
  BY <1>4, <1>6, <1>7
<1>9. a \notin B /\ b \notin B
  <2>1. Cardinality(a) = Cardinality(s) - 1 /\ Cardinality(b) = Cardinality(s) - 1
        /\ Cardinality(s) \in Nat
    BY <1>4, <1>7, Without
  <2> HIDE DEF B
  <2> QED
    BY <1>1, <2>1
<1>10. g[a] = f[y] + g[c] /\ g[b] = f[x] + g[c]
  BY <1>8, <1>9
<1>11. f[x] \in Int /\ f[y] \in Int /\ g[c] \in Int
  BY <1>4, <1>8 DEF Integral
<1> QED
  BY <1>2, <1>5, <1>7, <1>10, <1>11

-----------------------------------------------------------------------------
\* The fold's equation, as the community module writes it.
LEMMA AsFunction ==
    ASSUME NEW S, NEW f, NEW g \in [SUBSET S -> Int], Adds(g, f, S)
    PROVE  g = [s \in SUBSET S |-> Added(g, f, s)]
BY DEF Adds

\* SumOver is the value at S of a function that sums f over every subset of S.
LEMMA SumIsAdded ==
    ASSUME NEW S, IsFiniteSet(S), NEW f, Integral(f, S)
    PROVE  \E g \in [SUBSET S -> Int] : Adds(g, f, S) /\ SumOver(f, S) = g[S]
<1>1. PICK g \in [SUBSET S -> Int] : Adds(g, f, S)
  BY AddsExists
<1> DEFINE P(h) == h = [s \in SUBSET S |->
                          IF s = {} THEN 0
                          ELSE f[CHOOSE x \in s : TRUE] + h[s \ {CHOOSE x \in s : TRUE}]]
           iter == CHOOSE h : P(h)
<1>2. P(g)
  <2>1. \A s \in SUBSET S :
            Added(g, f, s) = IF s = {} THEN 0
                             ELSE f[CHOOSE x \in s : TRUE] + g[s \ {CHOOSE x \in s : TRUE}]
    BY DEF Added, First
  <2> QED
    BY <1>1, <2>1, AsFunction
<1>3. P(iter)
  <2> HIDE DEF P
  <2> QED
    BY <1>2
<1>4. Adds(iter, f, S)
  BY <1>3 DEF Adds, Added, First
<1>5. SumOver(f, S) = iter[S]
  BY Zenon DEF SumOver, MapThenSumSet, MapThenFoldSet
<1>6. iter[S] = g[S]
  <2>1. S \in SUBSET S
    OBVIOUS
  <2> HIDE DEF iter
  <2> QED
    BY <1>1, <1>4, <2>1, AddsAgree
<1> QED
  BY <1>1, <1>5, <1>6

THEOREM SumType ==
    ASSUME NEW S, IsFiniteSet(S), NEW f, \A x \in S : f[x] \in Int
    PROVE  SumOver(f, S) \in Int
<1>1. Integral(f, S) /\ S \in SUBSET S
  BY DEF Integral
<1>2. PICK g \in [SUBSET S -> Int] : Adds(g, f, S) /\ SumOver(f, S) = g[S]
  BY <1>1, SumIsAdded
<1> QED
  BY <1>1, <1>2

THEOREM SumEmpty == \A f : SumOver(f, {}) = 0
<1> SUFFICES ASSUME NEW f PROVE SumOver(f, {}) = 0
  OBVIOUS
<1>1. Integral(f, {}) /\ IsFiniteSet({}) /\ {} \in SUBSET {}
  BY FS_EmptySet DEF Integral
<1> QED
  BY <1>1, SumIsAdded DEF Adds, Added

\* Only the values on the set count.
THEOREM SumEqual ==
    ASSUME NEW S, IsFiniteSet(S), NEW f, NEW e,
           \A x \in S : f[x] \in Int /\ e[x] = f[x]
    PROVE  SumOver(e, S) = SumOver(f, S)
<1>1. Integral(f, S) /\ Integral(e, S) /\ S \in SUBSET S
  BY DEF Integral
<1>2. PICK g \in [SUBSET S -> Int] : Adds(g, f, S) /\ SumOver(f, S) = g[S]
  BY <1>1, SumIsAdded
<1>3. PICK h \in [SUBSET S -> Int] : Adds(h, e, S) /\ SumOver(e, S) = h[S]
  BY <1>1, SumIsAdded
<1>4. g[S] = h[S]
  BY <1>1, <1>2, <1>3, AddsAgree
<1> QED
  BY <1>2, <1>3, <1>4

\* An element's share of the sum.
THEOREM SumRemove ==
    ASSUME NEW S, IsFiniteSet(S), NEW f, \A x \in S : f[x] \in Int, NEW x \in S
    PROVE  SumOver(f, S) = f[x] + SumOver(f, S \ {x})
<1>1. PICK T : T = S \ {x}
  OBVIOUS
<1>2. /\ Integral(f, S) /\ Integral(f, T) /\ IsFiniteSet(T)
      /\ T \in SUBSET S /\ T \in SUBSET T /\ S \in SUBSET S
  BY <1>1, FS_RemoveElement DEF Integral
<1>3. PICK g \in [SUBSET S -> Int] : Adds(g, f, S) /\ SumOver(f, S) = g[S]
  BY <1>2, SumIsAdded
<1>4. PICK h \in [SUBSET T -> Int] : Adds(h, f, T) /\ SumOver(f, T) = h[T]
  BY <1>2, SumIsAdded
<1>5. g[T] = h[T]
  BY <1>2, <1>3, <1>4, AddsAgree
<1>6. g[S] = f[x] + g[T]
  <2>1. AnyOrder(g, f, S)
    BY <1>2, <1>3, AnyFirst
  <2> QED
    BY <1>1, <1>2, <2>1, Zenon DEF AnyOrder
<1> QED
  BY <1>1, <1>3, <1>4, <1>5, <1>6

\* Quantities add up to a quantity, at least any one of them.
THEOREM SumNat ==
    ASSUME NEW S, IsFiniteSet(S), NEW f, \A x \in S : f[x] \in Nat
    PROVE  SumOver(f, S) \in Nat /\ \A x \in S : f[x] <= SumOver(f, S)
<1>1. Integral(f, S)
  BY DEF Integral
<1> DEFINE B == {s \in SUBSET S : SumOver(f, s) \notin Nat}
<1>2. ASSUME B # {}
      PROVE  FALSE
  <2>1. PICK s \in B : \A t \in B : Cardinality(s) =< Cardinality(t)
    <3>1. B \subseteq SUBSET S
      OBVIOUS
    <3> HIDE DEF B
    <3> QED
      BY <1>2, <3>1, SmallestSubset
  <2>2. s \in SUBSET S /\ SumOver(f, s) \notin Nat /\ IsFiniteSet(s)
    BY FS_Subset
  <2>3. PICK x : x \in s
    BY <2>2, SumEmpty
  <2>4. PICK r : r = s \ {x}
    OBVIOUS
  <2>5. /\ r \in SUBSET S /\ Cardinality(s) \in Nat /\ Cardinality(r) \in Nat
        /\ Cardinality(r) = Cardinality(s) - 1
    BY <2>2, <2>3, <2>4, Without
  <2>6. r \notin B
    <3> HIDE DEF B
    <3> QED
      BY <2>1, <2>5
  <2>7. SumOver(f, r) \in Nat
    BY <2>5, <2>6
  <2>8. SumOver(f, s) = f[x] + SumOver(f, r)
    <3>1. \A y \in s : f[y] \in Int
      BY <2>2
    <3> QED
      BY <2>2, <2>3, <2>4, <3>1, SumRemove
  <2>9. f[x] \in Nat
    BY <2>2, <2>3
  <2> QED
    BY <2>2, <2>7, <2>8, <2>9
<1>3. \A s \in SUBSET S : SumOver(f, s) \in Nat
  BY <1>2
<1>4. ASSUME NEW x \in S
      PROVE  f[x] <= SumOver(f, S)
  <2>1. SumOver(f, S) = f[x] + SumOver(f, S \ {x})
    BY SumRemove
  <2>2. SumOver(f, S \ {x}) \in Nat
    BY <1>3
  <2> QED
    BY <2>1, <2>2
<1>5. S \in SUBSET S
  OBVIOUS
<1> QED
  BY <1>3, <1>4, <1>5

\* One element more.
THEOREM SumAdd ==
    ASSUME NEW S, IsFiniteSet(S), NEW x, x \notin S, NEW f,
           \A y \in S : f[y] \in Int, f[x] \in Int
    PROVE  SumOver(f, S \cup {x}) = f[x] + SumOver(f, S)
<1>1. PICK T : T = S \cup {x}
  OBVIOUS
<1>2. IsFiniteSet(T) /\ x \in T /\ T \ {x} = S /\ \A y \in T : f[y] \in Int
  BY <1>1, FS_AddElement
<1> QED
  BY <1>1, <1>2, SumRemove

\* A part of a set of quantities adds up to no more than the whole.
THEOREM SumMonotone ==
    ASSUME NEW S, IsFiniteSet(S), NEW f, \A x \in S : f[x] \in Nat, NEW T \in SUBSET S
    PROVE  SumOver(f, T) <= SumOver(f, S)
<1> DEFINE B == {s \in SUBSET S : T \subseteq s /\ ~ SumOver(f, T) <= SumOver(f, s)}
<1>1. ASSUME B # {}
      PROVE  FALSE
  <2>1. PICK s \in B : \A t \in B : Cardinality(s) =< Cardinality(t)
    <3>1. B \subseteq SUBSET S
      OBVIOUS
    <3> HIDE DEF B
    <3> QED
      BY <1>1, <3>1, SmallestSubset
  <2>2. /\ s \in SUBSET S /\ T \subseteq s /\ ~ SumOver(f, T) <= SumOver(f, s)
        /\ IsFiniteSet(s) /\ IsFiniteSet(T)
    BY FS_Subset
  <2>3. SumOver(f, s) \in Nat /\ SumOver(f, T) \in Nat
    <3>1. (\A x \in s : f[x] \in Nat) /\ \A x \in T : f[x] \in Nat
      BY <2>2
    <3> QED
      BY <2>2, <3>1, SumNat
  <2>4. PICK x : x \in s /\ x \notin T
    BY <2>2, <2>3
  <2>5. PICK r : r = s \ {x}
    OBVIOUS
  <2>6. /\ r \in SUBSET S /\ Cardinality(s) \in Nat /\ Cardinality(r) \in Nat
        /\ Cardinality(r) = Cardinality(s) - 1
    BY <2>2, <2>4, <2>5, Without
  <2>7. r \notin B
    <3> HIDE DEF B
    <3> QED
      BY <2>1, <2>6
  <2>8. SumOver(f, T) <= SumOver(f, r)
    BY <2>2, <2>4, <2>5, <2>6, <2>7
  <2>9. SumOver(f, s) = f[x] + SumOver(f, r) /\ SumOver(f, r) \in Nat /\ f[x] \in Nat
    <3>1. (\A y \in s : f[y] \in Int) /\ (\A y \in r : f[y] \in Nat) /\ IsFiniteSet(r)
      BY <2>2, <2>6, FS_Subset
    <3>2. SumOver(f, s) = f[x] + SumOver(f, r)
      BY <2>2, <2>4, <2>5, <3>1, SumRemove
    <3> QED
      BY <2>2, <2>4, <3>1, <3>2, SumNat
  <2> QED
    BY <2>2, <2>3, <2>8, <2>9
<1>2. S \in SUBSET S /\ T \subseteq S
  OBVIOUS
<1> QED
  BY <1>1, <1>2

\* The image of a part of b's domain.
Image(b, s) == {b[x] : x \in s}

\* b maps S one to one onto T, and e to f.
Renames(b, S, T, e, f) ==
    /\ \A x \in S : b[x] \in T /\ e[x] = f[b[x]]
    /\ \A x, y \in S : b[x] = b[y] => x = y
    /\ \A y \in T : \E x \in S : b[x] = y

\* Renaming the elements.
THEOREM SumRenamed ==
    ASSUME NEW S, IsFiniteSet(S), NEW T, IsFiniteSet(T), NEW f, Integral(f, T),
           NEW e, NEW b, Renames(b, S, T, e, f)
    PROVE  SumOver(e, S) = SumOver(f, T)
<1>0. /\ \A y \in T : f[y] \in Int
      /\ \A x \in S : b[x] \in T /\ e[x] = f[b[x]]
      /\ \A x, y \in S : b[x] = b[y] => x = y
      /\ \A y \in T : \E x \in S : b[x] = y
  BY DEF Integral, Renames
<1> DEFINE B == {s \in SUBSET S : SumOver(e, s) # SumOver(f, Image(b, s))}
<1>1. ASSUME B # {}
      PROVE  FALSE
  <2>1. PICK s \in B : \A t \in B : Cardinality(s) =< Cardinality(t)
    <3>1. B \subseteq SUBSET S
      OBVIOUS
    <3> HIDE DEF B
    <3> QED
      BY <1>1, <3>1, SmallestSubset
  <2>2. s \in SUBSET S /\ SumOver(e, s) # SumOver(f, Image(b, s)) /\ IsFiniteSet(s)
    BY FS_Subset
  <2>3. PICK x : x \in s
    <3>1. s = {} => Image(b, s) = {}
      BY DEF Image
    <3> QED
      BY <2>2, <3>1, SumEmpty
  <2>4. PICK r : r = s \ {x}
    OBVIOUS
  <2>5. /\ r \in SUBSET S /\ Cardinality(s) \in Nat /\ Cardinality(r) \in Nat
        /\ Cardinality(r) = Cardinality(s) - 1
    BY <2>2, <2>3, <2>4, Without
  <2>6. r \notin B
    <3> HIDE DEF B
    <3> QED
      BY <2>1, <2>5
  <2>7. SumOver(e, r) = SumOver(f, Image(b, r))
    BY <2>5, <2>6
  <2>8. PICK u : u = Image(b, s)
    OBVIOUS
  <2>9. /\ u \in SUBSET T /\ IsFiniteSet(u) /\ b[x] \in u
        /\ Image(b, r) = u \ {b[x]}
    <3>1. u \in SUBSET T /\ b[x] \in u
      BY <1>0, <2>2, <2>3, <2>8 DEF Image
    <3>2. Image(b, r) = u \ {b[x]}
      BY <1>0, <2>2, <2>3, <2>4, <2>8 DEF Image
    <3> QED
      BY <3>1, <3>2, FS_Subset
  <2>10. SumOver(e, s) = e[x] + SumOver(e, r)
    <3>1. \A y \in s : e[y] \in Int
      BY <1>0, <2>2
    <3> QED
      BY <2>2, <2>3, <2>4, <3>1, SumRemove
  <2>11. SumOver(f, u) = f[b[x]] + SumOver(f, u \ {b[x]})
    <3>1. \A y \in u : f[y] \in Int
      BY <1>0, <2>9
    <3> QED
      BY <2>9, <3>1, SumRemove
  <2>12. e[x] = f[b[x]]
    BY <1>0, <2>2, <2>3
  <2> QED
    BY <2>2, <2>7, <2>8, <2>9, <2>10, <2>11, <2>12
<1>2. SumOver(e, S) = SumOver(f, Image(b, S))
  BY <1>1
<1>3. Image(b, S) = T
  BY <1>0 DEF Image
<1> QED
  BY <1>2, <1>3

=============================================================================
