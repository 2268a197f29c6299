-------------------------------- MODULE Sums --------------------------------
(***************************************************************************)
(* Induction over the naturals and over a finite set, from the well-       *)
(* foundedness of the naturals, and what it says of the sum of a function  *)
(* over a finite set. The models count tokens and requests with such sums  *)
(* (MapThenSumSet of FiniteSetsExt); the proofs that a step adds to one    *)
(* only what it takes from another rest on the lemmas here.                *)
(*                                                                         *)
(* A set of naturals stands where the theorems of the library have an      *)
(* operator as a parameter, which no prover can instantiate.               *)
(***************************************************************************)
EXTENDS Integers, Sequences, FiniteSets, FiniteSetsExt, FiniteSetTheorems, WellFoundedInduction, TLAPS

\* A set of naturals that is not empty has a least member.
LEMMA Least ==
  ASSUME NEW T \in SUBSET Nat, T # {}
  PROVE  \E x \in T : \A y \in T : x <= y
<1> DEFINE R == OpToRel(<, Nat)
<1>1. IsWellFoundedOn(R, Nat)
  BY NatLessThanWellFounded
<1>2. ASSUME NEW x \in Nat, NEW y \in Nat, y < x PROVE <<y, x>> \in R
  BY <1>2 DEF OpToRel
<1> HIDE DEF R
<1>3. PICK x \in T : \A y \in T : ~(<<y, x>> \in R)
  BY <1>1, WFMin
<1>4. ASSUME NEW y \in T PROVE x <= y
  <2>1. x \in Nat /\ y \in Nat
    OBVIOUS
  <2>2. ~(y < x)
    BY <1>2, <1>3, <2>1
  <2> QED BY <2>1, <2>2
<1> QED BY <1>4

\* Induction over the naturals, for a set of them.
LEMMA Induction ==
  ASSUME NEW T, 0 \in T, \A n \in Nat : n \in T => n + 1 \in T
  PROVE  \A n \in Nat : n \in T
<1> DEFINE C == Nat \ T
<1>1. CASE C = {}
  BY <1>1
<1>2. CASE C # {}
  <2>1. PICK x \in C : \A y \in C : x <= y
    BY <1>2, Least
  <2>2. x # 0 /\ x - 1 \in Nat /\ x - 1 \notin C
    BY <2>1
  <2> QED BY <2>1, <2>2
<1> QED BY <1>1, <1>2

-----------------------------------------------------------------------------
(* Sums.                                                                   *)

Sum(f, S) == MapThenSumSet(LAMBDA x : f[x], S)

\* How MapThenSumSet works: it takes one member, chosen, and goes on with the rest.
First(s) == CHOOSE x \in s : TRUE
SumStep(f, g, s) == IF s = {} THEN 0 ELSE f[First(s)] + g[s \ {First(s)}]

Unfolds(f, g, S) == g = [s \in SUBSET S |-> SumStep(f, g, s)]

\* The member a sum takes first is one of the set.
LEMMA FirstIn ==
  ASSUME NEW s, s # {}
  PROVE  First(s) \in s
BY DEF First

\* What is left when that member is taken is one smaller.
LEMMA Smaller ==
  ASSUME NEW s, IsFiniteSet(s), s # {}
  PROVE  /\ Cardinality(s \ {First(s)}) \in Nat
         /\ Cardinality(s) = Cardinality(s \ {First(s)}) + 1
<1>1. First(s) \in s
  BY FirstIn
<1>2. Cardinality(s) \in Nat /\ Cardinality(s \ {First(s)}) = Cardinality(s) - 1 /\ IsFiniteSet(s \ {First(s)})
  BY <1>1, FS_RemoveElement, FS_CardinalityType
<1>3. Cardinality(s \ {First(s)}) \in Nat
  BY <1>2, FS_CardinalityType
<1> QED BY <1>2, <1>3

\* A sum is the value of a recursive function on the subsets of the set: there is
\* one, by induction on the size of the subset, and CHOOSE finds it.
LEMMA SumIterates ==
  ASSUME NEW f, NEW S, IsFiniteSet(S)
  PROVE  \E g : Unfolds(f, g, S) /\ Sum(f, S) = g[S]
<1> DEFINE Good(n, g) == \A s \in SUBSET S : Cardinality(s) <= n => g[s] = SumStep(f, g, s)
           T == {n \in Nat : \E g : Good(n, g)}
<1>0. \A s \in SUBSET S : IsFiniteSet(s) /\ Cardinality(s) \in Nat
  BY FS_Subset, FS_CardinalityType
<1>1. 0 \in T
  <2>1. Good(0, [s \in SUBSET S |-> 0])
    BY <1>0, FS_EmptySet DEF SumStep
  <2> QED BY <2>1
<1>2. ASSUME NEW n \in Nat, n \in T PROVE n + 1 \in T
  <2>1. PICK g : Good(n, g)
    BY <1>2
  <2> DEFINE h == [s \in SUBSET S |-> IF Cardinality(s) <= n THEN g[s] ELSE SumStep(f, g, s)]
  <2>2. ASSUME NEW s \in SUBSET S, Cardinality(s) <= n + 1 PROVE h[s] = SumStep(f, h, s)
    <3>1. CASE s = {}
      BY <2>1, <3>1, <1>0, FS_EmptySet DEF SumStep
    <3>2. CASE s # {}
      <4> DEFINE r == s \ {First(s)}
      <4>1. r \in SUBSET S /\ Cardinality(r) \in Nat /\ Cardinality(s) = Cardinality(r) + 1
        BY <1>0, <3>2, Smaller
      <4>2. h[r] = g[r]
        BY <4>1, <2>2
      <4>3. SumStep(f, h, s) = SumStep(f, g, s)
        BY <4>2 DEF SumStep
      <4>4. h[s] = SumStep(f, g, s)
        BY <2>1, <1>0
      <4> QED BY <4>3, <4>4
    <3> QED BY <3>1, <3>2
  <2>3. Good(n + 1, h)
    BY <2>2
  <2> HIDE DEF h
  <2>4. \E q : Good(n + 1, q)
    BY <2>3
  <2> QED BY <2>4
<1>3. Cardinality(S) \in T
  <2> HIDE DEF T
  <2>1. \A n \in Nat : n \in T
    BY <1>1, <1>2, Induction
  <2> QED BY <1>0, <2>1
<1>4. PICK g : Good(Cardinality(S), g)
  BY <1>3
<1>5. \A s \in SUBSET S : Cardinality(s) <= Cardinality(S)
  BY FS_Subset
<1> DEFINE h == [s \in SUBSET S |-> g[s]]
<1>6. ASSUME NEW s \in SUBSET S PROVE h[s] = SumStep(f, h, s)
  <2>1. g[s] = SumStep(f, g, s)
    BY <1>4, <1>5
  <2>2. SumStep(f, h, s) = SumStep(f, g, s)
    BY DEF SumStep
  <2> QED BY <2>1, <2>2
<1>7. h = [s \in SUBSET S |-> SumStep(f, h, s)]
  BY <1>6
<1> HIDE DEF h
<1>8. Sum(f, S) = (CHOOSE q : q = [s \in SUBSET S |-> SumStep(f, q, s)])[S]
  BY DEF Sum, MapThenSumSet, MapThenFoldSet, SumStep, First
<1> QED BY <1>7, <1>8 DEF Unfolds

\* Two such functions agree where both are defined.
LEMMA IterAgree ==
  ASSUME NEW f, NEW S, IsFiniteSet(S), NEW R \in SUBSET S,
         NEW g, Unfolds(f, g, S), NEW h, Unfolds(f, h, R)
  PROVE  g[R] = h[R]
<1> DEFINE P(n) == \A s \in SUBSET R : Cardinality(s) = n => g[s] = h[s]
           T == {n \in Nat : P(n)}
<1>0. \A s \in SUBSET R : s \in SUBSET S /\ IsFiniteSet(s) /\ Cardinality(s) \in Nat
  BY FS_Subset, FS_CardinalityType
<1>1. P(0)
  BY <1>0, FS_EmptySet DEF SumStep, Unfolds
<1>2. ASSUME NEW n \in Nat, P(n) PROVE P(n + 1)
  <2> SUFFICES ASSUME NEW s \in SUBSET R, Cardinality(s) = n + 1 PROVE g[s] = h[s]
    OBVIOUS
  <2>1. s # {}
    BY <1>0, FS_EmptySet
  <2> DEFINE r == s \ {First(s)}
  <2>2. r \in SUBSET R /\ Cardinality(r) = n
    BY <1>0, <2>1, Smaller
  <2>3. g[r] = h[r]
    BY <1>2, <2>2
  <2>4. g[s] = SumStep(f, g, s) /\ h[s] = SumStep(f, h, s)
    BY <1>0 DEF Unfolds
  <2> QED BY <2>3, <2>4 DEF SumStep
<1>3. \A n \in Nat : P(n)
  <2>1. 0 \in T
    BY <1>1
  <2>2. \A n \in Nat : n \in T => n + 1 \in T
    BY <1>2
  <2>3. \A n \in Nat : n \in T
    <3> HIDE DEF T
    <3> QED BY <2>1, <2>2, Induction
  <2> QED BY <2>3
<1> QED BY <1>3, <1>0

\* A sum is the value at one member and the sum over the rest.
LEMMA SumUnfold ==
  ASSUME NEW f, NEW S, IsFiniteSet(S)
  PROVE  Sum(f, S) = IF S = {} THEN 0 ELSE f[First(S)] + Sum(f, S \ {First(S)})
<1>1. PICK g : Unfolds(f, g, S) /\ Sum(f, S) = g[S]
  BY SumIterates
<1>2. Sum(f, S) = SumStep(f, g, S)
  BY <1>1 DEF Unfolds
<1> DEFINE R == S \ {First(S)}
<1>3. IsFiniteSet(R) /\ R \in SUBSET S
  BY FS_Subset
<1> HIDE DEF R
<1>4. PICK h : Unfolds(f, h, R) /\ Sum(f, R) = h[R]
  BY <1>3, SumIterates
<1>5. g[R] = Sum(f, R)
  BY <1>1, <1>3, <1>4, IterAgree
<1> QED BY <1>2, <1>5 DEF SumStep, R

\* It is an integer, whichever member is taken first.
LEMMA SumRemove ==
  ASSUME NEW D, NEW f \in [D -> Int], NEW S \in SUBSET D, IsFiniteSet(S)
  PROVE  Sum(f, S) \in Int /\ \A x \in S : Sum(f, S) = f[x] + Sum(f, S \ {x})
<1> DEFINE Q(s) == Sum(f, s) \in Int /\ \A x \in s : Sum(f, s) = f[x] + Sum(f, s \ {x})
           P(n) == \A s \in SUBSET S : Cardinality(s) <= n => Q(s)
           T == {n \in Nat : P(n)}
<1>0. \A s \in SUBSET S : IsFiniteSet(s) /\ Cardinality(s) \in Nat /\ s \in SUBSET D
  BY FS_Subset, FS_CardinalityType
<1>1. P(0)
  <2> SUFFICES ASSUME NEW s \in SUBSET S, Cardinality(s) <= 0 PROVE Q(s)
    OBVIOUS
  <2>1. s = {}
    BY <1>0, FS_EmptySet
  <2>2. Sum(f, s) = 0
    BY <1>0, <2>1, SumUnfold
  <2> QED BY <2>1, <2>2
<1>2. ASSUME NEW n \in Nat, P(n) PROVE P(n + 1)
  <2> SUFFICES ASSUME NEW s \in SUBSET S, Cardinality(s) = n + 1 PROVE Q(s)
    BY <1>0, <1>2
  <2>1. s # {}
    BY <1>0, FS_EmptySet
  <2> DEFINE c == First(s)
  <2>2. c \in s
    BY <2>1, FirstIn
  <2>3. Sum(f, s) = f[c] + Sum(f, s \ {c})
    BY <1>0, <2>1, SumUnfold
  <2> HIDE DEF c
  <2>4. ASSUME NEW x \in s PROVE Q(s \ {x})
    <3>1. Cardinality(s \ {x}) = n
      <4>1. Cardinality(s \ {x}) = Cardinality(s) - 1
        BY <1>0, FS_RemoveElement
      <4> QED BY <4>1
    <3> HIDE DEF Q
    <3> QED BY <1>2, <3>1
  <2>5. Sum(f, s) \in Int
    BY <2>2, <2>3, <2>4
  <2>6. ASSUME NEW x \in s PROVE Sum(f, s) = f[x] + Sum(f, s \ {x})
    <3>1. CASE x = c
      BY <2>3, <3>1
    <3>2. CASE x # c
      <4> DEFINE r == (s \ {x}) \ {c}
      <4>1. (s \ {c}) \ {x} = r
        OBVIOUS
      <4>2. Sum(f, s \ {c}) = f[x] + Sum(f, r)
        BY <2>2, <2>4, <3>2, <4>1
      <4>3. Sum(f, s \ {x}) = f[c] + Sum(f, r)
        BY <2>2, <2>4, <3>2
      <4>4. Q(r)
        <5>1. IsFiniteSet(s \ {x}) /\ Cardinality(s \ {x}) = n
          BY <1>0, FS_RemoveElement
        <5>2. Cardinality(r) <= n
          BY <1>0, <5>1, FS_RemoveElement
        <5> HIDE DEF Q
        <5> QED BY <1>2, <5>2
      <4>5. Sum(f, r) \in Int /\ f[x] \in Int /\ f[c] \in Int
        BY <2>2, <4>4
      <4> HIDE DEF r
      <4> QED BY <2>3, <4>2, <4>3, <4>5
    <3> QED BY <3>1, <3>2
  <2> QED BY <2>5, <2>6
<1>3. \A n \in Nat : P(n)
  <2>1. 0 \in T
    BY <1>1
  <2>2. ASSUME NEW n \in Nat, n \in T PROVE n + 1 \in T
    <3>1. P(n)
      BY <2>2
    <3>2. P(n + 1)
      <4> HIDE DEF P
      <4> QED BY <1>2, <3>1
    <3> QED BY <3>2
  <2>3. \A n \in Nat : n \in T
    <3> HIDE DEF T
    <3> QED BY <2>1, <2>2, Induction
  <2> QED BY <2>3
<1> HIDE DEF Q
<1>4. Q(S)
  BY <1>3, <1>0
<1> QED BY <1>4 DEF Q

\* Induction over a finite set, for a set of its subsets.
LEMMA SetInduction ==
  ASSUME NEW S, IsFiniteSet(S), NEW T, {} \in T,
         \A s \in SUBSET S : \A x \in S \ s : s \in T => s \union {x} \in T
  PROVE  S \in T
<1> DEFINE P(n) == \A s \in SUBSET S : Cardinality(s) = n => s \in T
           N == {n \in Nat : P(n)}
<1>0. \A s \in SUBSET S : IsFiniteSet(s) /\ Cardinality(s) \in Nat
  BY FS_Subset, FS_CardinalityType
<1>1. P(0)
  BY <1>0, FS_EmptySet
<1>2. ASSUME NEW n \in Nat, P(n) PROVE P(n + 1)
  <2> SUFFICES ASSUME NEW s \in SUBSET S, Cardinality(s) = n + 1 PROVE s \in T
    OBVIOUS
  <2>1. s # {}
    BY <1>0, FS_EmptySet
  <2>2. PICK x \in s : TRUE
    BY <2>1
  <2>3. PICK r \in SUBSET S : r = s \ {x}
    OBVIOUS
  <2>4. Cardinality(r) = n
    <3>1. Cardinality(r) = Cardinality(s) - 1
      BY <1>0, <2>3, FS_RemoveElement
    <3> QED BY <3>1
  <2>5. r \in T
    BY <1>2, <2>4
  <2>6. s = r \union {x} /\ x \in S \ r
    BY <2>3
  <2> QED BY <2>5, <2>6
<1>3. \A n \in Nat : P(n)
  <2>1. 0 \in N
    BY <1>1
  <2>2. \A n \in Nat : n \in N => n + 1 \in N
    BY <1>2
  <2>3. \A n \in Nat : n \in N
    <3> HIDE DEF N
    <3> QED BY <2>1, <2>2, Induction
  <2> QED BY <2>3
<1> QED BY <1>0, <1>3

\* The sum over nothing.
LEMMA SumEmpty == ASSUME NEW f PROVE Sum(f, {}) = 0
BY FS_EmptySet, SumUnfold

\* The sum over one member more.
LEMMA SumAdd ==
  ASSUME NEW D, NEW f \in [D -> Int], NEW s \in SUBSET D, IsFiniteSet(s), NEW x \in D \ s
  PROVE  Sum(f, s \union {x}) = f[x] + Sum(f, s)
<1> DEFINE t == s \union {x}
<1>1. t \in SUBSET D /\ x \in t /\ s = t \ {x}
  OBVIOUS
<1>2. IsFiniteSet(t)
  BY FS_AddElement
<1> QED BY <1>1, <1>2, SumRemove

\* Functions that agree on a set have the same sum over it.
LEMMA SumAgree ==
  ASSUME NEW D, NEW f \in [D -> Int], NEW E, NEW g \in [E -> Int],
         NEW S \in SUBSET D, S \in SUBSET E, IsFiniteSet(S), \A x \in S : f[x] = g[x]
  PROVE  Sum(f, S) = Sum(g, S)
<1> DEFINE T == {s \in SUBSET S : Sum(f, s) = Sum(g, s)}
<1>1. {} \in T
  BY SumEmpty
<1>2. ASSUME NEW s \in SUBSET S, NEW x \in S \ s, s \in T PROVE s \union {x} \in T
  <2>1. Sum(f, s) = Sum(g, s) /\ IsFiniteSet(s) /\ s \in SUBSET D /\ s \in SUBSET E
    BY <1>2, FS_Subset
  <2>2. Sum(f, s \union {x}) = f[x] + Sum(f, s) /\ Sum(g, s \union {x}) = g[x] + Sum(g, s)
    BY <2>1, SumAdd
  <2> QED BY <2>1, <2>2
<1>3. S \in T
  <2> HIDE DEF T
  <2> QED BY <1>1, <1>2, SetInduction
<1> QED BY <1>3

\* Members at which the function is zero do not count.
LEMMA SumSupport ==
  ASSUME NEW D, NEW f \in [D -> Int], NEW S \in SUBSET D, IsFiniteSet(S), NEW R \in SUBSET S,
         \A x \in S \ R : f[x] = 0
  PROVE  Sum(f, S) = Sum(f, R)
<1> DEFINE U == S \ R
           T == {s \in SUBSET U : Sum(f, R \union s) = Sum(f, R)}
<1>0. IsFiniteSet(U)
  BY FS_Subset
<1>1. {} \in T
  <2>1. R \union {} = R
    OBVIOUS
  <2> QED BY <2>1
<1>2. ASSUME NEW s \in SUBSET U, NEW x \in U \ s, s \in T PROVE s \union {x} \in T
  <2> DEFINE r == R \union s
  <2>1. r \in SUBSET D /\ r \in SUBSET S /\ IsFiniteSet(r) /\ x \in D \ r /\ f[x] = 0
    BY FS_Subset
  <2>2. Sum(f, r \union {x}) = f[x] + Sum(f, r) /\ Sum(f, r) \in Int
    BY <2>1, SumAdd, SumRemove
  <2>3. R \union (s \union {x}) = r \union {x}
    OBVIOUS
  <2>4. Sum(f, r) = Sum(f, R)
    BY <1>2, <2>1
  <2>5. Sum(f, r \union {x}) = Sum(f, R)
    BY <2>1, <2>2, <2>4
  <2> QED BY <2>3, <2>5
<1>3. U \in T
  <2> HIDE DEF T, U
  <2> QED BY <1>0, <1>1, <1>2, SetInduction
<1>4. R \union U = S
  OBVIOUS
<1> QED BY <1>3, <1>4

\* A change at one member changes the sum by as much.
LEMMA SumUpdate ==
  ASSUME NEW D, NEW f \in [D -> Int], NEW g \in [D -> Int], NEW S \in SUBSET D, IsFiniteSet(S),
         NEW x \in S, \A y \in S \ {x} : g[y] = f[y]
  PROVE  Sum(g, S) = Sum(f, S) + g[x] - f[x]
<1> DEFINE r == S \ {x}
<1>1. r \in SUBSET D /\ r \in SUBSET S /\ IsFiniteSet(r)
  BY FS_Subset
<1>2. Sum(g, r) = Sum(f, r)
  BY <1>1, SumAgree
<1>3. Sum(g, S) = g[x] + Sum(g, r) /\ Sum(f, S) = f[x] + Sum(f, r)
  BY <1>1, SumRemove
<1>4. Sum(f, r) \in Int /\ f[x] \in Int /\ g[x] \in Int
  BY <1>1, SumRemove
<1>5. PICK a \in Int, b \in Int, n \in Int : a = Sum(f, r) /\ b = f[x] /\ n = g[x]
  BY <1>4
<1>6. Sum(g, S) = n + a /\ Sum(f, S) = b + a
  BY <1>2, <1>3, <1>5
<1>7. n + a = (b + a) + n - b
  BY <1>5
<1> QED BY <1>5, <1>6, <1>7

\* A sum of naturals is one, and no member is more than the sum.
LEMMA SumNat ==
  ASSUME NEW D, NEW f \in [D -> Int], NEW S \in SUBSET D, IsFiniteSet(S), \A x \in S : f[x] >= 0
  PROVE  Sum(f, S) \in Nat /\ \A x \in S : f[x] <= Sum(f, S)
<1> DEFINE T == {s \in SUBSET S : Sum(f, s) \in Nat}
<1>1. {} \in T
  BY SumEmpty
<1>2. ASSUME NEW s \in SUBSET S, NEW x \in S \ s, s \in T PROVE s \union {x} \in T
  <2>1. Sum(f, s \union {x}) = f[x] + Sum(f, s)
    BY FS_Subset, SumAdd
  <2>2. f[x] \in Int /\ f[x] >= 0 /\ Sum(f, s) \in Nat
    BY <1>2
  <2> QED BY <2>1, <2>2
<1>3. ASSUME NEW U \in SUBSET S PROVE Sum(f, U) \in Nat
  <2>1. ASSUME NEW s \in SUBSET U, NEW x \in U \ s, s \in T PROVE s \union {x} \in T
    BY <1>2, <2>1
  <2>2. U \in T
    <3>1. IsFiniteSet(U)
      BY FS_Subset
    <3> HIDE DEF T
    <3> QED BY <1>1, <2>1, <3>1, SetInduction
  <2> QED BY <2>2
<1>4. ASSUME NEW x \in S PROVE f[x] <= Sum(f, S)
  <2>1. Sum(f, S) = f[x] + Sum(f, S \ {x})
    BY SumRemove
  <2>2. Sum(f, S \ {x}) \in Nat /\ f[x] \in Int
    BY <1>3
  <2> QED BY <2>1, <2>2
<1> QED BY <1>3, <1>4
=============================================================================
