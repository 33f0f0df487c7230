----------------------------- MODULE SumTheorems -----------------------------
(***************************************************************************)
(* The sum of the values of a function, SumFunction of the community       *)
(* modules: what an update, a comparison or an addition of functions does  *)
(* to it.  Induction is that of sets: a set of naturals with 0 and with    *)
(* every successor is Nat.                                                 *)
(***************************************************************************)
EXTENDS Integers, Functions, FiniteSetTheorems, WellFoundedInduction, TLAPS

(* Every set of naturals that is not empty has a least element. *)
LEMMA LeastNatural ==
    ASSUME NEW T \in SUBSET Nat, T # {}
    PROVE  \E n \in T : \A m \in T : n <= m
<1> DEFINE Less == {p \in Nat \X Nat : p[1] < p[2]}
<1>1. IsWellFoundedOn(Less, Nat)
  BY NatLessThanWellFounded, Zenon DEF OpToRel
<1>2. PICK n \in T : \A m \in T : ~(<<m, n>> \in Less)
  <2> HIDE DEF Less
  <2> QED
    BY <1>1, WFMin
<1>3. ASSUME NEW m \in T, ~(n <= m) PROVE FALSE
  <2>1. m \in Nat /\ n \in Nat /\ m < n
    BY <1>3
  <2>2. <<m, n>> \in Less
    BY <2>1
  <2> QED
    BY <1>2, <2>2
<1> QED
  BY <1>3

(* Induction over the naturals. *)
LEMMA NaturalsBySuccessor ==
    ASSUME NEW T \in SUBSET Nat, 0 \in T, \A n \in T : n + 1 \in T
    PROVE  T = Nat
<1>1. SUFFICES ASSUME Nat \ T # {}
               PROVE  FALSE
  OBVIOUS
<1>2. PICK n \in Nat \ T : \A m \in Nat \ T : n <= m
  BY <1>1, LeastNatural
<1>3. n # 0 /\ n - 1 \in Nat
  BY <1>2
<1>4. n - 1 \in T
  BY <1>2, <1>3
<1>5. (n - 1) + 1 \in T
  BY <1>4
<1> QED
  BY <1>2, <1>5

(* Induction over the subsets of a finite set: a set is in F if all sets   *)
(* with one element less are.                                              *)
LEMMA FiniteByRemoval ==
    ASSUME NEW S, IsFiniteSet(S), NEW F,
           \A s \in SUBSET S : (\A x \in s : s \ {x} \in F) => s \in F
    PROVE  \A s \in SUBSET S : s \in F
<1> DEFINE T == {n \in Nat : \A s \in SUBSET S : Cardinality(s) = n => s \in F}
<1>1. 0 \in T
  <2>1. ASSUME NEW s \in SUBSET S, Cardinality(s) = 0 PROVE s \in F
    BY <2>1, FS_EmptySet, FS_Subset
  <2> QED
    BY <2>1
<1>2. ASSUME NEW n \in T PROVE n + 1 \in T
  <2>1. ASSUME NEW s \in SUBSET S, Cardinality(s) = n + 1 PROVE s \in F
    <3>1. IsFiniteSet(s) /\ n \in Nat
      BY FS_Subset
    <3>2. ASSUME NEW x \in s PROVE s \ {x} \in F
      <4>1. Cardinality(s \ {x}) = Cardinality(s) - 1
        BY <3>1, FS_RemoveElement
      <4>2. Cardinality(s \ {x}) = n
        <5> HIDE DEF T
        <5> QED
          BY <2>1, <3>1, <4>1
      <4> QED
        BY <4>2
    <3> QED
      BY <3>2
  <2> QED
    BY <2>1
<1>3. T = Nat
  <2> HIDE DEF T
  <2>1. T \in SUBSET Nat
    BY DEF T
  <2> QED
    BY <1>1, <1>2, <2>1, NaturalsBySuccessor
<1>4. ASSUME NEW s \in SUBSET S PROVE s \in F
  <2>1. Cardinality(s) \in T
    <3> HIDE DEF T
    <3> QED
      BY <1>3, FS_Subset, FS_CardinalityType
  <2> QED
    BY <2>1
<1> QED
  BY <1>4

-----------------------------------------------------------------------------
(* The recursive function behind SumFunctionOnSet *)

Choice(s) == CHOOSE x \in s : TRUE

SumsOf(g, f, S) ==
    g = [s \in SUBSET S |->
           IF s = {} THEN 0 ELSE f[Choice(s)] + g[s \ {Choice(s)}]]

LEMMA SumIsChosen ==
    ASSUME NEW f, NEW S
    PROVE  SumFunctionOnSet(f, S) = (CHOOSE g : SumsOf(g, f, S))[S]
  BY DEF SumFunctionOnSet, FoldFunctionOnSet, MapThenFoldSet, SumsOf, Choice

(* Such a function exists, by induction over the size of the sets it sums. *)
LEMMA SumsExist ==
    ASSUME NEW f, NEW S, IsFiniteSet(S)
    PROVE  \E g : SumsOf(g, f, S)
<1> DEFINE Upto(n) == {s \in SUBSET S : Cardinality(s) <= n}
           Sums(g, n) == g = [s \in Upto(n) |->
                               IF s = {} THEN 0 ELSE f[Choice(s)] + g[s \ {Choice(s)}]]
           T == {n \in Nat : \E g : Sums(g, n)}
<1>0. \A s \in SUBSET S : IsFiniteSet(s) /\ Cardinality(s) \in Nat
  BY FS_Subset, FS_CardinalityType
<1>1. 0 \in T
  <2>1. Upto(0) = {{}}
    BY <1>0, FS_EmptySet
  <2>2. Sums([s \in Upto(0) |-> 0], 0)
    BY <2>1
  <2> QED
    BY <2>2
<1>2. ASSUME NEW n \in T PROVE n + 1 \in T
  <2>1. PICK g : Sums(g, n)
    OBVIOUS
  <2> DEFINE h == [s \in Upto(n + 1) |->
                     IF s = {} THEN 0 ELSE f[Choice(s)] + g[s \ {Choice(s)}]]
  <2>2. ASSUME NEW s \in Upto(n + 1), s # {}
        PROVE  s \ {Choice(s)} \in Upto(n) /\ s \ {Choice(s)} \in Upto(n + 1)
    <3>1. Choice(s) \in s
      BY <2>2 DEF Choice
    <3>2. Cardinality(s \ {Choice(s)}) = Cardinality(s) - 1
      BY <1>0, <3>1, FS_RemoveElement
    <3> QED
      BY <1>0, <3>2
  <2>3. ASSUME NEW s \in Upto(n) PROVE h[s] = g[s]
    <3>1. s \in Upto(n + 1)
      BY <1>0
    <3>2. h[s] = IF s = {} THEN 0 ELSE f[Choice(s)] + g[s \ {Choice(s)}]
      BY <3>1
    <3>3. g[s] = IF s = {} THEN 0 ELSE f[Choice(s)] + g[s \ {Choice(s)}]
      BY <2>1
    <3> QED
      BY <3>2, <3>3
  <2>4. \A s \in Upto(n + 1) : s # {} => h[s \ {Choice(s)}] = g[s \ {Choice(s)}]
    <3> HIDE DEF h, Upto
    <3> QED
      BY <2>2, <2>3
  <2>5. Sums(h, n + 1)
    <3> DEFINE k == [s \in Upto(n + 1) |->
                     IF s = {} THEN 0 ELSE f[Choice(s)] + h[s \ {Choice(s)}]]
    <3>1. \A s \in Upto(n + 1) : h[s] = k[s]
      BY <2>4
    <3>2. h = k
      BY <3>1
    <3> QED
      BY <3>2
  <2>6. \E k : Sums(k, n + 1)
    BY <2>5, Zenon
  <2>7. n + 1 \in Nat
    OBVIOUS
  <2> QED
    BY <2>6, <2>7, Zenon
<1>3. T = Nat
  <2> HIDE DEF T
  <2>1. T \in SUBSET Nat
    BY DEF T
  <2> QED
    BY <1>1, <1>2, <2>1, NaturalsBySuccessor
<1>4. Upto(Cardinality(S)) = SUBSET S
  BY FS_Subset
<1>5. PICK g : Sums(g, Cardinality(S))
  <2>1. Cardinality(S) \in T
    <3> HIDE DEF T
    <3> QED
      BY <1>3, FS_CardinalityType
  <2> QED
    BY <2>1
<1> QED
  BY <1>4, <1>5 DEF SumsOf

(* Two of them agree on the sets that both sum. *)
LEMMA SumsAgree ==
    ASSUME NEW f, NEW S, IsFiniteSet(S), NEW R \in SUBSET S,
           NEW g, SumsOf(g, f, S), NEW h, SumsOf(h, f, R)
    PROVE  \A s \in SUBSET R : g[s] = h[s]
<1> DEFINE F == {s \in SUBSET R : g[s] = h[s]}
<1>1. ASSUME NEW s \in SUBSET R, \A x \in s : s \ {x} \in F PROVE s \in F
  <2>1. s # {} => Choice(s) \in s
    BY DEF Choice
  <2>2. s # {} => g[s \ {Choice(s)}] = h[s \ {Choice(s)}]
    BY <1>1, <2>1
  <2>3. g[s] = IF s = {} THEN 0 ELSE f[Choice(s)] + g[s \ {Choice(s)}]
    BY DEF SumsOf
  <2>4. h[s] = IF s = {} THEN 0 ELSE f[Choice(s)] + h[s \ {Choice(s)}]
    BY DEF SumsOf
  <2> QED
    BY <2>2, <2>3, <2>4
<1>2. IsFiniteSet(R)
  BY FS_Subset
<1>3. \A s \in SUBSET R : s \in F
  <2> HIDE DEF F
  <2> QED
    BY <1>1, <1>2, FiniteByRemoval
<1> QED
  BY <1>3

LEMMA SumOfEmpty ==
    ASSUME NEW f PROVE SumFunctionOnSet(f, {}) = 0
<1>1. PICK g : SumsOf(g, f, {})
  BY FS_EmptySet, SumsExist
<1>2. SumsOf(CHOOSE h : SumsOf(h, f, {}), f, {})
  BY <1>1, Zenon
<1> QED
  BY <1>2, SumIsChosen DEF SumsOf

LEMMA SumOfChoice ==
    ASSUME NEW f, NEW S, IsFiniteSet(S), S # {}
    PROVE  SumFunctionOnSet(f, S) = f[Choice(S)] + SumFunctionOnSet(f, S \ {Choice(S)})
<1> DEFINE R == S \ {Choice(S)}
           g == CHOOSE h : SumsOf(h, f, S)
           k == CHOOSE h : SumsOf(h, f, R)
<1>1. IsFiniteSet(R) /\ R \in SUBSET S
  BY FS_Subset
<1>2. SumsOf(g, f, S)
  <2>1. \E h : SumsOf(h, f, S)
    BY SumsExist
  <2> QED
    BY <2>1, Zenon
<1>3. SumsOf(k, f, R)
  <2>1. \E h : SumsOf(h, f, R)
    BY <1>1, SumsExist
  <2> QED
    BY <2>1, Zenon
<1>4. g[R] = k[R]
  <2> HIDE DEF g, k, R
  <2> QED
    BY <1>1, <1>2, <1>3, SumsAgree
<1>5. g[S] = f[Choice(S)] + g[R]
  <2> HIDE DEF g
  <2> QED
    BY <1>2 DEF SumsOf
<1>6. SumFunctionOnSet(f, S) = g[S] /\ SumFunctionOnSet(f, R) = k[R]
  BY SumIsChosen
<1> HIDE DEF g, k, R
<1>7. SumFunctionOnSet(f, S) = f[Choice(S)] + SumFunctionOnSet(f, R)
  BY <1>4, <1>5, <1>6
<1> QED
  BY <1>7 DEF R

-----------------------------------------------------------------------------
(* What the sum does, for functions with values in a set of integers *)

LEMMA SumOfIntegers ==
    ASSUME NEW S, IsFiniteSet(S), NEW f, \A x \in S : f[x] \in Int
    PROVE  \A s \in SUBSET S : SumFunctionOnSet(f, s) \in Int
<1> DEFINE F == {s \in SUBSET S : SumFunctionOnSet(f, s) \in Int}
<1>1. ASSUME NEW s \in SUBSET S, \A x \in s : s \ {x} \in F PROVE s \in F
  <2>1. CASE s = {}
    BY <2>1, SumOfEmpty
  <2>2. CASE s # {}
    <3>1. Choice(s) \in s /\ IsFiniteSet(s)
      BY <2>2, FS_Subset DEF Choice
    <3>2. SumFunctionOnSet(f, s) = f[Choice(s)] + SumFunctionOnSet(f, s \ {Choice(s)})
      BY <2>2, <3>1, SumOfChoice
    <3>3. SumFunctionOnSet(f, s \ {Choice(s)}) \in Int /\ f[Choice(s)] \in Int
      BY <1>1, <3>1
    <3> QED
      BY <3>2, <3>3
  <2> QED
    BY <2>1, <2>2
<1>2. \A s \in SUBSET S : s \in F
  <2> HIDE DEF F
  <2> QED
    BY <1>1, FiniteByRemoval
<1> QED
  BY <1>2

(* Any element may be taken off, not only the chosen one. *)
LEMMA SumOfElement ==
    ASSUME NEW S, IsFiniteSet(S), NEW f, \A x \in S : f[x] \in Int
    PROVE  \A s \in SUBSET S : \A x \in s :
               SumFunctionOnSet(f, s) = f[x] + SumFunctionOnSet(f, s \ {x})
<1> DEFINE F == {s \in SUBSET S : \A x \in s :
                   SumFunctionOnSet(f, s) = f[x] + SumFunctionOnSet(f, s \ {x})}
<1>1. ASSUME NEW s \in SUBSET S, \A x \in s : s \ {x} \in F PROVE s \in F
  <2>1. ASSUME NEW x \in s
        PROVE  SumFunctionOnSet(f, s) = f[x] + SumFunctionOnSet(f, s \ {x})
    <3> DEFINE c == Choice(s)
               r == (s \ {x}) \ {c}
    <3>1. c \in s /\ IsFiniteSet(s)
      BY FS_Subset DEF Choice
    <3>2. SumFunctionOnSet(f, s) = f[c] + SumFunctionOnSet(f, s \ {c})
      BY <3>1, SumOfChoice
    <3>3. CASE x = c
      BY <3>2, <3>3
    <3>4. CASE x # c
      <4>1. s \ {c} \in F /\ x \in s \ {c} /\ s \ {x} \in F /\ c \in s \ {x}
        BY <1>1, <3>1, <3>4
      <4>2. SumFunctionOnSet(f, s \ {c}) = f[x] + SumFunctionOnSet(f, (s \ {c}) \ {x})
        BY <4>1
      <4>3. SumFunctionOnSet(f, s \ {x}) = f[c] + SumFunctionOnSet(f, r)
        BY <4>1
      <4>4. (s \ {c}) \ {x} = r
        OBVIOUS
      <4>5. f[x] \in Int /\ f[c] \in Int /\ SumFunctionOnSet(f, r) \in Int
        BY <3>1, SumOfIntegers
      <4>6. SumFunctionOnSet(f, s \ {c}) = f[x] + SumFunctionOnSet(f, r)
        BY <4>2, <4>4, Zenon
      <4>7. \A i, j, k \in Int : i + (j + k) = j + (i + k)
        OBVIOUS
      <4> HIDE DEF c, r, F
      <4>8. f[c] + (f[x] + SumFunctionOnSet(f, r)) = f[x] + (f[c] + SumFunctionOnSet(f, r))
        BY <4>5, <4>7
      <4> QED
        BY <3>2, <4>3, <4>6, <4>8, Zenon
    <3> QED
      BY <3>3, <3>4
  <2> QED
    BY <2>1
<1>2. \A s \in SUBSET S : s \in F
  <2> HIDE DEF F
  <2> QED
    BY <1>1, FiniteByRemoval
<1> QED
  BY <1>2

(* Functions that agree have one sum. *)
LEMMA SumOfEqual ==
    ASSUME NEW S, IsFiniteSet(S), NEW f, NEW g, \A x \in S : f[x] = g[x]
    PROVE  SumFunctionOnSet(f, S) = SumFunctionOnSet(g, S)
<1> DEFINE F == {s \in SUBSET S : SumFunctionOnSet(f, s) = SumFunctionOnSet(g, s)}
<1>1. ASSUME NEW s \in SUBSET S, \A x \in s : s \ {x} \in F PROVE s \in F
  <2>1. CASE s = {}
    BY <2>1, SumOfEmpty
  <2>2. CASE s # {}
    <3>1. Choice(s) \in s /\ IsFiniteSet(s)
      BY <2>2, FS_Subset DEF Choice
    <3>2. /\ SumFunctionOnSet(f, s) = f[Choice(s)] + SumFunctionOnSet(f, s \ {Choice(s)})
          /\ SumFunctionOnSet(g, s) = g[Choice(s)] + SumFunctionOnSet(g, s \ {Choice(s)})
      BY <2>2, <3>1, SumOfChoice
    <3>3. /\ SumFunctionOnSet(f, s \ {Choice(s)}) = SumFunctionOnSet(g, s \ {Choice(s)})
          /\ f[Choice(s)] = g[Choice(s)]
      BY <1>1, <3>1
    <3> QED
      BY <3>2, <3>3
  <2> QED
    BY <2>1, <2>2
<1>2. \A s \in SUBSET S : s \in F
  <2> HIDE DEF F
  <2> QED
    BY <1>1, FiniteByRemoval
<1> QED
  BY <1>2

(* The sum of sums, and of comparisons. *)
LEMMA SumOfSums ==
    ASSUME NEW S, IsFiniteSet(S), NEW f, NEW g, NEW h,
           \A x \in S : f[x] \in Int /\ g[x] \in Int /\ h[x] = f[x] + g[x]
    PROVE  SumFunctionOnSet(h, S) = SumFunctionOnSet(f, S) + SumFunctionOnSet(g, S)
<1> DEFINE F == {s \in SUBSET S : SumFunctionOnSet(h, s) =
                   SumFunctionOnSet(f, s) + SumFunctionOnSet(g, s)}
<1>1. ASSUME NEW s \in SUBSET S, \A x \in s : s \ {x} \in F PROVE s \in F
  <2>1. CASE s = {}
    BY <2>1, SumOfEmpty
  <2>2. CASE s # {}
    <3>1. PICK x \in s : TRUE
      BY <2>2
    <3>2. /\ SumFunctionOnSet(f, s) = f[x] + SumFunctionOnSet(f, s \ {x})
          /\ SumFunctionOnSet(g, s) = g[x] + SumFunctionOnSet(g, s \ {x})
          /\ SumFunctionOnSet(h, s) = h[x] + SumFunctionOnSet(h, s \ {x})
      BY SumOfElement
    <3>3. /\ SumFunctionOnSet(f, s \ {x}) \in Int /\ f[x] \in Int
          /\ SumFunctionOnSet(g, s \ {x}) \in Int /\ g[x] \in Int
      BY SumOfIntegers
    <3>4. /\ SumFunctionOnSet(h, s \ {x}) =
                SumFunctionOnSet(f, s \ {x}) + SumFunctionOnSet(g, s \ {x})
          /\ h[x] = f[x] + g[x]
      BY <1>1, <3>1
    <3> QED
      BY <3>2, <3>3, <3>4
  <2> QED
    BY <2>1, <2>2
<1>2. \A s \in SUBSET S : s \in F
  <2> HIDE DEF F
  <2> QED
    BY <1>1, FiniteByRemoval
<1> QED
  BY <1>2

LEMMA SumOfSmaller ==
    ASSUME NEW S, IsFiniteSet(S), NEW f, NEW g,
           \A x \in S : f[x] \in Int /\ g[x] \in Int /\ f[x] <= g[x]
    PROVE  SumFunctionOnSet(f, S) <= SumFunctionOnSet(g, S)
<1> DEFINE F == {s \in SUBSET S : SumFunctionOnSet(f, s) <= SumFunctionOnSet(g, s)}
<1>1. ASSUME NEW s \in SUBSET S, \A x \in s : s \ {x} \in F PROVE s \in F
  <2>1. CASE s = {}
    BY <2>1, SumOfEmpty
  <2>2. CASE s # {}
    <3>1. PICK x \in s : TRUE
      BY <2>2
    <3>2. /\ SumFunctionOnSet(f, s) = f[x] + SumFunctionOnSet(f, s \ {x})
          /\ SumFunctionOnSet(g, s) = g[x] + SumFunctionOnSet(g, s \ {x})
      BY SumOfElement
    <3>3. /\ SumFunctionOnSet(f, s \ {x}) \in Int /\ f[x] \in Int
          /\ SumFunctionOnSet(g, s \ {x}) \in Int /\ g[x] \in Int
      BY SumOfIntegers
    <3>4. SumFunctionOnSet(f, s \ {x}) <= SumFunctionOnSet(g, s \ {x}) /\ f[x] <= g[x]
      BY <1>1, <3>1
    <3> QED
      BY <3>2, <3>3, <3>4
  <2> QED
    BY <2>1, <2>2
<1>2. \A s \in SUBSET S : s \in F
  <2> HIDE DEF F
  <2> QED
    BY <1>1, FiniteByRemoval
<1> QED
  BY <1>2

(* The same value everywhere *)
LEMMA SumOfConstant ==
    ASSUME NEW S, IsFiniteSet(S), NEW f, NEW k \in Int, \A x \in S : f[x] = k
    PROVE  SumFunctionOnSet(f, S) = k * Cardinality(S)
<1> DEFINE F == {s \in SUBSET S : SumFunctionOnSet(f, s) = k * Cardinality(s)}
<1>1. ASSUME NEW s \in SUBSET S, \A x \in s : s \ {x} \in F PROVE s \in F
  <2>1. CASE s = {}
    <3>1. k * 0 = 0
      OBVIOUS
    <3> QED
      BY <2>1, <3>1, SumOfEmpty, FS_EmptySet
  <2>2. CASE s # {}
    <3>1. PICK x \in s : TRUE
      BY <2>2
    <3>2. SumFunctionOnSet(f, s) = k + SumFunctionOnSet(f, s \ {x})
      BY SumOfElement
    <3>3. IsFiniteSet(s) /\ Cardinality(s) \in Nat
      BY FS_Subset, FS_CardinalityType
    <3>4. Cardinality(s \ {x}) = Cardinality(s) - 1
      BY <3>1, <3>3, FS_RemoveElement
    <3>5. SumFunctionOnSet(f, s \ {x}) = k * Cardinality(s \ {x})
      BY <1>1, <3>1
    <3>6. \A c \in Int : k + k * (c - 1) = k * c
      OBVIOUS
    <3>7. SumFunctionOnSet(f, s) = k + k * (Cardinality(s) - 1)
      BY <3>2, <3>4, <3>5
    <3> QED
      BY <3>3, <3>6, <3>7
  <2> QED
    BY <2>1, <2>2
<1>2. \A s \in SUBSET S : s \in F
  <2> HIDE DEF F
  <2> QED
    BY <1>1, FiniteByRemoval
<1> QED
  BY <1>2

(* A sum of ones counts the elements that have one. *)
LEMMA SumOfMembers ==
    ASSUME NEW S, IsFiniteSet(S), NEW T, NEW f,
           \A x \in S : f[x] = IF x \in T THEN 1 ELSE 0
    PROVE  SumFunctionOnSet(f, S) = Cardinality(S \cap T)
<1> DEFINE F == {s \in SUBSET S : SumFunctionOnSet(f, s) = Cardinality(s \cap T)}
<1>0. \A x \in S : f[x] \in Int
  OBVIOUS
<1>1. ASSUME NEW s \in SUBSET S, \A x \in s : s \ {x} \in F PROVE s \in F
  <2>1. CASE s = {}
    <3>1. s \cap T = {} /\ Cardinality({}) = 0
      BY <2>1, FS_EmptySet
    <3> QED
      BY <2>1, <3>1, SumOfEmpty
  <2>2. CASE s # {}
    <3>1. PICK x \in s : TRUE
      BY <2>2
    <3>2. SumFunctionOnSet(f, s) = f[x] + SumFunctionOnSet(f, s \ {x})
      BY <1>0, SumOfElement
    <3>3. SumFunctionOnSet(f, s \ {x}) = Cardinality((s \ {x}) \cap T)
      BY <1>1, <3>1
    <3>4. (s \ {x}) \cap T = (s \cap T) \ {x}
      OBVIOUS
    <3>5. IsFiniteSet(s \cap T)
      BY FS_Subset
    <3>6. PICK n \in Nat : n = Cardinality(s \cap T)
      BY <3>5, FS_CardinalityType
    <3>7. Cardinality((s \cap T) \ {x}) = IF x \in s \cap T THEN n - 1 ELSE n
      BY <3>5, <3>6, FS_RemoveElement
    <3>8. SumFunctionOnSet(f, s) = f[x] + IF x \in T THEN n - 1 ELSE n
      BY <3>1, <3>2, <3>3, <3>4, <3>7
    <3>9. f[x] = IF x \in T THEN 1 ELSE 0
      BY <3>1
    <3> QED
      BY <3>6, <3>8, <3>9
  <2> QED
    BY <2>1, <2>2
<1>2. \A s \in SUBSET S : s \in F
  <2> HIDE DEF F
  <2> QED
    BY <1>1, FiniteByRemoval
<1> QED
  BY <1>2

-----------------------------------------------------------------------------
(* The same for SumFunction *)

LEMMA SumType ==
    ASSUME NEW S, IsFiniteSet(S), NEW f \in [S -> Int]
    PROVE  SumFunction(f) \in Int
  BY SumOfIntegers DEF SumFunction

LEMMA SumOfZeros ==
    ASSUME NEW S, IsFiniteSet(S)
    PROVE  SumFunction([x \in S |-> 0]) = 0
<1>1. SumFunctionOnSet([x \in S |-> 0], S) = 0 * Cardinality(S)
  BY SumOfConstant
<1>2. Cardinality(S) \in Nat
  BY FS_CardinalityType
<1> QED
  BY <1>1, <1>2 DEF SumFunction

LEMMA SumNotNegative ==
    ASSUME NEW S, IsFiniteSet(S), NEW f \in [S -> Nat]
    PROVE  SumFunction(f) \in Nat
<1> DEFINE zero == [x \in S |-> 0]
<1>1. \A x \in S : zero[x] \in Int /\ f[x] \in Int /\ zero[x] <= f[x]
  OBVIOUS
<1>2. SumFunctionOnSet(zero, S) <= SumFunctionOnSet(f, S)
  <2> HIDE DEF zero
  <2> QED
    BY <1>1, SumOfSmaller
<1>3. SumFunctionOnSet(zero, S) = 0
  BY SumOfZeros DEF SumFunction
<1>4. SumFunction(f) \in Int /\ SumFunction(f) = SumFunctionOnSet(f, S)
  BY SumType DEF SumFunction
<1> QED
  BY <1>2, <1>3, <1>4

(* One value changes. *)
LEMMA SumOfUpdate ==
    ASSUME NEW S, IsFiniteSet(S), NEW f \in [S -> Int], NEW g \in [S -> Int],
           NEW x \in S, \A y \in S \ {x} : g[y] = f[y]
    PROVE  SumFunction(g) = SumFunction(f) - f[x] + g[x]
<1>0. \A y \in S : f[y] \in Int /\ g[y] \in Int
  OBVIOUS
<1>1. SumFunctionOnSet(f, S) = f[x] + SumFunctionOnSet(f, S \ {x})
  BY <1>0, SumOfElement
<1>2. SumFunctionOnSet(g, S) = g[x] + SumFunctionOnSet(g, S \ {x})
  BY <1>0, SumOfElement
<1>3. SumFunctionOnSet(g, S \ {x}) = SumFunctionOnSet(f, S \ {x})
  BY FS_RemoveElement, SumOfEqual
<1>4. SumFunctionOnSet(f, S \ {x}) \in Int
  BY <1>0, SumOfIntegers
<1>5. DOMAIN f = S /\ DOMAIN g = S
  OBVIOUS
<1> QED
  BY <1>0, <1>1, <1>2, <1>3, <1>4, <1>5 DEF SumFunction

(* Every value is at most that of another function; of addition. *)
LEMMA SumMonotone ==
    ASSUME NEW S, IsFiniteSet(S), NEW f \in [S -> Int], NEW g \in [S -> Int],
           \A x \in S : f[x] <= g[x]
    PROVE  SumFunction(f) <= SumFunction(g)
<1>1. DOMAIN f = S /\ DOMAIN g = S /\ \A x \in S : f[x] \in Int /\ g[x] \in Int
  OBVIOUS
<1>2. SumFunctionOnSet(f, S) <= SumFunctionOnSet(g, S)
  BY <1>1, SumOfSmaller
<1> QED
  BY <1>1, <1>2 DEF SumFunction

LEMMA SumAdds ==
    ASSUME NEW S, IsFiniteSet(S), NEW f \in [S -> Int], NEW g \in [S -> Int],
           NEW h \in [S -> Int], \A x \in S : h[x] = f[x] + g[x]
    PROVE  SumFunction(h) = SumFunction(f) + SumFunction(g)
<1>1. DOMAIN f = S /\ DOMAIN g = S /\ DOMAIN h = S
      /\ \A x \in S : f[x] \in Int /\ g[x] \in Int
  OBVIOUS
<1>2. SumFunctionOnSet(h, S) = SumFunctionOnSet(f, S) + SumFunctionOnSet(g, S)
  BY <1>1, SumOfSums
<1> QED
  BY <1>1, <1>2 DEF SumFunction

-----------------------------------------------------------------------------
(* Division: a counter that grows by L and is reported in batches of b.    *)

LEMMA ProductGrows ==
    ASSUME NEW x \in Int, NEW y \in Int, NEW L \in Nat, x < y
    PROVE  x * L + L <= y * L
<1>1. PICK d \in Nat : y = x + 1 + d
  <2>1. y - x - 1 \in Nat /\ y = x + 1 + (y - x - 1)
    OBVIOUS
  <2> QED
    BY <2>1
<1>2. y * L = x * L + L + d * L
  BY <1>1
<1>3. d * L \in Nat
  OBVIOUS
<1>4. x * L \in Int
  OBVIOUS
<1> QED
  BY <1>2, <1>3, <1>4

LEMMA QuotientAndRemainder ==
    ASSUME NEW n \in Nat, NEW b \in Nat \ {0}
    PROVE  \E q \in Int, r \in 0..(b - 1) : n = q * b + r /\ r = n % b
<1>1. n % b \in 0..(b - 1) /\ n = (n \div b) * b + (n % b) /\ n \div b \in Int
  OBVIOUS
<1> QED
  BY <1>1

(* A remainder is what is left below the divisor. *)
LEMMA RemainderOf ==
    ASSUME NEW n \in Nat, NEW b \in Nat \ {0}, NEW q \in Int, NEW r \in 0..(b - 1),
           n = q * b + r
    PROVE  n % b = r
<1>1. PICK p \in Int, s \in 0..(b - 1) : n = p * b + s /\ s = n % b
  BY QuotientAndRemainder
<1>2. p * b \in Int /\ q * b \in Int
  OBVIOUS
<1>3. CASE p < q
  <2>1. p * b + b <= q * b
    BY <1>3, ProductGrows
  <2> QED
    BY <1>1, <1>2, <2>1
<1>4. CASE q < p
  <2>1. q * b + b <= p * b
    BY <1>4, ProductGrows
  <2> QED
    BY <1>1, <1>2, <2>1
<1>5. CASE p = q
  <2>1. p * b = q * b
    BY <1>5
  <2>2. s \in Int /\ r \in Int /\ q * b + r = q * b + s
    BY <1>1, <2>1
  <2>3. r = s
    BY <1>2, <2>2
  <2> QED
    BY <1>1, <2>3
<1> QED
  BY <1>3, <1>4, <1>5

(* A quotient is how often the divisor goes into the number. *)
LEMMA QuotientOf ==
    ASSUME NEW n \in Nat, NEW p \in Nat \ {0}, NEW q \in Int, NEW r \in 0..(p - 1),
           n = q * p + r
    PROVE  n \div p = q
<1>1. n % p = r
  BY RemainderOf
<1>2. PICK u \in Int : u = n \div p /\ n = u * p + (n % p)
  OBVIOUS
<1>3. u * p + r = q * p + r
  BY <1>1, <1>2
<1>4. u * p \in Int /\ q * p \in Int
  OBVIOUS
<1>5. u * p = q * p
  BY <1>3, <1>4
<1>6. ~(u < q)
  <2>1. SUFFICES ASSUME u < q PROVE FALSE
    OBVIOUS
  <2>2. u * p + p <= q * p
    BY <2>1, ProductGrows
  <2> QED
    BY <1>4, <1>5, <2>2
<1>7. ~(q < u)
  <2>1. SUFFICES ASSUME q < u PROVE FALSE
    OBVIOUS
  <2>2. q * p + p <= u * p
    BY <2>1, ProductGrows
  <2> QED
    BY <1>4, <1>5, <2>2
<1> QED
  BY <1>2, <1>6, <1>7

LEMMA NaturalQuotient ==
    ASSUME NEW n \in Nat, NEW p \in Nat \ {0}
    PROVE  n \div p \in Nat
<1>1. PICK u \in Int, r \in 0..(p - 1) : u = n \div p /\ n = u * p + r
  OBVIOUS
<1>2. ~(u < 0)
  <2>1. SUFFICES ASSUME u < 0 PROVE FALSE
    OBVIOUS
  <2>2. u * p + p <= 0 * p
    BY <2>1, ProductGrows
  <2>3. u * p \in Int /\ 0 * p = 0
    OBVIOUS
  <2> QED
    BY <1>1, <2>2, <2>3
<1> QED
  BY <1>1, <1>2

(* Steps of L reach a multiple of b, itself a multiple of L, exactly; only *)
(* there the full multiples of b below n grow.                             *)
LEMMA FullMultiples ==
    ASSUME NEW L \in Nat \ {0}, NEW b \in Nat \ {0}, NEW n \in Nat,
           \E m \in Nat : b = m * L, \E k \in Nat : n = k * L
    PROVE  (n + L) - ((n + L) % b) = (n - (n % b)) + IF (n + L) % b = 0 THEN b ELSE 0
<1>m. PICK m \in Nat : b = m * L
  OBVIOUS
<1>k. PICK k \in Nat : n = k * L
  OBVIOUS
<1>1. PICK q \in Int, r \in 0..(b - 1) : n = q * b + r /\ r = n % b
  BY QuotientAndRemainder
<1>2. PICK j \in Int : r = j * L
  <2>1. q * (m * L) = (q * m) * L /\ q * m \in Int /\ (q * m) * L \in Int
    OBVIOUS
  <2>2. r = k * L - (q * m) * L
    <3>1. q * b = (q * m) * L /\ k * L \in Int /\ r \in Int
      BY <1>m, <2>1
    <3>2. PICK u \in Int, v \in Int : u = (q * m) * L /\ v = k * L
      BY <2>1, <3>1
    <3>3. v = u + r
      BY <1>1, <1>k, <3>1, <3>2
    <3>4. r = v - u
      BY <3>1, <3>3
    <3> QED
      BY <3>2, <3>4
  <2>3. PICK z \in Int : z = q * m
    BY <2>1
  <2>4. k * L - z * L = (k - z) * L /\ k - z \in Int
    OBVIOUS
  <2> QED
    BY <2>2, <2>3, <2>4
<1>3. j < m
  <2>1. CASE m <= j
    <3>1. m * L <= j * L
      <4>1. CASE m = j
        BY <4>1
      <4>2. CASE m < j
        <5>1. m * L + L <= j * L
          BY <4>2, ProductGrows
        <5>2. m * L \in Int /\ j * L \in Int
          OBVIOUS
        <5> QED
          BY <5>1, <5>2
      <4> QED
        BY <2>1, <4>1, <4>2
    <3> QED
      BY <1>m, <1>1, <1>2, <3>1
  <2> QED
    BY <2>1
<1>4. r + L <= b
  <2>1. j * L + L <= m * L
    BY <1>3, ProductGrows
  <2> QED
    BY <1>m, <1>2, <2>1
<1>5. q * b \in Int /\ r \in Int /\ b \in Int
  BY <1>1
<1>6. CASE r + L = b
  <2>1. n + L = (q + 1) * b + 0 /\ n + L \in Nat /\ q + 1 \in Int /\ 0 \in 0..(b - 1)
    BY <1>1, <1>5, <1>6
  <2>2. (n + L) % b = 0
    BY <2>1, RemainderOf
  <2>3. (n + L) - 0 = (n - r) + b
    BY <1>1, <1>6
  <2>4. n % b = r
    BY <1>1
  <2> QED
    BY <2>2, <2>3, <2>4, Zenon
<1>7. CASE r + L < b
  <2>1. n + L = q * b + (r + L) /\ n + L \in Nat /\ r + L \in 0..(b - 1)
    BY <1>1, <1>5, <1>7
  <2>2. (n + L) % b = r + L
    BY <2>1, RemainderOf
  <2>3. r + L # 0 /\ (n + L) - (r + L) = (n - r) + 0
    BY <1>1
  <2>5. (IF (n + L) % b = 0 THEN b ELSE 0) = 0
    BY <2>2, <2>3
  <2>6. n % b = r
    BY <1>1
  <2> QED
    BY <2>2, <2>3, <2>5, <2>6, Zenon
<1> QED
  BY <1>1, <1>4, <1>5, <1>6, <1>7
=============================================================================
