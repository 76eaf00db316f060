---------------------------- MODULE BrokerProofs ----------------------------
(***************************************************************************)
(* What the venue's operators make of an order and of the shares held for  *)
(* orders, for the proofs about the modules that use them.                 *)
(*                                                                         *)
(* Held is a sum over the order table, and the library's theorems about    *)
(* folds take operators as parameters, which the provers cannot            *)
(* instantiate.  The first part therefore proves what is needed of the sum *)
(* of a function over a finite set from its definition.  Where that needs  *)
(* induction over the set, it looks at a smallest subset that fails.       *)
(***************************************************************************)
EXTENDS Broker, FiniteSetTheorems, WellFoundedInduction, TLAPS

(***************************************************************************)
(* Sums.                                                                   *)
(***************************************************************************)

\* A set of naturals has a least element.
LEMMA LeastExists ==
    ASSUME NEW S, S \subseteq Nat, S # {}
    PROVE  \E x \in S : \A y \in S : x <= y
<1>1. \E R : IsWellFoundedOn(R, Nat) /\ \A a, b \in Nat : a < b => <<a, b>> \in R
  <2> DEFINE less == OpToRel(<, Nat)
  <2>1. IsWellFoundedOn(less, Nat)
    BY NatLessThanWellFounded
  <2>2. \A a, b \in Nat : a < b => <<a, b>> \in less
    BY DEF OpToRel
  <2> HIDE DEF less
  <2> QED  BY <2>1, <2>2
<1>2. PICK R : IsWellFoundedOn(R, Nat) /\ \A a, b \in Nat : a < b => <<a, b>> \in R
  BY <1>1
<1>3. \E x \in S : \A y \in S : ~(<<y, x>> \in R)
  <2>1. IsWellFoundedOn(R, Nat)
    BY <1>2
  <2> QED  BY <2>1, WFMin
<1>4. PICK x \in S : \A y \in S : ~(<<y, x>> \in R)
  BY <1>3
<1>5. \A y \in S : ~(y < x)
  BY <1>2, <1>4
<1> QED  BY <1>4, <1>5

\* A set of finite sets that is not empty has a smallest one.
LEMMA SmallestExists ==
    ASSUME NEW C, C # {}, \A S \in C : IsFiniteSet(S)
    PROVE  \E S \in C : \A T \in C : Cardinality(S) <= Cardinality(T)
<1> DEFINE N == {Cardinality(S) : S \in C}
<1>1. N \subseteq Nat /\ N # {}
  BY FS_CardinalityType
<1>2. PICK n \in N : \A m \in N : n <= m
  BY <1>1, LeastExists
<1> QED  BY <1>2

\* Of the subsets of a finite set for which something fails, one is smallest.
LEMMA SmallestFailure ==
    ASSUME NEW S, IsFiniteSet(S), NEW C, C \subseteq SUBSET S, C # {}
    PROVE  \E T \in C : /\ IsFiniteSet(T)
                        /\ \A x \in T : T \ {x} \in SUBSET S /\ T \ {x} \notin C
<1>1. \A T \in C : IsFiniteSet(T)
  BY FS_Subset
<1>2. PICK T \in C : \A U \in C : Cardinality(T) <= Cardinality(U)
  BY <1>1, SmallestExists
<1>3. ASSUME NEW x \in T
      PROVE  Cardinality(T \ {x}) < Cardinality(T)
  <2>1. IsFiniteSet(T) /\ Cardinality(T) \in Nat
    BY <1>1, FS_CardinalityType
  <2>2. Cardinality(T \ {x}) = Cardinality(T) - 1
    BY <2>1, FS_RemoveElement
  <2> QED  BY <2>1, <2>2
<1>4. ASSUME NEW x \in T, T \ {x} \in C
      PROVE  FALSE
  <2>1. Cardinality(T) <= Cardinality(T \ {x}) /\ Cardinality(T \ {x}) < Cardinality(T)
    BY <1>2, <1>3, <1>4
  <2>2. Cardinality(T) \in Nat /\ Cardinality(T \ {x}) \in Nat
    BY <1>1, <1>4, FS_CardinalityType
  <2> QED  BY <2>1, <2>2
<1> QED  BY <1>1, <1>4

\* The element a fold takes next, what that makes of the sum of s when g has the sums of
\* smaller sets, and the functions defined by that.
Picked(s) == CHOOSE x \in s : TRUE
FoldRule(w, g, s) == IF s = {} THEN 0 ELSE w[Picked(s)] + g[s \ {Picked(s)}]
FoldsTo(w, g, D) == g = [s \in D |-> FoldRule(w, g, s)]

\* A sum is the value of such a function.
LEMMA SumIsFold ==
    ASSUME NEW w, NEW S
    PROVE  SumFunctionOnSet(w, S) = (CHOOSE g : FoldsTo(w, g, SUBSET S))[S]
  BY DEF SumFunctionOnSet, FoldFunctionOnSet, MapThenFoldSet, FoldsTo, FoldRule, Picked

UpTo(S, n) == {s \in SUBSET S : Cardinality(s) <= n}

\* What is left without the element picked is one smaller.
LEMMA PickedLeft ==
    ASSUME NEW S, IsFiniteSet(S), NEW s \in SUBSET S, s # {}
    PROVE  /\ Picked(s) \in s /\ s \ {Picked(s)} \in SUBSET S
           /\ IsFiniteSet(s) /\ Cardinality(s) \in Nat /\ IsFiniteSet(s \ {Picked(s)})
           /\ Cardinality(s \ {Picked(s)}) = Cardinality(s) - 1
<1>1. Picked(s) \in s
  BY DEF Picked
<1>2. IsFiniteSet(s) /\ Cardinality(s) \in Nat
  BY FS_Subset, FS_CardinalityType
<1> QED  BY <1>1, <1>2, FS_RemoveElement

\* The function a fold is defined by exists.
LEMMA FoldExists ==
    ASSUME NEW w, NEW S, IsFiniteSet(S)
    PROVE  \E g : FoldsTo(w, g, SUBSET S)
<1> DEFINE Bad == {n \in Nat : ~\E g : FoldsTo(w, g, UpTo(S, n))}
<1>1. ASSUME Bad # {} PROVE FALSE
  <2>1. PICK n \in Bad : \A m \in Bad : n <= m
    BY <1>1, LeastExists
  <2>2. CASE n = 0
    <3>1. \A s \in UpTo(S, 0) : s = {}
      BY FS_Subset, FS_CardinalityType, FS_EmptySet DEF UpTo
    <3>2. FoldsTo(w, [s \in UpTo(S, 0) |-> 0], UpTo(S, 0))
      BY <3>1 DEF FoldsTo, FoldRule
    <3> QED  BY <2>1, <2>2, <3>2
  <2>3. CASE n # 0
    <3>1. n - 1 \in Nat /\ n - 1 \notin Bad
      BY <2>1, <2>3
    <3>2. PICK g : FoldsTo(w, g, UpTo(S, n - 1))
      BY <3>1
    <3> DEFINE h == [s \in UpTo(S, n) |-> FoldRule(w, g, s)]
    <3>3. ASSUME NEW s \in UpTo(S, n)
          PROVE  FoldRule(w, h, s) = FoldRule(w, g, s)
      <4>1. CASE s = {}
        BY <4>1 DEF FoldRule
      <4>2. CASE s # {}
        <5> DEFINE t == s \ {Picked(s)}
        <5>1. t \in UpTo(S, n - 1) /\ t \in UpTo(S, n)
          BY <2>1, <4>2, PickedLeft DEF UpTo
        <5>2. h[t] = FoldRule(w, g, t)
          BY <5>1
        <5>3. g[t] = FoldRule(w, g, t)
          BY <3>2, <5>1 DEF FoldsTo
        <5> HIDE DEF h
        <5> QED  BY <4>2, <5>2, <5>3 DEF FoldRule
      <4> QED  BY <4>1, <4>2
    <3>4. h = [s \in UpTo(S, n) |-> FoldRule(w, h, s)]
      <4>1. \A s \in UpTo(S, n) : h[s] = FoldRule(w, h, s)
        BY <3>3
      <4> HIDE DEF h
      <4> QED  BY <4>1 DEF h
    <3>5. FoldsTo(w, h, UpTo(S, n))
      BY <3>4 DEF FoldsTo
    <3> QED  BY <2>1, <3>5
  <2> QED  BY <2>2, <2>3
<1>2. Cardinality(S) \in Nat /\ SUBSET S = UpTo(S, Cardinality(S))
  BY FS_CardinalityType, FS_Subset DEF UpTo
<1>3. Cardinality(S) \notin Bad
  BY <1>1
<1>4. PICK g : FoldsTo(w, g, UpTo(S, Cardinality(S)))
  BY <1>2, <1>3
<1> QED  BY <1>2, <1>4

SameFold(w, S, T, g, h) == FoldsTo(w, g, SUBSET S) /\ FoldsTo(w, h, SUBSET T) => g[T] = h[T]

\* Two such functions agree.
LEMMA FoldIsUnique ==
    ASSUME NEW w, NEW S, IsFiniteSet(S), NEW T \in SUBSET S,
           NEW g, NEW h
    PROVE  SameFold(w, S, T, g, h)
<1> SUFFICES ASSUME FoldsTo(w, g, SUBSET S), FoldsTo(w, h, SUBSET T)
             PROVE  g[T] = h[T]
  BY DEF SameFold
<1> DEFINE Bad == {s \in SUBSET T : g[s] # h[s]}
<1>1. ASSUME Bad # {} PROVE FALSE
  <2>1. IsFiniteSet(T) /\ Bad \subseteq SUBSET T
    <3>1. IsFiniteSet(T)
      BY FS_Subset
    <3> QED  BY <3>1
  <2>2. PICK s \in Bad : /\ IsFiniteSet(s)
                         /\ \A x \in s : s \ {x} \in SUBSET T /\ s \ {x} \notin Bad
    <3> HIDE DEF Bad
    <3> QED  BY <1>1, <2>1, SmallestFailure
  <2>3. g[s] = FoldRule(w, g, s) /\ h[s] = FoldRule(w, h, s)
    BY DEF FoldsTo
  <2>4. Picked(s) \in s
    BY <2>3 DEF FoldRule, Picked
  <2> QED  BY <2>2, <2>3, <2>4 DEF FoldRule
<1> QED  BY <1>1

\* A sum over a finite set, one element at a time.
LEMMA SumUnfolds ==
    ASSUME NEW w, NEW S, IsFiniteSet(S)
    PROVE  SumFunctionOnSet(w, S) =
               IF S = {} THEN 0 ELSE w[Picked(S)] + SumFunctionOnSet(w, S \ {Picked(S)})
<1> DEFINE R == S \ {Picked(S)}
<1>1. ASSUME NEW T \in SUBSET S
      PROVE  \E g : FoldsTo(w, g, SUBSET T) /\ SumFunctionOnSet(w, T) = g[T]
  <2>1. \E g : FoldsTo(w, g, SUBSET T)
    BY FoldExists, FS_Subset
  <2>2. FoldsTo(w, CHOOSE g : FoldsTo(w, g, SUBSET T), SUBSET T)
    BY <2>1
  <2> QED  BY <2>2, SumIsFold
<1>2. PICK g : FoldsTo(w, g, SUBSET S) /\ SumFunctionOnSet(w, S) = g[S]
  BY <1>1
<1>3. PICK h : FoldsTo(w, h, SUBSET R) /\ SumFunctionOnSet(w, R) = h[R]
  BY <1>1
<1>4. R \in SUBSET S
  OBVIOUS
<1>5. g[R] = h[R]
  <2>1. \A G, H : SameFold(w, S, R, G, H)
    BY <1>4, FoldIsUnique
  <2> QED  BY <1>2, <1>3, <2>1 DEF SameFold
<1>6. g[S] = FoldRule(w, g, S)
  BY <1>2 DEF FoldsTo
<1> QED  BY <1>2, <1>3, <1>5, <1>6 DEF FoldRule

\* A sum of naturals is one.
LEMMA SumIsNat ==
    ASSUME NEW S, IsFiniteSet(S), NEW w, \A x \in S : w[x] \in Nat
    PROVE  SumFunctionOnSet(w, S) \in Nat
<1> DEFINE Bad == {T \in SUBSET S : SumFunctionOnSet(w, T) \notin Nat}
<1>1. ASSUME Bad # {} PROVE FALSE
  <2>1. PICK T \in Bad : /\ IsFiniteSet(T)
                         /\ \A x \in T : T \ {x} \in SUBSET S /\ T \ {x} \notin Bad
    <3>1. Bad \subseteq SUBSET S
      OBVIOUS
    <3> HIDE DEF Bad
    <3> QED  BY <1>1, <3>1, SmallestFailure
  <2>2. SumFunctionOnSet(w, T) =
          IF T = {} THEN 0 ELSE w[Picked(T)] + SumFunctionOnSet(w, T \ {Picked(T)})
    BY <2>1, SumUnfolds
  <2>3. Picked(T) \in T
    BY <2>2 DEF Picked
  <2> QED  BY <2>1, <2>2, <2>3
<1> QED  BY <1>1

\* Any element can be the one that is added last.
LEMMA SumTakesOut ==
    ASSUME NEW S, IsFiniteSet(S), NEW w, \A x \in S : w[x] \in Nat, NEW y \in S
    PROVE  SumFunctionOnSet(w, S) = w[y] + SumFunctionOnSet(w, S \ {y})
<1> DEFINE Sum(T) == SumFunctionOnSet(w, T)
<1> DEFINE Bad == {T \in SUBSET S : \E x \in T : Sum(T) # w[x] + Sum(T \ {x})}
<1>1. ASSUME Bad # {} PROVE FALSE
  <2>1. PICK T \in Bad : /\ IsFiniteSet(T)
                         /\ \A x \in T : T \ {x} \in SUBSET S /\ T \ {x} \notin Bad
    <3>1. Bad \subseteq SUBSET S
      OBVIOUS
    <3> HIDE DEF Bad
    <3> QED  BY <1>1, <3>1, SmallestFailure
  <2>2. PICK x \in T : Sum(T) # w[x] + Sum(T \ {x})
    OBVIOUS
  <2>3. PICK f \in T : f = Picked(T)
    BY DEF Picked
  <2>4. Sum(T) = w[f] + Sum(T \ {f})
    BY <2>1, <2>3, SumUnfolds
  <2>5. f # x
    BY <2>2, <2>4
  <2>6. /\ Sum(T \ {f}) = w[x] + Sum((T \ {f}) \ {x})
        /\ Sum(T \ {x}) = w[f] + Sum((T \ {x}) \ {f})
    BY <2>1, <2>5
  <2>7. (T \ {f}) \ {x} = (T \ {x}) \ {f}
    OBVIOUS
  <2>8. w[x] \in Nat /\ w[f] \in Nat /\ Sum((T \ {f}) \ {x}) \in Nat
    <3>1. (T \ {f}) \ {x} \in SUBSET S /\ IsFiniteSet((T \ {f}) \ {x})
      BY FS_Subset
    <3>2. \A v \in (T \ {f}) \ {x} : w[v] \in Nat
      BY <3>1
    <3> QED  BY <3>1, <3>2, SumIsNat
  <2>9. Sum(T) = w[x] + Sum(T \ {x})
    <3> HIDE DEF Sum, Bad
    <3> QED  BY <2>4, <2>6, <2>7, <2>8
  <2> QED  BY <2>2, <2>9
<1> QED  BY <1>1

\* Larger summands, larger sum.
LEMMA SumGrows ==
    ASSUME NEW S, IsFiniteSet(S), NEW v, NEW w,
           \A x \in S : v[x] \in Nat /\ w[x] \in Nat /\ v[x] <= w[x]
    PROVE  SumFunctionOnSet(v, S) <= SumFunctionOnSet(w, S)
<1> DEFINE Bad == {T \in SUBSET S : ~(SumFunctionOnSet(v, T) <= SumFunctionOnSet(w, T))}
<1>1. ASSUME Bad # {} PROVE FALSE
  <2>1. PICK T \in Bad : /\ IsFiniteSet(T)
                         /\ \A x \in T : T \ {x} \in SUBSET S /\ T \ {x} \notin Bad
    <3>1. Bad \subseteq SUBSET S
      OBVIOUS
    <3> HIDE DEF Bad
    <3> QED  BY <1>1, <3>1, SmallestFailure
  <2> DEFINE R == T \ {Picked(T)}
  <2>3. /\ SumFunctionOnSet(v, T) = IF T = {} THEN 0 ELSE v[Picked(T)] + SumFunctionOnSet(v, R)
        /\ SumFunctionOnSet(w, T) = IF T = {} THEN 0 ELSE w[Picked(T)] + SumFunctionOnSet(w, R)
    BY <2>1, SumUnfolds
  <2>4. Picked(T) \in T
    BY <2>3 DEF Picked
  <2>5. R \notin Bad /\ R \in SUBSET S /\ Picked(T) \in S /\ IsFiniteSet(R)
    BY <2>1, <2>4, FS_Subset
  <2>6. SumFunctionOnSet(v, R) <= SumFunctionOnSet(w, R)
    BY <2>5
  <2>7. SumFunctionOnSet(v, R) \in Nat /\ SumFunctionOnSet(w, R) \in Nat
    BY <2>5, SumIsNat
  <2>8. v[Picked(T)] \in Nat /\ w[Picked(T)] \in Nat /\ v[Picked(T)] <= w[Picked(T)]
    BY <2>5
  <2> QED  BY <2>3, <2>6, <2>7, <2>8
<1> QED  BY <1>1

\* Equal summands, equal sum.
LEMMA SumIsEqual ==
    ASSUME NEW S, IsFiniteSet(S), NEW v, NEW w, \A x \in S : v[x] \in Nat /\ v[x] = w[x]
    PROVE  SumFunctionOnSet(v, S) = SumFunctionOnSet(w, S)
<1>1. SumFunctionOnSet(v, S) <= SumFunctionOnSet(w, S)
  BY SumGrows
<1>2. SumFunctionOnSet(w, S) <= SumFunctionOnSet(v, S)
  BY SumGrows
<1>3. SumFunctionOnSet(v, S) \in Nat /\ SumFunctionOnSet(w, S) \in Nat
  BY SumIsNat
<1> QED  BY <1>1, <1>2, <1>3

\* A summand is part of the sum.
LEMMA SumHasPart ==
    ASSUME NEW S, IsFiniteSet(S), NEW w, \A x \in S : w[x] \in Nat, NEW y \in S
    PROVE  w[y] <= SumFunctionOnSet(w, S)
<1>1. SumFunctionOnSet(w, S) = w[y] + SumFunctionOnSet(w, S \ {y})
  BY SumTakesOut
<1>2. SumFunctionOnSet(w, S \ {y}) \in Nat
  <2>1. IsFiniteSet(S \ {y})
    BY FS_RemoveElement
  <2> QED  BY <2>1, SumIsNat
<1> QED  BY <1>1, <1>2

\* What changes in one summand changes in the sum.
LEMMA SumChanges ==
    ASSUME NEW S, IsFiniteSet(S), NEW v, NEW w, NEW y \in S,
           \A x \in S : v[x] \in Nat /\ w[x] \in Nat, \A x \in S \ {y} : v[x] = w[x]
    PROVE  SumFunctionOnSet(w, S) = SumFunctionOnSet(v, S) - v[y] + w[y]
<1>1. IsFiniteSet(S \ {y})
  BY FS_RemoveElement
<1>2. SumFunctionOnSet(v, S \ {y}) = SumFunctionOnSet(w, S \ {y})
  BY <1>1, SumIsEqual
<1>3. SumFunctionOnSet(v, S \ {y}) \in Nat
  BY <1>1, SumIsNat
<1>4. /\ SumFunctionOnSet(v, S) = v[y] + SumFunctionOnSet(v, S \ {y})
      /\ SumFunctionOnSet(w, S) = w[y] + SumFunctionOnSet(w, S \ {y})
  BY SumTakesOut
<1> QED  BY <1>2, <1>3, <1>4

\* Nothing but zeros.
LEMMA SumOfZeros ==
    ASSUME NEW S, IsFiniteSet(S), NEW w, \A x \in S : w[x] = 0
    PROVE  SumFunctionOnSet(w, S) = 0
<1> DEFINE Bad == {T \in SUBSET S : SumFunctionOnSet(w, T) # 0}
<1>1. ASSUME Bad # {} PROVE FALSE
  <2>1. PICK T \in Bad : /\ IsFiniteSet(T)
                         /\ \A x \in T : T \ {x} \in SUBSET S /\ T \ {x} \notin Bad
    <3>1. Bad \subseteq SUBSET S
      OBVIOUS
    <3> HIDE DEF Bad
    <3> QED  BY <1>1, <3>1, SmallestFailure
  <2>2. SumFunctionOnSet(w, T) =
          IF T = {} THEN 0 ELSE w[Picked(T)] + SumFunctionOnSet(w, T \ {Picked(T)})
    BY <2>1, SumUnfolds
  <2>3. Picked(T) \in T
    BY <2>2 DEF Picked
  <2> QED  BY <2>1, <2>2, <2>3
<1> QED  BY <1>1

\* A sum with one summand at most that is not zero.
LEMMA SumOfOne ==
    ASSUME NEW S, IsFiniteSet(S), NEW w, \A x \in S : w[x] \in Nat, NEW y,
           \A x \in S \ {y} : w[x] = 0
    PROVE  SumFunctionOnSet(w, S) = IF y \in S THEN w[y] ELSE 0
<1>1. CASE y \in S
  <2>1. SumFunctionOnSet(w, S) = w[y] + SumFunctionOnSet(w, S \ {y})
    BY <1>1, SumTakesOut
  <2>2. IsFiniteSet(S \ {y})
    BY FS_RemoveElement
  <2>3. SumFunctionOnSet(w, S \ {y}) = 0
    BY <2>2, SumOfZeros
  <2> QED  BY <1>1, <2>1, <2>3
<1>2. CASE y \notin S
  BY <1>2, SumOfZeros
<1> QED  BY <1>1, <1>2

\* The sum of two functions.
LEMMA SumOfBoth ==
    ASSUME NEW S, IsFiniteSet(S), NEW u, NEW v, NEW w,
           \A x \in S : u[x] \in Nat /\ v[x] \in Nat /\ w[x] = u[x] + v[x]
    PROVE  SumFunctionOnSet(w, S) = SumFunctionOnSet(u, S) + SumFunctionOnSet(v, S)
<1> DEFINE Both(T) == SumFunctionOnSet(w, T) = SumFunctionOnSet(u, T) + SumFunctionOnSet(v, T)
<1> DEFINE Bad == {T \in SUBSET S : ~Both(T)}
<1>1. ASSUME Bad # {} PROVE FALSE
  <2>1. PICK T \in Bad : /\ IsFiniteSet(T)
                         /\ \A x \in T : T \ {x} \in SUBSET S /\ T \ {x} \notin Bad
    <3>1. Bad \subseteq SUBSET S
      OBVIOUS
    <3> HIDE DEF Bad
    <3> QED  BY <1>1, <3>1, SmallestFailure
  <2> DEFINE R == T \ {Picked(T)}
  <2>2. /\ SumFunctionOnSet(u, T) = IF T = {} THEN 0 ELSE u[Picked(T)] + SumFunctionOnSet(u, R)
        /\ SumFunctionOnSet(v, T) = IF T = {} THEN 0 ELSE v[Picked(T)] + SumFunctionOnSet(v, R)
        /\ SumFunctionOnSet(w, T) = IF T = {} THEN 0 ELSE w[Picked(T)] + SumFunctionOnSet(w, R)
    BY <2>1, SumUnfolds
  <2>3. T # {}
    BY <2>2
  <2>4. Picked(T) \in T /\ Picked(T) \in S
    BY <2>3 DEF Picked
  <2>5. R \notin Bad /\ R \in SUBSET S /\ IsFiniteSet(R)
    BY <2>1, <2>4, FS_Subset
  <2>6. SumFunctionOnSet(w, R) = SumFunctionOnSet(u, R) + SumFunctionOnSet(v, R)
    BY <2>5
  <2>7. SumFunctionOnSet(u, R) \in Nat /\ SumFunctionOnSet(v, R) \in Nat
    BY <2>5, SumIsNat
  <2>8. /\ u[Picked(T)] \in Nat /\ v[Picked(T)] \in Nat
        /\ w[Picked(T)] = u[Picked(T)] + v[Picked(T)]
    BY <2>4
  <2>9. Both(T)
    <3> HIDE DEF R
    <3> QED  BY <2>2, <2>3, <2>6, <2>7, <2>8
  <2> QED  BY <2>9
<1> QED  BY <1>1

\* Zeros add nothing.
LEMMA SumOfPart ==
    ASSUME NEW S, IsFiniteSet(S), NEW P, P \subseteq S, NEW w, \A x \in S : w[x] \in Nat,
           \A x \in S \ P : w[x] = 0
    PROVE  SumFunctionOnSet(w, S) = SumFunctionOnSet(w, P)
<1> DEFINE Sum(T) == SumFunctionOnSet(w, T)
<1> DEFINE Rest == S \ P
<1> DEFINE Bad == {T \in SUBSET Rest : Sum(P \cup T) # Sum(P)}
<1>1. ASSUME Bad # {} PROVE FALSE
  <2>1. PICK T \in Bad : /\ IsFiniteSet(T)
                         /\ \A x \in T : T \ {x} \in SUBSET Rest /\ T \ {x} \notin Bad
    <3>1. Bad \subseteq SUBSET Rest /\ IsFiniteSet(Rest)
      BY FS_Subset
    <3> HIDE DEF Bad, Rest
    <3> QED  BY <1>1, <3>1, SmallestFailure
  <2>2. PICK x \in T : TRUE
    <3>1. T # {}
      BY DEF Sum
    <3> QED  BY <3>1
  <2>3. /\ P \cup T \in SUBSET S /\ IsFiniteSet(P \cup T) /\ x \in P \cup T
        /\ (P \cup T) \ {x} = P \cup (T \ {x})
    BY FS_Subset
  <2>4. Sum(P \cup T) = w[x] + Sum(P \cup (T \ {x}))
    <3>1. \A v \in P \cup T : w[v] \in Nat
      BY <2>3
    <3> QED  BY <2>3, <3>1, SumTakesOut
  <2>5. Sum(P \cup (T \ {x})) = Sum(P) /\ w[x] = 0
    BY <2>1
  <2>6. Sum(P) \in Nat
    <3>1. IsFiniteSet(P) /\ \A v \in P : w[v] \in Nat
      BY FS_Subset
    <3> QED  BY <3>1, SumIsNat
  <2>7. Sum(P \cup T) = Sum(P)
    <3> HIDE DEF Sum
    <3> QED  BY <2>4, <2>5, <2>6
  <2> QED  BY <2>7
<1>2. Rest \notin Bad
  BY <1>1
<1>3. P \cup Rest = S
  OBVIOUS
<1> QED  BY <1>2, <1>3

(***************************************************************************)
(* Orders.                                                                 *)
(***************************************************************************)

\* A stop or limit order the venue accepts is an order.
LEMMA PlacedIsOrder ==
    ASSUME NEW k \in Kinds, NEW p \in Prices, NEW q \in Qtys
    PROVE  Placed(k, p, q) \in Order
  BY BrokerAssumption DEF Placed, Order, Statuses, Qtys

\* A record of the order table stays one when the venue cancels or executes it.
LEMMA ChangedIsOrder ==
    ASSUME NEW o \in Order
    PROVE  /\ CancelRequested(o) \in Order
           /\ Settled(o) \in Order
           /\ \A n \in Qtys : n <= Unfilled(o) => Executed(o, n) \in Order
<1>1. CancelRequested(o) \in Order
  BY DEF CancelRequested, Order, Statuses
<1>2. Settled(o) \in Order
  BY DEF Settled, Order, Statuses
<1>3. ASSUME NEW n \in Qtys, n <= Unfilled(o)
      PROVE  Executed(o, n) \in Order
  <2>1. /\ o.filled \in 0 .. MaxQty /\ o.qty \in 1 .. MaxQty /\ o.status \in Statuses
        /\ n \in 1 .. MaxQty /\ n <= o.qty - o.filled /\ MaxQty \in Nat
    BY <1>3, BrokerAssumption DEF Unfilled, Order, Qtys
  <2>2. o.filled + n \in 0 .. MaxQty
    BY <2>1
  <2>3. (IF o.filled + n = o.qty THEN "filled" ELSE o.status) \in Statuses
    BY <2>1 DEF Statuses
  <2> QED  BY <2>2, <2>3 DEF Executed, Order
<1> QED  BY <1>1, <1>2, <1>3

\* What a change leaves of an order's fields.
LEMMA ChangedFields ==
    ASSUME NEW o \in Order
    PROVE  /\ CancelRequested(o).kind = o.kind /\ CancelRequested(o).filled = o.filled
           /\ CancelRequested(o).qty = o.qty
           /\ CancelRequested(o).status = IF o.status = "open" THEN "canceling" ELSE o.status
           /\ Settled(o).kind = o.kind /\ Settled(o).filled = o.filled
           /\ Settled(o).qty = o.qty /\ Settled(o).status = "canceled"
  BY DEF CancelRequested, Settled, Order

LEMMA ExecutedFields ==
    ASSUME NEW o \in Order, NEW n \in Qtys
    PROVE  /\ Executed(o, n).kind = o.kind /\ Executed(o, n).qty = o.qty
           /\ Executed(o, n).filled = o.filled + n
           /\ Executed(o, n).status = IF o.filled + n = o.qty THEN "filled" ELSE o.status
  BY DEF Executed, Order

LEMMA SellIsOrder ==
    ASSUME NEW k \in Kinds, NEW q \in Qtys
    PROVE  /\ Sell(k, q) \in Order
           /\ Sell(k, q).kind = k /\ Sell(k, q).status = "open"
           /\ Sell(k, q).qty = q /\ Sell(k, q).filled = 0
<1>1. AnyPrice \in Prices
  BY BrokerAssumption DEF AnyPrice
<1>2. Sell(k, q) \in Order
  BY <1>1, PlacedIsOrder DEF Sell
<1> QED  BY <1>2 DEF Sell, Placed

LEMMA BlankIsOrder ==
    /\ Blank \in Order
    /\ Blank.kind = "limit" /\ Blank.status = "unused" /\ Blank.filled = 0
<1> DEFINE c == Sell("limit", 1)
<1>1. c \in Order /\ c.kind = "limit" /\ c.filled = 0
  BY SellIsOrder, BrokerAssumption DEF Kinds, Qtys
<1>2. Blank = [c EXCEPT !.status = "unused"]
  BY DEF Blank
<1> HIDE DEF c
<1>3. Blank \in Order
  BY <1>1, <1>2 DEF Order, Statuses
<1> QED  BY <1>1, <1>2, <1>3 DEF Order

(***************************************************************************)
(* The shares held for orders.  The venue's orders are sound: none         *)
(* executes beyond its quantity, an id it never handed out executed        *)
(* nothing, and only a complete order is filled.                           *)
(***************************************************************************)

SoundOrder(o) ==
    /\ o \in Order
    /\ o.filled <= o.qty
    /\ o.status = "unused" => o.filled = 0
    /\ o.status \in {"open", "canceling"} => o.filled < o.qty
    /\ o.status = "filled" => o.filled = o.qty

Sound(t) == t \in [Oids -> Order] /\ \A o \in Oids : SoundOrder(t[o])

Reserves(t) == [o \in Oids |-> Reserved(t[o])]

\* What an order that was changed reserves.
LEMMA ReservedOrder ==
    ASSUME NEW o, SoundOrder(o)
    PROVE  /\ Reserved(o) \in 0 .. MaxQty
           /\ o.status \in {"open", "canceling"} => Reserved(o) = Unfilled(o) /\ Reserved(o) \in Qtys
           /\ o.status \notin {"open", "canceling"} => Reserved(o) = 0
  BY BrokerAssumption DEF SoundOrder, Order, Qtys, Reserved, Unfilled

LEMMA SettledReserves ==
    ASSUME NEW o, SoundOrder(o), o.status # "unused"
    PROVE  SoundOrder(Settled(o)) /\ Reserved(Settled(o)) = 0
<1>1. /\ Settled(o) \in Order /\ Settled(o).qty = o.qty /\ Settled(o).filled = o.filled
      /\ Settled(o).status = "canceled"
  BY ChangedIsOrder, ChangedFields DEF SoundOrder
<1> QED  BY <1>1 DEF SoundOrder, Reserved

LEMMA CancelReserves ==
    ASSUME NEW o, SoundOrder(o)
    PROVE  SoundOrder(CancelRequested(o)) /\ Reserved(CancelRequested(o)) = Reserved(o)
<1> DEFINE c == CancelRequested(o)
<1>1. /\ c \in Order /\ c.qty = o.qty /\ c.filled = o.filled
      /\ c.status = IF o.status = "open" THEN "canceling" ELSE o.status
  BY ChangedIsOrder, ChangedFields DEF SoundOrder
<1> HIDE DEF c
<1>2. SoundOrder(c) /\ Reserved(c) = Reserved(o)
  BY <1>1 DEF SoundOrder, Reserved, Unfilled
<1> QED  BY <1>2 DEF c

LEMMA SellReserves ==
    ASSUME NEW k \in Kinds, NEW q \in Qtys
    PROVE  SoundOrder(Sell(k, q)) /\ Reserved(Sell(k, q)) = q
  BY SellIsOrder, BrokerAssumption DEF SoundOrder, Reserved, Unfilled, Qtys

LEMMA BlankReserves == SoundOrder(Blank) /\ Reserved(Blank) = 0
<1>1. Blank.qty \in Qtys
  BY BlankIsOrder DEF Order
<1> QED  BY <1>1, BlankIsOrder, BrokerAssumption DEF SoundOrder, Reserved, Qtys

LEMMA ExecutedReserves ==
    ASSUME NEW o, SoundOrder(o), o.status \in {"open", "canceling"},
           NEW n \in Qtys, n <= Unfilled(o)
    PROVE  SoundOrder(Executed(o, n)) /\ Reserved(Executed(o, n)) = Reserved(o) - n
<1> DEFINE e == Executed(o, n)
<1>1. /\ e \in Order /\ e.qty = o.qty /\ e.filled = o.filled + n
      /\ e.status = IF o.filled + n = o.qty THEN "filled" ELSE o.status
  BY ChangedIsOrder, ExecutedFields DEF SoundOrder
<1>2. o.filled \in 0 .. MaxQty /\ o.qty \in 1 .. MaxQty /\ MaxQty \in Nat /\ n \in 1 .. MaxQty
  BY BrokerAssumption DEF SoundOrder, Order, Qtys
<1> HIDE DEF e
<1>3. SoundOrder(e) /\ Reserved(e) = Reserved(o) - n
  BY <1>1, <1>2 DEF SoundOrder, Reserved, Unfilled
<1> QED  BY <1>3 DEF e

LEMMA HeldIsSum ==
    ASSUME NEW t, Sound(t)
    PROVE  /\ IsFiniteSet(Oids)
           /\ Held(t) = SumFunctionOnSet(Reserves(t), Oids)
           /\ \A o \in Oids : Reserves(t)[o] = Reserved(t[o]) /\ Reserves(t)[o] \in Nat
<1>1. DOMAIN t = Oids
  BY DEF Sound
<1>2. Held(t) = SumFunctionOnSet(Reserves(t), Oids)
  BY <1>1 DEF Held, SumFunction, Reserves
<1>3. \A o \in Oids : Reserved(t[o]) \in 0 .. MaxQty
  BY ReservedOrder DEF Sound
<1> QED  BY <1>2, <1>3, BrokerAssumption DEF Reserves

\* Shares are held for every working order, and for no other.
LEMMA HeldForOrders ==
    ASSUME NEW t, Sound(t)
    PROVE  /\ Held(t) \in Nat
           /\ \A o \in Oids : Reserved(t[o]) <= Held(t)
           /\ (\A o \in Oids : Reserved(t[o]) = 0) => Held(t) = 0
<1>1. Held(t) \in Nat
  BY HeldIsSum, SumIsNat
<1>2. ASSUME NEW o \in Oids
      PROVE  Reserved(t[o]) <= Held(t)
  BY HeldIsSum, SumHasPart
<1>3. ASSUME \A o \in Oids : Reserved(t[o]) = 0
      PROVE  Held(t) = 0
  BY <1>3, HeldIsSum, SumOfZeros
<1> QED  BY <1>1, <1>2, <1>3

LEMMA HeldForOne ==
    ASSUME NEW t, Sound(t), NEW y \in Oids, \A o \in Oids \ {y} : Reserved(t[o]) = 0
    PROVE  Held(t) = Reserved(t[y])
<1>1. SumFunctionOnSet(Reserves(t), Oids) = Reserves(t)[y]
  BY HeldIsSum, SumOfOne
<1> QED  BY <1>1, HeldIsSum

\* One order changes.
LEMMA HeldChanges ==
    ASSUME NEW t, Sound(t), NEW y \in Oids, NEW r, SoundOrder(r),
           NEW u, u = [t EXCEPT ![y] = r]
    PROVE  Sound(u) /\ Held(u) = Held(t) - Reserved(t[y]) + Reserved(r)
<1>1. t \in [Oids -> Order] /\ \A o \in Oids : u[o] = IF o = y THEN r ELSE t[o]
  BY DEF Sound
<1>2. Sound(u)
  BY <1>1 DEF Sound, SoundOrder
<1>3. \A o \in Oids \ {y} : Reserves(t)[o] = Reserves(u)[o]
  BY <1>1 DEF Reserves
<1>4. SumFunctionOnSet(Reserves(u), Oids)
        = SumFunctionOnSet(Reserves(t), Oids) - Reserves(t)[y] + Reserves(u)[y]
  <2>1. /\ IsFiniteSet(Oids)
        /\ \A o \in Oids : Reserves(t)[o] \in Nat /\ Reserves(u)[o] \in Nat
    BY <1>2, HeldIsSum
  <2>2. PICK v, w : v = Reserves(t) /\ w = Reserves(u)
    OBVIOUS
  <2>3. /\ \A x \in Oids : v[x] \in Nat /\ w[x] \in Nat
        /\ \A x \in Oids \ {y} : v[x] = w[x]
    BY <1>3, <2>1, <2>2
  <2>4. SumFunctionOnSet(w, Oids) = SumFunctionOnSet(v, Oids) - v[y] + w[y]
    BY <2>1, <2>3, SumChanges
  <2> QED  BY <2>2, <2>4
<1>5. Reserves(u)[y] = Reserved(r) /\ Reserves(t)[y] = Reserved(t[y])
  BY <1>1 DEF Reserves
<1> QED  BY <1>2, <1>4, <1>5, HeldIsSum

\* Every order holds as much as before or less.
LEMMA HeldShrinks ==
    ASSUME NEW t, Sound(t), NEW u, Sound(u),
           \A o \in Oids : Reserved(u[o]) <= Reserved(t[o])
    PROVE  Held(u) <= Held(t)
<1>1. SumFunctionOnSet(Reserves(u), Oids) <= SumFunctionOnSet(Reserves(t), Oids)
  BY HeldIsSum, SumGrows
<1> QED  BY <1>1, HeldIsSum
=============================================================================
