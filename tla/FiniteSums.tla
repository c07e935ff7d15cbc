---------------------------- MODULE FiniteSums ----------------------------
(***************************************************************************)
(* What the sum of a function over a finite set is: SumFunctionOnSet of    *)
(* Functions, a fold that takes the elements one by one in an order of its *)
(* own. The sum does not depend on this order, grows with each element by  *)
(* its value, and changes with a value by the difference.                  *)
(*                                                                         *)
(* An induction is on a set of numbers, so that no operator stands for the *)
(* formula that it proves.                                                 *)
(***************************************************************************)
EXTENDS Integers, FiniteSets, Functions, FiniteSetTheorems, WellFoundedInduction, TLAPS

(* Induction over the numbers, and their least and greatest elements.      *)

\* A set of numbers that is not empty has a least one, since < is well-founded.
LEMMA LeastNumber ==
    ASSUME NEW T, T \subseteq Nat, T # {}
    PROVE  \E x \in T : \A y \in T : x <= y
<1> DEFINE R == OpToRel(<, Nat)
<1>1. IsWellFoundedOn(R, Nat)
    BY NatLessThanWellFounded
<1>2. \A x, y \in Nat : y < x => <<y, x>> \in R
    BY DEF R, OpToRel
<1> HIDE DEF R
<1>3. PICK x \in T : \A y \in T : ~ (<<y, x>> \in R)
    BY <1>1, WFMin
<1>4. \A y \in T : ~ (y < x)
    BY <1>2, <1>3
<1>5. \A y \in T : x <= y
    BY <1>4
<1> QED BY <1>5

\* A set of numbers that has 0, and with a number the next one, has them all.
LEMMA NumberInduction ==
    ASSUME NEW G, 0 \in G, \A n \in Nat : n \in G => n + 1 \in G
    PROVE  Nat \subseteq G
<1> SUFFICES ASSUME Nat \ G # {} PROVE FALSE
    OBVIOUS
<1>1. PICK x \in Nat \ G : \A y \in Nat \ G : x <= y
  <2>1. Nat \ G \subseteq Nat
      OBVIOUS
  <2> QED BY <2>1, LeastNumber
<1>2. x - 1 \in Nat /\ ~(x <= x - 1) /\ x - 1 + 1 = x
    BY <1>1
<1>3. x - 1 \in G
    BY <1>1, <1>2
<1> QED BY <1>1, <1>2, <1>3

\* What is left of a finite set of n + 1 elements without one of them.
LEMMA OneLess ==
    ASSUME NEW S, IsFiniteSet(S), NEW x \in S
    PROVE  /\ IsFiniteSet(S \ {x}) /\ Cardinality(S) \in Nat /\ Cardinality(S \ {x}) \in Nat
           /\ Cardinality(S) = Cardinality(S \ {x}) + 1
BY FS_RemoveElement, FS_CardinalityType

\* A finite one has a greatest, too: by induction on its size.
LEMMA GreatestNumber ==
    ASSUME NEW S, S \subseteq Nat, IsFiniteSet(S), S # {}
    PROVE  \E x \in S : \A y \in S : y <= x
<1> DEFINE Has(T) == \E x \in T : \A y \in T : y <= x
           G == {n \in Nat : \A T \in SUBSET S : Cardinality(T) = n /\ T # {} => Has(T)}
<1>1. \A T \in SUBSET S : IsFiniteSet(T)
    BY FS_Subset
<1>2. 0 \in G
    BY <1>1, FS_EmptySet
<1>3. ASSUME NEW n \in Nat, n \in G
      PROVE  n + 1 \in G
  <2> SUFFICES ASSUME NEW T \in SUBSET S, Cardinality(T) = n + 1, T # {}
               PROVE  Has(T)
      OBVIOUS
  <2>1. PICK a \in T : TRUE
      OBVIOUS
  <2>2. a \in Nat /\ T \subseteq Nat
      OBVIOUS
  <2>3. Cardinality(T \ {a}) = n
      BY <1>1, <2>1, OneLess
  <2>4. CASE T \ {a} = {}
    <3>1. \A y \in T : y <= a
        BY <2>2, <2>4
    <3> QED BY <3>1
  <2>5. CASE T \ {a} # {}
    <3>1. Has(T \ {a})
        BY <1>3, <2>3, <2>5
    <3>2. PICK b \in T \ {a} : \A y \in T \ {a} : y <= b
        BY <3>1
    <3>3. CASE a <= b
      <4>1. \A y \in T : y <= b
          BY <3>2, <3>3
      <4> QED BY <4>1
    <3>4. CASE ~(a <= b)
      <4>1. b \in Nat /\ b <= a
          BY <2>2, <3>4
      <4>2. \A y \in T : y \in Nat /\ (y = a \/ y <= b)
          BY <2>2, <3>2
      <4>3. \A y \in T : y <= a
          BY <2>2, <4>1, <4>2
      <4> QED BY <4>3
    <3> QED BY <3>3, <3>4
  <2> QED BY <2>4, <2>5
<1> HIDE DEF G
<1>4. Nat \subseteq G
    BY <1>2, <1>3, NumberInduction
<1>5. Cardinality(S) \in G
    BY <1>4, FS_CardinalityType
<1> QED BY <1>5 DEF G

---------------------------------------------------------------------------
(* The recursion of the fold has a solution, and one only.                 *)

Choice(s)         == CHOOSE x \in s : TRUE
Summand(F, g, s)  == IF s = {} THEN 0 ELSE F[Choice(s)] + g[s \ {Choice(s)}]
Adds(F, S, g)     == g = [s \in SUBSET S |-> Summand(F, g, s)]

\* The element the fold takes first is one of the set.
LEMMA ChoiceIsIn == \A s : s # {} => Choice(s) \in s
BY DEF Choice

\* A solution: one for the subsets of up to n + 1 elements from one for those of n.
LEMMA AddsExists ==
    ASSUME NEW F, NEW S, IsFiniteSet(S)
    PROVE  \E g : Adds(F, S, g)
<1> DEFINE Small(n) == {s \in SUBSET S : Cardinality(s) <= n}
           AddsTo(n, g) == g = [s \in Small(n) |-> Summand(F, g, s)]
           G == {n \in Nat : \E g : AddsTo(n, g)}
<1>1. \A s \in SUBSET S : IsFiniteSet(s) /\ Cardinality(s) \in Nat
    BY FS_Subset, FS_CardinalityType
<1>2. 0 \in G
  <2> DEFINE g == [s \in Small(0) |-> 0]
  <2>1. \A s \in Small(0) : s = {}
      BY <1>1, FS_EmptySet
  <2>2. \A s \in Small(0) : Summand(F, g, s) = 0
      BY <2>1 DEF Summand
  <2>3. AddsTo(0, g)
      BY <2>2
  <2> QED BY <2>3
<1>3. ASSUME NEW n \in Nat, n \in G
      PROVE  n + 1 \in G
  <2>1. PICK h : AddsTo(n, h)
      BY <1>3
  <2> DEFINE g == [s \in Small(n + 1) |-> Summand(F, h, s)]
  <2>2. Small(n) \subseteq Small(n + 1)
      BY <1>1
  <2>3. \A s \in Small(n) : g[s] = h[s]
      BY <2>1, <2>2
  <2>4. ASSUME NEW s \in Small(n + 1), s # {}
        PROVE  s \ {Choice(s)} \in Small(n)
    <3>1. Choice(s) \in s /\ IsFiniteSet(s)
        BY <1>1, <2>4, ChoiceIsIn
    <3>2. /\ Cardinality(s) \in Nat /\ Cardinality(s \ {Choice(s)}) \in Nat
          /\ Cardinality(s) = Cardinality(s \ {Choice(s)}) + 1
        BY <3>1, OneLess
    <3>3. Cardinality(s) <= n + 1
        OBVIOUS
    <3>4. Cardinality(s \ {Choice(s)}) <= n
        BY <3>2, <3>3
    <3> QED BY <3>4
  <2>5. g = [s \in Small(n + 1) |-> Summand(F, h, s)]
      OBVIOUS
  <2> HIDE DEF g, Small
  <2>6. ASSUME NEW s \in Small(n + 1)
        PROVE  Summand(F, g, s) = Summand(F, h, s)
    <3>1. CASE s = {}
        BY <3>1 DEF Summand
    <3>2. CASE s # {}
      <4>1. g[s \ {Choice(s)}] = h[s \ {Choice(s)}]
          BY <2>3, <2>4, <3>2
      <4> QED BY <3>2, <4>1 DEF Summand
    <3> QED BY <3>1, <3>2
  <2>7. AddsTo(n + 1, g)
      BY <2>5, <2>6
  <2> QED BY <2>7
<1> HIDE DEF G
<1>4. Nat \subseteq G
    BY <1>2, <1>3, NumberInduction
<1>5. Cardinality(S) \in G
    BY <1>4, FS_CardinalityType
<1>6. PICK g : AddsTo(Cardinality(S), g)
    BY <1>5 DEF G
<1>7. Small(Cardinality(S)) = SUBSET S
    BY FS_Subset
<1>8. Adds(F, S, g)
    BY <1>6, <1>7 DEF Adds
<1> QED BY <1>8

\* Solutions agree, also one for a subset with one for the whole.
LEMMA AddsUnique ==
    ASSUME NEW F, NEW S, IsFiniteSet(S), NEW g, Adds(F, S, g),
           NEW T \in SUBSET S, NEW h, Adds(F, T, h)
    PROVE  \A s \in SUBSET T : g[s] = h[s]
<1> DEFINE G == {n \in Nat : \A s \in SUBSET T : Cardinality(s) = n => g[s] = h[s]}
<1>1. \A s \in SUBSET T : IsFiniteSet(s) /\ Cardinality(s) \in Nat
    BY FS_Subset, FS_CardinalityType
<1>2. \A s \in SUBSET T : g[s] = Summand(F, g, s) /\ h[s] = Summand(F, h, s)
    BY DEF Adds
<1>3. 0 \in G
  <2>1. \A s \in SUBSET T : Cardinality(s) = 0 => s = {}
      BY <1>1, FS_EmptySet
  <2>2. \A s \in SUBSET T : Cardinality(s) = 0 => g[s] = 0 /\ h[s] = 0
      BY <1>2, <2>1 DEF Summand
  <2> QED BY <2>2
<1>4. ASSUME NEW n \in Nat, n \in G
      PROVE  n + 1 \in G
  <2> SUFFICES ASSUME NEW s \in SUBSET T, Cardinality(s) = n + 1
               PROVE  g[s] = h[s]
      OBVIOUS
  <2>1. s # {}
      BY FS_EmptySet
  <2>2. Choice(s) \in s
      BY <2>1, ChoiceIsIn
  <2>3. Cardinality(s \ {Choice(s)}) = n
      BY <1>1, <2>2, OneLess
  <2>4. g[s \ {Choice(s)}] = h[s \ {Choice(s)}]
      BY <1>4, <2>3
  <2> QED BY <1>2, <2>1, <2>4 DEF Summand
<1> HIDE DEF G
<1>5. Nat \subseteq G
    BY <1>3, <1>4, NumberInduction
<1>6. \A s \in SUBSET T : Cardinality(s) \in G
    BY <1>1, <1>5
<1> QED BY <1>6 DEF G

\* Hence the fold is what its recursion says, although it is defined by CHOOSE.
LEMMA SumAdds ==
    ASSUME NEW F, NEW S, IsFiniteSet(S)
    PROVE  \E g : Adds(F, S, g) /\ SumFunctionOnSet(F, S) = g[S]
<1> DEFINE g == CHOOSE g : g = [s \in SUBSET S |->
                                  IF s = {} THEN 0
                                  ELSE F[CHOOSE x \in s : TRUE] + g[s \ {CHOOSE x \in s : TRUE}]]
<1>1. PICK h : Adds(F, S, h)
    BY AddsExists
<1>2. h = [s \in SUBSET S |-> IF s = {} THEN 0
                              ELSE F[CHOOSE x \in s : TRUE] + h[s \ {CHOOSE x \in s : TRUE}]]
    BY <1>1 DEF Adds, Summand, Choice
<1>3. g = [s \in SUBSET S |-> IF s = {} THEN 0
                              ELSE F[CHOOSE x \in s : TRUE] + g[s \ {CHOOSE x \in s : TRUE}]]
    BY <1>2
<1>4. SumFunctionOnSet(F, S) = g[S]
    BY DEF SumFunctionOnSet, FoldFunctionOnSet, MapThenFoldSet
<1> HIDE DEF g
<1>5. Adds(F, S, g)
    BY <1>3 DEF Adds, Summand, Choice
<1> QED BY <1>4, <1>5

---------------------------------------------------------------------------
(* The sum.                                                                *)

\* Nothing adds up to zero.
LEMMA SumOfNone == \A F : SumFunctionOnSet(F, {}) = 0
<1> SUFFICES ASSUME NEW F PROVE SumFunctionOnSet(F, {}) = 0
    OBVIOUS
<1>1. PICK g : Adds(F, {}, g) /\ SumFunctionOnSet(F, {}) = g[{}]
    BY SumAdds, FS_EmptySet
<1> QED BY <1>1 DEF Adds, Summand

\* The first element and the sum of the rest.
LEMMA SumOfChoice ==
    ASSUME NEW F, NEW S, IsFiniteSet(S), S # {}
    PROVE  SumFunctionOnSet(F, S) = F[Choice(S)] + SumFunctionOnSet(F, S \ {Choice(S)})
<1> DEFINE T == S \ {Choice(S)}
<1>1. IsFiniteSet(T) /\ T \in SUBSET S
    BY FS_Subset
<1>2. PICK g : Adds(F, S, g) /\ SumFunctionOnSet(F, S) = g[S]
    BY SumAdds
<1> HIDE DEF T
<1>3. PICK h : Adds(F, T, h) /\ SumFunctionOnSet(F, T) = h[T]
    BY <1>1, SumAdds
<1>4. \A s \in SUBSET T : g[s] = h[s]
    BY <1>1, <1>2, <1>3, AddsUnique
<1>5. g[T] = h[T]
    BY <1>4
<1>6. g[S] = F[Choice(S)] + g[T]
    BY <1>2 DEF Adds, Summand, T
<1> QED BY <1>2, <1>3, <1>5, <1>6 DEF T

\* Numbers add up to a number.
LEMMA SumIsNumber ==
    ASSUME NEW F, NEW S, IsFiniteSet(S), \A x \in S : F[x] \in Nat
    PROVE  SumFunctionOnSet(F, S) \in Nat
<1> DEFINE Sum(s) == SumFunctionOnSet(F, s)
           G == {n \in Nat : \A s \in SUBSET S : Cardinality(s) = n => Sum(s) \in Nat}
<1>1. \A s \in SUBSET S : IsFiniteSet(s) /\ Cardinality(s) \in Nat
    BY FS_Subset, FS_CardinalityType
<1>2. Sum({}) = 0
    BY SumOfNone
<1>3. \A s \in SUBSET S : s # {} => Choice(s) \in s /\ Sum(s) = F[Choice(s)] + Sum(s \ {Choice(s)})
    BY <1>1, SumOfChoice, ChoiceIsIn
<1> HIDE DEF Sum
<1>4. 0 \in G
  <2>1. \A s \in SUBSET S : Cardinality(s) = 0 => s = {}
      BY <1>1, FS_EmptySet
  <2> QED BY <1>2, <2>1
<1>5. ASSUME NEW n \in Nat, n \in G
      PROVE  n + 1 \in G
  <2> SUFFICES ASSUME NEW s \in SUBSET S, Cardinality(s) = n + 1
               PROVE  Sum(s) \in Nat
      OBVIOUS
  <2> DEFINE x == Choice(s)
  <2>1. s # {}
      BY FS_EmptySet
  <2>2. x \in s /\ Sum(s) = F[x] + Sum(s \ {x})
      BY <1>3, <2>1
  <2> HIDE DEF x
  <2>3. Cardinality(s \ {x}) = n
      BY <1>1, <2>2, OneLess
  <2>4. Sum(s \ {x}) \in Nat /\ F[x] \in Nat
      BY <1>5, <2>2, <2>3
  <2> QED BY <2>2, <2>4
<1> HIDE DEF G
<1>6. Nat \subseteq G
    BY <1>4, <1>5, NumberInduction
<1>7. Cardinality(S) \in G
    BY <1>6, FS_CardinalityType
<1> QED BY <1>7 DEF G, Sum

\* Any element may be taken first.
LEMMA SumOfAny ==
    ASSUME NEW F, NEW S, IsFiniteSet(S), \A x \in S : F[x] \in Nat
    PROVE  \A y \in S : SumFunctionOnSet(F, S) = F[y] + SumFunctionOnSet(F, S \ {y})
<1> DEFINE Sum(s) == SumFunctionOnSet(F, s)
           Good(s) == \A y \in s : Sum(s) = F[y] + Sum(s \ {y})
           G == {n \in Nat : \A s \in SUBSET S : Cardinality(s) = n => Good(s)}
<1>1. \A s \in SUBSET S : IsFiniteSet(s) /\ Cardinality(s) \in Nat
    BY FS_Subset, FS_CardinalityType
<1>2. \A s \in SUBSET S : Sum(s) \in Nat
    BY <1>1, SumIsNumber
<1>3. \A s \in SUBSET S : s # {} => Choice(s) \in s /\ Sum(s) = F[Choice(s)] + Sum(s \ {Choice(s)})
    BY <1>1, SumOfChoice, ChoiceIsIn
<1>4. \A s \in SUBSET S : \A x \in s : Cardinality(s) = Cardinality(s \ {x}) + 1
    BY <1>1, OneLess
<1> HIDE DEF Sum
<1>5. 0 \in G
  <2>1. \A s \in SUBSET S : Cardinality(s) = 0 => s = {}
      BY <1>1, FS_EmptySet
  <2>2. Good({})
      OBVIOUS
  <2> HIDE DEF Good
  <2> QED BY <2>1, <2>2
<1>6. ASSUME NEW n \in Nat, n \in G
      PROVE  n + 1 \in G
  <2> SUFFICES ASSUME NEW s \in SUBSET S, Cardinality(s) = n + 1, NEW y \in s
               PROVE  Sum(s) = F[y] + Sum(s \ {y})
      OBVIOUS
  <2> DEFINE x == Choice(s)
  <2>1. x \in s /\ Sum(s) = F[x] + Sum(s \ {x})
      BY <1>3
  <2> HIDE DEF x
  <2>2. \A z \in s : s \ {z} \in SUBSET S /\ Cardinality(s \ {z}) \in Nat
      BY <1>1
  <2>3. \A z \in s : Cardinality(s \ {z}) = n
      BY <1>4, <2>2
  <2>4. \A z \in s : Good(s \ {z})
      BY <1>6, <2>2, <2>3
  <2>5. CASE y = x
      BY <2>1, <2>5
  <2>6. CASE y # x
    <3> DEFINE rest == s \ {x, y}
    <3>1. (s \ {x}) \ {y} = rest /\ (s \ {y}) \ {x} = rest
        OBVIOUS
    <3>2. Sum(s \ {x}) = F[y] + Sum(rest)
        BY <2>1, <2>4, <2>6, <3>1
    <3>3. Sum(s \ {y}) = F[x] + Sum(rest)
        BY <2>1, <2>4, <2>6, <3>1
    <3>4. rest \in SUBSET S /\ F[y] \in Nat /\ F[x] \in Nat
        BY <2>1
    <3> HIDE DEF rest
    <3>5. Sum(rest) \in Nat
        BY <1>2, <3>4
    <3> QED BY <2>1, <3>2, <3>3, <3>4, <3>5
  <2> QED BY <2>5, <2>6
<1> HIDE DEF G
<1>7. Nat \subseteq G
    BY <1>5, <1>6, NumberInduction
<1>8. Cardinality(S) \in G
    BY <1>7, FS_CardinalityType
<1> QED BY <1>8 DEF G, Sum

\* A new element adds its value.
LEMMA SumWithOneMore ==
    ASSUME NEW F, NEW S, IsFiniteSet(S), NEW x, x \notin S, \A y \in S \cup {x} : F[y] \in Nat
    PROVE  SumFunctionOnSet(F, S \cup {x}) = SumFunctionOnSet(F, S) + F[x]
<1> DEFINE T == S \cup {x}
<1>1. IsFiniteSet(T)
    BY FS_AddElement
<1>2. x \in T /\ T \ {x} = S
    OBVIOUS
<1>3. F[x] \in Nat /\ SumFunctionOnSet(F, S) \in Nat
    BY SumIsNumber
<1> HIDE DEF T
<1>4. SumFunctionOnSet(F, T) = F[x] + SumFunctionOnSet(F, S)
    BY <1>1, <1>2, SumOfAny DEF T
<1> QED BY <1>3, <1>4 DEF T

\* Functions that agree on a set have the same sum over it.
LEMMA SumOfEqual ==
    ASSUME NEW F, NEW H, NEW S, IsFiniteSet(S), \A x \in S : F[x] = H[x]
    PROVE  SumFunctionOnSet(F, S) = SumFunctionOnSet(H, S)
<1> DEFINE Same(s) == SumFunctionOnSet(F, s) = SumFunctionOnSet(H, s)
           G == {n \in Nat : \A s \in SUBSET S : Cardinality(s) = n => Same(s)}
<1>1. \A s \in SUBSET S : IsFiniteSet(s) /\ Cardinality(s) \in Nat
    BY FS_Subset, FS_CardinalityType
<1>2. Same({})
    BY SumOfNone
<1>3. \A s \in SUBSET S : s # {} /\ Same(s \ {Choice(s)}) => Same(s)
  <2> SUFFICES ASSUME NEW s \in SUBSET S, s # {}, Same(s \ {Choice(s)})
               PROVE  Same(s)
      OBVIOUS
  <2>1. /\ SumFunctionOnSet(F, s) = F[Choice(s)] + SumFunctionOnSet(F, s \ {Choice(s)})
        /\ SumFunctionOnSet(H, s) = H[Choice(s)] + SumFunctionOnSet(H, s \ {Choice(s)})
      BY <1>1, SumOfChoice
  <2>2. Choice(s) \in S
      BY ChoiceIsIn
  <2> QED BY <2>1, <2>2
<1> HIDE DEF Same
<1>4. 0 \in G
  <2>1. \A s \in SUBSET S : Cardinality(s) = 0 => s = {}
      BY <1>1, FS_EmptySet
  <2> QED BY <1>2, <2>1
<1>5. ASSUME NEW n \in Nat, n \in G
      PROVE  n + 1 \in G
  <2> SUFFICES ASSUME NEW s \in SUBSET S, Cardinality(s) = n + 1
               PROVE  Same(s)
      OBVIOUS
  <2>1. s # {}
      BY FS_EmptySet
  <2>2. Cardinality(s \ {Choice(s)}) = n
      BY <1>1, <2>1, OneLess, ChoiceIsIn
  <2>3. Same(s \ {Choice(s)})
      BY <1>5, <2>2
  <2> QED BY <1>3, <2>1, <2>3
<1> HIDE DEF G
<1>6. Nat \subseteq G
    BY <1>4, <1>5, NumberInduction
<1>7. Cardinality(S) \in G
    BY <1>6, FS_CardinalityType
<1> QED BY <1>7 DEF G, Same

\* Functions that differ in one element only.
LEMMA SumWithOneChanged ==
    ASSUME NEW F, NEW H, NEW S, IsFiniteSet(S), NEW x \in S,
           \A y \in S : F[y] \in Nat /\ H[y] \in Nat, \A y \in S \ {x} : F[y] = H[y]
    PROVE  SumFunctionOnSet(H, S) = (SumFunctionOnSet(F, S) - F[x]) + H[x]
<1>1. IsFiniteSet(S \ {x})
    BY FS_RemoveElement
<1>2. SumFunctionOnSet(F, S \ {x}) = SumFunctionOnSet(H, S \ {x})
    BY <1>1, SumOfEqual
<1>3. /\ SumFunctionOnSet(F, S) = F[x] + SumFunctionOnSet(F, S \ {x})
      /\ SumFunctionOnSet(H, S) = H[x] + SumFunctionOnSet(H, S \ {x})
    BY SumOfAny
<1>4. SumFunctionOnSet(F, S \ {x}) \in Nat /\ F[x] \in Nat /\ H[x] \in Nat
    BY <1>1, SumIsNumber
<1> QED BY <1>2, <1>3, <1>4

===========================================================================
