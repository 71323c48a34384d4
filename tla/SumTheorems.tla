---------------------------- MODULE SumTheorems ----------------------------
(***************************************************************************)
(* Sums over finite sets, as SumFunctionOnSet of Functions defines them:   *)
(* what the accounts of the other proofs need.                             *)
(*                                                                         *)
(* SumFunctionOnSet is a recursive function, so that its facts need        *)
(* induction.  The induction theorems of the library take an operator as a *)
(* parameter; SetInduction and SubsetInduction say the same of a set, and  *)
(* a proof defines the set of the values its claim holds for.  They rest   *)
(* on WFMin: a set of naturals that is not empty has a least element.      *)
(***************************************************************************)
EXTENDS Functions, FiniteSetTheorems, TLAPS

-----------------------------------------------------------------------------
(* Induction *)

\* A set that has 0, and with every number the next, has all numbers.
LEMMA SetInduction ==
  ASSUME NEW T, 0 \in T, \A n \in Nat : n \in T => n + 1 \in T
  PROVE  Nat \subseteq T
<1> DEFINE R == OpToRel(<, Nat)
           U == Nat \ T
<1>1. SUFFICES ASSUME U # {} PROVE FALSE
  OBVIOUS
<1>2. IsWellFoundedOn(R, Nat)
  BY NatLessThanWellFounded
<1>3. U \subseteq Nat
  OBVIOUS
<1>4. \A x, y \in Nat : x < y => <<x, y>> \in R
  BY DEF OpToRel
<1>5. PICK n \in U : \A m \in U : ~ (<<m, n>> \in R)
  <2> HIDE DEF R, U
  <2> QED BY <1>1, <1>2, <1>3, WFMin
<1>6. n # 0
  OBVIOUS
<1>7. n - 1 \in Nat /\ n - 1 < n
  BY <1>6
<1>8. n - 1 \in T
  BY <1>4, <1>5, <1>7
<1>9. (n - 1) + 1 \in T
  BY <1>7, <1>8
<1> QED BY <1>9

-----------------------------------------------------------------------------
(* The definition of a sum *)

\* The element that a sum takes first.
One(s) == CHOOSE x \in s : TRUE

\* One unfolding of the recursive definition, for the parts of S.
Unfolded(g, f, S) ==
  [s \in SUBSET S |-> IF s = {} THEN 0 ELSE f[One(s)] + g[s \ {One(s)}]]

\* The sums of f over the parts of S.
Sums(f, S) == CHOOSE g : g = Unfolded(g, f, S)

\* SumFunctionOnSet is Sums at the whole set.
LEMMA SumIsLast ==
  ASSUME NEW f, NEW S
  PROVE  SumFunctionOnSet(f, S) = Sums(f, S)[S]
BY DEF SumFunctionOnSet, FoldFunctionOnSet, MapThenFoldSet, Sums, Unfolded, One

\* A family that has the empty set, and every part of a finite set that it has
\* without any one of its elements, has all parts of that set.
LEMMA SubsetInduction ==
  ASSUME NEW S, IsFiniteSet(S), NEW G, {} \in G,
         \A s \in SUBSET S : s # {} /\ (\A x \in s : s \ {x} \in G) => s \in G
  PROVE  SUBSET S \subseteq G
<1> DEFINE T == {n \in Nat : \A s \in SUBSET S : Cardinality(s) = n => s \in G}
<1>1. 0 \in T
  BY FS_EmptySet, FS_Subset
<1>2. ASSUME NEW n \in Nat, n \in T PROVE n + 1 \in T
  <2>1. SUFFICES ASSUME NEW s \in SUBSET S, Cardinality(s) = n + 1 PROVE s \in G
    OBVIOUS
  <2>2. IsFiniteSet(s)
    BY FS_Subset
  <2>3. s # {}
    BY <2>1, FS_EmptySet
  <2>4. ASSUME NEW x \in s PROVE s \ {x} \in G
    <3>1. Cardinality(s \ {x}) = Cardinality(s) - 1
      BY <2>2, FS_RemoveElement
    <3>2. Cardinality(s \ {x}) = n
      BY <2>1, <3>1
    <3> QED BY <1>2, <3>2
  <2> QED BY <2>3, <2>4
<1>3. Nat \subseteq T
  <2> HIDE DEF T
  <2> QED BY <1>1, <1>2, SetInduction
<1>4. ASSUME NEW s \in SUBSET S PROVE s \in G
  <2>1. Cardinality(s) \in Nat
    BY FS_Subset, FS_CardinalityType
  <2> QED BY <1>3, <2>1
<1> QED BY <1>4

\* A set that is not empty has its first element.
LEMMA OneType == \A s : s # {} => One(s) \in s
BY DEF One

\* The recursive definition defines something: the sums of the parts with at
\* most n elements, for every n.
LEMMA SumsExist ==
  ASSUME NEW f, NEW S, IsFiniteSet(S)
  PROVE  \E g : g = Unfolded(g, f, S)
<1> DEFINE Upto(n) == {s \in SUBSET S : Cardinality(s) <= n}
           Value(g, s) == IF s = {} THEN 0 ELSE f[One(s)] + g[s \ {One(s)}]
           IsSum(g, n) == g = [s \in Upto(n) |-> Value(g, s)]
           T == {n \in Nat : \E g : IsSum(g, n)}
<1>0. \A s \in SUBSET S : IsFiniteSet(s) /\ Cardinality(s) \in Nat
  BY FS_Subset, FS_CardinalityType
<1>1. 0 \in T
  <2>1. \A s \in Upto(0) : s = {}
    BY <1>0, FS_EmptySet
  <2>2. [s \in Upto(0) |-> 0] = [s \in Upto(0) |-> Value([t \in Upto(0) |-> 0], s)]
    BY <2>1
  <2> QED BY <2>2
<1>2. ASSUME NEW n \in Nat, n \in T PROVE n + 1 \in T
  <2>1. PICK g : IsSum(g, n)
    BY <1>2
  <2> DEFINE h == [s \in Upto(n + 1) |-> Value(g, s)]
  <2>2. \A s \in Upto(n) : s \in Upto(n + 1) /\ h[s] = g[s]
    <3>1. ASSUME NEW s \in Upto(n) PROVE s \in Upto(n + 1)
      BY <1>0
    <3>2. ASSUME NEW s \in Upto(n) PROVE h[s] = g[s]
      <4>1. g[s] = Value(g, s)
        <5> HIDE DEF Value, Upto
        <5> QED BY <2>1
      <4>2. h[s] = Value(g, s)
        <5> HIDE DEF Value, Upto
        <5> QED BY <3>1
      <4> QED BY <4>1, <4>2
    <3> QED BY <3>1, <3>2
  <2>3. ASSUME NEW s \in Upto(n + 1), s # {}
        PROVE  s \ {One(s)} \in Upto(n)
    BY <1>0, <2>3, OneType, FS_RemoveElement
  <2>4. ASSUME NEW s \in Upto(n + 1) PROVE Value(g, s) = Value(h, s)
    <3> HIDE DEF h
    <3> QED BY <2>2, <2>3
  <2>5. h = [s \in Upto(n + 1) |-> Value(h, s)]
    <3>1. h = [s \in Upto(n + 1) |-> Value(g, s)]
      OBVIOUS
    <3> HIDE DEF h, Value, Upto
    <3> QED BY <2>4, <3>1
  <2>6. IsSum(h, n + 1)
    BY <2>5
  <2> HIDE DEF IsSum, h
  <2> QED BY <2>6
<1>3. Nat \subseteq T
  <2> HIDE DEF T
  <2> QED BY <1>1, <1>2, SetInduction
<1>4. Upto(Cardinality(S)) = SUBSET S
  BY FS_Subset
<1>5. PICK g : IsSum(g, Cardinality(S))
  BY <1>0, <1>3
<1> QED BY <1>4, <1>5 DEF Unfolded

\* Sums is what the recursive definition says.
LEMMA SumsDefined ==
  ASSUME NEW f, NEW S, IsFiniteSet(S)
  PROVE  Sums(f, S) = Unfolded(Sums(f, S), f, S)
BY SumsExist DEF Sums

\* The definition at one part of S; opaque to the provers until a proof asks.
UnfoldsAt(g, f, s) ==
  /\ s = {} => g[s] = 0
  /\ s # {} => g[s] = f[One(s)] + g[s \ {One(s)}]

\* ... at each part of S.
LEMMA SumsUnfold ==
  ASSUME NEW f, NEW S, IsFiniteSet(S), NEW s \in SUBSET S
  PROVE  UnfoldsAt(Sums(f, S), f, s)
<1>1. \A g : /\ s = {} => Unfolded(g, f, S)[s] = 0
             /\ s # {} => Unfolded(g, f, S)[s] = f[One(s)] + g[s \ {One(s)}]
  BY DEF Unfolded
<1>2. Sums(f, S)[s] = Unfolded(Sums(f, S), f, S)[s]
  BY SumsDefined
<1> QED BY <1>1, <1>2 DEF UnfoldsAt

\* The sum of a part is the same whichever set it is a part of.
LEMMA SumsAgree ==
  ASSUME NEW f, NEW g, NEW S, IsFiniteSet(S), \A x \in S : f[x] = g[x],
         NEW R, IsFiniteSet(R), S \subseteq R
  PROVE  \A s \in SUBSET S : Sums(f, S)[s] = Sums(g, R)[s]
<1> DEFINE G == {s \in SUBSET S : Sums(f, S)[s] = Sums(g, R)[s]}
<1>1. {} \in G
  <2>1. UnfoldsAt(Sums(f, S), f, {}) /\ UnfoldsAt(Sums(g, R), g, {})
    BY SumsUnfold
  <2> QED BY <2>1 DEF UnfoldsAt
<1>2. ASSUME NEW s \in SUBSET S, s # {}, \A x \in s : s \ {x} \in G
      PROVE  s \in G
  <2>1. One(s) \in s /\ One(s) \in S
    BY <1>2, OneType
  <2>2. Sums(f, S)[s] = f[One(s)] + Sums(f, S)[s \ {One(s)}]
    <3>1. s # {}
      BY <1>2
    <3>2. UnfoldsAt(Sums(f, S), f, s)
      BY SumsUnfold
    <3> QED BY <3>1, <3>2 DEF UnfoldsAt
  <2>3. Sums(g, R)[s] = g[One(s)] + Sums(g, R)[s \ {One(s)}]
    <3>1. s \in SUBSET R /\ s # {}
      BY <1>2
    <3>2. UnfoldsAt(Sums(g, R), g, s)
      BY <3>1, SumsUnfold
    <3> QED BY <3>1, <3>2 DEF UnfoldsAt
  <2> QED BY <1>2, <2>1, <2>2, <2>3
<1>3. SUBSET S \subseteq G
  <2> HIDE DEF G
  <2> QED BY <1>1, <1>2, SubsetInduction
<1> QED BY <1>3

-----------------------------------------------------------------------------
(* Facts about sums *)

\* The empty sum.
LEMMA SumEmpty == \A f : SumFunctionOnSet(f, {}) = 0
<1> TAKE f
<1>1. Sums(f, {})[{}] = 0
  <2>1. UnfoldsAt(Sums(f, {}), f, {})
    BY SumsUnfold, FS_EmptySet
  <2> QED BY <2>1 DEF UnfoldsAt
<1> QED BY <1>1, SumIsLast

\* A sum depends on the values of the function in the set only.
LEMMA SumSame ==
  ASSUME NEW f, NEW g, NEW S, IsFiniteSet(S), \A x \in S : f[x] = g[x]
  PROVE  SumFunctionOnSet(f, S) = SumFunctionOnSet(g, S)
BY SumsAgree, SumIsLast

\* A sum is its first term and the rest.
LEMMA SumStep ==
  ASSUME NEW f, NEW S, IsFiniteSet(S), S # {}
  PROVE  /\ One(S) \in S
         /\ SumFunctionOnSet(f, S) = f[One(S)] + SumFunctionOnSet(f, S \ {One(S)})
<1>1. One(S) \in S /\ IsFiniteSet(S \ {One(S)})
  BY OneType, FS_RemoveElement
<1>2. Sums(f, S)[S] = f[One(S)] + Sums(f, S)[S \ {One(S)}]
  <2>1. UnfoldsAt(Sums(f, S), f, S)
    BY SumsUnfold
  <2> QED BY <2>1 DEF UnfoldsAt
<1>3. Sums(f, S \ {One(S)})[S \ {One(S)}] = Sums(f, S)[S \ {One(S)}]
  BY <1>1, SumsAgree
<1> QED BY <1>1, <1>2, <1>3, SumIsLast

\* Sums of integers are integers.
LEMMA SumInt ==
  ASSUME NEW f, NEW S, IsFiniteSet(S), \A x \in S : f[x] \in Int
  PROVE  SumFunctionOnSet(f, S) \in Int
<1> DEFINE G == {s \in SUBSET S : SumFunctionOnSet(f, s) \in Int}
<1>1. {} \in G
  BY SumEmpty
<1>2. ASSUME NEW s \in SUBSET S, s # {}, \A x \in s : s \ {x} \in G
      PROVE  s \in G
  <2>1. One(s) \in s /\ SumFunctionOnSet(f, s) = f[One(s)] + SumFunctionOnSet(f, s \ {One(s)})
    BY <1>2, SumStep, FS_Subset
  <2>2. f[One(s)] \in Int /\ SumFunctionOnSet(f, s \ {One(s)}) \in Int
    BY <1>2, <2>1
  <2> QED BY <2>1, <2>2
<1>3. SUBSET S \subseteq G
  <2> HIDE DEF G
  <2> QED BY <1>1, <1>2, SubsetInduction
<1> QED BY <1>3

\* Sums of naturals are naturals.
LEMMA SumNat ==
  ASSUME NEW f, NEW S, IsFiniteSet(S), \A x \in S : f[x] \in Nat
  PROVE  SumFunctionOnSet(f, S) \in Nat
<1> DEFINE G == {s \in SUBSET S : SumFunctionOnSet(f, s) \in Nat}
<1>1. {} \in G
  BY SumEmpty
<1>2. ASSUME NEW s \in SUBSET S, s # {}, \A x \in s : s \ {x} \in G
      PROVE  s \in G
  <2>1. One(s) \in s /\ SumFunctionOnSet(f, s) = f[One(s)] + SumFunctionOnSet(f, s \ {One(s)})
    BY <1>2, SumStep, FS_Subset
  <2>2. f[One(s)] \in Nat /\ SumFunctionOnSet(f, s \ {One(s)}) \in Nat
    BY <1>2, <2>1
  <2> QED BY <2>1, <2>2
<1>3. SUBSET S \subseteq G
  <2> HIDE DEF G
  <2> QED BY <1>1, <1>2, SubsetInduction
<1> QED BY <1>3

\* A sum is any of its terms and the rest: the order does not matter.
THEOREM SumRemove ==
  ASSUME NEW f, NEW S, IsFiniteSet(S), \A x \in S : f[x] \in Int, NEW x \in S
  PROVE  SumFunctionOnSet(f, S) = f[x] + SumFunctionOnSet(f, S \ {x})
<1> DEFINE G == {s \in SUBSET S : \A y \in s :
                   SumFunctionOnSet(f, s) = f[y] + SumFunctionOnSet(f, s \ {y})}
<1>1. {} \in G
  OBVIOUS
<1>2. ASSUME NEW s \in SUBSET S, s # {}, \A y \in s : s \ {y} \in G
      PROVE  s \in G
  <2> SUFFICES ASSUME NEW y \in s
               PROVE  SumFunctionOnSet(f, s) = f[y] + SumFunctionOnSet(f, s \ {y})
    OBVIOUS
  <2> DEFINE z == One(s)
             r == (s \ {z}) \ {y}
  <2>1. IsFiniteSet(s) /\ IsFiniteSet(s \ {y}) /\ IsFiniteSet(s \ {z}) /\ IsFiniteSet(r)
    BY FS_Subset
  <2>2. z \in s /\ SumFunctionOnSet(f, s) = f[z] + SumFunctionOnSet(f, s \ {z})
    BY <1>2, <2>1, SumStep
  <2>3. CASE y = z
    BY <2>2, <2>3
  <2>4. CASE y # z
    <3>1. SumFunctionOnSet(f, s \ {z}) = f[y] + SumFunctionOnSet(f, r)
      <4>1. s \ {z} \in G /\ y \in s \ {z}
        BY <1>2, <2>2, <2>4
      <4> QED BY <4>1
    <3>2. SumFunctionOnSet(f, s \ {y}) = f[z] + SumFunctionOnSet(f, r)
      <4>1. s \ {y} \in G /\ z \in s \ {y} /\ (s \ {y}) \ {z} = r
        BY <1>2, <2>2, <2>4
      <4> QED BY <4>1
    <3>3. SumFunctionOnSet(f, r) \in Int /\ f[y] \in Int /\ f[z] \in Int
      BY <2>1, <2>2, SumInt
    <3> HIDE DEF r, z
    <3> QED BY <2>2, <3>1, <3>2, <3>3
  <2> QED BY <2>3, <2>4
<1>3. SUBSET S \subseteq G
  <2> HIDE DEF G
  <2> QED BY <1>1, <1>2, SubsetInduction
<1> QED BY <1>3

\* When one term changes, the sum changes by as much.
THEOREM SumUpdate ==
  ASSUME NEW f, NEW g, NEW S, IsFiniteSet(S), NEW x \in S,
         \A y \in S : f[y] \in Int /\ g[y] \in Int,
         \A y \in S \ {x} : g[y] = f[y]
  PROVE  SumFunctionOnSet(g, S) = SumFunctionOnSet(f, S) - f[x] + g[x]
<1>1. IsFiniteSet(S \ {x})
  BY FS_RemoveElement
<1>2. SumFunctionOnSet(f, S) = f[x] + SumFunctionOnSet(f, S \ {x})
  BY SumRemove
<1>3. SumFunctionOnSet(g, S) = g[x] + SumFunctionOnSet(g, S \ {x})
  BY SumRemove
<1>4. SumFunctionOnSet(g, S \ {x}) = SumFunctionOnSet(f, S \ {x})
  BY <1>1, SumSame
<1>5. SumFunctionOnSet(f, S \ {x}) \in Int
  BY <1>1, SumInt
<1>6. f[x] \in Int /\ g[x] \in Int
  OBVIOUS
<1> QED BY <1>2, <1>3, <1>4, <1>5, <1>6

\* Larger terms, larger sum.
THEOREM SumMonotone ==
  ASSUME NEW f, NEW g, NEW S, IsFiniteSet(S),
         \A x \in S : f[x] \in Int /\ g[x] \in Int /\ f[x] <= g[x]
  PROVE  SumFunctionOnSet(f, S) <= SumFunctionOnSet(g, S)
<1> DEFINE G == {s \in SUBSET S : SumFunctionOnSet(f, s) <= SumFunctionOnSet(g, s)}
<1>1. {} \in G
  BY SumEmpty
<1>2. ASSUME NEW s \in SUBSET S, s # {}, \A x \in s : s \ {x} \in G
      PROVE  s \in G
  <2>1. PICK x \in s : s \ {x} \in G
    BY <1>2
  <2>2. IsFiniteSet(s) /\ IsFiniteSet(s \ {x})
    BY FS_Subset
  <2>3. SumFunctionOnSet(f, s) = f[x] + SumFunctionOnSet(f, s \ {x})
    BY <2>2, SumRemove
  <2>4. SumFunctionOnSet(g, s) = g[x] + SumFunctionOnSet(g, s \ {x})
    BY <2>2, SumRemove
  <2>5. SumFunctionOnSet(f, s \ {x}) \in Int /\ SumFunctionOnSet(g, s \ {x}) \in Int
    BY <2>2, SumInt
  <2>6. SumFunctionOnSet(f, s \ {x}) <= SumFunctionOnSet(g, s \ {x})
    BY <2>1
  <2>7. f[x] \in Int /\ g[x] \in Int /\ f[x] <= g[x]
    OBVIOUS
  <2>8. SumFunctionOnSet(f, s) <= SumFunctionOnSet(g, s)
    BY <2>3, <2>4, <2>5, <2>6, <2>7
  <2> QED BY <2>8
<1>3. SUBSET S \subseteq G
  <2> HIDE DEF G
  <2> QED BY <1>1, <1>2, SubsetInduction
<1> QED BY <1>3

\* A sum of zeros.
THEOREM SumZero ==
  ASSUME NEW f, NEW S, IsFiniteSet(S), \A x \in S : f[x] = 0
  PROVE  SumFunctionOnSet(f, S) = 0
<1> DEFINE G == {s \in SUBSET S : SumFunctionOnSet(f, s) = 0}
<1>1. {} \in G
  BY SumEmpty
<1>2. ASSUME NEW s \in SUBSET S, s # {}, \A x \in s : s \ {x} \in G
      PROVE  s \in G
  <2>1. One(s) \in s /\ SumFunctionOnSet(f, s) = f[One(s)] + SumFunctionOnSet(f, s \ {One(s)})
    BY <1>2, SumStep, FS_Subset
  <2>2. f[One(s)] = 0 /\ SumFunctionOnSet(f, s \ {One(s)}) = 0
    BY <1>2, <2>1
  <2> QED BY <2>1, <2>2
<1>3. SUBSET S \subseteq G
  <2> HIDE DEF G
  <2> QED BY <1>1, <1>2, SubsetInduction
<1> QED BY <1>3

\* A sum of naturals is at least each of its terms.
THEOREM SumAtLeast ==
  ASSUME NEW f, NEW S, IsFiniteSet(S), \A y \in S : f[y] \in Nat, NEW x \in S
  PROVE  f[x] <= SumFunctionOnSet(f, S)
<1>1. IsFiniteSet(S \ {x})
  BY FS_RemoveElement
<1>2. SumFunctionOnSet(f, S) = f[x] + SumFunctionOnSet(f, S \ {x})
  BY SumRemove
<1>3. SumFunctionOnSet(f, S \ {x}) \in Nat
  BY <1>1, SumNat
<1>4. f[x] \in Nat
  OBVIOUS
<1> QED BY <1>2, <1>3, <1>4

\* The sum of one more term of a sequence.
THEOREM SumUpTo ==
  ASSUME NEW n \in Nat, n # 0, NEW f, \A i \in 1..n : f[i] \in Int
  PROVE  /\ SumFunctionOnSet(f, 1..n) = SumFunctionOnSet(f, 1..(n - 1)) + f[n]
         /\ SumFunctionOnSet(f, 1..(n - 1)) \in Int /\ SumFunctionOnSet(f, 1..n) \in Int
<1>1. IsFiniteSet(1..n) /\ IsFiniteSet(1..(n - 1))
  BY FS_Interval
<1>2. n \in 1..n /\ (1..n) \ {n} = 1..(n - 1)
  OBVIOUS
<1>3. SumFunctionOnSet(f, 1..n) = f[n] + SumFunctionOnSet(f, 1..(n - 1))
  BY <1>1, <1>2, SumRemove
<1>4. SumFunctionOnSet(f, 1..(n - 1)) \in Int /\ f[n] \in Int
  <2>1. \A i \in 1..(n - 1) : f[i] \in Int
    OBVIOUS
  <2> QED BY <1>1, <1>2, <2>1, SumInt
<1> QED BY <1>3, <1>4

\* A sum of the first terms of a sequence of naturals.
THEOREM SumNatUpTo ==
  ASSUME NEW n \in Nat, NEW f, \A i \in 1..n : f[i] \in Nat
  PROVE  SumFunctionOnSet(f, 1..n) \in Nat
<1>1. IsFiniteSet(1..n)
  BY FS_Interval
<1> QED BY <1>1, SumNat

\* Terms that are 0 can be left out.
THEOREM SumExtend ==
  ASSUME NEW T, IsFiniteSet(T), NEW S \in SUBSET T, NEW f,
         \A x \in T : f[x] \in Int, \A x \in T \ S : f[x] = 0
  PROVE  SumFunctionOnSet(f, T) = SumFunctionOnSet(f, S)
<1> DEFINE R == T \ S
           G == {d \in SUBSET R : SumFunctionOnSet(f, S \cup d) = SumFunctionOnSet(f, S)}
<1>1. {} \in G
  <2>1. S \cup {} = S
    OBVIOUS
  <2> QED BY <2>1
<1>2. ASSUME NEW d \in SUBSET R, d # {}, \A x \in d : d \ {x} \in G
      PROVE  d \in G
  <2>1. PICK x \in d : d \ {x} \in G
    BY <1>2
  <2>2. IsFiniteSet(S \cup d) /\ (S \cup d) \ {x} = S \cup (d \ {x}) /\ f[x] = 0
    BY FS_Subset
  <2>3. SumFunctionOnSet(f, S \cup d) = f[x] + SumFunctionOnSet(f, (S \cup d) \ {x})
    BY <2>2, SumRemove
  <2>4. SumFunctionOnSet(f, S) \in Int
    BY FS_Subset, SumInt
  <2>5. SumFunctionOnSet(f, (S \cup d) \ {x}) = SumFunctionOnSet(f, S)
    BY <2>1, <2>2
  <2>6. SumFunctionOnSet(f, S \cup d) = SumFunctionOnSet(f, S)
    BY <2>2, <2>3, <2>4, <2>5
  <2> QED BY <2>6
<1>3. SUBSET R \subseteq G
  <2> HIDE DEF G
  <2>1. IsFiniteSet(R)
    BY FS_Subset
  <2> QED BY <1>1, <1>2, <2>1, SubsetInduction
<1>4. R \in G /\ S \cup R = T
  BY <1>3
<1> QED BY <1>4

\* A sum over the values of an injection.
THEOREM SumReindex ==
  ASSUME NEW S, IsFiniteSet(S), NEW h, \A x, y \in S : h[x] = h[y] => x = y,
         NEW f, NEW g, \A x \in S : g[x] = f[h[x]] /\ g[x] \in Int
  PROVE  SumFunctionOnSet(f, {h[x] : x \in S}) = SumFunctionOnSet(g, S)
<1> DEFINE Image(s) == {h[x] : x \in s}
           G == {s \in SUBSET S : /\ IsFiniteSet(Image(s))
                                  /\ SumFunctionOnSet(f, Image(s)) = SumFunctionOnSet(g, s)}
<1>1. {} \in G
  <2>1. Image({}) = {}
    OBVIOUS
  <2> QED BY <2>1, SumEmpty, FS_EmptySet
<1>2. ASSUME NEW s \in SUBSET S, s # {}, \A x \in s : s \ {x} \in G
      PROVE  s \in G
  <2>1. PICK x \in s : s \ {x} \in G
    BY <1>2
  <2>2. Image(s) = Image(s \ {x}) \cup {h[x]} /\ Image(s) \ {h[x]} = Image(s \ {x})
    OBVIOUS
  <2>3. IsFiniteSet(s) /\ IsFiniteSet(Image(s \ {x}))
    BY <2>1, FS_Subset
  <2>4. IsFiniteSet(Image(s))
    <3>1. IsFiniteSet(Image(s \ {x}) \cup {h[x]})
      BY <2>3, FS_AddElement
    <3> QED BY <2>2, <3>1
  <2>5. \A y \in Image(s) : f[y] \in Int
    OBVIOUS
  <2>6. h[x] \in Image(s)
    OBVIOUS
  <2>7. SumFunctionOnSet(f, Image(s \ {x})) = SumFunctionOnSet(g, s \ {x})
    BY <2>1
  <2>8. SumFunctionOnSet(g, s) = g[x] + SumFunctionOnSet(g, s \ {x})
    BY <2>3, SumRemove
  <2>9. SumFunctionOnSet(f, Image(s)) = f[h[x]] + SumFunctionOnSet(f, Image(s \ {x}))
    <3> HIDE DEF Image
    <3>1. SumFunctionOnSet(f, Image(s)) = f[h[x]] + SumFunctionOnSet(f, Image(s) \ {h[x]})
      BY <2>4, <2>5, <2>6, SumRemove
    <3> QED BY <2>2, <3>1
  <2>10. g[x] = f[h[x]]
    OBVIOUS
  <2> HIDE DEF Image
  <2> QED BY <2>4, <2>7, <2>8, <2>9, <2>10
<1>3. SUBSET S \subseteq G
  <2> HIDE DEF G
  <2> QED BY <1>1, <1>2, SubsetInduction
<1> QED BY <1>3

\* The double of each term, the double of the sum.
THEOREM SumTwice ==
  ASSUME NEW S, IsFiniteSet(S), NEW f, NEW g,
         \A x \in S : f[x] \in Int /\ g[x] \in Int /\ g[x] = 2 * f[x]
  PROVE  SumFunctionOnSet(g, S) = 2 * SumFunctionOnSet(f, S)
<1> DEFINE G == {s \in SUBSET S : SumFunctionOnSet(g, s) = 2 * SumFunctionOnSet(f, s)}
<1>1. {} \in G
  BY SumEmpty
<1>2. ASSUME NEW s \in SUBSET S, s # {}, \A x \in s : s \ {x} \in G
      PROVE  s \in G
  <2>1. PICK x \in s : s \ {x} \in G
    BY <1>2
  <2>2. IsFiniteSet(s) /\ IsFiniteSet(s \ {x})
    BY FS_Subset
  <2>3. SumFunctionOnSet(f, s) = f[x] + SumFunctionOnSet(f, s \ {x})
    BY <2>2, SumRemove
  <2>4. SumFunctionOnSet(g, s) = g[x] + SumFunctionOnSet(g, s \ {x})
    BY <2>2, SumRemove
  <2>5. SumFunctionOnSet(f, s \ {x}) \in Int /\ f[x] \in Int /\ g[x] = 2 * f[x]
    BY <2>2, SumInt
  <2>6. SumFunctionOnSet(g, s \ {x}) = 2 * SumFunctionOnSet(f, s \ {x})
    BY <2>1
  <2>7. SumFunctionOnSet(g, s) = 2 * SumFunctionOnSet(f, s)
    BY <2>3, <2>4, <2>5, <2>6
  <2> QED BY <2>7
<1>3. SUBSET S \subseteq G
  <2> HIDE DEF G
  <2> QED BY <1>1, <1>2, SubsetInduction
<1> QED BY <1>3
=============================================================================
