-------------------------------- MODULE Sums --------------------------------
(***************************************************************************)
(* What a sum over a finite set is, and how sums compare.  The sum is      *)
(* SumFunctionOnSet of the community modules, the value at the set of a    *)
(* function chosen to satisfy the recursion over its subsets.              *)
(*                                                                         *)
(* The induction rests on the least-number principle, applied to the set   *)
(* of the numbers, or of the subsets, that a statement holds of.           *)
(***************************************************************************)
EXTENDS Integers, FiniteSets, Functions, FiniteSetTheorems,
        WellFoundedInduction, TLAPS

\* A set of numbers has a smallest one.
LEMMA Smallest ==
    ASSUME NEW T \in SUBSET Nat, T # {}
    PROVE  \E x \in T : \A y \in T : x <= y
<1> DEFINE R == OpToRel(<, Nat)
<1>1. IsWellFoundedOn(R, Nat)
  BY NatLessThanWellFounded
<1>2. \A x, y \in Nat : y < x => <<y, x>> \in R
  BY DEF OpToRel
<1> HIDE DEF R
<1>3. PICK x \in T : \A y \in T : ~(<<y, x>> \in R)
  BY <1>1, WFMin
<1>4. ASSUME NEW y \in T PROVE x <= y
  <2>1. x \in Nat /\ y \in Nat
    OBVIOUS
  <2>2. ~(y < x)
    BY <1>2, <1>3, <2>1
  <2> QED  BY <2>1, <2>2
<1> QED  BY <1>4

\* A set of numbers up to n has a largest one.
LEMMA Largest ==
    ASSUME NEW n \in Nat, NEW T \in SUBSET (1..n), T # {}
    PROVE  \E x \in T : \A y \in T : y <= x
<1> DEFINE D == {n - x : x \in T}
<1>1. D \in SUBSET Nat /\ D # {}
  <2>1. \A x \in T : n - x \in Nat
    OBVIOUS
  <2> QED  BY <2>1
<1>2. PICK d \in D : \A e \in D : d <= e
  <2> HIDE DEF D
  <2> QED  BY <1>1, Smallest
<1>3. PICK x \in T : d = n - x
  BY <1>2
<1>4. \A y \in T : n - x <= n - y
  BY <1>2, <1>3
<1>5. \A y \in T : y <= x
  BY <1>4
<1> QED  BY <1>5

\* A set of numbers that has 0, and with a number the next, has them all.
LEMMA Induction ==
    ASSUME NEW S \in SUBSET Nat, 0 \in S, \A n \in S : n + 1 \in S
    PROVE  S = Nat
<1> SUFFICES ASSUME S # Nat
             PROVE  FALSE
  OBVIOUS
<1> DEFINE T == Nat \ S
<1>1. T \in SUBSET Nat /\ T # {}
  OBVIOUS
<1> HIDE DEF T
<1>2. PICK x \in T : \A y \in T : x <= y
  BY <1>1, Smallest
<1>3. x \in Nat /\ x # 0 /\ x - 1 \in Nat /\ x - 1 \notin T
  BY <1>1, <1>2 DEF T
<1>4. x - 1 \in S
  BY <1>3 DEF T
<1>5. x \in S
  BY <1>3, <1>4
<1> QED  BY <1>2, <1>5 DEF T

\* The element that a sum takes out of a set first.
AnyOf(s) == CHOOSE x \in s : TRUE

\* The recursion of a sum of f: g has the sums of the smaller sets.
SumStep(f, g, s) == IF s = {} THEN 0 ELSE f[AnyOf(s)] + g[s \ {AnyOf(s)}]

IsSum(f, S, g) == g = [s \in SUBSET S |-> SumStep(f, g, s)]

\* The sum of f over S is the value of such a function, if there is one.
LEMMA SumIsChosen ==
    ASSUME NEW f, NEW S, NEW h, IsSum(f, S, h)
    PROVE  \E g : IsSum(f, S, g) /\ SumFunctionOnSet(f, S) = g[S]
<1> DEFINE g == CHOOSE g : g = [s \in SUBSET S |-> IF s = {} THEN 0
                    ELSE f[CHOOSE x \in s : TRUE] + g[s \ {CHOOSE x \in s : TRUE}]]
<1>1. SumFunctionOnSet(f, S) = g[S]
  BY DEF SumFunctionOnSet, FoldFunctionOnSet, MapThenFoldSet
<1>2. h = [s \in SUBSET S |-> IF s = {} THEN 0
             ELSE f[CHOOSE x \in s : TRUE] + h[s \ {CHOOSE x \in s : TRUE}]]
  BY DEF IsSum, SumStep, AnyOf
<1>3. g = [s \in SUBSET S |-> IF s = {} THEN 0
             ELSE f[CHOOSE x \in s : TRUE] + g[s \ {CHOOSE x \in s : TRUE}]]
  BY <1>2
<1>4. IsSum(f, S, g)
  BY <1>3 DEF IsSum, SumStep, AnyOf
<1> HIDE DEF g
<1> QED BY <1>1, <1>4

\* Induction on the subsets of a finite set.
LEMMA SubsetInduction ==
    ASSUME NEW S, IsFiniteSet(S), NEW F, {} \in F,
           \A T \in SUBSET S :
                T # {} /\ (\A x \in T : T \ {x} \in F) => T \in F
    PROVE  S \in F
<1> DEFINE N == {n \in Nat : \A T \in SUBSET S : Cardinality(T) = n => T \in F}
<1>1. \A T \in SUBSET S : IsFiniteSet(T) /\ Cardinality(T) \in Nat
  BY FS_Subset, FS_CardinalityType
<1>2. 0 \in N
  BY <1>1, FS_EmptySet
<1>3. ASSUME NEW n \in N PROVE n + 1 \in N
  <2> SUFFICES ASSUME NEW T \in SUBSET S, Cardinality(T) = n + 1 PROVE T \in F
    OBVIOUS
  <2>1. T # {}
    <3>1. n \in Nat
      OBVIOUS
    <3>2. n + 1 # 0
      BY <3>1
    <3> QED  BY <3>2, FS_EmptySet
  <2>2. \A x \in T : T \ {x} \in SUBSET S /\ Cardinality(T \ {x}) = n
    BY <1>1, FS_RemoveElement
  <2>3. \A x \in T : T \ {x} \in F
    BY <2>2
  <2> QED  BY <2>1, <2>3
<1>4. N = Nat
  <2> HIDE DEF N
  <2>1. N \in SUBSET Nat
    BY DEF N
  <2> QED  BY <1>2, <1>3, <2>1, Induction
<1> QED  BY <1>1, <1>4

\* The recursion of a sum over the subsets of a finite set has a solution.
LEMMA SumExists ==
    ASSUME NEW f, NEW S, IsFiniteSet(S)
    PROVE  \E g : IsSum(f, S, g)
<1> DEFINE Upto(n, g) == \A s \in SUBSET S :
                            Cardinality(s) <= n => g[s] = SumStep(f, g, s)
           N == {n \in Nat : \E g : Upto(n, g)}
<1>1. /\ \A T \in SUBSET S : IsFiniteSet(T) /\ Cardinality(T) \in Nat
      /\ \A T \in SUBSET S : T # {} =>
            /\ AnyOf(T) \in T /\ T \ {AnyOf(T)} \in SUBSET S
            /\ Cardinality(T \ {AnyOf(T)}) = Cardinality(T) - 1
  BY FS_Subset, FS_CardinalityType, FS_RemoveElement DEF AnyOf
<1>2. 0 \in N
  <2>1. Upto(0, [s \in SUBSET S |-> 0])
    BY <1>1, FS_EmptySet DEF SumStep
  <2> QED  BY <2>1
<1>3. ASSUME NEW n \in N PROVE n + 1 \in N
  <2>1. PICK g : Upto(n, g)
    OBVIOUS
  <2> DEFINE h == [s \in SUBSET S |->
                     IF Cardinality(s) <= n THEN g[s] ELSE SumStep(f, g, s)]
  <2>2. \A s \in SUBSET S : Cardinality(s) <= n + 1 => h[s] = SumStep(f, g, s)
    BY <2>1
  <2>3. \A s \in SUBSET S : Cardinality(s) <= n + 1 => SumStep(f, h, s) = SumStep(f, g, s)
    BY <1>1 DEF SumStep
  <2>4. Upto(n + 1, h)
    BY <2>2, <2>3
  <2>5. n + 1 \in Nat
    OBVIOUS
  <2> HIDE DEF Upto, h
  <2> QED  BY <2>4, <2>5
<1>4. N = Nat
  <2> HIDE DEF N
  <2>1. N \in SUBSET Nat
    BY DEF N
  <2> QED  BY <1>2, <1>3, <2>1, Induction
<1>5. PICK g : Upto(Cardinality(S), g)
  BY <1>1, <1>4
<1> DEFINE h == [s \in SUBSET S |-> g[s]]
<1>6. \A s \in SUBSET S : h[s] = SumStep(f, g, s)
  BY <1>5, FS_Subset
<1>7. \A s \in SUBSET S : SumStep(f, g, s) = SumStep(f, h, s)
  BY <1>1 DEF SumStep
<1>8. IsSum(f, S, h)
  BY <1>6, <1>7 DEF IsSum
<1> QED  BY <1>8

\* A sum over a set agrees with a sum over a larger set, as far as it goes.
LEMMA SumsAgree ==
    ASSUME NEW f, NEW S, IsFiniteSet(S), NEW T \in SUBSET S,
           NEW g, IsSum(f, S, g), NEW h, IsSum(f, T, h)
    PROVE  g[T] = h[T]
<1> DEFINE F == {s \in SUBSET T : g[s] = h[s]}
<1>1. \A s \in SUBSET T : g[s] = SumStep(f, g, s) /\ h[s] = SumStep(f, h, s)
  BY DEF IsSum
<1>2. {} \in F
  BY <1>1 DEF SumStep
<1>3. ASSUME NEW s \in SUBSET T, s # {}, \A x \in s : s \ {x} \in F
      PROVE  s \in F
  <2>1. AnyOf(s) \in s
    BY <1>3 DEF AnyOf
  <2>2. g[s \ {AnyOf(s)}] = h[s \ {AnyOf(s)}]
    BY <1>3, <2>1
  <2> QED  BY <1>1, <1>3, <2>2 DEF SumStep
<1> HIDE DEF F
<1>4. IsFiniteSet(T)
  BY FS_Subset
<1>5. T \in F
  BY <1>2, <1>3, <1>4, SubsetInduction
<1> QED  BY <1>5 DEF F

\* Nothing adds up to 0.
LEMMA SumEmpty ==
    ASSUME NEW f
    PROVE  SumFunctionOnSet(f, {}) = 0
<1>1. PICK h : IsSum(f, {}, h)
  BY SumExists, FS_EmptySet
<1>2. PICK g : IsSum(f, {}, g) /\ SumFunctionOnSet(f, {}) = g[{}]
  BY <1>1, SumIsChosen
<1> QED  BY <1>2 DEF IsSum, SumStep

\* A sum is an element's term and the sum of the rest.
LEMMA SumTakesAny ==
    ASSUME NEW f, NEW S, IsFiniteSet(S), S # {}
    PROVE  SumFunctionOnSet(f, S) = f[AnyOf(S)] + SumFunctionOnSet(f, S \ {AnyOf(S)})
<1> DEFINE T == S \ {AnyOf(S)}
<1>1. T \in SUBSET S /\ IsFiniteSet(T)
  BY FS_Subset
<1>2. PICK g : IsSum(f, S, g) /\ SumFunctionOnSet(f, S) = g[S]
  BY SumExists, SumIsChosen
<1>3. PICK h : IsSum(f, T, h) /\ SumFunctionOnSet(f, T) = h[T]
  BY <1>1, SumExists, SumIsChosen
<1>4. g[T] = h[T]
  BY <1>1, <1>2, <1>3, SumsAgree
<1>5. g[S] = SumStep(f, g, S)
  BY <1>2 DEF IsSum
<1> QED  BY <1>2, <1>3, <1>4, <1>5 DEF SumStep

\* A sum of natural numbers.
LEMMA SumNat ==
    ASSUME NEW S, IsFiniteSet(S), NEW f, \A x \in S : f[x] \in Nat
    PROVE  SumFunctionOnSet(f, S) \in Nat
<1> DEFINE F == {T \in SUBSET S : SumFunctionOnSet(f, T) \in Nat}
<1>1. {} \in F
  BY SumEmpty
<1>2. ASSUME NEW T \in SUBSET S, T # {}, \A x \in T : T \ {x} \in F
      PROVE  T \in F
  <2>1. AnyOf(T) \in T
    BY <1>2 DEF AnyOf
  <2>2. SumFunctionOnSet(f, T \ {AnyOf(T)}) \in Nat
    BY <1>2, <2>1
  <2>3. SumFunctionOnSet(f, T) = f[AnyOf(T)] + SumFunctionOnSet(f, T \ {AnyOf(T)})
    BY <1>2, FS_Subset, SumTakesAny
  <2> QED  BY <2>1, <2>2, <2>3
<1> HIDE DEF F
<1>3. S \in F
  BY <1>1, <1>2, SubsetInduction
<1> QED  BY <1>3 DEF F

\* Any element of the set may be taken out of a sum.
LEMMA SumTakes ==
    ASSUME NEW S, IsFiniteSet(S), NEW f, \A x \in S : f[x] \in Nat,
           NEW x \in S
    PROVE  SumFunctionOnSet(f, S) = f[x] + SumFunctionOnSet(f, S \ {x})
<1> DEFINE Sum(T) == SumFunctionOnSet(f, T)
           F == {T \in SUBSET S : \A y \in T : Sum(T) = f[y] + Sum(T \ {y})}
<1>1. \A T \in SUBSET S : /\ Sum(T) \in Nat
                          /\ T # {} => Sum(T) = f[AnyOf(T)] + Sum(T \ {AnyOf(T)})
  <2>1. \A T \in SUBSET S : IsFiniteSet(T)
    BY FS_Subset
  <2>2. \A T \in SUBSET S : Sum(T) \in Nat
    BY <2>1, SumNat
  <2>3. \A T \in SUBSET S : T # {} => Sum(T) = f[AnyOf(T)] + Sum(T \ {AnyOf(T)})
    BY <2>1, SumTakesAny
  <2> QED  BY <2>2, <2>3
<1> HIDE DEF Sum
<1>2. {} \in F
  OBVIOUS
<1>3. ASSUME NEW T \in SUBSET S, T # {}, \A z \in T : T \ {z} \in F
      PROVE  T \in F
  <2> SUFFICES ASSUME NEW y \in T PROVE Sum(T) = f[y] + Sum(T \ {y})
    OBVIOUS
  <2> DEFINE z == AnyOf(T)
  <2>1. z \in T /\ Sum(T) = f[z] + Sum(T \ {z})
    BY <1>1, <1>3 DEF AnyOf
  <2> HIDE DEF z
  <2>2. CASE z # y
    <3>1. Sum(T \ {z}) = f[y] + Sum((T \ {z}) \ {y})
      BY <1>3, <2>1, <2>2
    <3>2. Sum(T \ {y}) = f[z] + Sum((T \ {y}) \ {z})
      BY <1>3, <2>1, <2>2
    <3>3. (T \ {z}) \ {y} = (T \ {y}) \ {z}
      OBVIOUS
    <3>4. f[y] \in Nat /\ f[z] \in Nat /\ Sum((T \ {y}) \ {z}) \in Nat
      BY <1>1, <2>1
    <3> QED  BY <2>1, <3>1, <3>2, <3>3, <3>4
  <2> QED  BY <2>1, <2>2
<1> HIDE DEF F
<1>4. S \in F
  BY <1>2, <1>3, SubsetInduction
<1> QED  BY <1>4 DEF F, Sum

\* Sums compare as their terms do.
LEMMA SumMonotone ==
    ASSUME NEW S, IsFiniteSet(S),
           NEW f, \A x \in S : f[x] \in Nat, NEW g, \A x \in S : g[x] \in Nat,
           \A x \in S : f[x] <= g[x]
    PROVE  SumFunctionOnSet(f, S) <= SumFunctionOnSet(g, S)
<1> DEFINE F == {T \in SUBSET S : SumFunctionOnSet(f, T) <= SumFunctionOnSet(g, T)}
<1>1. {} \in F
  BY SumEmpty
<1>2. ASSUME NEW T \in SUBSET S, T # {}, \A x \in T : T \ {x} \in F
      PROVE  T \in F
  <2>0. PICK x \in T : TRUE
    BY <1>2
  <2>1. IsFiniteSet(T) /\ IsFiniteSet(T \ {x})
    BY FS_Subset
  <2>2. /\ SumFunctionOnSet(f, T) = f[x] + SumFunctionOnSet(f, T \ {x})
        /\ SumFunctionOnSet(g, T) = g[x] + SumFunctionOnSet(g, T \ {x})
    BY <2>1, SumTakes
  <2>3. /\ SumFunctionOnSet(f, T \ {x}) \in Nat
        /\ SumFunctionOnSet(g, T \ {x}) \in Nat
    BY <2>1, SumNat
  <2> QED  BY <1>2, <2>2, <2>3
<1> HIDE DEF F
<1>3. S \in F
  BY <1>1, <1>2, SubsetInduction
<1> QED  BY <1>3 DEF F

\* The sum of two functions is the sum of their sums.
LEMMA SumOfTwo ==
    ASSUME NEW S, IsFiniteSet(S),
           NEW f, \A x \in S : f[x] \in Nat, NEW g, \A x \in S : g[x] \in Nat,
           NEW h, \A x \in S : h[x] = f[x] + g[x]
    PROVE  SumFunctionOnSet(h, S) = SumFunctionOnSet(f, S) + SumFunctionOnSet(g, S)
<1> DEFINE F == {T \in SUBSET S : SumFunctionOnSet(h, T) =
                    SumFunctionOnSet(f, T) + SumFunctionOnSet(g, T)}
<1>1. {} \in F
  BY SumEmpty
<1>2. ASSUME NEW T \in SUBSET S, T # {}, \A x \in T : T \ {x} \in F
      PROVE  T \in F
  <2>0. PICK x \in T : TRUE
    BY <1>2
  <2>1. IsFiniteSet(T) /\ IsFiniteSet(T \ {x})
    BY FS_Subset
  <2>2. /\ SumFunctionOnSet(f, T) = f[x] + SumFunctionOnSet(f, T \ {x})
        /\ SumFunctionOnSet(g, T) = g[x] + SumFunctionOnSet(g, T \ {x})
        /\ SumFunctionOnSet(h, T) = h[x] + SumFunctionOnSet(h, T \ {x})
    BY <2>1, SumTakes
  <2>3. /\ SumFunctionOnSet(f, T \ {x}) \in Nat
        /\ SumFunctionOnSet(g, T \ {x}) \in Nat
    BY <2>1, SumNat
  <2> QED  BY <1>2, <2>2, <2>3
<1> HIDE DEF F
<1>3. S \in F
  BY <1>1, <1>2, SubsetInduction
<1> QED  BY <1>3 DEF F

\* A sum of equal terms.
LEMMA SumOfEqual ==
    ASSUME NEW S, IsFiniteSet(S), NEW c \in Nat, NEW f, \A x \in S : f[x] = c
    PROVE  SumFunctionOnSet(f, S) = Cardinality(S) * c
<1> DEFINE F == {T \in SUBSET S : SumFunctionOnSet(f, T) = Cardinality(T) * c}
<1>1. {} \in F
  BY SumEmpty, FS_EmptySet
<1>2. ASSUME NEW T \in SUBSET S, T # {}, \A x \in T : T \ {x} \in F
      PROVE  T \in F
  <2>0. PICK x \in T : TRUE
    BY <1>2
  <2>1. IsFiniteSet(T) /\ Cardinality(T) \in Nat
    BY FS_Subset, FS_CardinalityType
  <2>2. SumFunctionOnSet(f, T) = f[x] + SumFunctionOnSet(f, T \ {x})
    BY <2>1, SumTakes
  <2>4. f[x] = c /\ Cardinality(T \ {x}) = Cardinality(T) - 1
    BY <2>0, <2>1, FS_RemoveElement
  <2>3. (Cardinality(T) - 1) * c = Cardinality(T) * c - c
    BY <2>1
  <2>5. SumFunctionOnSet(f, T \ {x}) = Cardinality(T \ {x}) * c
    BY <1>2, <2>0
  <2> QED  BY <2>1, <2>2, <2>3, <2>4, <2>5
<1> HIDE DEF F
<1>3. S \in F
  BY <1>1, <1>2, SubsetInduction
<1> QED  BY <1>3 DEF F

\* What is zero adds nothing.
LEMMA SumWithoutZeros ==
    ASSUME NEW S, IsFiniteSet(S), NEW f, \A x \in S : f[x] \in Nat,
           NEW R \in SUBSET S, \A x \in S \ R : f[x] = 0
    PROVE  SumFunctionOnSet(f, S) = SumFunctionOnSet(f, R)
<1> DEFINE F == {T \in SUBSET S :
                    SumFunctionOnSet(f, T) = SumFunctionOnSet(f, T \cap R)}
<1>1. {} \in F
  BY SumEmpty
<1>2. ASSUME NEW T \in SUBSET S, T # {}, \A x \in T : T \ {x} \in F
      PROVE  T \in F
  <2>0. PICK x \in T : TRUE
    BY <1>2
  <2>1. IsFiniteSet(T) /\ IsFiniteSet(T \cap R) /\ IsFiniteSet(T \ {x})
    BY FS_Subset
  <2>2. /\ SumFunctionOnSet(f, T) = f[x] + SumFunctionOnSet(f, T \ {x})
        /\ SumFunctionOnSet(f, T \ {x}) \in Nat
    BY <2>1, SumTakes, SumNat
  <2>3. CASE x \in R
    <3>1. SumFunctionOnSet(f, T \cap R) = f[x] + SumFunctionOnSet(f, (T \cap R) \ {x})
      BY <2>1, <2>3, SumTakes
    <3>2. (T \cap R) \ {x} = (T \ {x}) \cap R
      OBVIOUS
    <3> QED  BY <1>2, <2>2, <3>1, <3>2
  <2>4. CASE x \notin R
    <3>1. f[x] = 0 /\ (T \ {x}) \cap R = T \cap R
      BY <2>4
    <3> QED  BY <1>2, <2>2, <3>1
  <2> QED  BY <2>3, <2>4
<1> HIDE DEF F
<1>3. S \in F
  BY <1>1, <1>2, SubsetInduction
<1>4. S \cap R = R
  OBVIOUS
<1> QED  BY <1>3, <1>4 DEF F

\* A sum does not depend on what its terms are named by.
LEMMA SumRenamed ==
    ASSUME NEW S, IsFiniteSet(S), NEW f, \A x \in S : f[x] \in Nat,
           NEW r, \A x, y \in S : r[x] = r[y] => x = y,
           NEW g, \A x \in S : g[r[x]] = f[x]
    PROVE  SumFunctionOnSet(g, {r[x] : x \in S}) = SumFunctionOnSet(f, S)
<1> DEFINE Image(T) == {r[x] : x \in T}
           F == {T \in SUBSET S : IsFiniteSet(Image(T)) /\
                    SumFunctionOnSet(g, Image(T)) = SumFunctionOnSet(f, T)}
<1>1. {} \in F
  <2>1. Image({}) = {}
    OBVIOUS
  <2> QED  BY <2>1, SumEmpty, FS_EmptySet
<1>2. ASSUME NEW T \in SUBSET S, T # {}, \A x \in T : T \ {x} \in F
      PROVE  T \in F
  <2>0. PICK x \in T : TRUE
    BY <1>2
  <2>1. IsFiniteSet(T) /\ IsFiniteSet(Image(T \ {x}))
    BY <1>2, FS_Subset
  <2>2. Image(T) = Image(T \ {x}) \cup {r[x]} /\ Image(T) \ {r[x]} = Image(T \ {x})
    OBVIOUS
  <2>3. IsFiniteSet(Image(T))
    <3> HIDE DEF Image
    <3>1. IsFiniteSet(Image(T \ {x}) \cup {r[x]})
      BY <2>1, FS_AddElement
    <3> QED  BY <2>2, <3>1
  <2>4. r[x] \in Image(T) /\ \A y \in Image(T) : g[y] \in Nat
    OBVIOUS
  <2>5. SumFunctionOnSet(f, T) = f[x] + SumFunctionOnSet(f, T \ {x})
    BY <2>1, SumTakes
  <2>6. SumFunctionOnSet(g, Image(T)) = g[r[x]] + SumFunctionOnSet(g, Image(T \ {x}))
    <3> HIDE DEF Image
    <3>1. SumFunctionOnSet(g, Image(T)) = g[r[x]] + SumFunctionOnSet(g, Image(T) \ {r[x]})
      BY <2>3, <2>4, SumTakes
    <3> QED  BY <2>2, <3>1
  <2> QED  BY <1>2, <2>3, <2>5, <2>6
<1> HIDE DEF F
<1>3. S \in F
  BY <1>1, <1>2, SubsetInduction
<1> QED  BY <1>3 DEF F


\* What every term may lose, the sum loses as often as there are terms.
LEMMA SumWithLoss ==
    ASSUME NEW S, IsFiniteSet(S), NEW d \in Nat,
           NEW f, \A x \in S : f[x] \in Nat, NEW g, \A x \in S : g[x] \in Nat,
           \A x \in S : f[x] <= g[x] + d
    PROVE  SumFunctionOnSet(f, S) <= SumFunctionOnSet(g, S) + Cardinality(S) * d
<1> DEFINE e == [x \in S |-> d]
           h == [x \in S |-> g[x] + d]
<1>1. /\ \A x \in S : e[x] = d /\ e[x] \in Nat
      /\ \A x \in S : h[x] = g[x] + e[x] /\ h[x] \in Nat /\ f[x] <= h[x]
  OBVIOUS
<1> HIDE DEF e, h
<1>2. SumFunctionOnSet(f, S) <= SumFunctionOnSet(h, S)
  BY <1>1, SumMonotone
<1>3. SumFunctionOnSet(h, S) = SumFunctionOnSet(g, S) + SumFunctionOnSet(e, S)
  BY <1>1, SumOfTwo
<1>4. SumFunctionOnSet(e, S) = Cardinality(S) * d
  BY <1>1, SumOfEqual
<1> QED  BY <1>2, <1>3, <1>4

\* A sum over part of a set is no more.
LEMMA SumOfPart ==
    ASSUME NEW S, IsFiniteSet(S), NEW f, \A x \in S : f[x] \in Nat,
           NEW R \in SUBSET S
    PROVE  SumFunctionOnSet(f, R) <= SumFunctionOnSet(f, S)
<1> DEFINE g == [x \in S |-> IF x \in R THEN f[x] ELSE 0]
<1>1. /\ \A x \in S : g[x] \in Nat /\ g[x] <= f[x]
      /\ \A x \in S \ R : g[x] = 0
      /\ \A x \in R : g[x] \in Nat /\ f[x] \in Nat /\ f[x] <= g[x]
  OBVIOUS
<1>2. IsFiniteSet(R)
  BY FS_Subset
<1> HIDE DEF g
<1>3. SumFunctionOnSet(f, R) <= SumFunctionOnSet(g, R)
  BY <1>1, <1>2, SumMonotone
<1>4. SumFunctionOnSet(g, S) = SumFunctionOnSet(g, R)
  BY <1>1, SumWithoutZeros
<1>5. SumFunctionOnSet(g, S) <= SumFunctionOnSet(f, S)
  BY <1>1, SumMonotone
<1>6. /\ SumFunctionOnSet(f, R) \in Nat /\ SumFunctionOnSet(g, R) \in Nat
      /\ SumFunctionOnSet(f, S) \in Nat
  BY <1>1, <1>2, SumNat
<1> QED  BY <1>3, <1>4, <1>5, <1>6

\* An element's term is no more than the sum.
LEMMA SumOverOne ==
    ASSUME NEW S, IsFiniteSet(S), NEW f, \A x \in S : f[x] \in Nat, NEW x \in S
    PROVE  f[x] <= SumFunctionOnSet(f, S)
<1>1. SumFunctionOnSet(f, S) = f[x] + SumFunctionOnSet(f, S \ {x})
  BY SumTakes
<1>2. IsFiniteSet(S \ {x})
  BY FS_Subset
<1>3. SumFunctionOnSet(f, S \ {x}) \in Nat
  BY <1>2, SumNat
<1> QED  BY <1>1, <1>3

\* Nor are the terms of two elements together.
LEMMA SumOverPair ==
    ASSUME NEW S, IsFiniteSet(S), NEW f, \A x \in S : f[x] \in Nat,
           NEW x \in S, NEW y \in S, x # y
    PROVE  f[x] + f[y] <= SumFunctionOnSet(f, S)
<1>1. SumFunctionOnSet(f, S) = f[x] + SumFunctionOnSet(f, S \ {x})
  BY SumTakes
<1>2. IsFiniteSet(S \ {x}) /\ y \in S \ {x}
  BY FS_Subset
<1>3. f[y] <= SumFunctionOnSet(f, S \ {x})
  BY <1>2, SumOverOne
<1>4. SumFunctionOnSet(f, S \ {x}) \in Nat
  BY <1>2, SumNat
<1> QED  BY <1>1, <1>3, <1>4

\* One term that grows makes a sum grow, if none shrinks.
LEMMA SumGrows ==
    ASSUME NEW S, IsFiniteSet(S),
           NEW f, \A x \in S : f[x] \in Nat, NEW g, \A x \in S : g[x] \in Nat,
           \A x \in S : f[x] <= g[x], NEW x \in S, f[x] + 1 <= g[x]
    PROVE  SumFunctionOnSet(f, S) + 1 <= SumFunctionOnSet(g, S)
<1>1. /\ SumFunctionOnSet(f, S) = f[x] + SumFunctionOnSet(f, S \ {x})
      /\ SumFunctionOnSet(g, S) = g[x] + SumFunctionOnSet(g, S \ {x})
  BY SumTakes
<1>2. IsFiniteSet(S \ {x})
  BY FS_Subset
<1>3. SumFunctionOnSet(f, S \ {x}) <= SumFunctionOnSet(g, S \ {x})
  BY <1>2, SumMonotone
<1>4. /\ SumFunctionOnSet(f, S \ {x}) \in Nat
      /\ SumFunctionOnSet(g, S \ {x}) \in Nat
  BY <1>2, SumNat
<1> QED  BY <1>1, <1>3, <1>4

=============================================================================
