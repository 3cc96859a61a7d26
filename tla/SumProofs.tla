----------------------------- MODULE SumProofs -----------------------------
(***************************************************************************)
(* Proofs about what adds up: the guesses at the codes of a phone (Codes), *)
(* for any limits, and the lines of a quote (Quotes), for any amounts,     *)
(* rates, charges and promotions.  First, what both need of sums.          *)
(***************************************************************************)
EXTENDS Codes, Quotes, FiniteSetTheorems, WellFoundedInduction, TLAPS

-----------------------------------------------------------------------------
(* Sums.  The folds of the community modules are recursive over subsets; the *)
(* least number that would be a counterexample stands in for induction.      *)

\* A set of numbers that has 0, and with n also n + 1, has them all.
LEMMA Counting ==
    ASSUME NEW Q \in SUBSET Nat, 0 \in Q, \A n \in Q : n + 1 \in Q
    PROVE  Q = Nat
<1>1. SUFFICES ASSUME Nat \ Q # {} PROVE FALSE
  OBVIOUS
<1>2. PICK n \in Nat \ Q : \A m \in Nat \ Q : ~(<<m, n>> \in OpToRel(<, Nat))
  BY <1>1, WFMin, NatLessThanWellFounded
<1>3. n \in Nat /\ n \notin Q /\ \A m \in Nat \ Q : ~(m < n)
  BY <1>2 DEF OpToRel
<1>4. n # 0 /\ n - 1 \in Nat
  BY <1>3
<1>5. n - 1 \in Q
  BY <1>3, <1>4
<1> QED
  BY <1>3, <1>4, <1>5

Pick(S) == CHOOSE x \in S : TRUE

\* The function by which the library sums f over S: the sums over the subsets.
Partial(f, S) ==
    CHOOSE g : g = [s \in SUBSET S |-> IF s = {} THEN 0 ELSE f[Pick(s)] + g[s \ {Pick(s)}]]

LEMMA SumIsPartial ==
    ASSUME NEW f, NEW S
    PROVE  SumFunctionOnSet(f, S) = Partial(f, S)[S]
BY DEF SumFunctionOnSet, FoldFunctionOnSet, MapThenFoldSet, Partial, Pick

\* The subsets with at most n elements.
UpTo(S, n) == {s \in SUBSET S : Cardinality(s) <= n}

LEMMA PickIsOne ==
    ASSUME NEW S, S # {}
    PROVE  Pick(S) \in S
BY DEF Pick

LEMMA Without ==
    ASSUME NEW S, IsFiniteSet(S), NEW s \in SUBSET S, NEW x \in s
    PROVE  /\ IsFiniteSet(s) /\ IsFiniteSet(s \ {x}) /\ s \ {x} \in SUBSET S
           /\ Cardinality(s) \in Nat /\ Cardinality(s) > 0
           /\ Cardinality(s \ {x}) = Cardinality(s) - 1
<1>1. IsFiniteSet(s)
  BY FS_Subset
<1>2. Cardinality(s) \in Nat /\ (Cardinality(s) = 0 <=> s = {})
  BY <1>1, FS_CardinalityType, FS_EmptySet
<1>3. IsFiniteSet(s \ {x}) /\ Cardinality(s \ {x}) = Cardinality(s) - 1
  BY <1>1, FS_RemoveElement
<1> QED
  BY <1>1, <1>2, <1>3

\* There is such a function.
LEMMA PartialAt ==
    ASSUME NEW f, NEW S, IsFiniteSet(S)
    PROVE  \A s \in SUBSET S : Partial(f, S)[s] =
              IF s = {} THEN 0 ELSE f[Pick(s)] + Partial(f, S)[s \ {Pick(s)}]
<1> DEFINE Step(g, s) == IF s = {} THEN 0 ELSE f[Pick(s)] + g[s \ {Pick(s)}]
           Defined(n) == \E g : g = [s \in UpTo(S, n) |-> Step(g, s)]
           Q == {n \in Nat : Defined(n)}
<1>1. \A s \in SUBSET S : IsFiniteSet(s) /\ Cardinality(s) \in Nat /\ (Cardinality(s) = 0 <=> s = {})
  BY FS_Subset, FS_CardinalityType, FS_EmptySet
<1>2. 0 \in Q
  <2> DEFINE g == [s \in UpTo(S, 0) |-> 0]
  <2>1. \A s \in UpTo(S, 0) : s = {}
    BY <1>1 DEF UpTo
  <2>2. g = [s \in UpTo(S, 0) |-> Step(g, s)]
    BY <2>1
  <2>3. Defined(0)
    BY <2>2
  <2> HIDE DEF Defined
  <2> QED
    BY <2>3
<1>3. \A n \in Q : n + 1 \in Q
  <2>1. TAKE n \in Q
  <2>2. PICK h : h = [s \in UpTo(S, n) |-> Step(h, s)]
    OBVIOUS
  <2> DEFINE g == [s \in UpTo(S, n + 1) |-> Step(h, s)]
  <2>3. \A s \in UpTo(S, n + 1) : s # {} => s \ {Pick(s)} \in UpTo(S, n)
    <3>1. SUFFICES ASSUME NEW s \in UpTo(S, n + 1), s # {} PROVE s \ {Pick(s)} \in UpTo(S, n)
      OBVIOUS
    <3>2. Pick(s) \in s /\ s \in SUBSET S /\ Cardinality(s) <= n + 1
      BY <3>1, PickIsOne DEF UpTo
    <3>3. /\ s \ {Pick(s)} \in SUBSET S /\ Cardinality(s) \in Nat
          /\ Cardinality(s \ {Pick(s)}) = Cardinality(s) - 1
      BY <3>2, Without
    <3> QED
      BY <3>2, <3>3 DEF UpTo
  <2>4. \A s \in UpTo(S, n) : s \in UpTo(S, n + 1) /\ g[s] = h[s]
    <3>1. \A s \in UpTo(S, n) : s \in UpTo(S, n + 1)
      BY <1>1 DEF UpTo
    <3>2. \A s \in UpTo(S, n) : h[s] = Step(h, s)
      BY <2>2
    <3> QED
      BY <3>1, <3>2
  <2>5. \A s \in UpTo(S, n + 1) : Step(h, s) = Step(g, s)
    BY <2>3, <2>4
  <2>6. g = [s \in UpTo(S, n + 1) |-> Step(g, s)]
    BY <2>5
  <2> HIDE DEF g
  <2>7. Defined(n + 1)
    BY <2>6
  <2> HIDE DEF Defined
  <2> QED
    BY <2>7
<1>4. Q = Nat
  BY <1>2, <1>3, Counting
<1>5. Defined(Cardinality(S)) /\ UpTo(S, Cardinality(S)) = SUBSET S
  BY <1>1, <1>4, FS_Subset DEF UpTo
<1>6. \E g : g = [s \in SUBSET S |-> Step(g, s)]
  BY <1>5
<1> DEFINE P == Partial(f, S)
<1>7. P = [s \in SUBSET S |-> Step(P, s)]
  BY <1>6 DEF Partial
<1> HIDE DEF P
<1>8. \A s \in SUBSET S : P[s] = Step(P, s)
  BY <1>7
<1> QED
  BY <1>8 DEF P

LEMMA Sizes ==
    ASSUME NEW S, IsFiniteSet(S)
    PROVE  \A s \in SUBSET S : IsFiniteSet(s) /\ Cardinality(s) \in Nat /\ (Cardinality(s) = 0 <=> s = {})
<1>1. SUFFICES ASSUME NEW s \in SUBSET S
               PROVE  IsFiniteSet(s) /\ Cardinality(s) \in Nat /\ (Cardinality(s) = 0 <=> s = {})
  OBVIOUS
<1>2. IsFiniteSet(s)
  BY FS_Subset
<1> QED
  BY <1>2, FS_CardinalityType, FS_EmptySet

\* Sums over subsets of two sets agree, and are numbers.
LEMMA PartialsAgree ==
    ASSUME NEW f, NEW S, IsFiniteSet(S), \A x \in S : f[x] \in Int, NEW R \in SUBSET S
    PROVE  \A s \in SUBSET R : Partial(f, R)[s] = Partial(f, S)[s] /\ Partial(f, S)[s] \in Int
<1> DEFINE P == Partial(f, S)
           O == Partial(f, R)
           Q == {n \in Nat : \A s \in SUBSET R : Cardinality(s) = n => O[s] = P[s] /\ P[s] \in Int}
<1>1. /\ IsFiniteSet(R)
      /\ \A s \in SUBSET R : IsFiniteSet(s) /\ Cardinality(s) \in Nat /\ (Cardinality(s) = 0 <=> s = {})
  BY Sizes, FS_Subset
<1>2. \A s \in SUBSET S : P[s] = IF s = {} THEN 0 ELSE f[Pick(s)] + P[s \ {Pick(s)}]
  BY PartialAt
<1>3. \A s \in SUBSET R : O[s] = IF s = {} THEN 0 ELSE f[Pick(s)] + O[s \ {Pick(s)}]
  BY <1>1, PartialAt
<1> HIDE DEF P, O
<1>4. 0 \in Q
  <2>3. O[{}] = 0 /\ P[{}] = 0
    BY <1>2, <1>3
  <2>1. \A s \in SUBSET R : Cardinality(s) = 0 => O[s] = P[s] /\ P[s] \in Int
    BY <1>1, <2>3
  <2> QED
    BY <2>1
<1>5. \A n \in Q : n + 1 \in Q
  <2>1. SUFFICES ASSUME NEW n \in Q, NEW s \in SUBSET R, Cardinality(s) = n + 1
                 PROVE  O[s] = P[s] /\ P[s] \in Int
    OBVIOUS
  <2>2. s # {} /\ Pick(s) \in s
    BY <1>1, <2>1, PickIsOne
  <2>3. s \ {Pick(s)} \in SUBSET R /\ Cardinality(s \ {Pick(s)}) = n
    BY <1>1, <2>1, <2>2, Without
  <2>5. f[Pick(s)] \in Int /\ s \in SUBSET S
    BY <2>1, <2>2
  <2>4. O[s \ {Pick(s)}] = P[s \ {Pick(s)}] /\ P[s \ {Pick(s)}] \in Int
    BY <2>1, <2>3
  <2> QED
    BY <1>2, <1>3, <2>1, <2>2, <2>4, <2>5
<1>6. Q = Nat
  BY <1>4, <1>5, Counting
<1> QED
  BY <1>1, <1>6 DEF P, O

\* Whichever element is taken first, the sum is the same.
LEMMA AnyFirst ==
    ASSUME NEW f, NEW S, IsFiniteSet(S), \A x \in S : f[x] \in Int
    PROVE  \A s \in SUBSET S : \A y \in s : Partial(f, S)[s] = f[y] + Partial(f, S)[s \ {y}]
<1> DEFINE P == Partial(f, S)
           Q == {n \in Nat : \A s \in SUBSET S : Cardinality(s) = n => \A y \in s : P[s] = f[y] + P[s \ {y}]}
<1>1. \A s \in SUBSET S : IsFiniteSet(s) /\ Cardinality(s) \in Nat /\ (Cardinality(s) = 0 <=> s = {})
  BY Sizes, FS_Subset
<1>2. \A s \in SUBSET S : P[s] = IF s = {} THEN 0 ELSE f[Pick(s)] + P[s \ {Pick(s)}]
  BY PartialAt
<1>3. \A s \in SUBSET S : P[s] \in Int
  BY PartialsAgree
<1> HIDE DEF P
<1>4. 0 \in Q
  <2>1. \A s \in SUBSET S : Cardinality(s) = 0 => \A y \in s : P[s] = f[y] + P[s \ {y}]
    BY <1>1
  <2> QED
    BY <2>1
<1>5. \A n \in Q : n + 1 \in Q
  <2>1. SUFFICES ASSUME NEW n \in Q, NEW s \in SUBSET S, Cardinality(s) = n + 1, NEW y \in s
                 PROVE  P[s] = f[y] + P[s \ {y}]
    OBVIOUS
  <2>2. Pick(s) \in s /\ P[s] = f[Pick(s)] + P[s \ {Pick(s)}]
    BY <1>2, <2>1, PickIsOne
  <2>3. CASE y = Pick(s)
    BY <2>2, <2>3
  <2>4. CASE y # Pick(s)
    <3>1. \A x \in s : s \ {x} \in SUBSET S /\ Cardinality(s \ {x}) = n
      BY <2>1, Without
    <3>2. P[s \ {Pick(s)}] = f[y] + P[(s \ {Pick(s)}) \ {y}]
      BY <2>1, <2>2, <2>4, <3>1
    <3>3. P[s \ {y}] = f[Pick(s)] + P[(s \ {y}) \ {Pick(s)}]
      BY <2>1, <2>2, <2>4, <3>1
    <3>4. (s \ {y}) \ {Pick(s)} = (s \ {Pick(s)}) \ {y} /\ (s \ {y}) \ {Pick(s)} \in SUBSET S
      OBVIOUS
    <3>5. f[y] \in Int /\ f[Pick(s)] \in Int /\ P[(s \ {y}) \ {Pick(s)}] \in Int
      BY <1>3, <2>1, <2>2, <3>4
    <3> DEFINE r == P[(s \ {y}) \ {Pick(s)}]
    <3>6. P[s] = f[Pick(s)] + (f[y] + r) /\ P[s \ {y}] = f[Pick(s)] + r
      BY <2>2, <3>2, <3>3, <3>4
    <3>7. r \in Int
      BY <3>5
    <3> HIDE DEF r
    <3>8. f[Pick(s)] + (f[y] + r) = f[y] + (f[Pick(s)] + r)
      BY <3>5, <3>7
    <3> QED
      BY <3>6, <3>8
  <2> QED
    BY <2>3, <2>4
<1>6. Q = Nat
  BY <1>4, <1>5, Counting
<1> QED
  BY <1>1, <1>6 DEF P

LEMMA SumOfNothing == ASSUME NEW f PROVE SumFunctionOnSet(f, {}) = 0
<1>1. IsFiniteSet({})
  BY FS_EmptySet
<1>2. Partial(f, {})[{}] = 0
  BY <1>1, PartialAt, {} \in SUBSET {}
<1> QED
  BY <1>2, SumIsPartial

\* A sum is a number, and any element can be split off.
LEMMA SumSplit ==
    ASSUME NEW f, NEW S, IsFiniteSet(S), \A x \in S : f[x] \in Int
    PROVE  /\ SumFunctionOnSet(f, S) \in Int
           /\ \A y \in S : SumFunctionOnSet(f, S) = f[y] + SumFunctionOnSet(f, S \ {y})
<1>1. Partial(f, S)[S] \in Int
  BY PartialsAgree
<1>2. \A y \in S : Partial(f, S)[S] = f[y] + Partial(f, S)[S \ {y}]
  BY AnyFirst
<1>3. \A y \in S : Partial(f, S \ {y})[S \ {y}] = Partial(f, S)[S \ {y}]
  BY PartialsAgree
<1> QED
  BY <1>1, <1>2, <1>3, SumIsPartial

\* A sum is bounded by another one, apart from m for each element of U.
LEMMA SumIsBounded ==
    ASSUME NEW S, IsFiniteSet(S), NEW f, NEW h, NEW U, NEW m \in Nat,
           \A x \in S : f[x] \in Int /\ h[x] \in Int,
           \A x \in S : f[x] <= IF x \in U THEN h[x] + m ELSE h[x]
    PROVE  SumFunctionOnSet(f, S) <= SumFunctionOnSet(h, S) + m * Cardinality(S \cap U)
<1> DEFINE F(s) == SumFunctionOnSet(f, s)
           H(s) == SumFunctionOnSet(h, s)
           C(s) == Cardinality(s \cap U)
           Q == {n \in Nat : \A s \in SUBSET S : Cardinality(s) = n => F(s) <= H(s) + m * C(s)}
<1>1. \A s \in SUBSET S : IsFiniteSet(s) /\ Cardinality(s) \in Nat /\ (Cardinality(s) = 0 <=> s = {})
  BY Sizes
<1>2. \A s \in SUBSET S : C(s) \in Nat
  BY Sizes
<1>3. \A s \in SUBSET S : F(s) \in Int /\ H(s) \in Int
  BY <1>1, SumSplit
<1>4. ASSUME NEW s \in SUBSET S, NEW y \in s
      PROVE  /\ F(s) = f[y] + F(s \ {y}) /\ H(s) = h[y] + H(s \ {y})
             /\ C(s) = IF y \in U THEN C(s \ {y}) + 1 ELSE C(s \ {y})
  <2>1. F(s) = f[y] + F(s \ {y}) /\ H(s) = h[y] + H(s \ {y})
    BY <1>1, SumSplit
  <2>2. IsFiniteSet(s \cap U) /\ (s \ {y}) \cap U = (s \cap U) \ {y}
    BY Sizes
  <2>3. Cardinality((s \cap U) \ {y}) = IF y \in s \cap U THEN C(s) - 1 ELSE C(s)
    BY <2>2, FS_RemoveElement
  <2>4. C(s) \in Nat /\ C(s \ {y}) \in Nat
    BY <1>2
  <2>5. C(s \ {y}) = IF y \in U THEN C(s) - 1 ELSE C(s)
    BY <2>2, <2>3
  <2> HIDE DEF C
  <2>6. C(s) = IF y \in U THEN C(s \ {y}) + 1 ELSE C(s \ {y})
    BY <2>4, <2>5
  <2> QED
    BY <2>1, <2>6
<1>5. F({}) = 0 /\ H({}) = 0
  BY SumOfNothing
<1> HIDE DEF F, H, C
<1>6. 0 \in Q
  <2>1. F({}) <= H({}) + m * C({})
    BY <1>2, <1>5
  <2>2. \A s \in SUBSET S : Cardinality(s) = 0 => F(s) <= H(s) + m * C(s)
    BY <1>1, <2>1
  <2> QED
    BY <2>2
<1>7. \A n \in Q : n + 1 \in Q
  <2>1. SUFFICES ASSUME NEW n \in Q, NEW s \in SUBSET S, Cardinality(s) = n + 1
                 PROVE  F(s) <= H(s) + m * C(s)
    OBVIOUS
  <2>2. PICK y \in s : TRUE
    BY <1>1, <2>1
  <2>3. s \ {y} \in SUBSET S /\ Cardinality(s \ {y}) = n
    <3>1. s \ {y} \in SUBSET S /\ Cardinality(s \ {y}) = Cardinality(s) - 1
      BY <2>2, Without
    <3> QED
      BY <2>1, <3>1
  <2>4. F(s \ {y}) <= H(s \ {y}) + m * C(s \ {y})
    BY <2>1, <2>3
  <2>5. C(s \ {y}) \in Nat /\ F(s \ {y}) \in Int /\ H(s \ {y}) \in Int
    BY <1>2, <1>3, <2>3
  <2> DEFINE k == C(s \ {y})
             p == m * k
  <2>6. m * (k + 1) = p + m /\ p \in Nat
    BY <2>5
  <2>7. m * C(s) = IF y \in U THEN p + m ELSE p
    BY <1>4, <2>6
  <2>8. f[y] \in Int /\ h[y] \in Int /\ f[y] <= IF y \in U THEN h[y] + m ELSE h[y]
    OBVIOUS
  <2>9. F(s) = f[y] + F(s \ {y}) /\ H(s) = h[y] + H(s \ {y}) /\ F(s \ {y}) <= H(s \ {y}) + p
    BY <1>4, <2>4
  <2> HIDE DEF p, k
  <2> QED
    BY <2>5, <2>6, <2>7, <2>8, <2>9
<1>8. Q = Nat
  BY <1>6, <1>7, Counting
<1> QED
  BY <1>1, <1>8 DEF F, H, C

\* What has the same values has the same sum.
LEMMA SumOfTheSame ==
    ASSUME NEW S, IsFiniteSet(S), NEW f, NEW h,
           \A x \in S : f[x] \in Int /\ h[x] = f[x]
    PROVE  SumFunctionOnSet(f, S) = SumFunctionOnSet(h, S)
<1>1. Cardinality(S \cap {}) = 0
  BY FS_EmptySet
<1>5. \A x \in S : f[x] \in Int /\ h[x] \in Int
  OBVIOUS
<1>6. \A x \in S : /\ f[x] <= IF x \in {} THEN h[x] + 0 ELSE h[x]
                  /\ h[x] <= IF x \in {} THEN f[x] + 0 ELSE f[x]
  BY <1>5
<1>2. SumFunctionOnSet(f, S) <= SumFunctionOnSet(h, S) + 0 * Cardinality(S \cap {})
  BY <1>5, <1>6, SumIsBounded
<1>3. SumFunctionOnSet(h, S) <= SumFunctionOnSet(f, S) + 0 * Cardinality(S \cap {})
  BY <1>5, <1>6, SumIsBounded
<1>4. SumFunctionOnSet(h, S) \in Int /\ SumFunctionOnSet(f, S) \in Int
  BY SumSplit
<1> QED
  BY <1>1, <1>2, <1>3, <1>4

\* What is nowhere negative outside a part is no less than that part, and the
\* same when there is nothing else.
LEMMA SumOfPart ==
    ASSUME NEW S, IsFiniteSet(S), NEW f, \A x \in S : f[x] \in Int,
           NEW R \in SUBSET S, \A x \in S \ R : f[x] >= 0
    PROVE  /\ SumFunctionOnSet(f, R) <= SumFunctionOnSet(f, S)
           /\ (\A x \in S \ R : f[x] = 0) => SumFunctionOnSet(f, R) = SumFunctionOnSet(f, S)
<1> DEFINE F(s) == SumFunctionOnSet(f, s)
           Zero == \A x \in S \ R : f[x] = 0
           Good(s) == F(R) <= F(s) /\ (Zero => F(R) = F(s))
           Q == {n \in Nat : \A s \in SUBSET S : R \subseteq s /\ Cardinality(s \ R) = n => Good(s)}
<1>1. \A s \in SUBSET S : IsFiniteSet(s) /\ Cardinality(s) \in Nat /\ (Cardinality(s) = 0 <=> s = {})
  BY Sizes
<1>2. \A s \in SUBSET S : F(s) \in Int /\ \A y \in s : F(s) = f[y] + F(s \ {y})
  BY <1>1, SumSplit
<1>3. Good(R)
  BY <1>2
<1>4. ASSUME NEW s \in SUBSET S, R \subseteq s, NEW y \in s \ R, Good(s \ {y})
      PROVE  Good(s)
  <2>1. F(s) = f[y] + F(s \ {y}) /\ F(s \ {y}) \in Int /\ F(R) \in Int
    BY <1>2
  <2>2. f[y] \in Int /\ f[y] >= 0 /\ (Zero => f[y] = 0)
    OBVIOUS
  <2> HIDE DEF F, Zero
  <2> QED
    BY <1>4, <2>1, <2>2
<1> HIDE DEF Good
<1>5. 0 \in Q
  <2>1. SUFFICES ASSUME NEW s \in SUBSET S, R \subseteq s, Cardinality(s \ R) = 0 PROVE Good(s)
    OBVIOUS
  <2>2. s \ R = {}
    BY <1>1, <2>1
  <2>3. s = R
    BY <2>1, <2>2
  <2> QED
    BY <1>3, <2>3
<1>6. \A n \in Q : n + 1 \in Q
  <2>1. SUFFICES ASSUME NEW n \in Q, NEW s \in SUBSET S, R \subseteq s, Cardinality(s \ R) = n + 1
                 PROVE  Good(s)
    OBVIOUS
  <2>2. PICK y \in s \ R : TRUE
    BY <1>1, <2>1
  <2>3. Cardinality((s \ R) \ {y}) = Cardinality(s \ R) - 1
    <3>1. s \ R \in SUBSET S /\ y \in s \ R
      BY <2>2
    <3> QED
      BY <3>1, Without
  <2>4. (s \ {y}) \ R = (s \ R) \ {y} /\ R \subseteq s \ {y} /\ s \ {y} \in SUBSET S
    BY <2>1, <2>2
  <2>5. Cardinality((s \ {y}) \ R) = n
    BY <2>1, <2>3, <2>4
  <2>6. Good(s \ {y})
    BY <2>1, <2>4, <2>5
  <2> QED
    BY <1>4, <2>1, <2>2, <2>6
<1>7. Q = Nat
  BY <1>5, <1>6, Counting
<1>8. Cardinality(S \ R) \in Nat /\ R \subseteq S
  BY <1>1
<1>9. Good(S)
  BY <1>7, <1>8
<1> QED
  BY <1>9 DEF Good

\* One more.
LEMMA SumToNext ==
    ASSUME NEW n \in Nat, NEW f, \A i \in 1..(n + 1) : f[i] \in Int
    PROVE  /\ SumFunctionOnSet(f, 1..n) \in Int
           /\ SumFunctionOnSet(f, 1..(n + 1)) = f[n + 1] + SumFunctionOnSet(f, 1..n)
<1>1. IsFiniteSet(1..n) /\ IsFiniteSet(1..(n + 1))
  BY FS_Interval
<1>2. n + 1 \in 1..(n + 1) /\ (1..(n + 1)) \ {n + 1} = 1..n
  OBVIOUS
<1>3. SumFunctionOnSet(f, 1..(n + 1)) = f[n + 1] + SumFunctionOnSet(f, (1..(n + 1)) \ {n + 1})
  BY <1>1, <1>2, SumSplit
<1>4. \A i \in 1..n : f[i] \in Int
  OBVIOUS
<1>5. SumFunctionOnSet(f, 1..n) \in Int
  BY <1>1, <1>4, SumSplit
<1> QED
  BY <1>2, <1>3, <1>5

\* A sequence and what follows its first element.
LEMMA SumOfTail ==
    ASSUME NEW n \in Nat, NEW f, NEW h,
           \A i \in 1..(n + 1) : f[i] \in Int, \A i \in 1..n : h[i] = f[i + 1]
    PROVE  SumFunctionOnSet(f, 1..(n + 1)) = f[1] + SumFunctionOnSet(h, 1..n)
<1> DEFINE F(k) == SumFunctionOnSet(f, 1..(k + 1))
           H(k) == SumFunctionOnSet(h, 1..k)
           Q == {k \in Nat : k <= n => F(k) = f[1] + H(k)}
<1>1. \A i \in 1..n : h[i] \in Int
  OBVIOUS
<1>2. F(0) = f[1] + H(0)
  <2>4. 0 \in Nat /\ \A i \in 1..(0 + 1) : f[i] \in Int
    OBVIOUS
  <2>1. SumFunctionOnSet(f, 1..(0 + 1)) = f[0 + 1] + SumFunctionOnSet(f, 1..0)
    BY <2>4, SumToNext
  <2>2. 1..0 = {} /\ 0 + 1 = 1
    OBVIOUS
  <2>3. f[1] \in Int
    OBVIOUS
  <2> QED
    BY <2>1, <2>2, <2>3, SumOfNothing
<1>3. ASSUME NEW k \in Nat, k + 1 <= n, F(k) = f[1] + H(k)
      PROVE  F(k + 1) = f[1] + H(k + 1)
  <2>1. F(k + 1) = f[(k + 1) + 1] + F(k)
    BY <1>3, SumToNext
  <2>2. H(k + 1) = h[k + 1] + H(k) /\ H(k) \in Int
    BY <1>1, <1>3, SumToNext
  <2>3. h[k + 1] = f[(k + 1) + 1] /\ f[(k + 1) + 1] \in Int /\ f[1] \in Int
    BY <1>3
  <2> QED
    BY <1>3, <2>1, <2>2, <2>3
<1> HIDE DEF F, H
<1>4. 0 \in Q /\ \A k \in Q : k + 1 \in Q
  BY <1>2, <1>3
<1>5. Q = Nat
  BY <1>4, Counting
<1>6. F(n) = f[1] + H(n)
  BY <1>5
<1> QED
  BY <1>6 DEF F, H

-----------------------------------------------------------------------------
(* Codes.  What was guessed and what may still be guessed together stay      *)
(* within the bound: a code that can no longer be used counts its attempts,  *)
(* an open one all it allows.  A request adds one when the attempts of the   *)
(* hour are fewer than MaxFailed, and leaves one open code per app.          *)

Challenge ==
    [app : Apps, consumed : BOOLEAN, attempts : Nat,
     delivery : {"PENDING", "SENT", "FAILED"}, age : COOLING..RECENT, wrong : Nat]

Weights(s) == [c \in DOMAIN s |-> IF s[c].consumed THEN s[c].attempts ELSE MaxPerCode]
Attempts(s) == [c \in DOMAIN s |-> s[c].attempts]
OpenOf(s) == {c \in DOMAIN s : ~s[c].consumed}

CodesTyping ==
    /\ challenge \in Seq(Challenge)
    /\ visit \in [status : {"ASSIGNED", "ARRIVED", "STARTED"}, attempts : Nat, wrong : Nat]

EveryCode(s) == \A c \in DOMAIN s : s[c].wrong = s[c].attempts /\ s[c].attempts <= MaxPerCode
OnePerApp(s) == \A b, c \in OpenOf(s) : s[b].app = s[c].app => b = c
MostGuesses == MaxFailed - 1 + Cardinality(Apps) * MaxPerCode

CodesInv ==
    /\ CodesTyping
    /\ visit.wrong = visit.attempts /\ visit.attempts <= MaxPerCode
    /\ EveryCode(challenge)
    /\ OnePerApp(challenge)
    /\ SumFunction(Weights(challenge)) <= MostGuesses

LEMMA BoundsAreNumbers ==
    /\ MaxPerCode \in Nat /\ MaxFailed \in Nat \ {0} /\ Cardinality(Apps) \in Nat
    /\ Cardinality(Apps) * MaxPerCode \in Nat /\ MostGuesses \in Nat
<1>1. MaxPerCode \in Nat /\ MaxFailed \in Nat \ {0} /\ Cardinality(Apps) \in Nat
  BY CodesAssumption, FS_CardinalityType
<1>2. Cardinality(Apps) * MaxPerCode \in Nat
  BY <1>1
<1> QED
  BY <1>1, <1>2 DEF MostGuesses

\* What sums over the codes are.
LEMMA CodeSums ==
    ASSUME NEW s \in Seq(Challenge)
    PROVE  /\ DOMAIN s = 1..Len(s) /\ Len(s) \in Nat /\ IsFiniteSet(DOMAIN s)
           /\ SumFunction(Weights(s)) = SumFunctionOnSet(Weights(s), 1..Len(s))
           /\ SumFunction(Attempts(s)) = SumFunctionOnSet(Attempts(s), 1..Len(s))
           /\ \A c \in 1..Len(s) : s[c] \in Challenge /\ Weights(s)[c] \in Nat /\ Attempts(s)[c] \in Nat
           /\ SumFunction(Weights(s)) \in Int /\ SumFunction(Attempts(s)) \in Int
<1>1. DOMAIN s = 1..Len(s) /\ Len(s) \in Nat /\ \A c \in 1..Len(s) : s[c] \in Challenge
  OBVIOUS
<1>2. IsFiniteSet(1..Len(s))
  BY <1>1, FS_Interval
<1>3. DOMAIN Weights(s) = 1..Len(s) /\ DOMAIN Attempts(s) = 1..Len(s)
  BY <1>1 DEF Weights, Attempts
<1>4. \A c \in 1..Len(s) : Weights(s)[c] \in Nat /\ Attempts(s)[c] \in Nat
  BY <1>1, BoundsAreNumbers DEF Weights, Attempts, Challenge
<1>5. /\ SumFunctionOnSet(Weights(s), 1..Len(s)) \in Int
      /\ SumFunctionOnSet(Attempts(s), 1..Len(s)) \in Int
  <2>1. \A c \in 1..Len(s) : Weights(s)[c] \in Int /\ Attempts(s)[c] \in Int
    BY <1>4
  <2> QED
    BY <1>2, <2>1, SumSplit
<1> QED
  BY <1>1, <1>2, <1>3, <1>4, <1>5 DEF SumFunction

\* A change of one code that adds nothing to its weight.
LEMMA NoHeavier ==
    ASSUME NEW s \in Seq(Challenge), NEW t \in Seq(Challenge), Len(t) = Len(s),
           \A c \in 1..Len(s) : Weights(t)[c] <= Weights(s)[c]
    PROVE  SumFunction(Weights(t)) <= SumFunction(Weights(s))
<1>1. IsFiniteSet(1..Len(s))
  BY CodeSums
<1>2. \A c \in 1..Len(s) : Weights(t)[c] \in Int /\ Weights(s)[c] \in Int
  BY CodeSums
<1>3. \A c \in 1..Len(s) : Weights(t)[c] <= IF c \in {} THEN Weights(s)[c] + 0 ELSE Weights(s)[c]
  OBVIOUS
<1>4. SumFunctionOnSet(Weights(t), 1..Len(s)) <=
        SumFunctionOnSet(Weights(s), 1..Len(s)) + 0 * Cardinality((1..Len(s)) \cap {})
  BY <1>1, <1>2, <1>3, SumIsBounded
<1>5. Cardinality((1..Len(s)) \cap {}) = 0
  BY FS_EmptySet
<1> QED
  BY <1>4, <1>5, CodeSums

\* Open codes are of different apps.
LEMMA FewAreOpen ==
    ASSUME NEW s \in Seq(Challenge), OnePerApp(s)
    PROVE  /\ Cardinality(OpenOf(s)) \in Nat
           /\ Cardinality(OpenOf(s)) <= Cardinality(Apps)
<1> DEFINE g == [c \in OpenOf(s) |-> s[c].app]
<1>1. \A c \in OpenOf(s) : s[c].app \in Apps
  BY CodeSums DEF OpenOf, Challenge
<1>2. g \in Injection(OpenOf(s), Apps)
  BY <1>1 DEF OnePerApp, Injection, IsInjective
<1>3. IsFiniteSet(OpenOf(s)) /\ Cardinality(OpenOf(s)) <= Cardinality(Apps)
  BY <1>2, FS_Injection, CodesAssumption
<1> QED
  BY <1>3, FS_CardinalityType

\* The weights exceed the attempts by no more than the open codes allow.
LEMMA WeightsOverAttempts ==
    ASSUME NEW s \in Seq(Challenge), OnePerApp(s)
    PROVE  SumFunction(Weights(s)) <= SumFunction(Attempts(s)) + Cardinality(Apps) * MaxPerCode
<1> DEFINE k == Cardinality(OpenOf(s))
<1>1. IsFiniteSet(1..Len(s)) /\ (1..Len(s)) \cap OpenOf(s) = OpenOf(s)
  BY CodeSums DEF OpenOf
<1>2. \A c \in 1..Len(s) : Weights(s)[c] \in Int /\ Attempts(s)[c] \in Int
  BY CodeSums
<1>3. \A c \in 1..Len(s) :
        Weights(s)[c] <= IF c \in OpenOf(s) THEN Attempts(s)[c] + MaxPerCode ELSE Attempts(s)[c]
  <2>1. \A c \in 1..Len(s) : s[c].attempts \in Nat
    BY CodeSums DEF Challenge
  <2> QED
    BY <2>1, CodeSums, BoundsAreNumbers DEF Weights, Attempts, OpenOf
<1>4. SumFunctionOnSet(Weights(s), 1..Len(s)) <=
        SumFunctionOnSet(Attempts(s), 1..Len(s)) + MaxPerCode * Cardinality((1..Len(s)) \cap OpenOf(s))
  BY <1>1, <1>2, <1>3, SumIsBounded, BoundsAreNumbers
<1>5. SumFunction(Weights(s)) <= SumFunction(Attempts(s)) + MaxPerCode * k
  BY <1>1, <1>4, CodeSums
<1>6. MaxPerCode * k <= Cardinality(Apps) * MaxPerCode
  <2>1. k \in Nat /\ k <= Cardinality(Apps)
    BY FewAreOpen
  <2> DEFINE d == Cardinality(Apps) - k
  <2>4. k \in Nat /\ d \in Nat /\ Cardinality(Apps) = k + d
    BY <2>1, BoundsAreNumbers
  <2> HIDE DEF d, k
  <2>3. Cardinality(Apps) * MaxPerCode = MaxPerCode * k + MaxPerCode * d /\ MaxPerCode * d >= 0
    BY <2>4, BoundsAreNumbers
  <2> QED
    BY <2>3, <2>4, BoundsAreNumbers
<1>7. MaxPerCode * k \in Int
  BY FewAreOpen, BoundsAreNumbers
<1> HIDE DEF k
<1> QED
  BY <1>5, <1>6, <1>7, CodeSums, BoundsAreNumbers

LEMMA CodesInvInit == CodesInit => CodesInv
<1>1. SUFFICES ASSUME CodesInit PROVE CodesInv
  OBVIOUS
<1>2. challenge = <<>> /\ challenge \in Seq(Challenge) /\ Len(challenge) = 0
  BY <1>1 DEF CodesInit
<1>3. SumFunction(Weights(challenge)) = 0
  <2>1. 1..0 = {}
    OBVIOUS
  <2> QED
    BY <1>2, <2>1, CodeSums, SumOfNothing
<1>4. DOMAIN challenge = {}
  BY <1>2
<1>5. EveryCode(challenge) /\ OnePerApp(challenge)
  BY <1>4 DEF EveryCode, OnePerApp, OpenOf
<1> QED
  BY <1>1, <1>2, <1>3, <1>5, BoundsAreNumbers DEF CodesInit, CodesInv, CodesTyping

LEMMA RequestKeepsCodes ==
    ASSUME CodesInv, NEW app \in Apps, Request(app)
    PROVE  CodesInv'
<1> DEFINE n == Len(challenge)
           s == challenge'
<1>1. challenge \in Seq(Challenge) /\ n \in Nat /\ Issued = 1..n /\ DOMAIN challenge = 1..n
  BY CodeSums DEF CodesInv, CodesTyping, Issued
<1>2. NewChallenge(app) \in Challenge
  BY DEF NewChallenge, Challenge, COOLING, RECENT
<1> DEFINE closed == [c \in Issued |-> IF challenge[c].app = app
                                     THEN [challenge[c] EXCEPT !.consumed = TRUE] ELSE challenge[c]]
<1>3. closed \in Seq(Challenge) /\ Len(closed) = n
  <2>1. ASSUME NEW c \in 1..n PROVE closed[c] \in Challenge
    <3>1. challenge[c] \in Challenge /\ c \in Issued
      BY <1>1
    <3>2. [challenge[c] EXCEPT !.consumed = TRUE] \in Challenge
      BY <3>1 DEF Challenge
    <3> QED
      BY <3>1, <3>2
  <2> QED
    BY <1>1, <2>1
<1>4. s = Append(closed, NewChallenge(app))
  BY DEF Request
<1>5. /\ s \in Seq(Challenge) /\ Len(s) = n + 1 /\ DOMAIN s = 1..(n + 1)
      /\ s[n + 1] = NewChallenge(app)
      /\ \A c \in 1..n : s[c] = closed[c]
  BY <1>1, <1>2, <1>3, <1>4
<1>6. /\ s[n + 1].app = app /\ ~s[n + 1].consumed /\ s[n + 1].attempts = 0 /\ s[n + 1].wrong = 0
      /\ \A c \in 1..n : /\ s[c].app = challenge[c].app
                        /\ s[c].attempts = challenge[c].attempts /\ s[c].wrong = challenge[c].wrong
                        /\ s[c].consumed = (challenge[c].consumed \/ challenge[c].app = app)
  <2>1. ASSUME NEW c \in 1..n
        PROVE  /\ s[c].app = challenge[c].app
               /\ s[c].attempts = challenge[c].attempts /\ s[c].wrong = challenge[c].wrong
               /\ s[c].consumed = (challenge[c].consumed \/ challenge[c].app = app)
    <3>1. challenge[c] \in Challenge /\ s[c] = closed[c]
      BY <1>1, <1>5
    <3>2. s[c] = IF challenge[c].app = app THEN [challenge[c] EXCEPT !.consumed = TRUE] ELSE challenge[c]
      BY <1>1, <3>1
    <3> QED
      BY <3>1, <3>2 DEF Challenge
  <2>2. /\ s[n + 1].app = app /\ ~s[n + 1].consumed
        /\ s[n + 1].attempts = 0 /\ s[n + 1].wrong = 0
    BY <1>5 DEF NewChallenge
  <2> HIDE DEF s, closed
  <2> QED
    BY <2>1, <2>2
<1> HIDE DEF closed, s
<1>7. EveryCode(s)
  <2>1. \A c \in 1..n : challenge[c].wrong = challenge[c].attempts /\ challenge[c].attempts <= MaxPerCode
    BY <1>1 DEF EveryCode, CodesInv
  <2>2. \A c \in 1..(n + 1) : c = n + 1 \/ c \in 1..n
    BY <1>1
  <2>3. 0 <= MaxPerCode
    BY BoundsAreNumbers
  <2>4. \A c \in 1..(n + 1) : s[c].wrong = s[c].attempts /\ s[c].attempts <= MaxPerCode
    BY <1>6, <2>1, <2>2, <2>3
  <2> QED
    BY <1>5, <2>4 DEF EveryCode
<1>8. OnePerApp(s)
  <2>1. \A c \in OpenOf(s) : c = n + 1 \/ (c \in 1..n /\ c \in OpenOf(challenge) /\ challenge[c].app # app)
    <3>1. \A c \in 1..(n + 1) : c = n + 1 \/ c \in 1..n
      BY <1>1
    <3> QED
      BY <1>1, <1>5, <1>6, <3>1 DEF OpenOf
  <2> QED
    BY <2>1, <1>6 DEF OnePerApp, CodesInv, OpenOf
<1>9. SumFunction(Weights(s)) <= MostGuesses
  <2>1. SumFunction(Attempts(s)) = SumFunction(Attempts(challenge))
    <3>1. /\ Attempts(s)[n + 1] = 0
          /\ \A c \in 1..n : Attempts(s)[c] = Attempts(challenge)[c] /\ Attempts(challenge)[c] \in Int
          /\ \A c \in 1..(n + 1) : Attempts(s)[c] \in Int
      <4>1. \A c \in 1..n : challenge[c].attempts \in Nat /\ c \in 1..(n + 1)
        <5>1. \A c \in 1..n : challenge[c] \in Challenge /\ c \in 1..(n + 1)
          BY <1>1
        <5> QED
          BY <5>1 DEF Challenge
      <4>2. \A c \in 1..(n + 1) : c = n + 1 \/ c \in 1..n
        BY <1>1
      <4>3. n + 1 \in 1..(n + 1)
        BY <1>1
      <4> QED
        BY <1>1, <1>5, <1>6, <4>1, <4>2, <4>3 DEF Attempts
    <3>2. /\ SumFunctionOnSet(Attempts(s), 1..(n + 1)) =
                Attempts(s)[n + 1] + SumFunctionOnSet(Attempts(s), 1..n)
          /\ SumFunctionOnSet(Attempts(s), 1..n) \in Int
      BY <1>1, <3>1, SumToNext
    <3>3. IsFiniteSet(1..n)
      BY <1>1, FS_Interval
    <3>4. SumFunctionOnSet(Attempts(s), 1..n) = SumFunctionOnSet(Attempts(challenge), 1..n)
      BY <3>1, <3>3, SumOfTheSame
    <3>5. /\ SumFunction(Attempts(s)) = SumFunctionOnSet(Attempts(s), 1..(n + 1))
          /\ SumFunction(Attempts(challenge)) = SumFunctionOnSet(Attempts(challenge), 1..n)
      BY <1>1, <1>5, CodeSums
    <3> QED
      BY <3>1, <3>2, <3>4, <3>5
  <2>2. SumFunction(Attempts(challenge)) <= MaxFailed - 1
    <3>1. SumFunction(Attempts(challenge)) < MaxFailed
      BY DEF Request, MayRequest, FailedHour, Attempts, Issued
    <3> QED
      BY <1>1, <3>1, CodeSums, BoundsAreNumbers
  <2>3. SumFunction(Weights(s)) <= SumFunction(Attempts(s)) + Cardinality(Apps) * MaxPerCode
    BY <1>5, <1>8, WeightsOverAttempts
  <2>4. SumFunction(Weights(s)) \in Int /\ SumFunction(Attempts(s)) \in Int
    BY <1>5, CodeSums
  <2> QED
    BY <2>1, <2>2, <2>3, <2>4, BoundsAreNumbers DEF MostGuesses
<1>10. visit' = visit
  BY DEF Request
<1> QED
  BY <1>5, <1>7, <1>8, <1>9, <1>10 DEF CodesInv, CodesTyping, s

\* What replaces one code by another that is as far and weighs no more.
LEMMA OneCodeChanges ==
    ASSUME CodesInv, NEW c \in Issued, NEW row \in Challenge,
           challenge' = [challenge EXCEPT ![c] = row], visit' = visit,
           row.app = challenge[c].app, row.wrong = row.attempts, row.attempts <= MaxPerCode,
           challenge[c].consumed => row.consumed /\ row.attempts = challenge[c].attempts
    PROVE  CodesInv'
<1> DEFINE n == Len(challenge)
           s == challenge'
<1>1. challenge \in Seq(Challenge) /\ n \in Nat /\ Issued = 1..n /\ DOMAIN challenge = 1..n
  BY CodeSums DEF CodesInv, CodesTyping, Issued
<1>2. /\ s \in Seq(Challenge) /\ Len(s) = n /\ DOMAIN s = 1..n
      /\ s[c] = row /\ \A b \in 1..n : b # c => s[b] = challenge[b]
  BY <1>1
<1> HIDE DEF s
<1>3. EveryCode(s)
  BY <1>1, <1>2 DEF EveryCode, CodesInv
<1>4. OnePerApp(s)
  <2>1. \A b \in OpenOf(s) : b \in OpenOf(challenge) /\ s[b].app = challenge[b].app
    BY <1>1, <1>2 DEF OpenOf
  <2> QED
    BY <2>1 DEF OnePerApp, CodesInv
<1>5. \A b \in 1..n : Weights(s)[b] <= Weights(challenge)[b]
  <2>1. \A b \in 1..n : Weights(challenge)[b] \in Nat
    BY <1>1, CodeSums
  <2>2. row.attempts \in Nat /\ row.consumed \in BOOLEAN
    BY DEF Challenge
  <2> QED
    BY <1>1, <1>2, <2>1, <2>2, BoundsAreNumbers DEF Weights
<1>6. SumFunction(Weights(s)) <= SumFunction(Weights(challenge))
  BY <1>1, <1>2, <1>5, NoHeavier
<1>7. SumFunction(Weights(s)) \in Int /\ SumFunction(Weights(challenge)) \in Int
  BY <1>1, <1>2, CodeSums
<1>8. SumFunction(Weights(s)) <= MostGuesses
  BY <1>6, <1>7, BoundsAreNumbers DEF CodesInv
<1> QED
  BY <1>2, <1>3, <1>4, <1>8 DEF CodesInv, CodesTyping, s

LEMMA CodeStepsKeepCodes ==
    ASSUME CodesInv, NEW c \in Issued,
           \/ \E yes \in BOOLEAN : DeliveryRecorded(c, yes) \/ EnterCode(c, yes)
           \/ GetsOlder(c)
    PROVE  CodesInv'
<1>1. /\ challenge[c] \in Challenge
      /\ challenge[c].wrong = challenge[c].attempts /\ challenge[c].attempts <= MaxPerCode
  BY CodeSums DEF CodesInv, CodesTyping, Issued, EveryCode
<1>2. CASE \E sent \in BOOLEAN : DeliveryRecorded(c, sent)
  <2>1. PICK sent \in BOOLEAN : DeliveryRecorded(c, sent)
    BY <1>2
  <2> DEFINE row == IF sent THEN [challenge[c] EXCEPT !.delivery = "SENT"]
                    ELSE [challenge[c] EXCEPT !.delivery = "FAILED", !.consumed = TRUE]
  <2>2. /\ row \in Challenge /\ row.app = challenge[c].app
        /\ row.wrong = challenge[c].wrong /\ row.attempts = challenge[c].attempts
        /\ challenge[c].consumed => row.consumed
    BY <1>1 DEF Challenge
  <2>3. challenge' = [challenge EXCEPT ![c] = row] /\ visit' = visit
    BY <2>1 DEF DeliveryRecorded
  <2> HIDE DEF row
  <2> QED
    BY <1>1, <2>2, <2>3, OneCodeChanges
<1>3. CASE \E right \in BOOLEAN : EnterCode(c, right)
  <2>1. PICK right \in BOOLEAN : EnterCode(c, right)
    BY <1>3
  <2> DEFINE row == IF right THEN [challenge[c] EXCEPT !.consumed = TRUE]
                    ELSE [challenge[c] EXCEPT !.attempts = @ + 1, !.wrong = @ + 1]
  <2>2. ~challenge[c].consumed /\ challenge[c].attempts < MaxPerCode
    BY <2>1 DEF EnterCode, Usable
  <2>3. /\ row \in Challenge /\ row.app = challenge[c].app
        /\ row.wrong = row.attempts /\ row.attempts <= MaxPerCode
    <3>1. challenge[c].attempts \in Nat /\ challenge[c].wrong \in Nat
      BY <1>1 DEF Challenge
    <3>2. /\ challenge[c].attempts + 1 \in Nat /\ challenge[c].attempts + 1 <= MaxPerCode
          /\ challenge[c].wrong + 1 = challenge[c].attempts + 1
      BY <1>1, <2>2, <3>1, BoundsAreNumbers
    <3>3. CASE right
      BY <1>1, <3>3 DEF Challenge
    <3>4. CASE ~right
      <4>1. row = [challenge[c] EXCEPT !.attempts = @ + 1, !.wrong = @ + 1]
        BY <3>4
      <4> HIDE DEF row
      <4> QED
        BY <1>1, <3>2, <4>1 DEF Challenge
    <3> QED
      BY <3>3, <3>4
  <2>4. challenge' = [challenge EXCEPT ![c] = row] /\ visit' = visit
    BY <2>1 DEF EnterCode
  <2> HIDE DEF row
  <2> QED
    BY <2>2, <2>3, <2>4, OneCodeChanges
<1>4. CASE GetsOlder(c)
  <2> DEFINE row == [challenge[c] EXCEPT !.age = @ + 1]
  <2>1. /\ row \in Challenge /\ row.app = challenge[c].app
        /\ row.wrong = challenge[c].wrong /\ row.attempts = challenge[c].attempts
        /\ row.consumed = challenge[c].consumed
    BY <1>1, <1>4 DEF Challenge, GetsOlder, COOLING, RECENT
  <2>2. challenge' = [challenge EXCEPT ![c] = row] /\ visit' = visit
    BY <1>4 DEF GetsOlder
  <2> HIDE DEF row
  <2> QED
    BY <1>1, <2>1, <2>2, OneCodeChanges
<1> QED
  BY <1>2, <1>3, <1>4

LEMMA HourKeepsCodes ==
    ASSUME CodesInv, HourPasses
    PROVE  CodesInv'
<1> DEFINE n == Len(challenge) - 1
           s == Tail(challenge)
<1>1. /\ challenge \in Seq(Challenge) /\ challenge # <<>>
      /\ challenge' = s /\ visit' = visit
  BY DEF HourPasses, CodesInv, CodesTyping
<1>2. /\ n \in Nat /\ Len(challenge) = n + 1 /\ DOMAIN challenge = 1..(n + 1)
      /\ s \in Seq(Challenge) /\ Len(s) = n /\ DOMAIN s = 1..n
      /\ \A c \in 1..n : s[c] = challenge[c + 1] /\ c + 1 \in 1..(n + 1)
  BY <1>1
<1> HIDE DEF s, n
<1>3. EveryCode(s)
  BY <1>2 DEF EveryCode, CodesInv
<1>4. OnePerApp(s)
  <2>1. SUFFICES ASSUME NEW b \in OpenOf(s), NEW c \in OpenOf(s), s[b].app = s[c].app
                 PROVE  b = c
    BY DEF OnePerApp
  <2>2. /\ b \in 1..n /\ c \in 1..n /\ s[b] = challenge[b + 1] /\ s[c] = challenge[c + 1]
        /\ b + 1 \in OpenOf(challenge) /\ c + 1 \in OpenOf(challenge)
    BY <1>2, <2>1 DEF OpenOf
  <2>3. b + 1 = c + 1
    BY <2>1, <2>2 DEF OnePerApp, CodesInv
  <2> QED
    BY <1>2, <2>2, <2>3
<1>5. SumFunction(Weights(challenge)) = Weights(challenge)[1] + SumFunction(Weights(s))
  <2>1. \A c \in 1..(n + 1) : Weights(challenge)[c] \in Int
    BY <1>1, <1>2, CodeSums
  <2>2. \A c \in 1..n : Weights(s)[c] = Weights(challenge)[c + 1]
    BY <1>2 DEF Weights
  <2>3. SumFunctionOnSet(Weights(challenge), 1..(n + 1)) =
          Weights(challenge)[1] + SumFunctionOnSet(Weights(s), 1..n)
    BY <1>2, <2>1, <2>2, SumOfTail
  <2> QED
    BY <1>1, <1>2, <2>3, CodeSums
<1>6. /\ Weights(challenge)[1] \in Nat
      /\ SumFunction(Weights(s)) \in Int /\ SumFunction(Weights(challenge)) \in Int
  <2>1. 1 \in 1..(n + 1)
    BY <1>2
  <2> QED
    BY <1>1, <1>2, <2>1, CodeSums
<1>7. SumFunction(Weights(s)) <= MostGuesses
  BY <1>5, <1>6, BoundsAreNumbers DEF CodesInv
<1> QED
  BY <1>1, <1>2, <1>3, <1>4, <1>7 DEF CodesInv, CodesTyping

LEMMA VisitKeepsCodes ==
    ASSUME CodesInv,
           Arrive \/ StartWithoutCode \/ \E right \in BOOLEAN : StartWithCode(right)
    PROVE  CodesInv'
<1>1. challenge' = challenge
  BY DEF Arrive, StartWithoutCode, StartWithCode
<1>2. /\ visit \in [status : {"ASSIGNED", "ARRIVED", "STARTED"}, attempts : Nat, wrong : Nat]
      /\ visit.wrong = visit.attempts /\ visit.attempts <= MaxPerCode
  BY DEF CodesInv, CodesTyping
<1>3. visit.attempts \in Nat /\ visit.wrong \in Nat
  BY <1>2
<1>4. \/ visit' = [visit EXCEPT !.status = "ARRIVED"] \/ visit' = [visit EXCEPT !.status = "STARTED"]
      \/ visit.attempts < MaxPerCode /\ visit' = [visit EXCEPT !.attempts = @ + 1, !.wrong = @ + 1]
  BY DEF Arrive, StartWithoutCode, StartWithCode
<1>5. /\ visit' \in [status : {"ASSIGNED", "ARRIVED", "STARTED"}, attempts : Nat, wrong : Nat]
      /\ visit'.wrong = visit'.attempts /\ visit'.attempts <= MaxPerCode
  <2>1. CASE visit' = [visit EXCEPT !.status = "ARRIVED"] \/ visit' = [visit EXCEPT !.status = "STARTED"]
    BY <1>2, <2>1
  <2>2. CASE visit.attempts < MaxPerCode /\ visit' = [visit EXCEPT !.attempts = @ + 1, !.wrong = @ + 1]
    <3>1. visit.attempts + 1 \in Nat /\ visit.wrong + 1 = visit.attempts + 1
          /\ visit.attempts + 1 <= MaxPerCode
      BY <1>2, <1>3, <2>2, BoundsAreNumbers
    <3>2. /\ visit'.attempts = visit.attempts + 1 /\ visit'.wrong = visit.wrong + 1
          /\ visit' \in [status : {"ASSIGNED", "ARRIVED", "STARTED"}, attempts : Nat, wrong : Nat]
      BY <1>2, <2>2, <3>1
    <3> QED
      BY <3>1, <3>2
  <2> QED
    BY <1>4, <2>1, <2>2
<1> QED
  BY <1>1, <1>5 DEF CodesInv, CodesTyping

LEMMA CodesInvNext == CodesInv /\ [CodesNext]_codes => CodesInv'
<1>1. SUFFICES ASSUME CodesInv, [CodesNext]_codes PROVE CodesInv'
  OBVIOUS
<1>2. CASE UNCHANGED codes
  BY <1>1, <1>2 DEF codes, CodesInv, CodesTyping
<1>3. CASE \E app \in Apps : Request(app)
  BY <1>1, <1>3, RequestKeepsCodes
<1>4. CASE \E c \in Issued : \/ \E yes \in BOOLEAN : DeliveryRecorded(c, yes) \/ EnterCode(c, yes)
                            \/ GetsOlder(c)
  BY <1>1, <1>4, CodeStepsKeepCodes
<1>5. CASE HourPasses
  BY <1>1, <1>5, HourKeepsCodes
<1>6. CASE Arrive \/ StartWithoutCode \/ \E right \in BOOLEAN : StartWithCode(right)
  BY <1>1, <1>6, VisitKeepsCodes
<1> QED
  BY <1>1, <1>2, <1>3, <1>4, <1>5, <1>6 DEF CodesNext

\* What was guessed is part of what was or may still be guessed.
LEMMA CodesInvBounds == CodesInv => GuessesAreBounded
<1>1. SUFFICES ASSUME CodesInv PROVE GuessesAreBounded
  OBVIOUS
<1> DEFINE n == Len(challenge)
<1>2. challenge \in Seq(Challenge) /\ n \in Nat /\ DOMAIN challenge = 1..n /\ IsFiniteSet(1..n)
  BY <1>1, CodeSums DEF CodesInv, CodesTyping
<1>3. [c \in Issued |-> challenge[c].wrong] = Attempts(challenge)
  BY <1>1 DEF Issued, Attempts, CodesInv, EveryCode
<1>4. \A c \in 1..n : Attempts(challenge)[c] \in Int /\ Weights(challenge)[c] \in Int
  BY <1>2, CodeSums
<1>5. \A c \in 1..n : Attempts(challenge)[c] <=
        IF c \in {} THEN Weights(challenge)[c] + 0 ELSE Weights(challenge)[c]
  <2>1. \A c \in 1..n : challenge[c].attempts <= MaxPerCode
    BY <1>1, <1>2 DEF CodesInv, EveryCode
  <2> QED
    BY <1>2, <1>4, <2>1 DEF Attempts, Weights
<1>6. SumFunctionOnSet(Attempts(challenge), 1..n) <=
        SumFunctionOnSet(Weights(challenge), 1..n) + 0 * Cardinality((1..n) \cap {})
  BY <1>2, <1>4, <1>5, SumIsBounded
<1>7. Cardinality((1..n) \cap {}) = 0
  BY FS_EmptySet
<1>8. SumFunction(Attempts(challenge)) <= SumFunction(Weights(challenge))
  BY <1>2, <1>6, <1>7, CodeSums
<1>9. SumFunction(Attempts(challenge)) \in Int /\ SumFunction(Weights(challenge)) \in Int
  BY <1>2, CodeSums
<1>10. SumFunction(Attempts(challenge)) <= MostGuesses
  BY <1>1, <1>8, <1>9, BoundsAreNumbers DEF CodesInv
<1>11. visit.wrong <= MaxPerCode
  BY <1>1 DEF CodesInv
<1> QED
  BY <1>3, <1>10, <1>11 DEF GuessesAreBounded, MostGuesses

\* The codes of a phone are guessed at a bounded number of times in an hour, and
\* a start code no more often than its limit, for any apps and limits.
THEOREM GuessingIsBounded == CodesSpec => []GuessesAreBounded
<1>1. CodesInit => CodesInv
  BY CodesInvInit
<1>2. CodesInv /\ [CodesNext]_codes => CodesInv'
  BY CodesInvNext
<1>3. CodesInv => GuessesAreBounded
  BY CodesInvBounds
<1> QED
  BY <1>1, <1>2, <1>3, PTL DEF CodesSpec

-----------------------------------------------------------------------------
(* Quotes.  Every quote is a calculation from inputs of these kinds.         *)

Charge == [kind : {"FIXED", "PERCENT_OF_BASE"}, value : Nat, taxable : BOOLEAN]
Promo == [type : {"NONE", "FLAT", "PERCENT"}, value : Nat, most : Nat, least : Nat]

\* QuoteAddsUp, of any quote.
AddsUp(q) ==
    /\ SumFunction([k \in DOMAIN q.lines |-> q.lines[k].amount]) = q.total
    /\ q.total >= 0
    /\ \A k \in DOMAIN q.lines : q.lines[k].amount < 0 <=> q.lines[k].type = "DISCOUNT"
    /\ q.taxable >= 0 /\ q.discount >= 0
    /\ q.promo.most # Unlimited => q.discount <= q.promo.most
    /\ LET off == Whole * q.tax - q.taxable * q.rate
       IN 2 * off <= Whole /\ -2 * off < Whole

\* A share of an amount is the exact one, rounded once.
LEMMA Rounding ==
    ASSUME NEW amount \in Nat, NEW bp \in Nat
    PROVE  LET share == ApplyBasisPoints(amount, bp)
               off == Whole * share - amount * bp
           IN  share \in Nat /\ 2 * off <= Whole /\ -2 * off < Whole
<1> DEFINE m == amount * bp
           share == (m + 5000) \div 10000
<1>1. m \in Nat
  OBVIOUS
<1>2. ApplyBasisPoints(amount, bp) = share
  BY DEF ApplyBasisPoints, Whole
<1> HIDE DEF m
<1>3. /\ share \in Nat /\ 2 * (10000 * share - m) <= 10000
      /\ -2 * (10000 * share - m) < 10000
  BY <1>1
<1> HIDE DEF share
<1> QED
  BY <1>2, <1>3 DEF Whole, m

\* The discount stays within its caps.
LEMMA DiscountIsCapped ==
    ASSUME NEW promo \in Promo, NEW subtotal \in Nat, NEW ceiling \in Nat
    PROVE  LET discount == Discount(promo, subtotal, ceiling)
           IN  /\ discount \in Nat /\ discount <= ceiling
               /\ promo.most # Unlimited => discount <= promo.most
<1> DEFINE asked == IF promo.type = "FLAT" THEN promo.value
                    ELSE ApplyBasisPoints(subtotal, promo.value)
           capped == IF promo.most = Unlimited THEN asked ELSE Smaller(asked, promo.most)
<1>1. promo.value \in Nat /\ promo.most \in Nat
  BY DEF Promo
<1>2. asked \in Nat
  BY <1>1, Rounding
<1>3. Discount(promo, subtotal, ceiling) =
        IF promo.type = "NONE" \/ subtotal < promo.least THEN 0
        ELSE Larger(0, Smaller(capped, ceiling))
  BY DEF Discount
<1> HIDE DEF asked
<1>4. capped \in Nat /\ (promo.most # Unlimited => capped <= promo.most)
  BY <1>1, <1>2 DEF Smaller
<1> HIDE DEF capped
<1>5. /\ Larger(0, Smaller(capped, ceiling)) \in Nat
      /\ Larger(0, Smaller(capped, ceiling)) <= ceiling
      /\ Larger(0, Smaller(capped, ceiling)) <= capped
  BY <1>4 DEF Smaller, Larger
<1> QED
  BY <1>1, <1>3, <1>4, <1>5

LEMMA AmountsAreNumbers ==
    ASSUME NEW base \in Nat, NEW charges \in Seq(Charge)
    PROVE  /\ Len(charges) \in Nat /\ IsFiniteSet(0..Len(charges))
           /\ DOMAIN Amounts(base, charges) = 0..Len(charges)
           /\ \A k \in 0..Len(charges) : Amounts(base, charges)[k] \in Nat
<1>1. Len(charges) \in Nat /\ \A k \in 1..Len(charges) : charges[k] \in Charge
  OBVIOUS
<1>2. \A c \in Charge : ChargeAmount(base, c) \in Nat
  <2>1. \A c \in Charge : c.value \in Nat
    BY DEF Charge
  <2>2. \A c \in Charge : ApplyBasisPoints(base, c.value) \in Nat
    BY <2>1, Rounding
  <2> QED
    BY <2>1, <2>2 DEF ChargeAmount
<1>3. \A k \in 0..Len(charges) : k = 0 \/ k \in 1..Len(charges)
  BY <1>1
<1>4. \A k \in 0..Len(charges) : Amounts(base, charges)[k] \in Nat
  BY <1>1, <1>2, <1>3 DEF Amounts
<1> QED
  BY <1>1, <1>4, FS_Interval DEF Amounts

\* What is charged, and the part of it that a discount and tax are of.
LEMMA TaxedIsPart ==
    ASSUME NEW base \in Nat, NEW charges \in Seq(Charge)
    PROVE  LET amounts == Amounts(base, charges)
               subtotal == SumFunction(amounts)
               discountable == SumFunctionOnSet(amounts, Taxed(charges))
           IN  /\ subtotal = SumFunctionOnSet(amounts, 0..Len(charges))
               /\ subtotal \in Nat /\ discountable \in Nat /\ discountable <= subtotal
<1> DEFINE S == 0..Len(charges)
           amounts == Amounts(base, charges)
           T == Taxed(charges)
<1>1. /\ IsFiniteSet(S) /\ DOMAIN amounts = S
      /\ \A k \in S : amounts[k] \in Nat
  BY AmountsAreNumbers
<1>2. T \in SUBSET S
  BY AmountsAreNumbers DEF Taxed
<1> HIDE DEF S, amounts, T
<1>3. IsFiniteSet(T) /\ IsFiniteSet({}) /\ {} \in SUBSET S /\ {} \in SUBSET T
  BY <1>1, <1>2, FS_Subset, FS_EmptySet
<1>4. \A k \in S : amounts[k] \in Int /\ amounts[k] >= 0
  BY <1>1
<1>5. SumFunctionOnSet(amounts, S) \in Int /\ SumFunctionOnSet(amounts, T) \in Int
  BY <1>1, <1>2, <1>3, <1>4, SumSplit
<1>6. SumFunctionOnSet(amounts, T) <= SumFunctionOnSet(amounts, S)
  BY <1>1, <1>2, <1>4, SumOfPart
<1>7. SumFunctionOnSet(amounts, {}) <= SumFunctionOnSet(amounts, T)
  BY <1>2, <1>3, <1>4, SumOfPart
<1>8. SumFunctionOnSet(amounts, {}) = 0
  BY SumOfNothing
<1>9. SumFunction(amounts) = SumFunctionOnSet(amounts, S)
  BY <1>1 DEF SumFunction
<1> QED
  BY <1>5, <1>6, <1>7, <1>8, <1>9 DEF S, amounts, T

\* The lines sum to what is charged, less the discount, and the tax.
LEMMA LinesAddUp ==
    ASSUME NEW base \in Nat, NEW charges \in Seq(Charge), NEW discount \in Nat, NEW tax \in Nat
    PROVE  LET lines == Lines(base, charges, discount, tax)
           IN  /\ SumFunction([k \in DOMAIN lines |-> lines[k].amount]) =
                     SumFunction(Amounts(base, charges)) - discount + tax
               /\ \A k \in DOMAIN lines : lines[k].amount < 0 <=> lines[k].type = "DISCOUNT"
<1> DEFINE n == Len(charges)
           amounts == Amounts(base, charges)
           S == 0..(n + 2)
           all == [k \in S |->
                     CASE k = n + 1 -> [type |-> "DISCOUNT", amount |-> -discount]
                       [] k = n + 2 -> [type |-> "TAX", amount |-> tax]
                       [] OTHER -> [type |-> IF k = 0 THEN "BASE" ELSE "CHARGE",
                                    amount |-> amounts[k]]]
           shown == {k \in S : k = 0 \/ all[k].amount > 0
                               \/ (k <= n + 1 /\ all[k].amount # 0)}
           lines == Lines(base, charges, discount, tax)
           f == [k \in S |-> all[k].amount]
           h == [k \in DOMAIN lines |-> lines[k].amount]
<1>1. /\ n \in Nat /\ IsFiniteSet(0..n) /\ DOMAIN amounts = 0..n
      /\ \A k \in 0..n : amounts[k] \in Nat
  BY AmountsAreNumbers
<1>2. lines = [k \in shown |-> all[k]]
  BY DEF Lines
<1> HIDE DEF n, amounts, lines
<1>3. \A k \in S : k = n + 1 \/ k = n + 2 \/ k \in 0..n
  BY <1>1
<1>4. n + 1 \in S /\ n + 2 \in S /\ \A k \in 0..n : k \in S /\ k # n + 1 /\ k # n + 2
  BY <1>1
<1>5. /\ all[n + 1] = [type |-> "DISCOUNT", amount |-> -discount]
      /\ all[n + 2] = [type |-> "TAX", amount |-> tax]
      /\ \A k \in 0..n : all[k] = [type |-> IF k = 0 THEN "BASE" ELSE "CHARGE", amount |-> amounts[k]]
  BY <1>1, <1>4
<1> HIDE DEF all
<1>6. /\ all[n + 1].amount = -discount /\ all[n + 1].type = "DISCOUNT"
      /\ all[n + 2].amount = tax /\ all[n + 2].type = "TAX"
      /\ \A k \in 0..n : all[k].amount = amounts[k] /\ all[k].type # "DISCOUNT"
  <2>1. /\ all[n + 1].amount = -discount /\ all[n + 1].type = "DISCOUNT"
        /\ all[n + 2].amount = tax /\ all[n + 2].type = "TAX"
    BY <1>5
  <2>2. ASSUME NEW k \in 0..n
        PROVE  all[k].amount = amounts[k] /\ all[k].type # "DISCOUNT"
    <3>1. all[k] = [type |-> IF k = 0 THEN "BASE" ELSE "CHARGE", amount |-> amounts[k]]
      BY <1>5
    <3> HIDE DEF S
    <3>2. all[k].amount = amounts[k]
      BY <3>1
    <3>3. all[k].type = IF k = 0 THEN "BASE" ELSE "CHARGE"
      BY <3>1
    <3> QED
      BY <3>2, <3>3
  <2> QED
    BY <2>1, <2>2
<1>7. \A k \in S : all[k].amount \in Int
  BY <1>1, <1>3, <1>6
<1>8. \A k \in S \ shown : all[k].amount = 0
  <2>1. SUFFICES ASSUME NEW k \in S, k \notin shown PROVE all[k].amount = 0
    OBVIOUS
  <2>2. ~(all[k].amount > 0) /\ ~(k <= n + 1 /\ all[k].amount # 0)
    BY <2>1
  <2>3. CASE k = n + 2
    BY <1>6, <2>2, <2>3
  <2>4. CASE k # n + 2
    <3>1. k <= n + 1
      BY <1>1, <1>3, <2>4
    <3> QED
      BY <2>2, <3>1
  <2> QED
    BY <2>3, <2>4
<1>9. \A k \in shown : all[k].amount < 0 <=> all[k].type = "DISCOUNT"
  <2>1. SUFFICES ASSUME NEW k \in shown PROVE all[k].amount < 0 <=> all[k].type = "DISCOUNT"
    OBVIOUS
  <2>2. CASE k = n + 1
    <3>1. k # 0 /\ all[k].amount # 0
      BY <1>1, <2>2
    <3> QED
      BY <1>6, <2>2, <3>1
  <2>3. CASE k = n + 2
    BY <1>6, <2>3
  <2>4. CASE k \in 0..n
    BY <1>1, <1>6, <2>4
  <2> QED
    BY <1>3, <2>2, <2>3, <2>4
<1>10. shown \in SUBSET S /\ DOMAIN lines = shown /\ \A k \in shown : lines[k] = all[k]
  BY <1>2
<1> HIDE DEF shown
<1>11. IsFiniteSet(S) /\ IsFiniteSet(shown)
  <2>1. IsFiniteSet(S)
    BY <1>1, FS_Interval
  <2> QED
    BY <1>10, <2>1, FS_Subset
<1>12. SumFunction(h) = SumFunctionOnSet(f, S)
  <2>1. DOMAIN h = shown /\ \A k \in shown : f[k] \in Int /\ h[k] = f[k]
    BY <1>7, <1>10
  <2>2. \A k \in S : f[k] \in Int
    BY <1>7
  <2>3. \A k \in S \ shown : f[k] = 0 /\ f[k] >= 0
    BY <1>8
  <2> HIDE DEF f, h
  <2>4. SumFunctionOnSet(f, shown) = SumFunctionOnSet(h, shown)
    BY <1>11, <2>1, SumOfTheSame
  <2>5. SumFunctionOnSet(f, shown) = SumFunctionOnSet(f, S)
    BY <1>10, <1>11, <2>2, <2>3, SumOfPart
  <2> QED
    BY <2>1, <2>4, <2>5 DEF SumFunction
<1>13. SumFunctionOnSet(f, S) = tax + (-discount + SumFunctionOnSet(amounts, 0..n))
  <2>1. \A k \in S : f[k] \in Int
    BY <1>7
  <2>2. f[n + 1] = -discount /\ f[n + 2] = tax
    BY <1>4, <1>6
  <2>3. \A k \in 0..n : f[k] \in Int /\ amounts[k] = f[k]
    BY <1>4, <1>6, <1>7
  <2> HIDE DEF f
  <2>4. /\ S \ {n + 2} = 0..(n + 1) /\ (0..(n + 1)) \ {n + 1} = 0..n
        /\ 0..(n + 1) \subseteq S /\ n + 1 \in 0..(n + 1)
    BY <1>1
  <2>5. SumFunctionOnSet(f, S) = tax + SumFunctionOnSet(f, 0..(n + 1))
    <3>1. n + 2 \in S /\ IsFiniteSet(S)
      BY <1>4, <1>11
    <3> HIDE DEF S
    <3>2. SumFunctionOnSet(f, S) = f[n + 2] + SumFunctionOnSet(f, S \ {n + 2})
      BY <2>1, <3>1, SumSplit
    <3> QED
      BY <2>2, <2>4, <3>2
  <2>6. SumFunctionOnSet(f, 0..(n + 1)) = -discount + SumFunctionOnSet(f, 0..n)
    <3>1. IsFiniteSet(0..(n + 1)) /\ \A k \in 0..(n + 1) : f[k] \in Int
      BY <1>1, <2>1, <2>4, FS_Interval
    <3> DEFINE R == 0..(n + 1)
    <3>2. n + 1 \in R /\ IsFiniteSet(R) /\ \A k \in R : f[k] \in Int
      BY <2>4, <3>1
    <3>3. R \ {n + 1} = 0..n
      BY <2>4
    <3> HIDE DEF R
    <3>4. SumFunctionOnSet(f, R) = f[n + 1] + SumFunctionOnSet(f, R \ {n + 1})
      BY <3>2, SumSplit
    <3> QED
      BY <2>2, <3>3, <3>4 DEF R
  <2>7. SumFunctionOnSet(f, 0..n) = SumFunctionOnSet(amounts, 0..n)
    BY <1>1, <2>3, SumOfTheSame
  <2> QED
    BY <2>5, <2>6, <2>7
<1>14. /\ SumFunction(amounts) = SumFunctionOnSet(amounts, 0..n)
       /\ SumFunctionOnSet(amounts, 0..n) \in Int
  <2> DEFINE sum == SumFunction(Amounts(base, charges))
             sumOn == SumFunctionOnSet(Amounts(base, charges), 0..Len(charges))
  <2>1. sum = sumOn /\ sum \in Nat
    BY TaxedIsPart
  <2> HIDE DEF sum, sumOn
  <2>2. sum = sumOn /\ sumOn \in Int
    BY <2>1
  <2> QED
    BY <2>2 DEF amounts, n, sum, sumOn
<1>15. SumFunction(h) = SumFunction(amounts) - discount + tax
  BY <1>12, <1>13, <1>14
<1>16. \A k \in DOMAIN lines : lines[k].amount < 0 <=> lines[k].type = "DISCOUNT"
  BY <1>9, <1>10
<1> QED
  BY <1>15, <1>16 DEF lines, amounts

LEMMA CalculationAddsUp ==
    ASSUME NEW base \in Nat, NEW rate \in Nat, NEW charges \in Seq(Charge), NEW promo \in Promo
    PROVE  AddsUp(CalculateQuote(base, rate, charges, promo))
<1> DEFINE amounts == Amounts(base, charges)
           subtotal == SumFunction(amounts)
           discountable == SumFunctionOnSet(amounts, Taxed(charges))
           discount == Discount(promo, subtotal, discountable)
           taxable == discountable - discount
           tax == ApplyBasisPoints(taxable, rate)
           lines == Lines(base, charges, discount, tax)
           q == CalculateQuote(base, rate, charges, promo)
<1>1. q = [lines |-> lines, rate |-> rate, promo |-> promo, discount |-> discount,
           taxable |-> taxable, tax |-> tax, total |-> subtotal - discount + tax]
  BY DEF CalculateQuote
<1>2. subtotal \in Nat /\ discountable \in Nat /\ discountable <= subtotal
  BY TaxedIsPart
<1> HIDE DEF subtotal, discountable
<1>3. /\ discount \in Nat /\ discount <= discountable
      /\ promo.most # Unlimited => discount <= promo.most
  BY <1>2, DiscountIsCapped
<1> HIDE DEF discount
<1>4. taxable \in Nat
  BY <1>2, <1>3
<1> HIDE DEF taxable
<1>5. /\ tax \in Nat
      /\ 2 * (Whole * tax - taxable * rate) <= Whole
      /\ -2 * (Whole * tax - taxable * rate) < Whole
  BY <1>4, Rounding
<1> HIDE DEF tax
<1>6. /\ SumFunction([k \in DOMAIN lines |-> lines[k].amount]) = subtotal - discount + tax
      /\ \A k \in DOMAIN lines : lines[k].amount < 0 <=> lines[k].type = "DISCOUNT"
  BY <1>3, <1>5, LinesAddUp DEF subtotal
<1> HIDE DEF lines, amounts, q
<1>7. subtotal - discount + tax >= 0
  BY <1>2, <1>3, <1>5
<1>8. taxable >= 0 /\ discount >= 0
  BY <1>3, <1>4
<1>9. /\ q.lines = lines /\ q.rate = rate /\ q.promo = promo /\ q.discount = discount
      /\ q.taxable = taxable /\ q.tax = tax /\ q.total = subtotal - discount + tax
  BY <1>1
<1>10. AddsUp(q)
  BY <1>3, <1>5, <1>6, <1>7, <1>8, <1>9 DEF AddsUp
<1> QED
  BY <1>10 DEF q

\* Every quote adds up, to the paisa, for any amounts, rates, charges and
\* promotions there may be.
THEOREM QuotesAddUp == QuotesSpec => []QuoteAddsUp
<1>1. QuoteAddsUp <=> AddsUp(quote)
  BY DEF QuoteAddsUp, AddsUp
<1>2. /\ Bases \subseteq Nat /\ Rates \subseteq 0..Whole
      /\ ChargeLists \subseteq Seq(Charge) /\ PromoOffers \subseteq Promo
  BY QuotesAssumption, Zenon DEF Charge, Promo
<1>3. /\ \A base \in Bases : base \in Nat
      /\ \A rate \in Rates : rate \in Nat
      /\ \A charges \in ChargeLists : charges \in Seq(Charge)
      /\ \A promo \in PromoOffers : promo \in Promo
  <2>1. 0..Whole \subseteq Nat
    BY DEF Whole
  <2> QED
    BY <1>2, <2>1, Zenon
<1>4. QuotesInit => AddsUp(quote)
  <2>1. <<>> \in Seq(Charge) /\ NoPromo \in Promo
    BY DEF NoPromo, Promo
  <2> QED
    BY <1>3, <2>1, CalculationAddsUp DEF QuotesInit
<1>5. AddsUp(quote) /\ [QuotesNext]_quote => AddsUp(quote)'
  <2>1. SUFFICES ASSUME AddsUp(quote), [QuotesNext]_quote PROVE AddsUp(quote')
    BY DEF AddsUp
  <2>2. CASE UNCHANGED quote
    BY <2>1, <2>2
  <2>3. CASE QuotesNext
    <3>1. PICK base \in Bases, rate \in Rates, charges \in ChargeLists, promo \in PromoOffers :
            quote' = CalculateQuote(base, rate, charges, promo)
      BY <2>3 DEF QuotesNext
    <3>2. base \in Nat /\ rate \in Nat /\ charges \in Seq(Charge) /\ promo \in Promo
      BY <1>3, Zenon
    <3>3. AddsUp(CalculateQuote(base, rate, charges, promo))
      BY <3>2, CalculationAddsUp, Zenon
    <3> QED
      BY <3>1, <3>3
  <2> QED
    BY <2>1, <2>2, <2>3
<1> QED
  BY <1>1, <1>4, <1>5, PTL DEF QuotesSpec
=============================================================================
