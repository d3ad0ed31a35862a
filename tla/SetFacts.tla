------------------------------- MODULE SetFacts -------------------------------
(***************************************************************************)
(* Facts about sets of numbers, the sizes of sets and sums over them,      *)
(* which the proofs about the components share.                            *)
(***************************************************************************)
EXTENDS Integers, FiniteSets, FiniteSetsExt, Functions, FiniteSetTheorems,
        WellFoundedInduction, TLAPS

\* A set of numbers that is not empty has a least element, and Min is it: the
\* oldest row of a queue is well defined.
LEMMA MinIsLeast ==
    ASSUME NEW S \in SUBSET Nat, S # {}
    PROVE  Min(S) \in S /\ \A n \in S : Min(S) <= n
<1> DEFINE R == OpToRel(<, Nat)
<1>1. IsWellFoundedOn(R, Nat)
  BY NatLessThanWellFounded
<1>2. \A m, n \in Nat : n < m => <<n, m>> \in R
  BY DEF OpToRel
<1> HIDE DEF R
<1>3. PICK m \in S : \A n \in S : ~ (<<n, m>> \in R)
  BY <1>1, WFMin
<1>4. ASSUME NEW n \in S PROVE m <= n
  <2>1. m \in Nat /\ n \in Nat
    BY <1>3
  <2>2. ~ (n < m)
    BY <1>2, <1>3, <2>1, Zenon
  <2> QED
    BY <2>1, <2>2
<1> QED
  BY <1>4 DEF Min

\* A bounded set of numbers that is not empty has a greatest element, and Max
\* is it: where a cursor moves to is well defined.
LEMMA MaxIsGreatest ==
    ASSUME NEW b \in Nat, NEW S \in SUBSET (0..b), S # {}
    PROVE  Max(S) \in S /\ \A n \in S : n <= Max(S)
<1> DEFINE D == {d \in 0..b : b - d \in S}
<1>1. D \in SUBSET Nat /\ D # {}
  <2>1. PICK n \in S : TRUE
    OBVIOUS
  <2>2. b - n \in D
    BY <2>1
  <2> QED
    BY <2>2
<1>2. Min(D) \in D /\ \A d \in D : Min(D) <= d
  BY <1>1, MinIsLeast
<1>3. ASSUME NEW n \in S PROVE n <= b - Min(D)
  <2>1. b - n \in D
    OBVIOUS
  <2>2. Min(D) \in 0..b /\ Min(D) <= b - n
    BY <1>2, <2>1
  <2> QED
    BY <2>2
<1> HIDE DEF D
<1>4. b - Min(D) \in S
  BY <1>2 DEF D
<1> QED
  BY <1>3, <1>4 DEF Max

\* A set with at most one element has no two.
LEMMA NoTwo ==
    ASSUME NEW S, IsFiniteSet(S), Cardinality(S) <= 1
    PROVE  \A x, y \in S : x = y
<1> SUFFICES ASSUME NEW x \in S, NEW y \in S, x # y
             PROVE  FALSE
  OBVIOUS
<1>1. IsFiniteSet(S \ {x}) /\ Cardinality(S \ {x}) = Cardinality(S) - 1
  BY FS_RemoveElement
<1>2. Cardinality(S) \in Nat /\ Cardinality(S \ {x}) \in Nat
  BY <1>1, FS_CardinalityType
<1>3. Cardinality(S \ {x}) = 0
  BY <1>1, <1>2
<1>4. S \ {x} = {}
  BY <1>1, <1>3, FS_EmptySet
<1> QED
  BY <1>4


\* A set in which any two elements are equal has at most one.
LEMMA AtMostOne ==
    ASSUME NEW S, \A x, y \in S : x = y
    PROVE  IsFiniteSet(S) /\ Cardinality(S) <= 1
<1>1. CASE S = {}
  <2>1. IsFiniteSet({}) /\ Cardinality({}) = 0
    BY FS_EmptySet, Zenon
  <2> QED
    BY <1>1, <2>1
<1>2. CASE S # {}
  <2>1. PICK x \in S : S = {x}
    BY <1>2
  <2>2. IsFiniteSet({x}) /\ Cardinality({x}) = 1
    BY FS_Singleton, Zenon
  <2>3. 1 <= 1
    OBVIOUS
  <2> QED
    BY <2>1, <2>2, <2>3
<1> QED
  BY <1>1, <1>2

\* A counterexample among the numbers can be taken to be the least one.
LEMMA LeastOf ==
    ASSUME NEW S, S \subseteq Nat, S # {}
    PROVE  \E m \in S : \A n \in S : n \in Nat /\ m <= n
BY MinIsLeast

-------------------------------------------------------------------------------
(* Sums over finite sets: the library computes them by a recursive function, *)
(* of which these lemmas show that it is defined and does not depend on the  *)
(* order it takes the elements in                                            *)

\* The element the recursion takes next.
Pick(s) == CHOOSE x \in s : TRUE

\* The recursive function behind the library's sums.
SumsWithin(w, U) ==
    CHOOSE iter : iter = [s \in SUBSET U |-> IF s = {} THEN 0
                            ELSE w[CHOOSE x \in s : TRUE] + iter[s \ {CHOOSE x \in s : TRUE}]]

LEMMA SumIsRecursive == ASSUME NEW w, NEW U PROVE SumFunctionOnSet(w, U) = SumsWithin(w, U)[U]
BY DEF SumFunctionOnSet, FoldFunctionOnSet, MapThenFoldSet, SumsWithin

\* One element less
LEMMA OneLess ==
    ASSUME NEW S, IsFiniteSet(S), NEW x \in S
    PROVE  /\ Cardinality(S) \in Nat /\ Cardinality(S \ {x}) \in Nat /\ IsFiniteSet(S \ {x})
           /\ Cardinality(S \ {x}) = Cardinality(S) - 1 /\ Cardinality(S) > 0
<1>1. IsFiniteSet(S \ {x}) /\ Cardinality(S \ {x}) = Cardinality(S) - 1
  BY FS_RemoveElement
<1>2. Cardinality(S) \in Nat /\ Cardinality(S \ {x}) \in Nat
  BY <1>1, FS_CardinalityType
<1> QED
  BY <1>1, <1>2

LEMMA SumsDefined ==
    ASSUME NEW w, NEW U, IsFiniteSet(U)
    PROVE  \A s \in SUBSET U :
             SumsWithin(w, U)[s] = IF s = {} THEN 0 ELSE w[Pick(s)] + SumsWithin(w, U)[s \ {Pick(s)}]
<1> DEFINE Upto(n) == {s \in SUBSET U : Cardinality(s) <= n}
<1> DEFINE Solves(g, D) == g = [s \in D |-> IF s = {} THEN 0 ELSE w[Pick(s)] + g[s \ {Pick(s)}]]
<1> DEFINE Bad == {n \in Nat : ~ \E g : Solves(g, Upto(n))}
<1>1. ASSUME NEW s \in SUBSET U, s # {}
      PROVE  Pick(s) \in s
  BY <1>1 DEF Pick
<1>2. ASSUME NEW s \in SUBSET U
      PROVE  IsFiniteSet(s) /\ Cardinality(s) \in Nat /\ (Cardinality(s) = 0 <=> s = {})
  <2>1. IsFiniteSet(s)
    BY FS_Subset
  <2> QED
    BY <2>1, FS_CardinalityType, FS_EmptySet
<1>3. \E g : Solves(g, Upto(0))
  <2> DEFINE g == [s \in Upto(0) |-> 0]
  <2>1. \A s \in Upto(0) : s = {}
    BY <1>2
  <2>2. Solves(g, Upto(0))
    BY <2>1
  <2> QED
    BY <2>2
<1>4. ASSUME NEW n \in Nat, n > 0, NEW g, Solves(g, Upto(n - 1))
      PROVE  \E h : Solves(h, Upto(n))
  <2> DEFINE h == [s \in Upto(n) |-> IF s = {} THEN 0 ELSE w[Pick(s)] + g[s \ {Pick(s)}]]
  <2>1. ASSUME NEW s \in Upto(n), s # {}
        PROVE  s \ {Pick(s)} \in Upto(n - 1) /\ s \ {Pick(s)} \in Upto(n)
    <3>1. IsFiniteSet(s) /\ Pick(s) \in s /\ Cardinality(s) <= n /\ Cardinality(s) \in Nat
      BY <1>1, <1>2, <2>1
    <3>2. Cardinality(s \ {Pick(s)}) = Cardinality(s) - 1
      BY <3>1, OneLess
    <3> QED
      BY <1>4, <3>1, <3>2
  <2>2. ASSUME NEW t \in Upto(n - 1), t \in Upto(n)
        PROVE  g[t] = h[t]
    BY <1>4, <2>2
  <2>3. ASSUME NEW s \in Upto(n)
        PROVE  h[s] = IF s = {} THEN 0 ELSE w[Pick(s)] + h[s \ {Pick(s)}]
    <3> DEFINE c == Pick(s)
    <3>1. s # {} => g[s \ {c}] = h[s \ {c}]
      BY <2>1, <2>2
    <3> QED
      BY <3>1
  <2>4. h = [s \in Upto(n) |-> IF s = {} THEN 0 ELSE w[Pick(s)] + h[s \ {Pick(s)}]]
    <3> DEFINE F == [s \in Upto(n) |-> IF s = {} THEN 0 ELSE w[Pick(s)] + h[s \ {Pick(s)}]]
    <3>1. h = [s \in Upto(n) |-> h[s]]
      OBVIOUS
    <3> HIDE DEF h
    <3> QED
      BY <2>3, <3>1
  <2> HIDE DEF h
  <2> QED
    BY <2>4
<1> HIDE DEF Solves
<1>5. Bad = {}
  <2> SUFFICES ASSUME Bad # {} PROVE FALSE
    OBVIOUS
  <2>1. PICK m \in Bad : \A n \in Bad : n \in Nat /\ m <= n
    BY LeastOf
  <2>2. m \in Nat /\ m # 0
    BY <1>3
  <2>3. m - 1 \in Nat /\ m - 1 \notin Bad
    <3>1. m - 1 \in Nat /\ ~ (m <= m - 1)
      BY <2>2
    <3> QED
      BY <2>1, <3>1, Zenon
  <2>4. PICK g : Solves(g, Upto(m - 1))
    BY <2>3, Zenon
  <2>5. \E h : Solves(h, Upto(m))
    <3>1. m > 0
      BY <2>2
    <3> QED
      BY <1>4, <2>2, <2>4, <3>1, Zenon
  <2> QED
    BY <2>5
<1>6. Upto(Cardinality(U)) = SUBSET U
  <2>1. \A s \in SUBSET U : Cardinality(s) <= Cardinality(U)
    BY FS_Subset
  <2> QED
    BY <2>1
<1>7. \E g : Solves(g, SUBSET U)
  BY <1>5, <1>6, FS_CardinalityType
<1>8. SumsWithin(w, U) = CHOOSE g : Solves(g, SUBSET U)
  BY DEF SumsWithin, Solves, Pick
<1> DEFINE f == SumsWithin(w, U)
<1>9. Solves(f, SUBSET U)
  BY <1>7, <1>8, Zenon
<1> HIDE DEF f
<1>10. f = [s \in SUBSET U |-> IF s = {} THEN 0 ELSE w[Pick(s)] + f[s \ {Pick(s)}]]
  BY <1>9 DEF Solves
<1>11. \A s \in SUBSET U : f[s] = IF s = {} THEN 0 ELSE w[Pick(s)] + f[s \ {Pick(s)}]
  BY <1>10
<1> QED
  BY <1>11 DEF f

\* Two sums over sets that share a part agree on it.
LEMMA SumUnfolds ==
    ASSUME NEW w, NEW S, IsFiniteSet(S), S # {}
    PROVE  /\ Pick(S) \in S
           /\ SumFunctionOnSet(w, S) = w[Pick(S)] + SumFunctionOnSet(w, S \ {Pick(S)})
<1> DEFINE T == S \ {Pick(S)}
<1> DEFINE f == SumsWithin(w, S)
<1> DEFINE g == SumsWithin(w, T)
<1>1. Pick(S) \in S
  BY DEF Pick
<1>2. IsFiniteSet(T) /\ T \subseteq S
  BY <1>1, FS_Subset
<1>3. \A s \in SUBSET S : f[s] = IF s = {} THEN 0 ELSE w[Pick(s)] + f[s \ {Pick(s)}]
  BY SumsDefined
<1>4. \A s \in SUBSET T : g[s] = IF s = {} THEN 0 ELSE w[Pick(s)] + g[s \ {Pick(s)}]
  BY <1>2, SumsDefined
<1> HIDE DEF f, g
<1> DEFINE Bad == {n \in Nat : \E s \in SUBSET T : Cardinality(s) = n /\ f[s] # g[s]}
<1>5. Bad = {}
  <2> SUFFICES ASSUME Bad # {} PROVE FALSE
    OBVIOUS
  <2>1. PICK m \in Bad : \A n \in Bad : n \in Nat /\ m <= n
    BY LeastOf
  <2>2. PICK s \in SUBSET T : Cardinality(s) = m /\ f[s] # g[s]
    BY <2>1
  <2>3. s \in SUBSET S /\ IsFiniteSet(s)
    BY <1>2, FS_Subset
  <2> DEFINE c == Pick(s)
  <2>4. s # {} /\ c \in s
    BY <1>3, <1>4, <2>2, <2>3 DEF Pick
  <2>5. f[s] = w[c] + f[s \ {c}] /\ g[s] = w[c] + g[s \ {c}]
    BY <1>3, <1>4, <2>2, <2>3, <2>4
  <2>6. Cardinality(s \ {c}) \in Nat /\ Cardinality(s \ {c}) = m - 1 /\ m \in Nat
    BY <2>2, <2>3, <2>4, OneLess
  <2> HIDE DEF c
  <2>7. Cardinality(s \ {c}) \in Bad
    BY <2>2, <2>5, <2>6
  <2>8. ~ (m <= m - 1)
    BY <2>6
  <2> HIDE DEF Bad
  <2> QED
    BY <2>1, <2>6, <2>7, <2>8
<1>6. f[T] = g[T]
  <2>1. Cardinality(T) \in Nat
    BY <1>2, FS_CardinalityType
  <2> QED
    BY <1>5, <2>1
<1>7. f[S] = w[Pick(S)] + f[T]
  BY <1>3
<1> QED
  BY <1>1, <1>6, <1>7, SumIsRecursive DEF f, g

\* The sum over no elements.
LEMMA SumEmpty ==
    ASSUME NEW w
    PROVE  SumFunctionOnSet(w, {}) = 0
<1>1. IsFiniteSet({})
  BY FS_EmptySet, Zenon
<1>2. SumsWithin(w, {})[{}] = 0
  BY <1>1, SumsDefined
<1> QED
  BY <1>2, SumIsRecursive

\* A sum of integers is one.
LEMMA SumIsInt ==
    ASSUME NEW S, IsFiniteSet(S), NEW w, \A x \in S : w[x] \in Int
    PROVE  SumFunctionOnSet(w, S) \in Int
<1> DEFINE Bad == {n \in Nat : \E T \in SUBSET S : Cardinality(T) = n /\ SumFunctionOnSet(w, T) \notin Int}
<1>1. Bad = {}
  <2> SUFFICES ASSUME Bad # {} PROVE FALSE
    OBVIOUS
  <2>1. PICK m \in Bad : \A n \in Bad : n \in Nat /\ m <= n
    BY LeastOf
  <2>2. PICK T \in SUBSET S : Cardinality(T) = m /\ SumFunctionOnSet(w, T) \notin Int
    BY <2>1
  <2>3. IsFiniteSet(T)
    BY FS_Subset
  <2>4. T # {}
    BY <2>2, SumEmpty
  <2> DEFINE c == Pick(T)
  <2>5. c \in T /\ SumFunctionOnSet(w, T) = w[c] + SumFunctionOnSet(w, T \ {c})
    BY <2>3, <2>4, SumUnfolds
  <2> HIDE DEF c
  <2>6. Cardinality(T \ {c}) \in Nat /\ Cardinality(T \ {c}) = m - 1 /\ m \in Nat
    BY <2>2, <2>3, <2>5, OneLess
  <2>7. SumFunctionOnSet(w, T \ {c}) \notin Int
    BY <2>2, <2>5
  <2>8. Cardinality(T \ {c}) \in Bad
    BY <2>2, <2>6, <2>7
  <2>9. ~ (m <= m - 1)
    BY <2>6
  <2> HIDE DEF Bad
  <2> QED
    BY <2>1, <2>6, <2>8, <2>9
<1>2. Cardinality(S) \in Nat
  BY FS_CardinalityType
<1> QED
  BY <1>1, <1>2

\* A further element adds what it weighs, whichever order the sum is taken in.
LEMMA SumAdd ==
    ASSUME NEW S, IsFiniteSet(S), NEW w, NEW x \in S, \A y \in S : w[y] \in Int
    PROVE  SumFunctionOnSet(w, S) = w[x] + SumFunctionOnSet(w, S \ {x})
<1> DEFINE Sum(T) == SumFunctionOnSet(w, T)
<1> DEFINE Bad == {n \in Nat : \E T \in SUBSET S : Cardinality(T) = n /\ \E y \in T : Sum(T) # w[y] + Sum(T \ {y})}
<1>0. \A T \in SUBSET S : IsFiniteSet(T) /\ Sum(T) \in Int
  <2> TAKE T \in SUBSET S
  <2>1. IsFiniteSet(T) /\ \A y \in T : w[y] \in Int
    BY FS_Subset
  <2> QED
    BY <2>1, SumIsInt
<1>1. Bad = {}
  <2> SUFFICES ASSUME Bad # {} PROVE FALSE
    OBVIOUS
  <2>1. PICK m \in Bad : \A n \in Bad : n \in Nat /\ m <= n
    BY LeastOf
  <2>2. PICK T \in SUBSET S : Cardinality(T) = m /\ \E y \in T : Sum(T) # w[y] + Sum(T \ {y})
    BY <2>1
  <2>3. PICK y \in T : Sum(T) # w[y] + Sum(T \ {y})
    BY <2>2
  <2>4. IsFiniteSet(T)
    BY FS_Subset
  <2>5. PICK c \in T : Sum(T) = w[c] + Sum(T \ {c})
    BY <2>4, SumUnfolds
  <2>6. c # y /\ c \in S /\ y \in S
    BY <2>3, <2>5
  <2>7. /\ Cardinality(T \ {c}) \in Nat /\ Cardinality(T \ {c}) = m - 1
        /\ Cardinality(T \ {y}) \in Nat /\ Cardinality(T \ {y}) = m - 1 /\ m \in Nat
    BY <2>2, <2>4, OneLess
  <2>8. Cardinality(T \ {c}) \notin Bad /\ Cardinality(T \ {y}) \notin Bad
    <3>1. ~ (m <= m - 1)
      BY <2>7
    <3> HIDE DEF Bad
    <3> QED
      BY <2>1, <2>7, <3>1
  <2>9. /\ Sum(T \ {c}) = w[y] + Sum((T \ {c}) \ {y})
        /\ Sum(T \ {y}) = w[c] + Sum((T \ {y}) \ {c})
    <3>1. y \in T \ {c} /\ c \in T \ {y} /\ T \ {c} \in SUBSET S /\ T \ {y} \in SUBSET S
      BY <2>6
    <3> QED
      BY <2>7, <2>8, <3>1
  <2>10. (T \ {c}) \ {y} = (T \ {y}) \ {c}
    OBVIOUS
  <2>11. /\ w[c] \in Int /\ w[y] \in Int
         /\ Sum((T \ {y}) \ {c}) \in Int
    <3>1. (T \ {y}) \ {c} \in SUBSET S
      OBVIOUS
    <3> HIDE DEF Sum
    <3> QED
      BY <1>0, <2>6, <3>1
  <2> DEFINE rest == Sum((T \ {y}) \ {c})
  <2>12. Sum(T \ {c}) = w[y] + rest /\ Sum(T \ {y}) = w[c] + rest /\ rest \in Int
    BY <2>9, <2>10, <2>11
  <2> HIDE DEF Sum, rest
  <2>13. Sum(T) = w[y] + Sum(T \ {y})
    BY <2>5, <2>11, <2>12
  <2> QED
    BY <2>3, <2>13
<1>2. Cardinality(S) \in Nat
  BY FS_CardinalityType
<1> QED
  BY <1>1, <1>2

\* The sum does not look beyond the set.
LEMMA SumSame ==
    ASSUME NEW S, IsFiniteSet(S), NEW w, NEW v, \A x \in S : w[x] = v[x]
    PROVE  SumFunctionOnSet(w, S) = SumFunctionOnSet(v, S)
<1> DEFINE Bad == {n \in Nat : \E T \in SUBSET S :
                      Cardinality(T) = n /\ SumFunctionOnSet(w, T) # SumFunctionOnSet(v, T)}
<1>1. Bad = {}
  <2> SUFFICES ASSUME Bad # {} PROVE FALSE
    OBVIOUS
  <2>1. PICK m \in Bad : \A n \in Bad : n \in Nat /\ m <= n
    BY LeastOf
  <2>2. PICK T \in SUBSET S : Cardinality(T) = m /\ SumFunctionOnSet(w, T) # SumFunctionOnSet(v, T)
    BY <2>1
  <2>3. IsFiniteSet(T)
    BY FS_Subset
  <2>4. T # {}
    BY <2>2, SumEmpty
  <2> DEFINE c == Pick(T)
  <2>5. /\ c \in T /\ SumFunctionOnSet(w, T) = w[c] + SumFunctionOnSet(w, T \ {c})
        /\ SumFunctionOnSet(v, T) = v[c] + SumFunctionOnSet(v, T \ {c})
    BY <2>3, <2>4, SumUnfolds
  <2> HIDE DEF c
  <2>6. Cardinality(T \ {c}) \in Nat /\ Cardinality(T \ {c}) = m - 1 /\ m \in Nat
    BY <2>2, <2>3, <2>5, OneLess
  <2>7. SumFunctionOnSet(w, T \ {c}) # SumFunctionOnSet(v, T \ {c})
    BY <2>2, <2>5
  <2>8. Cardinality(T \ {c}) \in Bad
    BY <2>2, <2>6, <2>7
  <2>9. ~ (m <= m - 1)
    BY <2>6
  <2> HIDE DEF Bad
  <2> QED
    BY <2>1, <2>6, <2>8, <2>9
<1>2. Cardinality(S) \in Nat
  BY FS_CardinalityType
<1> QED
  BY <1>1, <1>2

\* The sum of differences is the difference of the sums.
LEMMA SumDifference ==
    ASSUME NEW S, IsFiniteSet(S), NEW w, NEW v, NEW d,
           \A x \in S : w[x] \in Int /\ v[x] \in Int /\ d[x] = w[x] - v[x]
    PROVE  SumFunctionOnSet(w, S) = SumFunctionOnSet(v, S) + SumFunctionOnSet(d, S)
<1> DEFINE Sum(f, T) == SumFunctionOnSet(f, T)
<1> DEFINE Bad == {n \in Nat : \E T \in SUBSET S :
                      Cardinality(T) = n /\ Sum(w, T) # Sum(v, T) + Sum(d, T)}
<1>1. Bad = {}
  <2> SUFFICES ASSUME Bad # {} PROVE FALSE
    OBVIOUS
  <2>1. PICK m \in Bad : \A n \in Bad : n \in Nat /\ m <= n
    BY LeastOf
  <2>2. PICK T \in SUBSET S : Cardinality(T) = m /\ Sum(w, T) # Sum(v, T) + Sum(d, T)
    BY <2>1
  <2>3. IsFiniteSet(T)
    BY FS_Subset
  <2>4. T # {}
    <3>1. Sum(w, {}) = 0 /\ Sum(v, {}) = 0 /\ Sum(d, {}) = 0
      BY SumEmpty
    <3>2. Sum(w, {}) = Sum(v, {}) + Sum(d, {})
      BY <3>1
    <3> HIDE DEF Sum
    <3> QED
      BY <2>2, <3>2
  <2> DEFINE c == Pick(T)
  <2>5. /\ c \in T /\ Sum(w, T) = w[c] + Sum(w, T \ {c})
        /\ Sum(v, T) = v[c] + Sum(v, T \ {c})
        /\ Sum(d, T) = d[c] + Sum(d, T \ {c})
    BY <2>3, <2>4, SumUnfolds
  <2> HIDE DEF c
  <2>6. Cardinality(T \ {c}) \in Nat /\ Cardinality(T \ {c}) = m - 1 /\ m \in Nat /\ IsFiniteSet(T \ {c})
    BY <2>2, <2>3, <2>5, OneLess
  <2>7. Sum(w, T \ {c}) \in Int /\ Sum(v, T \ {c}) \in Int /\ Sum(d, T \ {c}) \in Int
    <3>1. \A x \in T \ {c} : w[x] \in Int /\ v[x] \in Int /\ d[x] \in Int
      OBVIOUS
    <3> QED
      BY <2>6, <3>1, SumIsInt
  <2> HIDE DEF Sum
  <2>8. w[c] \in Int /\ v[c] \in Int /\ d[c] = w[c] - v[c]
    BY <2>5
  <2>9. Sum(w, T \ {c}) # Sum(v, T \ {c}) + Sum(d, T \ {c})
    BY <2>2, <2>5, <2>7, <2>8
  <2>10. Cardinality(T \ {c}) \in Bad
    BY <2>2, <2>6, <2>9
  <2>11. ~ (m <= m - 1)
    BY <2>6
  <2> HIDE DEF Bad
  <2> QED
    BY <2>1, <2>6, <2>10, <2>11
<1>2. Cardinality(S) \in Nat
  BY FS_CardinalityType
<1> QED
  BY <1>1, <1>2

\* The sum over one element.
LEMMA SumOfOne ==
    ASSUME NEW x, NEW w, w[x] \in Int
    PROVE  SumFunctionOnSet(w, {x}) = w[x]
<1>1. IsFiniteSet({x})
  BY FS_Singleton, Zenon
<1>2. SumFunctionOnSet(w, {x}) = w[x] + SumFunctionOnSet(w, {x} \ {x})
  BY <1>1, SumAdd
<1>3. {x} \ {x} = {}
  OBVIOUS
<1> QED
  BY <1>2, <1>3, SumEmpty

\* A set falls into two parts, and its sum into theirs.
LEMMA SumSplit ==
    ASSUME NEW S, IsFiniteSet(S), NEW w, \A x \in S : w[x] \in Int, NEW A \in SUBSET S
    PROVE  SumFunctionOnSet(w, S) = SumFunctionOnSet(w, A) + SumFunctionOnSet(w, S \ A)
<1> DEFINE Sum(T) == SumFunctionOnSet(w, T)
<1> DEFINE Bad == {n \in Nat : \E T \in SUBSET S : Cardinality(T) = n /\ Sum(T) # Sum(T \cap A) + Sum(T \ A)}
<1>0. \A T \in SUBSET S : IsFiniteSet(T) /\ Sum(T) \in Int
  <2> TAKE T \in SUBSET S
  <2>1. IsFiniteSet(T) /\ \A y \in T : w[y] \in Int
    BY FS_Subset
  <2> QED
    BY <2>1, SumIsInt
<1>1. Bad = {}
  <2> SUFFICES ASSUME Bad # {} PROVE FALSE
    OBVIOUS
  <2>1. PICK m \in Bad : \A n \in Bad : n \in Nat /\ m <= n
    BY LeastOf
  <2>2. PICK T \in SUBSET S : Cardinality(T) = m /\ Sum(T) # Sum(T \cap A) + Sum(T \ A)
    BY <2>1
  <2>3. IsFiniteSet(T) /\ T \cap A \in SUBSET S /\ T \ A \in SUBSET S
    BY FS_Subset
  <2>4. T # {}
    <3> SUFFICES ASSUME T = {} PROVE FALSE
      OBVIOUS
    <3>1. T \cap A = {} /\ T \ A = {}
      OBVIOUS
    <3> QED
      BY <2>2, <3>1, SumEmpty
  <2>5. PICK x \in T : TRUE
    BY <2>4
  <2> DEFINE U == T \ {x}
  <2>6. Cardinality(U) \in Nat /\ Cardinality(U) = m - 1 /\ m \in Nat /\ U \in SUBSET S
    BY <2>2, <2>3, <2>5, OneLess
  <2>7. Sum(U) = Sum(U \cap A) + Sum(U \ A)
    <3>1. ~ (m <= m - 1)
      BY <2>6
    <3>2. Cardinality(U) \notin Bad
      <4> HIDE DEF Bad
      <4> QED
        BY <2>1, <2>6, <3>1
    <3> QED
      BY <2>6, <3>2
  <2>8. Sum(T) = w[x] + Sum(U) /\ w[x] \in Int
    BY <2>3, <2>5, SumAdd
  <2>9. Sum(U \cap A) \in Int /\ Sum(U \ A) \in Int
    <3>1. U \cap A \in SUBSET S /\ U \ A \in SUBSET S
      OBVIOUS
    <3> HIDE DEF Sum, U
    <3> QED
      BY <1>0, <3>1
  <2>10. CASE x \in A
    <3>1. T \ A = U \ A /\ (T \cap A) \ {x} = U \cap A /\ x \in T \cap A
      BY <2>10
    <3>2. IsFiniteSet(T \cap A) /\ \A y \in T \cap A : w[y] \in Int
      BY <1>0, <2>3
    <3>3. Sum(T \cap A) = w[x] + Sum((T \cap A) \ {x})
      BY <3>1, <3>2, SumAdd
    <3>4. Sum(T \cap A) = w[x] + Sum(U \cap A) /\ Sum(T \ A) = Sum(U \ A)
      BY <3>1, <3>3
    <3> HIDE DEF Sum, U
    <3> QED
      BY <2>2, <2>7, <2>8, <2>9, <3>4
  <2>11. CASE x \notin A
    <3>1. T \cap A = U \cap A /\ (T \ A) \ {x} = U \ A /\ x \in T \ A
      BY <2>5, <2>11
    <3>2. IsFiniteSet(T \ A) /\ \A y \in T \ A : w[y] \in Int
      BY <1>0, <2>3
    <3>3. Sum(T \ A) = w[x] + Sum((T \ A) \ {x})
      BY <3>1, <3>2, SumAdd
    <3>4. Sum(T \ A) = w[x] + Sum(U \ A) /\ Sum(T \cap A) = Sum(U \cap A)
      BY <3>1, <3>3
    <3> HIDE DEF Sum, U
    <3> QED
      BY <2>2, <2>7, <2>8, <2>9, <3>4
  <2> QED
    BY <2>10, <2>11
<1>2. Cardinality(S) \in Nat
  BY FS_CardinalityType
<1>3. Sum(S) = Sum(S \cap A) + Sum(S \ A)
  BY <1>1, <1>2
<1>4. S \cap A = A
  OBVIOUS
<1> QED
  BY <1>3, <1>4

\* A sum of natural numbers is one.
LEMMA SumIsNat ==
    ASSUME NEW S, IsFiniteSet(S), NEW w, \A x \in S : w[x] \in Nat
    PROVE  SumFunctionOnSet(w, S) \in Nat
<1> DEFINE Bad == {n \in Nat : \E T \in SUBSET S : Cardinality(T) = n /\ SumFunctionOnSet(w, T) \notin Nat}
<1>1. Bad = {}
  <2> SUFFICES ASSUME Bad # {} PROVE FALSE
    OBVIOUS
  <2>1. PICK m \in Bad : \A n \in Bad : n \in Nat /\ m <= n
    BY LeastOf
  <2>2. PICK T \in SUBSET S : Cardinality(T) = m /\ SumFunctionOnSet(w, T) \notin Nat
    BY <2>1
  <2>3. IsFiniteSet(T)
    BY FS_Subset
  <2>4. T # {}
    BY <2>2, SumEmpty
  <2> DEFINE c == Pick(T)
  <2>5. c \in T /\ SumFunctionOnSet(w, T) = w[c] + SumFunctionOnSet(w, T \ {c})
    BY <2>3, <2>4, SumUnfolds
  <2> HIDE DEF c
  <2>6. Cardinality(T \ {c}) \in Nat /\ Cardinality(T \ {c}) = m - 1 /\ m \in Nat
    BY <2>2, <2>3, <2>5, OneLess
  <2>7. SumFunctionOnSet(w, T \ {c}) \notin Nat
    BY <2>2, <2>5
  <2>8. Cardinality(T \ {c}) \in Bad
    BY <2>2, <2>6, <2>7
  <2>9. ~ (m <= m - 1)
    BY <2>6
  <2> HIDE DEF Bad
  <2> QED
    BY <2>1, <2>6, <2>8, <2>9
<1>2. Cardinality(S) \in Nat
  BY FS_CardinalityType
<1> QED
  BY <1>1, <1>2

\* S grouped by f: for each key k in K the group G[k], whose w is g[k] together.
Groups(S, w, f, K, G, g) ==
    /\ IsFiniteSet(S) /\ \A x \in S : w[x] \in Int
    /\ \A x \in S : f[x] \in K
    /\ \A k \in K : \E x \in S : f[x] = k
    /\ \A k \in K : \A x : x \in G[k] <=> x \in S /\ f[x] = k
    /\ \A k \in K : g[k] = SumFunctionOnSet(w, G[k])

\* When a set is grouped by f, the sums of the groups add up to the whole.
LEMMA SumOfGroups ==
    ASSUME NEW S, NEW w, NEW f, NEW K, NEW G, NEW g, Groups(S, w, f, K, G, g)
    PROVE  SumFunctionOnSet(g, K) = SumFunctionOnSet(w, S)
<1> SUFFICES ASSUME IsFiniteSet(S), \A x \in S : w[x] \in Int,
                    \A x \in S : f[x] \in K, \A k \in K : \E x \in S : f[x] = k,
                    \A k \in K : \A x : x \in G[k] <=> x \in S /\ f[x] = k,
                    \A k \in K : g[k] = SumFunctionOnSet(w, G[k])
             PROVE  SumFunctionOnSet(g, K) = SumFunctionOnSet(w, S)
  BY DEF Groups
<1> DEFINE Group(J) == {x \in S : f[x] \in J}
<1> DEFINE Sum(T) == SumFunctionOnSet(w, T)
<1> DEFINE Bad == {n \in Nat : \E J \in SUBSET K : Cardinality(J) = n /\ SumFunctionOnSet(g, J) # Sum(Group(J))}
<1>0. IsFiniteSet(K)
  <2> DEFINE h == [x \in S |-> f[x]]
  <2>1. h \in [S -> K] /\ \A k \in K : \E x \in S : h[x] = k
    OBVIOUS
  <2> HIDE DEF h
  <2>2. h \in Surjection(S, K)
    BY <2>1 DEF Surjection
  <2> QED
    BY <2>2, FS_Surjection
<1>1. \A T \in SUBSET S : IsFiniteSet(T) /\ Sum(T) \in Int /\ \A x \in T : w[x] \in Int
  <2> TAKE T \in SUBSET S
  <2>1. IsFiniteSet(T) /\ \A x \in T : w[x] \in Int
    BY FS_Subset
  <2> QED
    BY <2>1, SumIsInt
<1>2. \A k \in K : g[k] \in Int
  <2> TAKE k \in K
  <2>1. G[k] \in SUBSET S
    OBVIOUS
  <2> QED
    BY <1>1, <2>1
<1>3. Bad = {}
  <2> SUFFICES ASSUME Bad # {} PROVE FALSE
    OBVIOUS
  <2>1. PICK m \in Bad : \A n \in Bad : n \in Nat /\ m <= n
    BY LeastOf
  <2>2. PICK J \in SUBSET K : Cardinality(J) = m /\ SumFunctionOnSet(g, J) # Sum(Group(J))
    BY <2>1
  <2>3. IsFiniteSet(J) /\ \A k \in J : g[k] \in Int
    BY <1>0, <1>2, FS_Subset
  <2>4. J # {}
    <3> SUFFICES ASSUME J = {} PROVE FALSE
      OBVIOUS
    <3>1. Group(J) = {}
      OBVIOUS
    <3> QED
      BY <2>2, <3>1, SumEmpty
  <2>5. PICK k \in J : TRUE
    BY <2>4
  <2> DEFINE I == J \ {k}
  <2>6. Cardinality(I) \in Nat /\ Cardinality(I) = m - 1 /\ m \in Nat /\ I \in SUBSET K
    BY <2>2, <2>3, <2>5, OneLess
  <2>7. SumFunctionOnSet(g, I) = Sum(Group(I))
    <3>1. ~ (m <= m - 1)
      BY <2>6
    <3>2. Cardinality(I) \notin Bad
      <4> HIDE DEF Bad
      <4> QED
        BY <2>1, <2>6, <3>1
    <3> QED
      BY <2>6, <3>2
  <2>8. SumFunctionOnSet(g, J) = g[k] + SumFunctionOnSet(g, I)
    BY <2>3, <2>5, SumAdd
  <2>9. Sum(Group(J)) = Sum(G[k]) + Sum(Group(I))
    <3> DEFINE A == G[k]
    <3>1. A \in SUBSET Group(J) /\ Group(J) \ A = Group(I) /\ Group(J) \in SUBSET S
      BY <2>5
    <3>2. IsFiniteSet(Group(J)) /\ \A x \in Group(J) : w[x] \in Int
      BY <1>1, <3>1
    <3> HIDE DEF A, Group
    <3>3. Sum(Group(J)) = Sum(A) + Sum(Group(J) \ A)
      BY <3>1, <3>2, SumSplit
    <3> QED
      BY <3>1, <3>3 DEF A
  <2>10. g[k] = Sum(G[k])
    OBVIOUS
  <2> HIDE DEF Sum, Group, I
  <2> QED
    BY <2>2, <2>7, <2>8, <2>9, <2>10
<1>4. Cardinality(K) \in Nat
  BY <1>0, FS_CardinalityType
<1>5. Group(K) = S
  OBVIOUS
<1> HIDE DEF Group, Sum
<1>6. SumFunctionOnSet(g, K) = Sum(Group(K))
  BY <1>3, <1>4
<1> QED
  BY <1>5, <1>6 DEF Sum

\* One more element adds its weight.
LEMMA SumPlus ==
    ASSUME NEW S, IsFiniteSet(S), NEW x, x \notin S, NEW w, \A y \in S \cup {x} : w[y] \in Int
    PROVE  SumFunctionOnSet(w, S \cup {x}) = SumFunctionOnSet(w, S) + w[x]
<1> DEFINE T == S \cup {x}
<1>1. IsFiniteSet(T) /\ x \in T /\ \A y \in T : w[y] \in Int
  BY FS_AddElement
<1>2. T \ {x} = S
  OBVIOUS
<1>3. SumFunctionOnSet(w, S) \in Int /\ w[x] \in Int
  BY SumIsInt
<1> HIDE DEF T
<1>4. SumFunctionOnSet(w, T) = w[x] + SumFunctionOnSet(w, T \ {x})
  BY <1>1, SumAdd
<1>5. SumFunctionOnSet(w, T) = w[x] + SumFunctionOnSet(w, S)
  BY <1>2, <1>4
<1>6. SumFunctionOnSet(w, T) = SumFunctionOnSet(w, S) + w[x]
  BY <1>3, <1>5
<1> QED
  BY <1>6 DEF T
===============================================================================
