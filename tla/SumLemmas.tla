------------------------------- MODULE SumLemmas -------------------------------
(***************************************************************************)
(* Sums over finite sets: the facts that proofs about totals rest on, and    *)
(* the least of a set of numbers.                                          *)
(***************************************************************************)
EXTENDS Sums, Integers, FiniteSets, FiniteSetTheorems, WellFoundedInduction, TLAPS

(* Induction over the naturals, for a set: a number outside of it would     *)
(* have a smallest one.                                                    *)
LEMMA NatSetInduction ==
  ASSUME NEW T, 0 \in T, \A n \in Nat : n \in T => n + 1 \in T
  PROVE  Nat \subseteq T
<1>1. SUFFICES ASSUME Nat \ T # {} PROVE FALSE
  OBVIOUS
<1>2. PICK n \in Nat \ T : \A k \in Nat \ T : ~ (<<k, n>> \in OpToRel(<, Nat))
  BY <1>1, NatLessThanWellFounded, WFMin
<1>3. n # 0
  BY <1>2
<1>4. n - 1 \in Nat \ T
  <2>1. n - 1 \in Nat /\ (n - 1) + 1 = n
    BY <1>3
  <2> QED
    BY <2>1
<1>5. <<n - 1, n>> \in OpToRel(<, Nat)
  BY <1>2, <1>3, <1>4 DEF OpToRel
<1> QED
  BY <1>2, <1>4, <1>5

(* A set of numbers, of times or of places in a list, has a least one.      *)
LEMMA Earliest ==
  ASSUME NEW S \in SUBSET Nat, S # {}
  PROVE  \E m \in S : \A k \in S : m <= k
<1>1. PICK m \in S : \A k \in Nat : <<k, m>> \in OpToRel(<, Nat) => k \notin S
  BY NatLessThanWellFounded, WFMin
<1>2. \A k \in S : ~ (k < m)
  BY <1>1 DEF OpToRel
<1> QED
  BY <1>2

(* Induction over the subsets of a finite set.                             *)
LEMMA SubsetInduction ==
  ASSUME NEW S, IsFiniteSet(S), NEW T, {} \in T,
         \A s \in SUBSET S : \A x \in S \ s : s \in T => s \cup {x} \in T
  PROVE  S \in T
<1> DEFINE N == {n \in Nat : \A s \in SUBSET S : Cardinality(s) = n => s \in T}
<1>1. \A s \in SUBSET S : IsFiniteSet(s) /\ Cardinality(s) \in Nat
  BY FS_Subset, FS_CardinalityType
<1>2. 0 \in N
  BY <1>1, FS_EmptySet
<1>3. ASSUME NEW n \in Nat, n \in N, NEW s \in SUBSET S, Cardinality(s) = n + 1
      PROVE  s \in T
  <2>1. PICK x \in s : TRUE
    BY <1>1, <1>3, FS_EmptySet
  <2>2. Cardinality(s \ {x}) = n
    <3>1. Cardinality(s \ {x}) = Cardinality(s) - 1
      BY <1>1, <2>1, FS_RemoveElement
    <3> QED
      BY <1>3, <3>1
  <2>3. s \ {x} \in T
    BY <1>3, <2>2
  <2>4. s = (s \ {x}) \cup {x} /\ x \in S \ (s \ {x})
    BY <2>1
  <2> QED
    BY <2>3, <2>4
<1>4. \A n \in Nat : n \in N => n + 1 \in N
  BY <1>3
<1>5. Nat \subseteq N
  <2> HIDE DEF N
  <2> QED BY <1>2, <1>4, NatSetInduction
<1> QED
  BY <1>1, <1>5

(* The recursion behind a sum                                              *)

Summing(f, S, sum) ==
  sum = [s \in SUBSET S |-> IF s = {} THEN 0
                            ELSE LET x == CHOOSE x \in s : TRUE IN f[x] + sum[s \ {x}]]

LEMMA SumByChoice ==
  ASSUME NEW f, NEW S
  PROVE  Sum(f, S) = (CHOOSE sum : Summing(f, S, sum))[S]
BY DEF Sum, SumFunctionOnSet, FoldFunctionOnSet, MapThenFoldSet, Summing

(* There is such a function, ...                                           *)
LEMMA SumExists ==
  ASSUME NEW S, IsFiniteSet(S), NEW f, \A x \in S : f[x] \in Int
  PROVE  \E sum \in [SUBSET S -> Int] : Summing(f, S, sum)
<1> DEFINE Rec(sum, s) == IF s = {} THEN 0
                          ELSE LET x == CHOOSE x \in s : TRUE IN f[x] + sum[s \ {x}]
           UpTo(n, sum) == \A s \in SUBSET S : Cardinality(s) <= n => sum[s] = Rec(sum, s)
           N == {n \in Nat : \E sum \in [SUBSET S -> Int] : UpTo(n, sum)}
<1>1. \A s \in SUBSET S : IsFiniteSet(s) /\ Cardinality(s) \in Nat
  BY FS_Subset, FS_CardinalityType
<1>2. \A sum \in [SUBSET S -> Int], s \in SUBSET S : Rec(sum, s) \in Int
  OBVIOUS
<1>3. 0 \in N
  <2>1. \A s \in SUBSET S : Cardinality(s) <= 0 => s = {}
    BY <1>1, FS_EmptySet
  <2>2. [s \in SUBSET S |-> 0] \in [SUBSET S -> Int]
    OBVIOUS
  <2>3. UpTo(0, [s \in SUBSET S |-> 0])
    BY <2>1
  <2> QED
    BY <2>2, <2>3
<1>4. ASSUME NEW n \in Nat, NEW sum \in [SUBSET S -> Int], UpTo(n, sum)
      PROVE  \E next \in [SUBSET S -> Int] : UpTo(n + 1, next)
  <2> DEFINE next == [s \in SUBSET S |-> Rec(sum, s)]
  <2>1. next \in [SUBSET S -> Int]
    BY <1>2
  <2>2. ASSUME NEW s \in SUBSET S, Cardinality(s) <= n + 1
        PROVE  next[s] = Rec(next, s)
    <3>1. CASE s = {}
      BY <3>1
    <3>2. CASE s # {}
      <4> DEFINE x == CHOOSE x \in s : TRUE
      <4>1. x \in s
        BY <3>2
      <4>2. Cardinality(s \ {x}) = Cardinality(s) - 1
        BY <1>1, <4>1, FS_RemoveElement
      <4>3. s \ {x} \in SUBSET S /\ Cardinality(s \ {x}) <= n
        BY <1>1, <2>2, <4>2
      <4>4. sum[s \ {x}] = Rec(sum, s \ {x})
        BY <1>4, <4>3
      <4>5. next[s \ {x}] = sum[s \ {x}]
        BY <4>3, <4>4
      <4> QED
        BY <3>2, <4>5
    <3> QED
      BY <3>1, <3>2
  <2> QED
    BY <2>1, <2>2
<1>5. Nat \subseteq N
  <2>1. ASSUME NEW n \in Nat, n \in N PROVE n + 1 \in N
    <3>1. PICK sum \in [SUBSET S -> Int] : UpTo(n, sum)
      BY <2>1
    <3>2. \E next \in [SUBSET S -> Int] : UpTo(n + 1, next)
      BY <1>4, <3>1
    <3> HIDE DEF UpTo
    <3> QED
      BY <3>2
  <2> HIDE DEF N
  <2> QED BY <1>3, <2>1, NatSetInduction
<1>6. PICK sum \in [SUBSET S -> Int] : UpTo(Cardinality(S), sum)
  BY <1>1, <1>5
<1>7. \A s \in SUBSET S : Cardinality(s) <= Cardinality(S)
  BY FS_Subset
<1>8. \A s \in SUBSET S : sum[s] = Rec(sum, s)
  BY <1>6, <1>7
<1>9. sum = [s \in SUBSET S |-> Rec(sum, s)]
  BY <1>8
<1> QED
  BY <1>9 DEF Summing

(* ... and it is the same on the subsets of two sets.                      *)
LEMMA SumUnique ==
  ASSUME NEW S, IsFiniteSet(S), NEW f, NEW U, NEW V, S \subseteq U, S \subseteq V,
         NEW u, NEW v, Summing(f, U, u), Summing(f, V, v)
  PROVE  u[S] = v[S]
<1> DEFINE N == {n \in Nat : \A s \in SUBSET S : Cardinality(s) <= n => u[s] = v[s]}
<1>1. \A s \in SUBSET S : IsFiniteSet(s) /\ Cardinality(s) \in Nat
  BY FS_Subset, FS_CardinalityType
<1>2. u[{}] = v[{}]
  BY DEF Summing
<1>3. 0 \in N
  <2>1. \A s \in SUBSET S : Cardinality(s) <= 0 => s = {}
    BY <1>1, FS_EmptySet
  <2> QED
    BY <1>2, <2>1
<1>4. ASSUME NEW n \in Nat, n \in N, NEW s \in SUBSET S, Cardinality(s) <= n + 1
      PROVE  u[s] = v[s]
  <2>1. CASE s = {}
    BY <1>2, <2>1
  <2>2. CASE s # {}
    <3> DEFINE x == CHOOSE x \in s : TRUE
    <3>1. x \in s
      BY <2>2
    <3>2. Cardinality(s \ {x}) = Cardinality(s) - 1
      BY <1>1, <3>1, FS_RemoveElement
    <3>3. s \ {x} \in SUBSET S /\ Cardinality(s \ {x}) <= n
      BY <1>1, <1>4, <3>2
    <3>4. u[s \ {x}] = v[s \ {x}]
      BY <1>4, <3>3
    <3>5. u[s] = f[x] + u[s \ {x}] /\ v[s] = f[x] + v[s \ {x}]
      BY <2>2 DEF Summing
    <3> QED
      BY <3>4, <3>5
  <2> QED
    BY <2>1, <2>2
<1>5. Nat \subseteq N
  <2>1. ASSUME NEW n \in Nat, n \in N PROVE n + 1 \in N
    <3>1. \A s \in SUBSET S : Cardinality(s) <= n + 1 => u[s] = v[s]
      BY <1>4, <2>1
    <3> QED BY <3>1
  <2> HIDE DEF N
  <2> QED BY <1>3, <2>1, NatSetInduction
<1>6. Cardinality(S) \in N /\ S \in SUBSET S /\ Cardinality(S) <= Cardinality(S)
  BY <1>1, <1>5
<1> QED
  BY <1>6

LEMMA SumRecursion ==
  ASSUME NEW S, IsFiniteSet(S), NEW f, \A x \in S : f[x] \in Int
  PROVE  /\ Sum(f, S) \in Int
         /\ S = {} => Sum(f, S) = 0
         /\ S # {} => LET x == CHOOSE x \in S : TRUE
                      IN  Sum(f, S) = f[x] + Sum(f, S \ {x})
<1> DEFINE sum == CHOOSE sum : Summing(f, S, sum)
           x == CHOOSE x \in S : TRUE
           rest == CHOOSE rest : Summing(f, S \ {x}, rest)
<1>1. Summing(f, S, sum)
  BY SumExists
<1>2. Sum(f, S) = sum[S]
  BY SumByChoice
<1>3. Sum(f, S \ {x}) = rest[S \ {x}]
  BY SumByChoice
<1>4. IsFiniteSet(S \ {x})
  BY FS_RemoveElement
<1>5. Summing(f, S \ {x}, rest)
  <2>1. \E u \in [SUBSET (S \ {x}) -> Int] : Summing(f, S \ {x}, u)
    BY <1>4, SumExists
  <2> QED
    BY <2>1
<1>6. sum[S \ {x}] = rest[S \ {x}]
  BY <1>1, <1>4, <1>5, SumUnique
<1>7. Sum(f, S) \in Int
  <2>1. PICK u \in [SUBSET S -> Int] : Summing(f, S, u)
    BY SumExists
  <2>2. sum[S] = u[S]
    BY <1>1, <2>1, SumUnique
  <2> QED
    BY <1>2, <2>1, <2>2
<1>8. S = {} => sum[S] = 0
  BY <1>1 DEF Summing
<1>9. S # {} => sum[S] = f[x] + sum[S \ {x}]
  BY <1>1 DEF Summing
<1> QED
  BY <1>2, <1>3, <1>6, <1>7, <1>8, <1>9

-----------------------------------------------------------------------------
(* The facts to cite: f has a number for every element of the finite set S. *)

LEMMA SumType ==
  ASSUME NEW S, IsFiniteSet(S), NEW f, \A x \in S : f[x] \in Int
  PROVE  Sum(f, S) \in Int
BY SumRecursion

LEMMA SumEmpty == \A f : Sum(f, {}) = 0
BY SumRecursion, FS_EmptySet

(* Any element may be taken out first.                                     *)
LEMMA SumRemove ==
  ASSUME NEW S, IsFiniteSet(S), NEW f, \A x \in S : f[x] \in Int, NEW x \in S
  PROVE  Sum(f, S) = f[x] + Sum(f, S \ {x})
<1> DEFINE Any(s) == \A y \in s : Sum(f, s) = f[y] + Sum(f, s \ {y})
           N == {n \in Nat : \A s \in SUBSET S : Cardinality(s) = n => Any(s)}
<1>1. \A s \in SUBSET S : IsFiniteSet(s) /\ Cardinality(s) \in Nat
  BY FS_Subset, FS_CardinalityType
<1>2. 0 \in N
  BY <1>1, FS_EmptySet
<1>3. ASSUME NEW n \in Nat, n \in N, NEW s \in SUBSET S, Cardinality(s) = n + 1, NEW y \in s
      PROVE  Sum(f, s) = f[y] + Sum(f, s \ {y})
  <2> DEFINE c == CHOOSE c \in s : TRUE
  <2>1. c \in s
    OBVIOUS
  <2>2. Sum(f, s) = f[c] + Sum(f, s \ {c})
    BY <1>1, <2>1, SumRecursion
  <2>3. CASE y = c
    BY <2>2, <2>3
  <2>4. CASE y # c
    <3> DEFINE rest == (s \ {c}) \ {y}
    <3>1. Cardinality(s \ {c}) = n /\ Cardinality(s \ {y}) = n
      <4>1. Cardinality(s \ {c}) = Cardinality(s) - 1
        BY <1>1, <2>1, FS_RemoveElement
      <4>2. Cardinality(s \ {y}) = Cardinality(s) - 1
        BY <1>1, FS_RemoveElement
      <4> QED
        BY <1>3, <4>1, <4>2
    <3>2. Any(s \ {c}) /\ Any(s \ {y})
      BY <1>3, <3>1
    <3>3. Sum(f, s \ {c}) = f[y] + Sum(f, rest)
      BY <2>4, <3>2
    <3>4. Sum(f, s \ {y}) = f[c] + Sum(f, rest)
      <4>1. c \in s \ {y} /\ (s \ {y}) \ {c} = rest
        BY <2>1, <2>4
      <4> QED
        BY <3>2, <4>1
    <3>5. f[c] \in Int /\ f[y] \in Int /\ Sum(f, rest) \in Int
      <4>1. rest \in SUBSET S
        OBVIOUS
      <4> QED
        BY <1>1, <2>1, <4>1, SumType
    <3> HIDE DEF c, rest
    <3> QED
      BY <2>2, <3>3, <3>4, <3>5
  <2> QED
    BY <2>3, <2>4
<1>4. Nat \subseteq N
  <2>1. ASSUME NEW n \in Nat, n \in N PROVE n + 1 \in N
    <3>1. ASSUME NEW s \in SUBSET S, Cardinality(s) = n + 1 PROVE Any(s)
      BY <1>3, <2>1, <3>1
    <3> HIDE DEF Any
    <3> QED
      BY <3>1
  <2> HIDE DEF N
  <2> QED BY <1>2, <2>1, NatSetInduction
<1> QED
  BY <1>1, <1>4

LEMMA SumAdd ==
  ASSUME NEW S, IsFiniteSet(S), NEW x, x \notin S,
         NEW f, \A y \in S \cup {x} : f[y] \in Int
  PROVE  Sum(f, S \cup {x}) = f[x] + Sum(f, S)
<1>1. IsFiniteSet(S \cup {x}) /\ (S \cup {x}) \ {x} = S
  BY FS_AddElement
<1> QED
  BY <1>1, SumRemove

(* Values that are the sums, or differences, of others; the same values.    *)
LEMMA SumPlus ==
  ASSUME NEW S, IsFiniteSet(S), NEW f, NEW g, NEW h,
         \A x \in S : f[x] \in Int /\ g[x] \in Int /\ h[x] = f[x] + g[x]
  PROVE  Sum(h, S) = Sum(f, S) + Sum(g, S)
<1> DEFINE T == {s \in SUBSET S : Sum(h, s) = Sum(f, s) + Sum(g, s)}
<1>1. {} \in T
  BY SumEmpty
<1>2. ASSUME NEW s \in SUBSET S, NEW x \in S \ s, s \in T
      PROVE  s \cup {x} \in T
  <2>1. IsFiniteSet(s)
    BY FS_Subset
  <2>2. Sum(f, s) \in Int /\ Sum(g, s) \in Int
    BY <2>1, SumType
  <2>3. Sum(f, s \cup {x}) = f[x] + Sum(f, s)
    BY <2>1, SumAdd
  <2>4. Sum(g, s \cup {x}) = g[x] + Sum(g, s)
    BY <2>1, SumAdd
  <2>5. Sum(h, s \cup {x}) = h[x] + Sum(h, s)
    <3>1. \A y \in S : h[y] \in Int
      OBVIOUS
    <3> QED
      BY <2>1, <3>1, SumAdd
  <2> QED
    BY <1>2, <2>2, <2>3, <2>4, <2>5
<1>3. S \in T
  <2> HIDE DEF T
  <2> QED BY <1>1, <1>2, SubsetInduction
<1> QED
  BY <1>3

LEMMA SumMinus ==
  ASSUME NEW S, IsFiniteSet(S), NEW f, NEW g, NEW h,
         \A x \in S : f[x] \in Int /\ g[x] \in Int /\ h[x] = f[x] - g[x]
  PROVE  Sum(h, S) = Sum(f, S) - Sum(g, S)
<1>1. \A x \in S : h[x] \in Int /\ f[x] = h[x] + g[x]
  OBVIOUS
<1>2. Sum(f, S) = Sum(h, S) + Sum(g, S)
  BY <1>1, SumPlus
<1>3. Sum(h, S) \in Int /\ Sum(g, S) \in Int
  BY <1>1, SumType
<1> QED
  BY <1>2, <1>3

(* Smaller values                                                          *)
LEMMA SumAtMost ==
  ASSUME NEW S, IsFiniteSet(S), NEW f, NEW g,
         \A x \in S : f[x] \in Int /\ g[x] \in Int /\ f[x] <= g[x]
  PROVE  Sum(f, S) <= Sum(g, S)
<1> DEFINE T == {s \in SUBSET S : Sum(f, s) <= Sum(g, s)}
<1>1. {} \in T
  BY SumEmpty
<1>2. ASSUME NEW s \in SUBSET S, NEW x \in S \ s, s \in T
      PROVE  s \cup {x} \in T
  <2>1. IsFiniteSet(s)
    BY FS_Subset
  <2>2. Sum(f, s) \in Int /\ Sum(g, s) \in Int
    BY <2>1, SumType
  <2>3. Sum(f, s \cup {x}) = f[x] + Sum(f, s)
    BY <2>1, SumAdd
  <2>4. Sum(g, s \cup {x}) = g[x] + Sum(g, s)
    BY <2>1, SumAdd
  <2> QED
    BY <1>2, <2>2, <2>3, <2>4
<1>3. S \in T
  <2> HIDE DEF T
  <2> QED BY <1>1, <1>2, SubsetInduction
<1> QED
  BY <1>3

LEMMA SumEqual ==
  ASSUME NEW S, IsFiniteSet(S), NEW f, NEW g, \A x \in S : f[x] \in Int /\ g[x] = f[x]
  PROVE  Sum(g, S) = Sum(f, S)
<1>1. Sum(f, S) <= Sum(g, S)
  BY SumAtMost
<1>2. Sum(g, S) <= Sum(f, S)
  BY SumAtMost
<1>3. Sum(f, S) \in Int /\ Sum(g, S) \in Int
  BY SumType
<1> QED
  BY <1>1, <1>2, <1>3

LEMMA SumZero ==
  ASSUME NEW S, IsFiniteSet(S), NEW f, \A x \in S : f[x] = 0
  PROVE  Sum(f, S) = 0
<1>1. Sum(f, S) = Sum(f, S) + Sum(f, S)
  BY SumPlus
<1>2. Sum(f, S) \in Int
  BY SumType
<1>3. \A n \in Int : n = n + n => n = 0
  OBVIOUS
<1> QED
  BY <1>1, <1>2, <1>3

LEMMA SumNat ==
  ASSUME NEW S, IsFiniteSet(S), NEW f, \A x \in S : f[x] \in Nat
  PROVE  Sum(f, S) \in Nat
<1> DEFINE zero == [x \in S |-> 0]
<1>1. Sum(zero, S) = 0
  BY SumZero
<1>2. Sum(zero, S) <= Sum(f, S)
  BY SumAtMost
<1>3. Sum(f, S) \in Int
  BY SumType
<1> QED
  BY <1>1, <1>2, <1>3

(* One value changes.                                                      *)
LEMMA SumChange ==
  ASSUME NEW S, IsFiniteSet(S), NEW f, NEW g, NEW x \in S,
         \A y \in S : f[y] \in Int /\ g[y] \in Int, \A y \in S \ {x} : g[y] = f[y]
  PROVE  Sum(g, S) = Sum(f, S) + g[x] - f[x]
<1>1. IsFiniteSet(S \ {x})
  BY FS_RemoveElement
<1>2. Sum(f, S) = f[x] + Sum(f, S \ {x})
  BY SumRemove
<1>3. Sum(g, S) = g[x] + Sum(g, S \ {x})
  BY SumRemove
<1>4. Sum(g, S \ {x}) = Sum(f, S \ {x})
  BY <1>1, SumEqual
<1>5. Sum(f, S \ {x}) \in Int
  BY <1>1, SumType
<1> QED
  BY <1>2, <1>3, <1>4, <1>5

(* Disjoint sets                                                           *)
LEMMA SumUnion ==
  ASSUME NEW S, IsFiniteSet(S), NEW U, IsFiniteSet(U), S \cap U = {},
         NEW f, \A x \in S \cup U : f[x] \in Int
  PROVE  Sum(f, S \cup U) = Sum(f, S) + Sum(f, U)
<1> DEFINE T == {s \in SUBSET S : IsFiniteSet(s \cup U) /\ Sum(f, s \cup U) = Sum(f, s) + Sum(f, U)}
<1>0. Sum(f, U) \in Int
  BY SumType
<1>1. {} \in T
  <2>1. {} \cup U = U
    OBVIOUS
  <2> QED
    BY <1>0, <2>1, SumEmpty
<1>2. ASSUME NEW s \in SUBSET S, NEW x \in S \ s, s \in T
      PROVE  s \cup {x} \in T
  <2>1. IsFiniteSet(s)
    BY FS_Subset
  <2>2. Sum(f, s) \in Int
    BY <2>1, SumType
  <2>3. Sum(f, s \cup {x}) = f[x] + Sum(f, s)
    BY <2>1, SumAdd
  <2>4. (s \cup {x}) \cup U = (s \cup U) \cup {x} /\ x \notin s \cup U
    OBVIOUS
  <2>5. IsFiniteSet(s \cup U)
    BY <1>2
  <2>6. IsFiniteSet((s \cup U) \cup {x})
    BY <2>5, FS_AddElement
  <2>7. Sum(f, (s \cup U) \cup {x}) = f[x] + Sum(f, s \cup U)
    BY <2>4, <2>5, SumAdd
  <2>8. Sum(f, s \cup U) = Sum(f, s) + Sum(f, U) /\ f[x] \in Int
    BY <1>2
  <2>9. Sum(f, (s \cup {x}) \cup U) = Sum(f, s \cup {x}) + Sum(f, U)
    <3>1. Sum(f, (s \cup {x}) \cup U) = f[x] + Sum(f, s \cup U)
      BY <2>4, <2>7
    <3> QED
      BY <1>0, <2>2, <2>3, <2>8, <3>1
  <2> QED
    BY <2>4, <2>6, <2>9
<1>3. S \in T
  <2> HIDE DEF T
  <2> QED BY <1>1, <1>2, SubsetInduction
<1> QED
  BY <1>3

LEMMA SumSplit ==
  ASSUME NEW S, IsFiniteSet(S), NEW U, U \subseteq S, NEW f, \A x \in S : f[x] \in Int
  PROVE  Sum(f, S) = Sum(f, U) + Sum(f, S \ U)
<1>1. IsFiniteSet(U) /\ IsFiniteSet(S \ U)
  BY FS_Subset
<1>2. U \cup (S \ U) = S /\ U \cap (S \ U) = {}
  OBVIOUS
<1>3. Sum(f, U \cup (S \ U)) = Sum(f, U) + Sum(f, S \ U)
  BY <1>1, <1>2, SumUnion
<1> QED
  BY <1>2, <1>3

(* Values that are zero outside of a part of the set.                      *)
LEMMA SumWhere ==
  ASSUME NEW S, IsFiniteSet(S), NEW U, U \subseteq S,
         NEW f, \A x \in U : f[x] \in Int,
         NEW g, \A x \in U : g[x] = f[x], \A x \in S \ U : g[x] = 0
  PROVE  Sum(g, S) = Sum(f, U)
<1>1. IsFiniteSet(U) /\ IsFiniteSet(S \ U)
  BY FS_Subset
<1>2. Sum(g, S) = Sum(g, U) + Sum(g, S \ U)
  <2>1. \A x \in S : g[x] \in Int
    OBVIOUS
  <2> QED
    BY <2>1, SumSplit
<1>3. Sum(g, S \ U) = 0
  BY <1>1, SumZero
<1>4. Sum(g, U) = Sum(f, U)
  BY <1>1, SumEqual
<1>5. Sum(f, U) \in Int
  BY <1>1, SumType
<1> QED
  BY <1>2, <1>3, <1>4, <1>5

LEMMA OneMoreTime ==
  ASSUME NEW c \in Int, NEW n \in Nat
  PROVE  c * (n + 1) = c * n + c /\ c * n \in Int
OBVIOUS

(* A sum is at most as many times the bound of its values as there are.     *)
LEMMA SumBounded ==
  ASSUME NEW S, IsFiniteSet(S), NEW c \in Int, NEW f, \A x \in S : f[x] \in Int /\ f[x] <= c
  PROVE  Sum(f, S) <= c * Cardinality(S)
<1> DEFINE T == {s \in SUBSET S : Sum(f, s) <= c * Cardinality(s)}
<1>1. {} \in T
  <2>1. Sum(f, {}) = 0 /\ Cardinality({}) = 0
    BY SumEmpty, FS_EmptySet
  <2> QED
    BY <2>1
<1>2. ASSUME NEW s \in SUBSET S, NEW x \in S \ s, s \in T PROVE s \cup {x} \in T
  <2>1. IsFiniteSet(s)
    BY FS_Subset
  <2>2. Cardinality(s) \in Nat /\ Cardinality(s \cup {x}) = Cardinality(s) + 1
    BY <2>1, FS_CardinalityType, FS_AddElement
  <2>3. Sum(f, s) \in Int /\ Sum(f, s \cup {x}) = f[x] + Sum(f, s)
    BY <2>1, SumType, SumAdd
  <2>4. c * (Cardinality(s) + 1) = c * Cardinality(s) + c /\ c * Cardinality(s) \in Int
    BY <2>2, OneMoreTime
  <2>5. Sum(f, s) <= c * Cardinality(s) /\ f[x] \in Int /\ f[x] <= c
    BY <1>2
  <2>6. Sum(f, s \cup {x}) <= c * Cardinality(s \cup {x})
    BY <2>2, <2>3, <2>4, <2>5
  <2> QED
    BY <2>6
<1>3. S \in T
  <2> HIDE DEF T
  <2> QED
    BY <1>1, <1>2, SubsetInduction
<1> QED
  BY <1>3
=============================================================================
