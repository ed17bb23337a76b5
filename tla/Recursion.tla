------------------------------ MODULE Recursion ------------------------------
(* Induction and recursion for proofs about folds: over the naturals and over *)
(* the subsets of a finite set.  What is proved by induction is given as the   *)
(* set of the values it holds of, and what is computed by recursion as a       *)
(* function, so that no fact below has an operator among its parameters.       *)
EXTENDS Integers, FiniteSets, FiniteSetsExt, FiniteSetTheorems,
        WellFoundedInduction, TLAPS

\* A set that holds 0, and the successor of each natural number it holds, holds all
\* natural numbers.
LEMMA NaturalInduction ==
  ASSUME NEW T, 0 \in T, \A n \in Nat : n \in T => n + 1 \in T
  PROVE  Nat \subseteq T
<1> SUFFICES ASSUME Nat \ T # {} PROVE FALSE  OBVIOUS
<1> DEFINE Smaller == OpToRel(<, Nat)
<1>1. IsWellFoundedOn(Smaller, Nat)  BY NatLessThanWellFounded
<1>2. PICK n \in Nat \ T : \A m \in Nat \ T : ~(<<m, n>> \in Smaller)
  <2> HIDE DEF Smaller
  <2>1. Nat \ T \subseteq Nat  OBVIOUS
  <2> QED  BY <1>1, <2>1, WFMin
<1>3. n - 1 \in Nat /\ n - 1 < n /\ n - 1 + 1 = n  OBVIOUS
<1>4. <<n - 1, n>> \in Smaller  BY <1>3 DEF OpToRel
<1>5. n - 1 \in T  BY <1>2, <1>3, <1>4
<1> QED  BY <1>3, <1>5

\* The same up to a bound.
LEMMA BoundedInduction ==
  ASSUME NEW N \in Nat, NEW T, 0 \in T, \A n \in 1 .. N : n - 1 \in T => n \in T
  PROVE  0 .. N \subseteq T
<1> DEFINE U == {n \in Nat : n <= N => n \in T}
<1>1. 0 \in U  OBVIOUS
<1>2. ASSUME NEW n \in Nat, n \in U PROVE n + 1 \in U
  <2>1. CASE n + 1 <= N
    <3>1. n + 1 \in 1 .. N /\ n + 1 - 1 = n /\ n \in T  BY <1>2, <2>1
    <3>2. n + 1 \in T  BY <3>1
    <3> QED  BY <3>2
  <2>2. CASE ~(n + 1 <= N)  BY <2>2
  <2> QED  BY <2>1, <2>2
<1> HIDE DEF U
<1>3. Nat \subseteq U  BY <1>1, <1>2, NaturalInduction
<1> QED  BY <1>3 DEF U

\* A sequence of values may be defined by recursion: each from the one before and
\* its place.
Iterates(f, N, base, G) == f[0] = base /\ \A n \in 1 .. N : f[n] = G[<<n, f[n - 1]>>]

LEMMA BoundedRecursion ==
  ASSUME NEW N \in Nat, NEW V, NEW base \in V, NEW G \in [(1 .. N) \X V -> V]
  PROVE  \E f \in [0 .. N -> V] : Iterates(f, N, base, G)
<1> DEFINE Good(f, n) == f[n] = G[<<n, f[n - 1]>>]
           Lengths == {k \in Nat : \E f \in [0 .. N -> V] :
                         f[0] = base /\ \A n \in 1 .. N : n <= k => Good(f, n)}
<1>1. 0 \in Lengths
  <2>1. [n \in 0 .. N |-> base] \in [0 .. N -> V]  OBVIOUS
  <2>2. [n \in 0 .. N |-> base][0] = base  OBVIOUS
  <2>3. \A n \in 1 .. N : ~(n <= 0)  OBVIOUS
  <2> QED  BY <2>1, <2>2, <2>3
<1>2. ASSUME NEW k \in Nat, k \in Lengths PROVE k + 1 \in Lengths
  <2>1. PICK f \in [0 .. N -> V] :
          f[0] = base /\ \A n \in 1 .. N : n <= k => Good(f, n)
    BY <1>2
  <2> DEFINE g == [n \in 0 .. N |-> IF n = 0 THEN base ELSE G[<<n, f[n - 1]>>]]
  <2>2. g \in [0 .. N -> V] /\ g[0] = base
    <3>1. ASSUME NEW n \in 0 .. N, n # 0 PROVE G[<<n, f[n - 1]>>] \in V
      <4>1. n \in 1 .. N /\ n - 1 \in 0 .. N  BY <3>1
      <4>2. <<n, f[n - 1]>> \in (1 .. N) \X V  BY <2>1, <4>1
      <4> QED  BY <4>2
    <3> QED  BY <3>1
  <2>3. ASSUME NEW n \in 0 .. N, n <= k PROVE g[n] = f[n]
    BY <2>1, <2>3
  <2>4. ASSUME NEW n \in 1 .. N, n <= k + 1 PROVE Good(g, n)
    <3>1. n - 1 \in 0 .. N /\ n - 1 <= k /\ n # 0 /\ n \in 0 .. N  BY <2>4
    <3>2. g[n - 1] = f[n - 1]  BY <2>3, <3>1
    <3>3. g[n] = G[<<n, f[n - 1]>>]  BY <3>1
    <3> HIDE DEF g
    <3> QED  BY <3>2, <3>3
  <2> HIDE DEF g, Good
  <2> QED  BY <2>2, <2>4
<1> HIDE DEF Lengths, Good
<1>3. N \in Lengths  BY <1>1, <1>2, NaturalInduction
<1> QED  BY <1>3 DEF Lengths, Good, Iterates

\* A set that holds {}, and each subset of a finite set that it holds with any one
\* element removed, holds all subsets.
LEMMA SubsetInduction ==
  ASSUME NEW D, IsFiniteSet(D), NEW T, {} \in T,
         \A s \in SUBSET D : s # {} /\ (\A x \in s : s \ {x} \in T) => s \in T
  PROVE  SUBSET D \subseteq T
<1> DEFINE Sizes == {n \in Nat : \A s \in SUBSET D : Cardinality(s) = n => s \in T}
<1>1. \A s \in SUBSET D : IsFiniteSet(s)  BY FS_Subset
<1>2. 0 \in Sizes  BY <1>1, FS_EmptySet
<1>3. ASSUME NEW n \in Nat, n \in Sizes PROVE n + 1 \in Sizes
  <2> SUFFICES ASSUME NEW s \in SUBSET D, Cardinality(s) = n + 1 PROVE s \in T
    OBVIOUS
  <2>1. s # {}  BY <1>1, FS_EmptySet
  <2>2. ASSUME NEW x \in s PROVE s \ {x} \in T
    <3>1. Cardinality(s \ {x}) = n
      <4>1. IsFiniteSet(s)  BY <1>1
      <4>2. Cardinality(s \ {x}) = Cardinality(s) - 1  BY <2>2, <4>1, FS_RemoveElement
      <4>3. Cardinality(s) = n + 1  OBVIOUS
      <4> QED  BY <4>2, <4>3
    <3>2. s \ {x} \in SUBSET D  OBVIOUS
    <3> QED  BY <1>3, <3>1, <3>2
  <2> QED  BY <2>1, <2>2
<1> HIDE DEF Sizes
<1>4. Nat \subseteq Sizes  BY <1>2, <1>3, NaturalInduction
<1>5. \A s \in SUBSET D : Cardinality(s) \in Nat  BY <1>1, FS_CardinalityType
<1> QED  BY <1>4, <1>5 DEF Sizes

\* A function on the subsets of a finite set may be defined by recursion: from its
\* value on the set without the element that C chooses, and that element.
Folds(f, D, base, C, G) ==
  \A s \in SUBSET D : f[s] = IF s = {} THEN base ELSE G[<<C[s], f[s \ {C[s]}]>>]

LEMMA SubsetRecursion ==
  ASSUME NEW D, IsFiniteSet(D), NEW V, NEW base \in V, NEW G \in [D \X V -> V],
         NEW C, \A s \in SUBSET D : s # {} => C[s] \in s
  PROVE  \E f \in [SUBSET D -> V] : Folds(f, D, base, C, G)
<1> DEFINE Good(f, s) ==
             f[s] = IF s = {} THEN base ELSE G[<<C[s], f[s \ {C[s]}]>>]
           Sizes == {n \in Nat : \E f \in [SUBSET D -> V] :
                       \A s \in SUBSET D : Cardinality(s) <= n => Good(f, s)}
<1>1. \A s \in SUBSET D : IsFiniteSet(s) /\ Cardinality(s) \in Nat
  BY FS_Subset, FS_CardinalityType
<1>2. 0 \in Sizes
  <2>1. [s \in SUBSET D |-> base] \in [SUBSET D -> V]  OBVIOUS
  <2>2. \A s \in SUBSET D : Cardinality(s) <= 0 => s = {}  BY <1>1, FS_EmptySet
  <2>3. \A s \in SUBSET D :
          Cardinality(s) <= 0 => Good([r \in SUBSET D |-> base], s)
    BY <2>2
  <2> QED  BY <2>1, <2>3
<1>3. ASSUME NEW n \in Nat, n \in Sizes PROVE n + 1 \in Sizes
  <2>1. PICK f \in [SUBSET D -> V] :
          \A s \in SUBSET D : Cardinality(s) <= n => Good(f, s)
    BY <1>3
  <2> DEFINE g == [s \in SUBSET D |->
                     IF s = {} THEN base ELSE G[<<C[s], f[s \ {C[s]}]>>]]
  <2>2. ASSUME NEW s \in SUBSET D, s # {}
        PROVE  /\ C[s] \in s /\ s \ {C[s]} \in SUBSET D
               /\ Cardinality(s \ {C[s]}) = Cardinality(s) - 1
    BY <1>1, <2>2, FS_RemoveElement
  <2>3. g \in [SUBSET D -> V]
    <3>1. ASSUME NEW s \in SUBSET D, s # {} PROVE G[<<C[s], f[s \ {C[s]}]>>] \in V
      <4>1. <<C[s], f[s \ {C[s]}]>> \in D \X V  BY <2>1, <2>2, <3>1
      <4> QED  BY <4>1
    <3> QED  BY <3>1
  <2>4. ASSUME NEW s \in SUBSET D, Cardinality(s) <= n PROVE g[s] = f[s]
    BY <2>1, <2>4
  <2>5. ASSUME NEW s \in SUBSET D, Cardinality(s) <= n + 1 PROVE Good(g, s)
    <3>1. CASE s = {}  BY <3>1
    <3>2. CASE s # {}
      <4>1. Cardinality(s \ {C[s]}) <= n  BY <1>1, <2>2, <2>5, <3>2
      <4>2. g[s \ {C[s]}] = f[s \ {C[s]}]  BY <2>2, <2>4, <3>2, <4>1
      <4>3. g[s] = G[<<C[s], f[s \ {C[s]}]>>]  BY <3>2
      <4> HIDE DEF g
      <4> QED  BY <3>2, <4>2, <4>3
    <3> QED  BY <3>1, <3>2
  <2> HIDE DEF g, Good
  <2> QED  BY <2>3, <2>5
<1> HIDE DEF Sizes, Good
<1>4. Nat \subseteq Sizes  BY <1>2, <1>3, NaturalInduction
<1>5. PICK f \in [SUBSET D -> V] :
        \A s \in SUBSET D : Cardinality(s) <= Cardinality(D) => Good(f, s)
  BY <1>1, <1>4 DEF Sizes
<1>6. \A s \in SUBSET D : Cardinality(s) <= Cardinality(D)  BY FS_Subset
<1> QED  BY <1>5, <1>6 DEF Good, Folds

\* A finite set of integers has a greatest element, which is its Max.
LEMMA MaxIsGreatest ==
  ASSUME NEW D, IsFiniteSet(D), D \subseteq Int, D # {}
  PROVE  Max(D) \in D /\ \A y \in D : y <= Max(D)
<1> DEFINE Greatest(x, s) == x \in s /\ \A y \in s : y <= x
           T == {s \in SUBSET D : s # {} => \E x : Greatest(x, s)}
<1>1. {} \in T  OBVIOUS
<1>2. ASSUME NEW s \in SUBSET D, s # {}, \A x \in s : s \ {x} \in T
      PROVE  s \in T
  <2>1. PICK x \in s : TRUE  BY <1>2
  <2>2. CASE s \ {x} = {}
    <3>1. Greatest(x, s)  BY <2>1, <2>2
    <3> QED  BY <3>1
  <2>3. CASE s \ {x} # {}
    <3>1. PICK z : Greatest(z, s \ {x})  BY <1>2, <2>1, <2>3
    <3>2. x \in Int /\ z \in Int  BY <2>1, <3>1
    <3>3. CASE x <= z
      <4>1. Greatest(z, s)  BY <2>1, <3>1, <3>3
      <4> QED  BY <4>1
    <3>4. CASE z <= x
      <4>1. ASSUME NEW y \in s PROVE y <= x
        <5>1. y \in Int  OBVIOUS
        <5>2. y # x => y <= z  BY <3>1
        <5> QED  BY <3>2, <3>4, <5>1, <5>2
      <4>2. Greatest(x, s)  BY <2>1, <4>1
      <4> QED  BY <4>2
    <3> QED  BY <3>2, <3>3, <3>4
  <2> QED  BY <2>2, <2>3
<1> HIDE DEF T
<1>3. SUBSET D \subseteq T  BY <1>1, <1>2, SubsetInduction
<1>4. D \in T  BY <1>3
<1>5. \E x \in D : \A y \in D : x >= y  BY <1>4 DEF T
<1>6. Max(D) \in D /\ \A y \in D : Max(D) >= y  BY <1>5 DEF Max
<1> QED  BY <1>6

-----------------------------------------------------------------------------
(* Sums over finite sets. *)

\* f gives the sum of the values v over each subset of D, in whatever order they are
\* taken.
Adds(f, D, v) ==
  /\ f \in [SUBSET D -> Int] /\ v \in [D -> Int]
  /\ f[{}] = 0
  /\ \A s \in SUBSET D : \A x \in s : f[s] = v[x] + f[s \ {x}]

\* An element of each set, as the folds of the community modules take it.
AnyOf(D) == [s \in SUBSET D |-> CHOOSE x \in s : TRUE]

\* What a fold that adds the values one by one returns does not depend on the order.
LEMMA SumsAdd ==
  ASSUME NEW D, IsFiniteSet(D), NEW v \in [D -> Int],
         NEW f \in [SUBSET D -> Int], f[{}] = 0,
         \A s \in SUBSET D : s # {} => f[s] = v[AnyOf(D)[s]] + f[s \ {AnyOf(D)[s]}]
  PROVE  Adds(f, D, v)
<1> DEFINE Any(s, x) == f[s] = v[x] + f[s \ {x}]
           T == {s \in SUBSET D : \A x \in s : Any(s, x)}
<1>1. {} \in T  OBVIOUS
<1>2. ASSUME NEW s \in SUBSET D, s # {}, \A x \in s : s \ {x} \in T
      PROVE  s \in T
  <2> DEFINE c == AnyOf(D)[s]
  <2>1. c \in s  BY <1>2 DEF AnyOf
  <2>2. f[s] = v[c] + f[s \ {c}]  BY <1>2
  <2> HIDE DEF c
  <2>3. ASSUME NEW x \in s, x # c PROVE Any(s, x)
    <3> DEFINE r == (s \ {c}) \ {x}
    <3>1. f[s \ {c}] = v[x] + f[r]
      <4>1. s \ {c} \in T /\ x \in s \ {c}  BY <1>2, <2>1, <2>3
      <4> QED  BY <4>1
    <3>2. f[s \ {x}] = v[c] + f[r]
      <4>1. s \ {x} \in T /\ c \in s \ {x}  BY <1>2, <2>1, <2>3
      <4>2. (s \ {x}) \ {c} = r  OBVIOUS
      <4>3. f[s \ {x}] = v[c] + f[(s \ {x}) \ {c}]  BY <4>1
      <4> QED  BY <4>2, <4>3
    <3>3. r \in SUBSET D /\ x \in D /\ c \in D  BY <2>1
    <3>4. f[r] \in Int /\ v[x] \in Int /\ v[c] \in Int  BY <3>3
    <3> HIDE DEF r
    <3> QED  BY <2>2, <3>1, <3>2, <3>4
  <2>4. \A x \in s : Any(s, x)  BY <2>2, <2>3
  <2> QED  BY <2>4
<1>3. \A s \in T : \A x \in s : Any(s, x)  OBVIOUS
<1> HIDE DEF T
<1>4. SUBSET D \subseteq T  BY <1>1, <1>2, SubsetInduction
<1> QED  BY <1>3, <1>4 DEF Adds

\* The function such a fold computes, and that there is one.
Sums(f, D, v) ==
  f = [s \in SUBSET D |->
         IF s = {} THEN 0 ELSE v[AnyOf(D)[s]] + f[s \ {AnyOf(D)[s]}]]

LEMMA SumsOfFold ==
  ASSUME NEW D, IsFiniteSet(D), NEW v \in [D -> Int], NEW f, Sums(f, D, v)
  PROVE  Adds(f, D, v)
<1> DEFINE C == AnyOf(D)
           T == {s \in SUBSET D : f[s] \in Int}
<1>1. \A s \in SUBSET D : s # {} => C[s] \in s  BY DEF AnyOf
<1>2. /\ DOMAIN f = SUBSET D /\ f = [s \in SUBSET D |-> f[s]] /\ f[{}] = 0
      /\ \A s \in SUBSET D : s # {} => f[s] = v[C[s]] + f[s \ {C[s]}]
  BY DEF Sums
<1> HIDE DEF C
<1>3. {} \in T  BY <1>2
<1>4. ASSUME NEW s \in SUBSET D, s # {}, \A x \in s : s \ {x} \in T PROVE s \in T
  <2>1. C[s] \in s  BY <1>1, <1>4
  <2>2. f[s \ {C[s]}] \in Int /\ v[C[s]] \in Int  BY <1>4, <2>1
  <2>3. f[s] = v[C[s]] + f[s \ {C[s]}]  BY <1>2, <1>4
  <2>4. f[s] \in Int  BY <2>2, <2>3
  <2> QED  BY <2>4
<1>5. \A s \in T : f[s] \in Int  OBVIOUS
<1> HIDE DEF T
<1>6. SUBSET D \subseteq T  BY <1>3, <1>4, SubsetInduction
<1>7. f \in [SUBSET D -> Int]  BY <1>2, <1>5, <1>6
<1> QED  BY <1>2, <1>7, SumsAdd DEF C

LEMMA SumsExist ==
  ASSUME NEW D, IsFiniteSet(D), NEW v \in [D -> Int]
  PROVE  \E f : Sums(f, D, v)
<1> DEFINE C == AnyOf(D)
           G == [p \in D \X Int |-> v[p[1]] + p[2]]
<1>1. \A s \in SUBSET D : s # {} => C[s] \in s  BY DEF AnyOf
<1>2. G \in [D \X Int -> Int]  OBVIOUS
<1> HIDE DEF C, G
<1>3. 0 \in Int  OBVIOUS
<1>4. PICK f \in [SUBSET D -> Int] : Folds(f, D, 0, C, G)
  BY <1>1, <1>2, <1>3, SubsetRecursion
<1>5. ASSUME NEW s \in SUBSET D, s # {} PROVE f[s] = v[C[s]] + f[s \ {C[s]}]
  <2>1. f[s] = G[<<C[s], f[s \ {C[s]}]>>]  BY <1>4, <1>5 DEF Folds
  <2>2. <<C[s], f[s \ {C[s]}]>> \in D \X Int  BY <1>1, <1>4, <1>5
  <2> QED  BY <2>1, <2>2 DEF G
<1>6. f[{}] = 0  BY <1>4 DEF Folds
<1>7. f = [s \in SUBSET D |-> IF s = {} THEN 0 ELSE v[C[s]] + f[s \ {C[s]}]]
  BY <1>5, <1>6
<1> QED  BY <1>7 DEF C, Sums

\* Sums of values that agree are equal.
LEMMA SumsAgree ==
  ASSUME NEW D, NEW v, NEW f, Adds(f, D, v), NEW E, NEW w, NEW g, Adds(g, E, w),
         NEW B, IsFiniteSet(B), B \subseteq D, B \subseteq E,
         \A x \in B : v[x] = w[x]
  PROVE  f[B] = g[B]
<1> DEFINE T == {s \in SUBSET B : f[s] = g[s]}
<1>1. {} \in T  BY DEF Adds
<1>2. ASSUME NEW s \in SUBSET B, s # {}, \A x \in s : s \ {x} \in T PROVE s \in T
  <2>1. PICK x \in s : TRUE  BY <1>2
  <2>2. f[s] = v[x] + f[s \ {x}] /\ g[s] = w[x] + g[s \ {x}]
    <3>1. s \in SUBSET D /\ s \in SUBSET E  OBVIOUS
    <3> QED  BY <2>1, <3>1 DEF Adds
  <2>3. f[s \ {x}] = g[s \ {x}] /\ v[x] = w[x]  BY <1>2, <2>1
  <2> QED  BY <2>2, <2>3
<1>3. \A s \in T : f[s] = g[s]  OBVIOUS
<1> HIDE DEF T
<1>4. SUBSET B \subseteq T  BY <1>1, <1>2, SubsetInduction
<1> QED  BY <1>3, <1>4

\* What one new or changed value does to the sum.
LEMMA SumChanged ==
  ASSUME NEW D, IsFiniteSet(D), NEW v, NEW f, Adds(f, D, v), NEW a,
         NEW w, NEW g, Adds(g, D \cup {a}, w),
         \A x \in D : x # a => w[x] = v[x]
  PROVE  g[D \cup {a}] = f[D] - (IF a \in D THEN v[a] ELSE 0) + w[a]
<1> DEFINE B == D \ {a}
           E == D \cup {a}
<1>1. /\ IsFiniteSet(B) /\ B \subseteq D /\ B \subseteq E
      /\ \A x \in B : v[x] = w[x]
  <2>1. IsFiniteSet(B)  BY FS_Subset
  <2> QED  BY <2>1
<1>2. f[B] = g[B]
  <2>1. Adds(f, D, v) /\ Adds(g, E, w)  OBVIOUS
  <2> HIDE DEF B, E
  <2> QED  BY <1>1, <2>1, SumsAgree
<1>3. g[E] = w[a] + g[B]
  <2>1. E \ {a} = B /\ a \in E  OBVIOUS
  <2>2. g[E] = w[a] + g[E \ {a}]  BY DEF Adds
  <2> QED  BY <2>1, <2>2
<1>4. f[D] = (IF a \in D THEN v[a] ELSE 0) + f[B]
  <2>1. CASE a \in D  BY <2>1 DEF Adds
  <2>2. CASE a \notin D
    <3>1. B = D  BY <2>2
    <3>2. f[D] \in Int  BY DEF Adds
    <3> HIDE DEF B
    <3> QED  BY <2>2, <3>1, <3>2
  <2> QED  BY <2>1, <2>2
<1>5. f[B] \in Int /\ w[a] \in Int /\ (a \in D => v[a] \in Int)  BY DEF Adds
<1> HIDE DEF B
<1> QED  BY <1>2, <1>3, <1>4, <1>5

-----------------------------------------------------------------------------
(* Remainders. *)

LEMMA Quotient ==
  ASSUME NEW N \in Nat \ {0}, NEW n \in Int
  PROVE  /\ \E k \in Int : n = N * k + (n % N)
         /\ n % N \in 0 .. N - 1
<1>1. n \div N \in Int /\ n = N * (n \div N) + (n % N)  OBVIOUS
<1>2. n % N \in 0 .. N - 1  OBVIOUS
<1> QED  BY <1>1, <1>2

\* A multiple of N strictly between -N and N is zero.
LEMMA SmallMultiple ==
  ASSUME NEW N \in Nat \ {0}, NEW d \in Int, N * d < N, N * d > - N
  PROVE  d = 0
<1>1. ASSUME d >= 1 PROVE N * d >= N  BY <1>1
<1>2. ASSUME d <= -1 PROVE N * d <= -N  BY <1>2
<1> QED  BY <1>1, <1>2

\* A remainder forgets nothing but whole multiples.
LEMMA RemainderShift ==
  ASSUME NEW N \in Nat \ {0}, NEW n \in Int, NEW k \in Int
  PROVE  (n + N * k) % N = n % N
<1> DEFINE m == n + N * k
           r == n % N
           t == m % N
<1>1. m \in Int  OBVIOUS
<1>2. PICK p \in Int : n = N * p + r  BY Quotient
<1>3. PICK q \in Int : m = N * q + t  BY <1>1, Quotient
<1>4. r \in 0 .. N - 1 /\ t \in 0 .. N - 1
  <2>1. r \in 0 .. N - 1  BY Quotient
  <2> HIDE DEF m
  <2>2. t \in 0 .. N - 1  BY <1>1, Quotient
  <2> QED  BY <2>1, <2>2
<1> DEFINE d == p + k - q
<1> HIDE DEF r, t
<1>5. m = N * p + r + N * k  BY <1>2
<1> HIDE DEF m
<1>6. N * d = t - r
  <2>1. N * d = N * p + N * k - N * q  OBVIOUS
  <2> QED  BY <1>3, <1>4, <1>5, <2>1
<1> HIDE DEF d
<1>7. d \in Int  BY DEF d
<1>8. N * d < N /\ N * d > - N  BY <1>4, <1>6
<1>9. d = 0  BY <1>7, <1>8, SmallMultiple
<1>10. t = r  BY <1>4, <1>6, <1>9
<1> QED  BY <1>10 DEF t, r, m
=============================================================================
