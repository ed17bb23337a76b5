-------------------------- MODULE AmountFieldProofs --------------------------
(* Proofs about the grouping of digits in the amount field, for amounts of    *)
(* any length.                                                                *)
EXTENDS AmountField, Recursion, SequenceTheorems, TLAPS

\* How many characters n digits take, and which digit stands p places from the right.
Width(n) == n + (n - 1) \div 3
DigitAt(n, p) == n - p + p \div 4

LEMMA WidthType ==
  ASSUME NEW n \in Nat \ {0}
  PROVE  Width(n) \in Nat \ {0} /\ Width(n) >= n
BY DEF Width

LEMMA DigitInRange ==
  ASSUME NEW n \in Nat \ {0}, NEW p \in 0 .. Width(n) - 1, p % 4 # 3
  PROVE  DigitAt(n, p) \in 1 .. n
<1> DEFINE k == (n - 1) \div 3
           q == p \div 4
<1>1. k \in Nat /\ 3 * k <= n - 1 /\ n - 1 <= 3 * k + 2  OBVIOUS
<1>2. p \in Nat /\ p <= n + k - 1  BY <1>1 DEF Width
<1>3. q \in Nat /\ 4 * q <= p /\ p <= 4 * q + 2  BY <1>2
<1>4. DigitAt(n, p) = n - p + q  BY DEF DigitAt
<1> HIDE DEF k, q
<1>5. n - p + q <= n  BY <1>2, <1>3
<1>6. n - p + q >= 1
  <2>1. CASE q >= k  BY <2>1, <1>1, <1>2, <1>3
  <2>2. CASE q < k  BY <2>2, <1>1, <1>2, <1>3
  <2> QED  BY <1>1, <1>3, <2>1, <2>2
<1> QED  BY <1>2, <1>3, <1>4, <1>5, <1>6

LEMMA LastPlaceIsDigit ==
  ASSUME NEW n \in Nat \ {0}
  PROVE  (Width(n) - 1) % 4 # 3
<1> DEFINE k == (n - 1) \div 3
           s == (n - 1) % 3
<1>1. k \in Nat /\ s \in 0 .. 2 /\ n - 1 = 3 * k + s  OBVIOUS
<1>2. Width(n) - 1 = 4 * k + s  BY <1>1 DEF Width
<1> HIDE DEF k, s
<1>3. (4 * k + s) % 4 = s  BY <1>1
<1> QED  BY <1>1, <1>2, <1>3

LEMMA GroupValue ==
  ASSUME NEW digits \in Seq(Digit), digits # <<>>
  PROVE  /\ Len(digits) \in Nat \ {0}
         /\ DOMAIN GroupDigits(digits) = 1 .. Width(Len(digits))
         /\ Len(GroupDigits(digits)) = Width(Len(digits))
         /\ \A i \in 1 .. Width(Len(digits)) :
              GroupDigits(digits)[i] =
                IF (Width(Len(digits)) - i) % 4 = 3 THEN Comma
                ELSE digits[DigitAt(Len(digits), Width(Len(digits)) - i)]
<1>1. Len(digits) \in Nat \ {0}  BY EmptySeq, LenProperties
<1>2. Width(Len(digits)) \in Nat  BY <1>1, WidthType
<1>3. GroupDigits(digits) =
        [i \in 1 .. Width(Len(digits)) |->
           IF (Width(Len(digits)) - i) % 4 = 3 THEN Comma
           ELSE digits[DigitAt(Len(digits), Width(Len(digits)) - i)]]
  BY DEF GroupDigits, Width, DigitAt
<1> QED  BY <1>1, <1>2, <1>3

\* formatNumber puts the commas where the pattern of the field wants them: a comma
\* exactly before every third digit from the right, and none in front, for every
\* amount.
THEOREM DigitsAreGrouped ==
  ASSUME NEW digits \in Seq(Digit), digits # <<>>
  PROVE  Grouped(GroupDigits(digits)) /\ GroupDigits(digits)[1] \in Digit
<1> DEFINE n == Len(digits)
           g == GroupDigits(digits)
<1>1. /\ n \in Nat \ {0} /\ DOMAIN g = 1 .. Width(n) /\ Len(g) = Width(n)
      /\ \A i \in 1 .. Width(n) :
           g[i] = IF (Width(n) - i) % 4 = 3 THEN Comma ELSE digits[DigitAt(n, Width(n) - i)]
  BY GroupValue
<1>2. Width(n) \in Nat \ {0}  BY <1>1, WidthType
<1> HIDE DEF n, g
<1>3. ASSUME NEW i \in 1 .. Width(n), (Width(n) - i) % 4 # 3
      PROVE  g[i] \in Digit
  <2>1. Width(n) - i \in 0 .. Width(n) - 1  BY <1>2
  <2>2. DigitAt(n, Width(n) - i) \in 1 .. n  BY <1>1, <1>3, <2>1, DigitInRange
  <2> QED  BY <1>1, <1>3, <2>2, ElementOfSeq DEF n
<1>4. Grouped(g)  BY <1>1, <1>3 DEF Grouped
<1>5. g[1] \in Digit  BY <1>2, <1>1, <1>3, LastPlaceIsDigit
<1> QED  BY <1>4, <1>5 DEF g

\* The place from the right, commas counted, of the digit that is r digits from it.
PlaceOf(r) == r + r \div 3

LEMMA PlaceOfDigit ==
  ASSUME NEW n \in Nat \ {0}, NEW j \in 1 .. n
  PROVE  /\ PlaceOf(n - j) \in 0 .. Width(n) - 1
         /\ PlaceOf(n - j) % 4 # 3
         /\ DigitAt(n, PlaceOf(n - j)) = j
<1> DEFINE r == n - j
           q == r \div 3
           s == r % 3
           k == (n - 1) \div 3
<1>1. r \in Nat /\ r <= n - 1  OBVIOUS
<1>2. q \in Nat /\ s \in 0 .. 2 /\ r = 3 * q + s  BY <1>1
<1>3. k \in Nat /\ 3 * k <= n - 1 /\ n - 1 <= 3 * k + 2  OBVIOUS
<1>4. Width(n) = n + k /\ PlaceOf(n - j) = r + q  BY DEF Width, PlaceOf
<1>5. n - r = j  OBVIOUS
<1> HIDE DEF r, q, s, k
<1>6. q <= k  BY <1>1, <1>2, <1>3
<1>7. r + q = 4 * q + s  BY <1>2
<1>8. (r + q) % 4 = s /\ (r + q) \div 4 = q  BY <1>2, <1>7
<1>9. r + q \in 0 .. n + k - 1  BY <1>1, <1>2, <1>3, <1>6
<1>10. n - (r + q) + q = j  BY <1>1, <1>2, <1>5
<1>11. PlaceOf(n - j) \in 0 .. Width(n) - 1  BY <1>2, <1>3, <1>4, <1>9
<1>12. PlaceOf(n - j) % 4 # 3  BY <1>2, <1>4, <1>8
<1>13. DigitAt(n, r + q) = n - (r + q) + q  BY <1>8 DEF DigitAt
<1> QED  BY <1>4, <1>10, <1>11, <1>12, <1>13

\* formatNumber loses no digit, changes none and keeps their order: there is a
\* place for each, in order, and at every other place a comma.
THEOREM DigitsAreKept ==
  ASSUME NEW digits \in Seq(Digit), digits # <<>>
  PROVE  \E place \in [DOMAIN digits -> DOMAIN GroupDigits(digits)] :
           /\ \A j \in DOMAIN digits : GroupDigits(digits)[place[j]] = digits[j]
           /\ \A j, k \in DOMAIN digits : j < k => place[j] < place[k]
           /\ \A i \in DOMAIN GroupDigits(digits) :
                GroupDigits(digits)[i] = Comma \/ \E j \in DOMAIN digits : place[j] = i
<1> DEFINE n == Len(digits)
           g == GroupDigits(digits)
           place == [j \in 1 .. n |-> Width(n) - PlaceOf(n - j)]
<1>1. /\ n \in Nat \ {0} /\ DOMAIN g = 1 .. Width(n)
      /\ \A i \in 1 .. Width(n) :
           g[i] = IF (Width(n) - i) % 4 = 3 THEN Comma ELSE digits[DigitAt(n, Width(n) - i)]
  BY GroupValue
<1>2. Width(n) \in Nat \ {0} /\ DOMAIN digits = 1 .. n  BY <1>1, WidthType, LenProperties
<1> HIDE DEF n, g
<1>3. ASSUME NEW j \in 1 .. n
      PROVE  place[j] \in 1 .. Width(n) /\ Width(n) - place[j] = PlaceOf(n - j)
  <2>1. PlaceOf(n - j) \in 0 .. Width(n) - 1  BY <1>1, PlaceOfDigit
  <2>2. place[j] = Width(n) - PlaceOf(n - j)  OBVIOUS
  <2> HIDE DEF place
  <2> QED  BY <1>2, <2>1, <2>2
<1>4. ASSUME NEW j \in 1 .. n PROVE g[place[j]] = digits[j]
  <2>1. PlaceOf(n - j) % 4 # 3 /\ DigitAt(n, PlaceOf(n - j)) = j
    BY <1>1, PlaceOfDigit
  <2> HIDE DEF place
  <2>2. place[j] \in 1 .. Width(n) /\ Width(n) - place[j] = PlaceOf(n - j)  BY <1>3
  <2> QED  BY <1>1, <2>1, <2>2
<1>5. ASSUME NEW j \in 1 .. n, NEW k \in 1 .. n, j < k PROVE place[j] < place[k]
  <2>1. n - k \in Nat /\ n - j \in Nat /\ n - k < n - j  BY <1>1, <1>5
  <2>2. PlaceOf(n - k) < PlaceOf(n - j)  BY <2>1 DEF PlaceOf
  <2>3. PlaceOf(n - k) \in Nat /\ PlaceOf(n - j) \in Nat  BY <2>1 DEF PlaceOf
  <2> QED  BY <1>2, <2>2, <2>3
<1>6. ASSUME NEW i \in 1 .. Width(n), g[i] # Comma
      PROVE  \E j \in 1 .. n : place[j] = i
  <2> DEFINE p == Width(n) - i
             j == DigitAt(n, p)
  <2>1. p \in 0 .. Width(n) - 1 /\ p % 4 # 3  BY <1>1, <1>2, <1>6
  <2>2. j \in 1 .. n  BY <1>1, <2>1, DigitInRange
  <2>3. PlaceOf(n - j) = p
    <3> DEFINE q == p \div 4
               s == p % 4
    <3>1. p \in Nat  BY <1>2, <2>1
    <3> HIDE DEF p
    <3>2. q \in Nat /\ s \in 0 .. 2 /\ p = 4 * q + s  BY <2>1, <3>1
    <3>3. n - j = p - q  BY <1>1, <3>1, <3>2 DEF DigitAt
    <3> HIDE DEF q, s, j
    <3>4. p - q = 3 * q + s  BY <3>2
    <3>5. (3 * q + s) \div 3 = q  BY <3>2
    <3> QED  BY <3>2, <3>3, <3>4, <3>5 DEF PlaceOf
  <2>4. place[j] = i  BY <1>2, <2>2, <2>3
  <2> QED  BY <2>2, <2>4
<1>7. place \in [1 .. n -> 1 .. Width(n)]  BY <1>3
<1> HIDE DEF place
<1>8. /\ place \in [DOMAIN digits -> DOMAIN g]
      /\ \A j \in DOMAIN digits : g[place[j]] = digits[j]
      /\ \A j, k \in DOMAIN digits : j < k => place[j] < place[k]
      /\ \A i \in DOMAIN g : g[i] = Comma \/ \E j \in DOMAIN digits : place[j] = i
  BY <1>1, <1>2, <1>4, <1>5, <1>6, <1>7
<1> QED  BY <1>8 DEF g
-----------------------------------------------------------------------------
(* The characters of a text that are in a set, by recursion over its prefixes. *)

OneOf(c, C) == IF c \in C THEN <<c>> ELSE <<>>

Kept(s, C) ==
  CHOOSE kept : kept = [n \in 0 .. Len(s) |->
                          IF n = 0 THEN <<>> ELSE kept[n - 1] \o OneOf(s[n], C)]

Accumulates(kept, s, C, L) ==
  kept[0] = <<>> /\ \A n \in 1 .. L : kept[n] = kept[n - 1] \o OneOf(s[n], C)

LEMMA OneOfType ==
  ASSUME NEW S, NEW c \in S, NEW C
  PROVE  OneOf(c, C) \in Seq(S \cap C)
<1>1. CASE c \in C
  <2>1. c \in S \cap C  BY <1>1
  <2> QED  BY <1>1, <2>1 DEF OneOf
<1>2. CASE c \notin C  BY <1>2 DEF OneOf
<1> QED  BY <1>1, <1>2

LEMMA KeptSteps ==
  ASSUME NEW S, NEW s \in Seq(S), NEW C
  PROVE  /\ Only(s, C) = Kept(s, C)[Len(s)]
         /\ Accumulates(Kept(s, C), s, C, Len(s))
         /\ \A n \in 0 .. Len(s) : Kept(s, C)[n] \in Seq(S \cap C)
<1> DEFINE L == Len(s)
           V == Seq(S \cap C)
           G == [p \in (1 .. L) \X V |-> p[2] \o OneOf(s[p[1]], C)]
           Is(kept) == kept = [n \in 0 .. L |->
                                 IF n = 0 THEN <<>> ELSE kept[n - 1] \o OneOf(s[n], C)]
<1>1. L \in Nat /\ \A n \in 1 .. L : s[n] \in S  BY LenProperties, ElementOfSeq
<1>2. \A n \in 1 .. L : OneOf(s[n], C) \in V  BY <1>1, OneOfType
<1>3. <<>> \in V /\ \A n \in 1 .. L, v \in V : v \o OneOf(s[n], C) \in V
  BY <1>2, ConcatProperties
<1> HIDE DEF V, L
<1>4. G \in [(1 .. L) \X V -> V]  BY <1>3
<1>5. \E kept : Is(kept)
  <2> HIDE DEF G
  <2>1. PICK f \in [0 .. L -> V] : Iterates(f, L, <<>>, G)
    BY <1>1, <1>3, <1>4, BoundedRecursion
  <2>2. ASSUME NEW n \in 0 .. L, n # 0 PROVE f[n] = f[n - 1] \o OneOf(s[n], C)
    <3>1. n \in 1 .. L /\ n - 1 \in 0 .. L  BY <1>1, <2>2
    <3>2. <<n, f[n - 1]>> \in (1 .. L) \X V  BY <2>1, <3>1
    <3>3. G[<<n, f[n - 1]>>] = f[n - 1] \o OneOf(s[n], C)  BY <3>2 DEF G
    <3>4. f[n] = G[<<n, f[n - 1]>>]  BY <2>1, <3>1 DEF Iterates
    <3> QED  BY <3>3, <3>4
  <2>3. f = [n \in 0 .. L |-> IF n = 0 THEN <<>> ELSE f[n - 1] \o OneOf(s[n], C)]
    BY <2>1, <2>2 DEF Iterates
  <2> QED  BY <2>3
<1>6. Is(Kept(s, C))  BY <1>5 DEF Kept, L
<1>7. Only(s, C) = Kept(s, C)[L]  BY DEF Only, Kept, OneOf, L
<1> DEFINE k == Kept(s, C)
<1> HIDE DEF k, G
<1>8. k[0] = <<>> /\ \A n \in 1 .. L : k[n] = k[n - 1] \o OneOf(s[n], C)
  <2>1. k = [n \in 0 .. L |-> IF n = 0 THEN <<>> ELSE k[n - 1] \o OneOf(s[n], C)]
    BY <1>6 DEF k
  <2>2. 0 \in 0 .. L /\ \A n \in 1 .. L : n \in 0 .. L /\ n # 0  BY <1>1
  <2> QED  BY <2>1, <2>2
<1>9. \A n \in 0 .. L : k[n] \in V
  <2> DEFINE T == {n \in 0 .. L : k[n] \in V}
  <2>1. 0 \in T  BY <1>1, <1>3, <1>8
  <2>2. ASSUME NEW n \in 1 .. L, n - 1 \in T PROVE n \in T
    <3>1. k[n] = k[n - 1] \o OneOf(s[n], C) /\ k[n - 1] \in V  BY <1>8, <2>2
    <3>2. k[n] \in V  BY <1>3, <3>1
    <3> QED  BY <1>1, <3>2
  <2> HIDE DEF T
  <2>3. 0 .. L \subseteq T  BY <1>1, <2>1, <2>2, BoundedInduction
  <2> QED  BY <2>3 DEF T
<1> QED  BY <1>7, <1>8, <1>9 DEF k, V, L, Accumulates

LEMMA OnlyType ==
  ASSUME NEW S, NEW s \in Seq(S), NEW C
  PROVE  Only(s, C) \in Seq(S \cap C)
<1> DEFINE L == Len(s)
<1>1. L \in Nat /\ L = Len(s)  OBVIOUS
<1> HIDE DEF L
<1>2. Only(s, C) = Kept(s, C)[L]  BY <1>1, KeptSteps
<1>3. \A n \in 0 .. L : Kept(s, C)[n] \in Seq(S \cap C)  BY <1>1, KeptSteps
<1> QED  BY <1>1, <1>2, <1>3

\* Sets that tell the characters of a text apart in the same way keep the same.
LEMMA OnlySame ==
  ASSUME NEW S, NEW s \in Seq(S), NEW C, NEW E,
         \A n \in 1 .. Len(s) : s[n] \in C <=> s[n] \in E
  PROVE  Only(s, C) = Only(s, E)
<1> DEFINE L == Len(s)
           k == Kept(s, C)
           h == Kept(s, E)
           T == {n \in 0 .. L : k[n] = h[n]}
<1>1. /\ L \in Nat /\ L = Len(s)
      /\ \A n \in 1 .. L : OneOf(s[n], C) = OneOf(s[n], E)
  BY DEF OneOf
<1> HIDE DEF L
<1>2. Only(s, C) = k[L] /\ Accumulates(k, s, C, L)  BY <1>1, KeptSteps
<1>3. Only(s, E) = h[L] /\ Accumulates(h, s, E, L)  BY <1>1, KeptSteps
<1> HIDE DEF k, h
<1>4. 0 \in T  BY <1>1, <1>2, <1>3 DEF Accumulates
<1>5. ASSUME NEW n \in 1 .. L, n - 1 \in T PROVE n \in T
  <2>1. k[n] = k[n - 1] \o OneOf(s[n], C) /\ h[n] = h[n - 1] \o OneOf(s[n], E)
    BY <1>2, <1>3 DEF Accumulates
  <2>2. k[n] = h[n]  BY <1>1, <1>5, <2>1
  <2> QED  BY <1>1, <2>2
<1>6. \A n \in T : k[n] = h[n]  OBVIOUS
<1> HIDE DEF T
<1>7. 0 .. L \subseteq T  BY <1>1, <1>4, <1>5, BoundedInduction
<1>8. L \in T  BY <1>1, <1>7
<1> QED  BY <1>2, <1>3, <1>6, <1>8

\* What is kept of two texts in a row is what is kept of each.
LEMMA OnlyOfConcat ==
  ASSUME NEW S, NEW s \in Seq(S), NEW t \in Seq(S), NEW C
  PROVE  Only(s \o t, C) = Only(s, C) \o Only(t, C)
<1> DEFINE L == Len(s)
           M == Len(t)
           N == Len(s \o t)
           u == s \o t
           V == S \cap C
           left == Kept(s, C)
           right == Kept(t, C)
           both == Kept(u, C)
<1>1. L \in Nat /\ L = Len(s) /\ M \in Nat /\ M = Len(t) /\ N = Len(u)  OBVIOUS
<1>2. /\ u \in Seq(S) /\ N = L + M
      /\ \A n \in 1 .. L : u[n] = s[n]
      /\ \A n \in 1 .. M : u[L + n] = t[n]
  BY ConcatProperties, LenProperties
<1> HIDE DEF L, M, N, u
<1>3. /\ Only(s, C) = left[L] /\ Accumulates(left, s, C, L)
      /\ \A n \in 0 .. L : left[n] \in Seq(V)
  BY <1>1, KeptSteps
<1>4. /\ Only(t, C) = right[M] /\ Accumulates(right, t, C, M)
      /\ \A n \in 0 .. M : right[n] \in Seq(V)
  BY <1>1, KeptSteps
<1>5. Only(u, C) = both[N] /\ Accumulates(both, u, C, N)
  <2>1. Only(u, C) = both[Len(u)] /\ Accumulates(both, u, C, Len(u))
    BY <1>2, KeptSteps
  <2> QED  BY <1>1, <2>1
<1>6. \A n \in 1 .. M : OneOf(t[n], C) \in Seq(V)
  BY <1>1, ElementOfSeq, OneOfType
<1> HIDE DEF left, right, both, V
<1>7. both[L] = left[L]
  <2> DEFINE T == {n \in 0 .. L : both[n] = left[n]}
  <2>1. 0 \in T  BY <1>1, <1>3, <1>5 DEF Accumulates
  <2>2. ASSUME NEW n \in 1 .. L, n - 1 \in T PROVE n \in T
    <3>1. n \in 1 .. N /\ u[n] = s[n]  BY <1>1, <1>2
    <3>2. left[n] = left[n - 1] \o OneOf(s[n], C)  BY <1>3 DEF Accumulates
    <3>3. both[n] = both[n - 1] \o OneOf(s[n], C)  BY <1>5, <3>1 DEF Accumulates
    <3>4. both[n - 1] = left[n - 1]  BY <2>2
    <3>5. both[n] = left[n]  BY <3>2, <3>3, <3>4
    <3> QED  BY <1>1, <3>5
  <2>3. \A n \in T : both[n] = left[n]  OBVIOUS
  <2> HIDE DEF T
  <2>4. 0 .. L \subseteq T  BY <1>1, <2>1, <2>2, BoundedInduction
  <2>5. L \in T  BY <1>1, <2>4
  <2> QED  BY <2>3, <2>5
<1>8. both[N] = left[L] \o right[M]
  <2> DEFINE T == {n \in 0 .. M : both[L + n] = left[L] \o right[n]}
  <2>1. left[L] \in Seq(V)  BY <1>1, <1>3
  <2>2. 0 \in T
    <3>1. left[L] \o <<>> = left[L]  BY <2>1, ConcatEmptySeq
    <3>2. right[0] = <<>>  BY <1>4 DEF Accumulates
    <3>3. L + 0 = L /\ 0 \in 0 .. M  BY <1>1
    <3>4. both[L + 0] = left[L] \o right[0]  BY <1>7, <3>1, <3>2, <3>3
    <3> QED  BY <3>3, <3>4
  <2>3. ASSUME NEW n \in 1 .. M, n - 1 \in T PROVE n \in T
    <3>1. /\ L + n \in 1 .. N /\ (L + n) - 1 = L + (n - 1)
          /\ u[L + n] = t[n] /\ n - 1 \in 0 .. M /\ n \in 0 .. M
      BY <1>1, <1>2
    <3>2. both[L + n] = both[(L + n) - 1] \o OneOf(t[n], C)
      BY <1>5, <3>1 DEF Accumulates
    <3>3. both[L + n] = (left[L] \o right[n - 1]) \o OneOf(t[n], C)
      BY <2>3, <3>1, <3>2
    <3>4. right[n] = right[n - 1] \o OneOf(t[n], C)  BY <1>4 DEF Accumulates
    <3>5. right[n - 1] \in Seq(V) /\ OneOf(t[n], C) \in Seq(V)  BY <1>4, <1>6, <3>1
    <3>6. \A a, b, c \in Seq(V) : (a \o b) \o c = a \o (b \o c)
      BY ConcatAssociative, SMTT(30)
    <3>7. (left[L] \o right[n - 1]) \o OneOf(t[n], C)
            = left[L] \o (right[n - 1] \o OneOf(t[n], C))
      BY <2>1, <3>5, <3>6, Zenon
    <3>8. both[L + n] = left[L] \o right[n]  BY <3>3, <3>4, <3>7, Zenon
    <3> QED  BY <3>1, <3>8
  <2>4. \A n \in T : both[L + n] = left[L] \o right[n]  OBVIOUS
  <2> HIDE DEF T
  <2>5. 0 .. M \subseteq T  BY <1>1, <2>2, <2>3, BoundedInduction
  <2>6. M \in T  BY <1>1, <2>5
  <2> QED  BY <1>2, <2>4, <2>6
<1> QED  BY <1>3, <1>4, <1>5, <1>8 DEF u

-----------------------------------------------------------------------------
(* Grouping digits and taking the digits of what comes out. *)

LEMMA GroupType ==
  ASSUME NEW digits \in Seq(Digit), digits # <<>>
  PROVE  GroupDigits(digits) \in Seq(Digit \cup {Comma})
<1> DEFINE g == GroupDigits(digits)
           W == Width(Len(digits))
<1>1. /\ Len(digits) \in Nat \ {0} /\ W \in Nat /\ DOMAIN g = 1 .. W /\ Len(g) = W
      /\ g = [i \in 1 .. W |-> g[i]]
  <2>1. Len(digits) \in Nat \ {0} /\ DOMAIN g = 1 .. W /\ Len(g) = W  BY GroupValue
  <2>2. W \in Nat  BY <2>1, WidthType
  <2>3. g = [i \in DOMAIN g |-> g[i]]  BY DEF GroupDigits
  <2> QED  BY <2>1, <2>2, <2>3
<1>2. Grouped(g)  BY DigitsAreGrouped
<1> HIDE DEF g, W
<1>3. \A i \in 1 .. W : g[i] \in Digit \cup {Comma}  BY <1>1, <1>2 DEF Grouped
<1>4. g \in [1 .. W -> Digit \cup {Comma}]  BY <1>1, <1>3
<1>5. g \in Seq(Digit \cup {Comma})  BY <1>1, <1>4, SeqDef
<1> QED  BY <1>5 DEF g

\* How many digits stand to the left of a place: none, all of them, and one less
\* than to the left of the place before unless that one has a comma.
LEMMA DigitsBefore ==
  ASSUME NEW n \in Nat \ {0}
  PROVE  /\ DigitAt(n, Width(n)) = 0
         /\ DigitAt(n, 0) = n
         /\ \A p \in Nat : DigitAt(n, p + 1) =
              IF p % 4 = 3 THEN DigitAt(n, p) ELSE DigitAt(n, p) - 1
<1> DEFINE k == (n - 1) \div 3
           s == (n - 1) % 3
<1>1. k \in Nat /\ s \in 0 .. 2 /\ n - 1 = 3 * k + s  OBVIOUS
<1>2. Width(n) = n + k  BY DEF Width
<1> HIDE DEF k, s
<1>3. n + k = 4 * k + (s + 1) /\ (4 * k + (s + 1)) \div 4 = k  BY <1>1
<1>4. DigitAt(n, Width(n)) = 0  BY <1>1, <1>2, <1>3 DEF DigitAt
<1>5. DigitAt(n, 0) = n  BY DEF DigitAt
<1>6. ASSUME NEW p \in Nat
      PROVE  DigitAt(n, p + 1) = IF p % 4 = 3 THEN DigitAt(n, p) ELSE DigitAt(n, p) - 1
  <2>1. (p + 1) \div 4 = IF p % 4 = 3 THEN p \div 4 + 1 ELSE p \div 4  OBVIOUS
  <2>2. p \div 4 \in Nat  OBVIOUS
  <2> QED  BY <2>1, <2>2 DEF DigitAt
<1> QED  BY <1>4, <1>5, <1>6

LEMMA PrefixGrows ==
  ASSUME NEW S, NEW s \in Seq(S), NEW n \in 1 .. Len(s)
  PROVE  SubSeq(s, 1, n) = SubSeq(s, 1, n - 1) \o <<s[n]>>
<1>1. Len(s) \in Nat /\ 1 \in 1 .. Len(s)  OBVIOUS
<1> QED  BY <1>1, SubSeqRecursiveSecond

\* The digits of a grouped sequence of digits are those that were grouped.
LEMMA OnlyOfGrouped ==
  ASSUME NEW d \in Seq(Digit)
  PROVE  Only(GroupDigits(d), Digit) = d
<1>1. CASE d = <<>>
  <2>1. GroupDigits(d) = <<>>  BY <1>1 DEF GroupDigits
  <2>2. <<>> \in Seq(Digit) /\ Len(<<>>) = 0  OBVIOUS
  <2>3. Only(<<>>, Digit) = <<>>  BY <2>2, KeptSteps DEF Accumulates
  <2> QED  BY <1>1, <2>1, <2>3
<1>2. CASE d # <<>>
  <2> DEFINE g == GroupDigits(d)
             n == Len(d)
             W == Width(n)
             k == Kept(g, Digit)
             T == {i \in 0 .. W : k[i] = SubSeq(d, 1, DigitAt(n, W - i))}
  <2>1. /\ n \in Nat \ {0} /\ n = Len(d) /\ W = Len(g)
        /\ \A i \in 1 .. W :
             g[i] = IF (W - i) % 4 = 3 THEN Comma ELSE d[DigitAt(n, W - i)]
    BY <1>2, GroupValue
  <2>2. g \in Seq(Digit \cup {Comma})  BY <1>2, GroupType
  <2>3. W \in Nat /\ W = Width(n)  BY <2>1, WidthType
  <2> HIDE DEF g, n
  <2>4. Only(g, Digit) = k[W] /\ Accumulates(k, g, Digit, W)
    BY <2>1, <2>2, KeptSteps
  <2> HIDE DEF k, W
  <2> DEFINE Before(q) == DigitAt(n, q + 1) =
                            IF q % 4 = 3 THEN DigitAt(n, q) ELSE DigitAt(n, q) - 1
  <2>5. \A q \in Nat : Before(q)  BY <2>1, DigitsBefore
  <2>6. 0 \in T
    <3>1. DigitAt(n, W - 0) = 0  BY <2>1, <2>3, DigitsBefore
    <3>2. SubSeq(d, 1, 0) = <<>>  BY SubSeqEmpty
    <3>3. k[0] = <<>>  BY <2>4 DEF Accumulates
    <3>4. k[0] = SubSeq(d, 1, DigitAt(n, W - 0))  BY <3>1, <3>2, <3>3
    <3> QED  BY <2>3, <3>4
  <2>7. ASSUME NEW i \in 1 .. W, i - 1 \in T PROVE i \in T
    <3> DEFINE p == W - i
    <3>1. p \in 0 .. W - 1 /\ W - (i - 1) = p + 1  BY <2>3
    <3>2. k[i] = k[i - 1] \o OneOf(g[i], Digit)  BY <2>4 DEF Accumulates
    <3>3. k[i - 1] = SubSeq(d, 1, DigitAt(n, p + 1))  BY <2>7, <3>1
    <3>4. g[i] = IF p % 4 = 3 THEN Comma ELSE d[DigitAt(n, p)]  BY <2>1
    <3> HIDE DEF p
    <3>5. DigitAt(n, p + 1) = IF p % 4 = 3 THEN DigitAt(n, p) ELSE DigitAt(n, p) - 1
      <4>1. p \in Nat  BY <2>3, <3>1
      <4> QED  BY <2>5, <4>1
    <3>6. k[i] = SubSeq(d, 1, DigitAt(n, p))
      <4>1. CASE p % 4 = 3
        <5>1. OneOf(g[i], Digit) = <<>>
          BY <3>4, <4>1, CharacterAssumption DEF OneOf
        <5>2. SubSeq(d, 1, DigitAt(n, p)) \in Seq(Digit)
          <6>1. k[i - 1] \in Seq((Digit \cup {Comma}) \cap Digit)
            <7>1. i - 1 \in 0 .. Len(g)  BY <2>1, <2>3
            <7> QED  BY <2>2, <7>1, KeptSteps DEF k
          <6>2. (Digit \cup {Comma}) \cap Digit = Digit  OBVIOUS
          <6>3. k[i - 1] = SubSeq(d, 1, DigitAt(n, p))  BY <3>3, <3>5, <4>1
          <6> QED  BY <6>1, <6>2, <6>3
        <5> QED  BY <3>2, <3>3, <3>5, <4>1, <5>1, <5>2, ConcatEmptySeq
      <4>2. CASE p % 4 # 3
        <5>1. DigitAt(n, p) \in 1 .. n  BY <2>1, <2>3, <3>1, <4>2, DigitInRange
        <5>2. d[DigitAt(n, p)] \in Digit  BY <2>1, <5>1, ElementOfSeq
        <5>3. OneOf(g[i], Digit) = <<d[DigitAt(n, p)]>>
          BY <3>4, <4>2, <5>2 DEF OneOf
        <5>4. SubSeq(d, 1, DigitAt(n, p))
                = SubSeq(d, 1, DigitAt(n, p) - 1) \o <<d[DigitAt(n, p)]>>
          BY <2>1, <5>1, PrefixGrows
        <5> QED  BY <3>2, <3>3, <3>5, <4>2, <5>3, <5>4
      <4> QED  BY <4>1, <4>2
    <3> QED  BY <2>3, <3>6 DEF p
  <2>8. \A i \in T : k[i] = SubSeq(d, 1, DigitAt(n, W - i))  OBVIOUS
  <2> HIDE DEF T
  <2>9. 0 .. W \subseteq T  BY <2>3, <2>6, <2>7, BoundedInduction
  <2>10. W \in T /\ W - W = 0  BY <2>3, <2>9
  <2>11. k[W] = SubSeq(d, 1, n)  BY <2>1, <2>8, <2>10, DigitsBefore
  <2> QED  BY <2>1, <2>4, <2>11, SubSeqFull DEF g
<1> QED  BY <1>1, <1>2

\* A grouped text of so many characters has a digit in three places of four.
LEMMA GroupedCount ==
  ASSUME NEW S, NEW t \in Seq(S), Grouped(t)
  PROVE  Len(Only(t, Digit)) = Len(t) - Len(t) \div 4
<1> DEFINE L == Len(t)
           k == Kept(t, Digit)
           V == S \cap Digit
           digits(p) == p - p \div 4
           T == {i \in 0 .. L : Len(k[i]) = digits(L) - digits(L - i)}
<1>1. L \in Nat /\ L = Len(t) /\ DOMAIN t = 1 .. L  BY LenProperties
<1> HIDE DEF L
<1>2. /\ Only(t, Digit) = k[L] /\ Accumulates(k, t, Digit, L)
      /\ \A i \in 0 .. L : k[i] \in Seq(V)
  BY <1>1, KeptSteps
<1> HIDE DEF k, V
<1>3. \A p \in Nat : digits(p) \in Int
  OBVIOUS
<1>4. \A p \in Nat : digits(p + 1) = IF p % 4 = 3 THEN digits(p) ELSE digits(p) + 1
  <2> TAKE p \in Nat
  <2>1. (p + 1) \div 4 = IF p % 4 = 3 THEN p \div 4 + 1 ELSE p \div 4  OBVIOUS
  <2>2. p \div 4 \in Nat  OBVIOUS
  <2> QED  BY <2>1, <2>2
<1>5. digits(0) = 0  OBVIOUS
<1> HIDE DEF digits
<1>6. 0 \in T
  <2>1. k[0] = <<>> /\ L - 0 = L /\ 0 \in 0 .. L  BY <1>1, <1>2 DEF Accumulates
  <2>2. Len(k[0]) = 0  BY <2>1
  <2>3. digits(L) - digits(L - 0) = 0  BY <1>1, <1>3, <2>1
  <2> QED  BY <2>1, <2>2, <2>3
<1>7. ASSUME NEW i \in 1 .. L, i - 1 \in T PROVE i \in T
  <2> DEFINE p == L - i
  <2>1. p \in Nat /\ L - (i - 1) = p + 1 /\ i - 1 \in 0 .. L /\ i \in 0 .. L  BY <1>1
  <2>2. k[i] = k[i - 1] \o OneOf(t[i], Digit)  BY <1>2 DEF Accumulates
  <2>3. Len(k[i - 1]) = digits(L) - digits(p + 1)  BY <1>7, <2>1
  <2>4. IF p % 4 = 3 THEN t[i] = Comma ELSE t[i] \in Digit  BY <1>1 DEF Grouped
  <2> HIDE DEF p
  <2>5. OneOf(t[i], Digit) = IF p % 4 = 3 THEN <<>> ELSE <<t[i]>>
    BY <2>4, CharacterAssumption DEF OneOf
  <2>6. k[i - 1] \in Seq(V)  BY <1>2, <2>1
  <2>7. Len(k[i]) = IF p % 4 = 3 THEN Len(k[i - 1]) ELSE Len(k[i - 1]) + 1
    <3>1. CASE p % 4 = 3
      <4>1. k[i] = k[i - 1]  BY <2>2, <2>5, <2>6, <3>1, ConcatEmptySeq
      <4> QED  BY <3>1, <4>1
    <3>2. CASE p % 4 # 3
      <4>1. t[i] \in V  BY <1>1, <2>4, <3>2, ElementOfSeq DEF V
      <4>2. <<t[i]>> \in Seq(V) /\ Len(<<t[i]>>) = 1  BY <4>1
      <4>3. Len(k[i - 1] \o <<t[i]>>) = Len(k[i - 1]) + 1
        BY <2>6, <4>2, ConcatProperties
      <4> QED  BY <2>2, <2>5, <3>2, <4>3
    <3> QED  BY <3>1, <3>2
  <2>8. Len(k[i]) = digits(L) - digits(p)
    <3>1. digits(p + 1) = IF p % 4 = 3 THEN digits(p) ELSE digits(p) + 1
      BY <1>4, <2>1
    <3>2. digits(p) \in Int /\ digits(L) \in Int  BY <1>1, <1>3, <2>1
    <3> QED  BY <2>3, <2>7, <3>1, <3>2
  <2> QED  BY <2>1, <2>8 DEF p
<1>8. \A i \in T : Len(k[i]) = digits(L) - digits(L - i)  OBVIOUS
<1> HIDE DEF T
<1>9. 0 .. L \subseteq T  BY <1>1, <1>6, <1>7, BoundedInduction
<1>10. L \in T /\ L - L = 0  BY <1>1, <1>9
<1>11. Len(k[L]) = digits(L)  BY <1>1, <1>3, <1>5, <1>8, <1>10
<1> QED  BY <1>1, <1>2, <1>11 DEF digits

-----------------------------------------------------------------------------
(* The field. *)

LEMMA FormatType ==
  ASSUME NEW t \in Seq(Char)
  PROVE  /\ Only(t, Digit) \in Seq(Digit)
         /\ FormatNumber(t) \in Seq(Char)
         /\ FormatCurrency(t) \in Seq(Char)
<1>1. Only(t, Digit) \in Seq(Char \cap Digit)  BY OnlyType
<1>2. Char \cap Digit = Digit  BY DEF Char
<1>3. Only(t, Digit) \in Seq(Digit)  BY <1>1, <1>2
<1>4. FormatNumber(t) \in Seq(Char)
  <2>1. CASE Only(t, Digit) = <<>>
    <3>1. FormatNumber(t) = <<>>  BY <2>1 DEF FormatNumber, GroupDigits
    <3> QED  BY <3>1
  <2>2. CASE Only(t, Digit) # <<>>
    <3>1. FormatNumber(t) \in Seq(Digit \cup {Comma})
      BY <1>3, <2>2, GroupType DEF FormatNumber
    <3>2. Digit \cup {Comma} \subseteq Char  BY DEF Char
    <3> QED  BY <3>1, <3>2, SeqMonotonic
  <2> QED  BY <2>1, <2>2
<1>5. <<Dollar>> \in Seq(Char)  BY DEF Char
<1>6. <<Dollar>> \o FormatNumber(t) \in Seq(Char)  BY <1>4, <1>5, ConcatProperties
<1> QED  BY <1>3, <1>4, <1>6 DEF FormatCurrency

LEMMA PartsType ==
  ASSUME NEW S, NEW t \in Seq(S), NEW i \in 0 .. Len(t)
  PROVE  /\ SubSeq(t, 1, i) \in Seq(S) /\ Len(SubSeq(t, 1, i)) = i
         /\ SubSeq(t, i + 1, Len(t)) \in Seq(S)
         /\ Len(SubSeq(t, i + 1, Len(t))) = Len(t) - i
<1>1. Len(t) \in Nat  OBVIOUS
<1>2. \A j \in 1 .. i : t[j] \in S  BY <1>1, ElementOfSeq
<1>3. \A j \in i + 1 .. Len(t) : t[j] \in S  BY <1>1, ElementOfSeq
<1>4. SubSeq(t, 1, i) \in Seq(S) /\ Len(SubSeq(t, 1, i)) = i
  BY <1>1, <1>2, SubSeqProperties
<1>5. /\ SubSeq(t, i + 1, Len(t)) \in Seq(S)
      /\ Len(SubSeq(t, i + 1, Len(t))) = Len(t) - i
  BY <1>1, <1>3, SubSeqProperties
<1> QED  BY <1>4, <1>5

LEMMA TypeStays == TypeOK /\ [Next]_vars => TypeOK'
<1> SUFFICES ASSUME TypeOK, [Next]_vars PROVE TypeOK'
  OBVIOUS
<1>1. /\ text \in Seq(Char) /\ Len(text) \in Nat
      /\ caret \in 0 .. Len(text) /\ edits \in 0 .. MaxEdits
  BY DEF TypeOK
<1>2. CASE Insert
  <2>1. PICK c \in Typed :
          text' = SubSeq(text, 1, caret) \o <<c>> \o SubSeq(text, caret + 1, Len(text))
    BY <1>2 DEF Insert
  <2> DEFINE left == SubSeq(text, 1, caret)
             right == SubSeq(text, caret + 1, Len(text))
  <2>2. /\ left \in Seq(Char) /\ Len(left) = caret
        /\ right \in Seq(Char) /\ Len(right) = Len(text) - caret
    BY <1>1, PartsType
  <2>3. <<c>> \in Seq(Char) /\ Len(<<c>>) = 1  BY DEF Char
  <2>4. text' = (left \o <<c>>) \o right  BY <2>1
  <2> HIDE DEF left, right
  <2>5. left \o <<c>> \in Seq(Char) /\ Len(left \o <<c>>) = caret + 1
    BY <2>2, <2>3, ConcatProperties
  <2>6. /\ (left \o <<c>>) \o right \in Seq(Char)
        /\ Len((left \o <<c>>) \o right) = Len(left \o <<c>>) + Len(right)
    BY <2>2, <2>5, ConcatProperties
  <2>7. text' \in Seq(Char) /\ Len(text') = Len(text) + 1
    BY <1>1, <2>2, <2>4, <2>5, <2>6
  <2>8. edits < MaxEdits /\ caret' = caret + 1 /\ edits' = edits + 1
    BY <1>2 DEF Insert
  <2>9. caret' \in 0 .. Len(text') /\ edits' \in 0 .. MaxEdits
    BY <1>1, <2>7, <2>8, BoundAssumption
  <2> QED  BY <2>7, <2>9 DEF TypeOK
<1>3. CASE Delete
  <2>1. PICK i \in {caret, caret + 1} \cap (1 .. Len(text)) :
          /\ text' = SubSeq(text, 1, i - 1) \o SubSeq(text, i + 1, Len(text))
          /\ caret' = i - 1
    BY <1>3 DEF Delete
  <2> DEFINE left == SubSeq(text, 1, i - 1)
             right == SubSeq(text, i + 1, Len(text))
  <2>2. i \in Int /\ i - 1 \in 0 .. Len(text) /\ i \in 0 .. Len(text)  BY <1>1, <2>1
  <2>3. /\ left \in Seq(Char) /\ Len(left) = i - 1
        /\ right \in Seq(Char) /\ Len(right) = Len(text) - i
        /\ text' = left \o right /\ caret' = i - 1
    BY <1>1, <2>1, <2>2, PartsType
  <2> HIDE DEF left, right
  <2>4. left \o right \in Seq(Char) /\ Len(left \o right) = Len(left) + Len(right)
    BY <2>3, ConcatProperties
  <2>5. text' \in Seq(Char) /\ Len(text') = Len(text) - 1
    BY <1>1, <2>2, <2>3, <2>4
  <2>6. edits < MaxEdits /\ edits' = edits + 1  BY <1>3 DEF Delete
  <2>7. caret' \in 0 .. Len(text') /\ edits' \in 0 .. MaxEdits
    BY <1>1, <2>2, <2>3, <2>5, <2>6, BoundAssumption
  <2> QED  BY <2>5, <2>7 DEF TypeOK
<1>4. CASE MoveCaret  BY <1>4 DEF MoveCaret, TypeOK
<1>5. CASE Format
  <2>1. text' = FormatCurrency(text) /\ text' \in Seq(Char)
    BY <1>1, <1>5, FormatType DEF Format
  <2>2. Len(text') \in Nat  BY <2>1
  <2>3. caret' \in 0 .. Len(text')
    <3>1. CASE LeftAlone(text)
      BY <1>1, <1>5, <2>1, <3>1 DEF Format, FormatCurrency
    <3>2. CASE ~LeftAlone(text)
      <4>1. caret' = Clamped(Len(text') - Len(text) + caret, Len(text'))
        BY <1>5, <2>1, <3>2 DEF Format, CaretAfter
      <4> QED  BY <2>2, <4>1 DEF Clamped
    <3> QED  BY <3>1, <3>2
  <2> QED  BY <1>5, <2>1, <2>3, BoundAssumption DEF Format, TypeOK
<1>6. CASE UNCHANGED vars  BY <1>6 DEF vars, TypeOK
<1> QED  BY <1>2, <1>3, <1>4, <1>5, <1>6 DEF Next

\* Whatever is typed, deleted and formatted, the field holds characters and the
\* caret stays inside the text.
THEOREM FieldTypes == Spec => []TypeOK
<1>1. Init => TypeOK  BY BoundAssumption DEF Init, TypeOK
<1> QED  BY <1>1, TypeStays, PTL DEF Spec

-----------------------------------------------------------------------------
(* What formatting makes of the text. *)

LEMMA FormattedText ==
  ASSUME TypeOK, Format, ~LeftAlone(text), NEW d, d = Only(text, Digit)
  PROVE  d \in Seq(Digit) /\ text' = <<Dollar>> \o GroupDigits(d)
<1>1. text \in Seq(Char)  BY DEF TypeOK
<1>2. d \in Seq(Digit)  BY <1>1, FormatType
<1> QED  BY <1>2 DEF Format, FormatCurrency, FormatNumber

LEMMA PatternStays == TypeOK /\ MatchesPattern /\ [Next]_vars => MatchesPattern'
<1> SUFFICES ASSUME TypeOK, MatchesPattern, [Next]_vars PROVE MatchesPattern'
  OBVIOUS
<1>1. CASE Insert \/ Delete
  <2>1. edits' = edits + 1  BY <1>1 DEF Insert, Delete
  <2>2. edits \in Nat  BY BoundAssumption DEF TypeOK
  <2>3. edits' # 0  BY <2>1, <2>2
  <2> QED  BY <2>3 DEF MatchesPattern
<1>2. CASE MoveCaret \/ UNCHANGED vars
  BY <1>2 DEF MoveCaret, vars, MatchesPattern
<1>3. CASE Format /\ LeftAlone(text)
  <2>1. text' = text  BY <1>3 DEF Format, FormatCurrency
  <2> QED  BY <1>3, <2>1 DEF MatchesPattern, LeftAlone
<1>4. CASE Format /\ ~LeftAlone(text)
  <2> DEFINE d == Only(text, Digit)
             g == GroupDigits(d)
  <2>1. d \in Seq(Digit) /\ text' = <<Dollar>> \o g  BY <1>4, FormattedText
  <2> HIDE DEF d
  <2>2. CASE d = <<>>
    <3>1. g = <<>>  BY <2>2 DEF GroupDigits
    <3>2. text' = <<Dollar>>  BY <2>1, <3>1
    <3>3. DOMAIN text' = {1} /\ text'[1] = Dollar  BY <3>2
    <3>4. Dollar \notin Digit  BY CharacterAssumption
    <3> QED  BY <3>2, <3>3, <3>4 DEF MatchesPattern
  <2>3. CASE d # <<>>
    <3>1. Grouped(g) /\ g[1] \in Digit /\ Len(g) \in Nat \ {0}
      <4>1. Len(d) \in Nat \ {0} /\ Len(g) = Width(Len(d))  BY <2>1, <2>3, GroupValue
      <4>2. Len(g) \in Nat \ {0}  BY <4>1, WidthType
      <4> QED  BY <2>1, <2>3, <4>2, DigitsAreGrouped
    <3>2. g \in Seq(Digit \cup {Comma})  BY <2>1, <2>3, GroupType
    <3> HIDE DEF g
    <3>3. g \in Seq(Char) /\ <<Dollar>> \in Seq(Char) /\ Len(<<Dollar>>) = 1
      <4>1. Digit \cup {Comma} \subseteq Char /\ Dollar \in Char  BY DEF Char
      <4> QED  BY <3>2, <4>1, SeqMonotonic
    <3>4. /\ Len(<<Dollar>> \o g) = 1 + Len(g)
          /\ (<<Dollar>> \o g)[1] = Dollar
          /\ \A i \in 1 .. Len(g) : (<<Dollar>> \o g)[i + 1] = g[i]
      BY <3>3
    <3>5. Tail(<<Dollar>> \o g) = g
      BY <3>3
    <3>6. (<<Dollar>> \o g)[2] # Comma
      <4>1. (<<Dollar>> \o g)[2] = g[1]  BY <3>1, <3>3
      <4>2. g[1] # Comma  BY <3>1, CharacterAssumption
      <4> QED  BY <4>1, <4>2
    <3>7. Pattern(text')
      <4> DEFINE t == <<Dollar>> \o g
      <4>1. Len(t) > 1  BY <3>1, <3>4
      <4>2. t[1] = Dollar /\ t[2] # Comma  BY <3>4, <3>6
      <4>3. Grouped(Tail(t))  BY <3>1, <3>5
      <4>4. text' = t  BY <2>1
      <4> HIDE DEF t
      <4>5. Pattern(t)  BY <4>1, <4>2, <4>3 DEF Pattern
      <4> QED  BY <4>4, <4>5
    <3>8. \E i \in DOMAIN text' : text'[i] \in Digit
      <4>1. 2 \in DOMAIN text'  BY <2>1, <3>1, <3>3
      <4>2. text'[2] = g[1]  BY <2>1, <3>1, <3>3
      <4> QED  BY <3>1, <4>1, <4>2
    <3> QED  BY <3>7, <3>8 DEF MatchesPattern
  <2> QED  BY <2>2, <2>3
<1> QED  BY <1>1, <1>2, <1>3, <1>4 DEF Next

\* Whatever was typed or pasted, after formatting a text that has a digit and does not
\* begin with a point matches the field's pattern, and one without a digit is "$"
\* (formatCurrency, and the pattern in popup.html).
THEOREM PatternMatched == Spec => []MatchesPattern
<1>1. Init => MatchesPattern  BY DEF Init, MatchesPattern, LeftAlone
<1> QED  BY <1>1, FieldTypes, PatternStays, PTL DEF Spec

-----------------------------------------------------------------------------
(* The amount, and the caret. *)

LEMMA OnlyOfFormatted ==
  ASSUME NEW d \in Seq(Digit)
  PROVE  Only(<<Dollar>> \o GroupDigits(d), Digit) = d
<1> DEFINE S == Digit \cup {Comma, Dollar}
           g == GroupDigits(d)
<1>1. g \in Seq(S)
  <2>1. CASE d = <<>>  BY <2>1 DEF GroupDigits
  <2>2. CASE d # <<>>
    <3>1. g \in Seq(Digit \cup {Comma})  BY <2>2, GroupType
    <3>2. Digit \cup {Comma} \subseteq S  OBVIOUS
    <3> HIDE DEF S, g
    <3> QED  BY <3>1, <3>2, SeqMonotonic
  <2> QED  BY <2>1, <2>2
<1>2. <<Dollar>> \in Seq(S)  OBVIOUS
<1>3. Only(g, Digit) = d  BY OnlyOfGrouped
<1>4. Only(<<Dollar>>, Digit) = <<>>
  <2> DEFINE k == Kept(<<Dollar>>, Digit)
  <2>1. Len(<<Dollar>>) = 1 /\ <<Dollar>>[1] = Dollar  OBVIOUS
  <2>2. Only(<<Dollar>>, Digit) = k[1] /\ Accumulates(k, <<Dollar>>, Digit, 1)
    BY <1>2, <2>1, KeptSteps
  <2> HIDE DEF k
  <2>3. k[0] = <<>> /\ k[1] = k[1 - 1] \o OneOf(<<Dollar>>[1], Digit)
    BY <2>2 DEF Accumulates
  <2>4. OneOf(Dollar, Digit) = <<>>  BY CharacterAssumption DEF OneOf
  <2>5. k[1] = <<>> \o <<>>  BY <2>1, <2>3, <2>4
  <2> QED  BY <2>2, <2>5
<1> HIDE DEF S, g
<1>5. Only(<<Dollar>> \o g, Digit) = Only(<<Dollar>>, Digit) \o Only(g, Digit)
  <2>1. \A s, t \in Seq(S) : Only(s \o t, Digit) = Only(s, Digit) \o Only(t, Digit)
    BY OnlyOfConcat
  <2> QED  BY <1>1, <1>2, <2>1
<1>6. <<>> \o d = d  BY ConcatEmptySeq
<1> QED  BY <1>3, <1>4, <1>5, <1>6 DEF g

\* Digits are all that is left of an amount without its dollar sign and commas.
LEMMA AmountIsDigits ==
  ASSUME NEW t \in Seq(Char), \A i \in DOMAIN t : t[i] \in Digit \cup {Dollar, Comma}
  PROVE  Amount(t) = Only(t, Digit)
<1>1. DOMAIN t = 1 .. Len(t)  OBVIOUS
<1>2. \A i \in 1 .. Len(t) : t[i] \in Char \ {Dollar, Comma} <=> t[i] \in Digit
  BY <1>1, CharacterAssumption DEF Char
<1> QED  BY <1>2, OnlySame DEF Amount

LEMMA AmountStep ==
  ASSUME TypeOK, Format, \A i \in DOMAIN text : text[i] \in Digit \cup {Dollar, Comma}
  PROVE  Amount(text') = Amount(text)
<1>1. CASE LeftAlone(text)  BY <1>1 DEF Format, FormatCurrency
<1>2. CASE ~LeftAlone(text)
  <2> DEFINE d == Only(text, Digit)
             g == GroupDigits(d)
             S == Digit \cup {Dollar, Comma}
             new == <<Dollar>> \o g
  <2>1. d \in Seq(Digit) /\ text' = new  BY <1>2, FormattedText
  <2>2. Amount(text) = d  BY AmountIsDigits DEF TypeOK
  <2> HIDE DEF d
  <2>3. g \in Seq(S)
    <3>1. CASE d = <<>>  BY <3>1 DEF GroupDigits
    <3>2. CASE d # <<>>
      <4>1. g \in Seq(Digit \cup {Comma})  BY <2>1, <3>2, GroupType
      <4>2. Digit \cup {Comma} \subseteq S  OBVIOUS
      <4> HIDE DEF S, g
      <4> QED  BY <4>1, <4>2, SeqMonotonic
    <3> QED  BY <3>1, <3>2
  <2>4. <<Dollar>> \in Seq(S)  OBVIOUS
  <2> HIDE DEF g
  <2>5. new \in Seq(S)  BY <2>3, <2>4, ConcatProperties
  <2>6. new \in Seq(Char) /\ \A i \in DOMAIN new : new[i] \in S
    <3>1. S \subseteq Char  BY DEF Char
    <3> HIDE DEF S, new
    <3> QED  BY <2>5, <3>1, SeqMonotonic, ElementOfSeq, LenProperties
  <2> HIDE DEF new
  <2>7. Amount(new) = Only(new, Digit)  BY <2>6, AmountIsDigits
  <2>8. Only(new, Digit) = d  BY <2>1, OnlyOfFormatted DEF new, g
  <2> QED  BY <2>1, <2>2, <2>7, <2>8
<1> QED  BY <1>1, <1>2

\* Formatting sends the same amount: whatever of digits, commas and dollar signs the
\* edits left in the field, in whatever order, and however long it is.
THEOREM AmountKept == Spec => WholeAmountKept
<1>1. TypeOK /\ [Next]_vars =>
        [Format /\ (\A i \in DOMAIN text : text[i] \in Digit \cup {Dollar, Comma}) =>
           Amount(text') = Amount(text)]_vars
  BY AmountStep
<1> QED  BY <1>1, FieldTypes, PTL DEF Spec, WholeAmountKept

\* What r grouped characters hold of digits takes, grouped anew with others before
\* it, no less room; and one character less only when there are no others.
LEMMA RoomForDigits ==
  ASSUME NEW r \in Nat, NEW n \in Nat \ {0}, r - r \div 4 <= n
  PROVE  r <= Width(n) \/ (r = Width(n) + 1 /\ n = r - r \div 4)
<1> DEFINE k == (n - 1) \div 3
           s == (n - 1) % 3
           q == r \div 4
           z == r % 4
<1>1. k \in Nat /\ s \in 0 .. 2 /\ n = 3 * k + s + 1  OBVIOUS
<1>2. q \in Nat /\ z \in 0 .. 3 /\ r = 4 * q + z  OBVIOUS
<1>3. Width(n) = n + k  BY DEF Width
<1> HIDE DEF k, s, q, z
<1>4. 3 * q + z <= 3 * k + s + 1  BY <1>1, <1>2
<1>5. q <= k + 1  BY <1>1, <1>2, <1>4
<1>6. CASE q <= k  BY <1>1, <1>2, <1>3, <1>4, <1>6
<1>7. CASE q = k + 1  BY <1>1, <1>2, <1>3, <1>4, <1>7
<1> QED  BY <1>1, <1>2, <1>5, <1>6, <1>7

LEMMA SuffixGrouped ==
  ASSUME NEW S, NEW g \in Seq(S), NEW x \in S, Grouped(g), NEW r \in 0 .. Len(g)
  PROVE  Grouped(SubSeq(<<x>> \o g, 2 + Len(g) - r, 1 + Len(g)))
<1> DEFINE L == Len(g)
           new == <<x>> \o g
           c == 1 + L - r
           part == SubSeq(new, c + 1, 1 + L)
<1>1. L \in Nat /\ r \in 0 .. L /\ DOMAIN g = 1 .. L /\ L = Len(g)  OBVIOUS
<1>2. c \in Nat /\ c + 1 = 2 + L - r  BY <1>1
<1>3. \A i \in 1 .. 1 + L : new[i] \in S  OBVIOUS
<1>4. \A i \in 1 .. L : new[i + 1] = g[i]  OBVIOUS
<1> HIDE DEF new, L
<1>5. /\ Len(part) = r /\ part \in Seq(S)
      /\ \A i \in 1 .. r : part[i] = new[c + i]
  <2>1. \A i \in c + 1 .. 1 + L : new[i] \in S  BY <1>1, <1>2, <1>3
  <2>2. 1 + L - (c + 1) + 1 = r /\ (c + 1 <= 1 + L <=> r # 0)  BY <1>1
  <2>3. \A i \in 1 .. r : (c + 1) + i - 1 = c + i  BY <1>1, <1>2
  <2> HIDE DEF c
  <2> QED  BY <1>1, <1>2, <2>1, <2>2, <2>3, SubSeqProperties
<1>6. ASSUME NEW i \in 1 .. r PROVE part[i] = g[c + i - 1] /\ L - (c + i - 1) = r - i
  <2>1. c + i - 1 \in 1 .. L /\ (c + i - 1) + 1 = c + i /\ L - (c + i - 1) = r - i
    BY <1>1
  <2>2. new[c + i] = g[c + i - 1]  BY <1>4, <2>1
  <2> QED  BY <1>5, <2>1, <2>2
<1>7. \A i \in 1 .. r : c + i - 1 \in 1 .. L  BY <1>1
<1> HIDE DEF c, part
<1>8. DOMAIN part = 1 .. r  BY <1>5
<1>9. ASSUME NEW i \in 1 .. r
      PROVE  IF (r - i) % 4 = 3 THEN part[i] = Comma ELSE part[i] \in Digit
  <2> DEFINE j == c + i - 1
  <2>1. j \in 1 .. L /\ L - j = r - i /\ part[i] = g[j]  BY <1>6, <1>7
  <2>2. IF (L - j) % 4 = 3 THEN g[j] = Comma ELSE g[j] \in Digit
    BY <1>1, <2>1 DEF Grouped
  <2> HIDE DEF j
  <2> QED  BY <2>1, <2>2
<1>10. Grouped(part)  BY <1>5, <1>8, <1>9 DEF Grouped
<1> QED  BY <1>1, <1>2, <1>10 DEF part, new

LEMMA PlacesOfSecond ==
  ASSUME NEW V, NEW a \in Seq(V), NEW b \in Seq(V), NEW i \in 1 .. Len(b)
  PROVE  (a \o b)[Len(a) + i] = b[i]
<1>1. Len(a) \in Nat /\ Len(b) \in Nat  OBVIOUS
<1>2. /\ Len(a) + i \in 1 .. Len(a) + Len(b)
      /\ ~(Len(a) + i <= Len(a)) /\ (Len(a) + i) - Len(a) = i
  BY <1>1
<1> QED  BY <1>2, ConcatProperties

LEMMA SameEnd ==
  ASSUME NEW V, NEW a \in Seq(V), NEW b \in Seq(V), NEW c \in Seq(V), NEW e \in Seq(V),
         a \o b = c \o e, Len(b) = Len(e)
  PROVE  b = e
<1>1. Len(a) \in Nat /\ Len(b) \in Nat /\ Len(c) \in Nat  OBVIOUS
<1>2. Len(a \o b) = Len(a) + Len(b) /\ Len(c \o e) = Len(c) + Len(e)
  BY ConcatProperties
<1>3. Len(a) = Len(c)  BY <1>1, <1>2
<1>4. ASSUME NEW i \in 1 .. Len(b) PROVE b[i] = e[i]
  <2>1. (a \o b)[Len(a) + i] = b[i]  BY PlacesOfSecond
  <2>2. (c \o e)[Len(c) + i] = e[i]  BY PlacesOfSecond
  <2> QED  BY <1>3, <2>1, <2>2
<1> QED  BY <1>4, SeqEqual

LEMMA Parts ==
  ASSUME NEW S, NEW t \in Seq(S), NEW i \in 0 .. Len(t)
  PROVE  t = SubSeq(t, 1, i) \o SubSeq(t, i + 1, Len(t))
<1>1. /\ Len(t) \in Nat /\ 1 \in 1 .. Len(t) + 1 /\ i \in 1 - 1 .. Len(t)
      /\ Len(t) \in i .. Len(t)
  OBVIOUS
<1>2. SubSeq(t, 1, i) \o SubSeq(t, i + 1, Len(t)) = SubSeq(t, 1, Len(t))
  BY <1>1, ConcatAdjacentSubSeq
<1> QED  BY <1>2, SubSeqFull

\* The digits to the right of a place, of the digits of a text.
LEMMA DigitsOfParts ==
  ASSUME NEW S, NEW t \in Seq(S), NEW i \in 0 .. Len(t)
  PROVE  /\ Only(t, Digit) = Only(SubSeq(t, 1, i), Digit) \o Only(RightOf(t, i), Digit)
         /\ Only(SubSeq(t, 1, i), Digit) \in Seq(Digit)
         /\ RightOf(t, i) \in Seq(S) /\ Len(RightOf(t, i)) = Len(t) - i
         /\ Only(RightOf(t, i), Digit) \in Seq(Digit)
<1> DEFINE left == SubSeq(t, 1, i)
           right == RightOf(t, i)
<1>1. left \in Seq(S) /\ right \in Seq(S) /\ Len(right) = Len(t) - i
  BY PartsType DEF RightOf
<1>2. t = left \o right  BY Parts DEF RightOf
<1> HIDE DEF left, right
<1>3. \A a, b \in Seq(S) : Only(a \o b, Digit) = Only(a, Digit) \o Only(b, Digit)
  BY OnlyOfConcat
<1>4. \A a \in Seq(S) : Only(a, Digit) \in Seq(Digit)
  <2> TAKE a \in Seq(S)
  <2>1. Only(a, Digit) \in Seq(S \cap Digit)  BY OnlyType
  <2>2. S \cap Digit \subseteq Digit  OBVIOUS
  <2> QED  BY <2>1, <2>2, SeqMonotonic
<1> QED  BY <1>1, <1>2, <1>3, <1>4 DEF left, right

LEMMA CaretStep ==
  ASSUME TypeOK, Format, Grouped(RightOf(text, caret))
  PROVE  Only(RightOf(text', caret'), Digit) = Only(RightOf(text, caret), Digit)
<1>1. CASE LeftAlone(text)
  <2>1. text' = text /\ caret' = caret  BY <1>1 DEF Format, FormatCurrency
  <2> QED  BY <2>1
<1>2. CASE ~LeftAlone(text)
  <2> DEFINE d == Only(text, Digit)
             g == GroupDigits(d)
             new == <<Dollar>> \o g
             r == Len(text) - caret
             m == r - r \div 4
             left == Only(SubSeq(text, 1, caret), Digit)
             right == Only(RightOf(text, caret), Digit)
             S == Digit \cup {Comma, Dollar}
  <2>1. d \in Seq(Digit) /\ text' = new  BY <1>2, FormattedText
  <2>2. text \in Seq(Char) /\ caret \in 0 .. Len(text) /\ r \in Nat  BY DEF TypeOK
  <2>3. /\ d = left \o right /\ left \in Seq(Digit) /\ right \in Seq(Digit)
        /\ RightOf(text, caret) \in Seq(Char) /\ Len(RightOf(text, caret)) = r
    BY <2>2, DigitsOfParts
  <2>4. caret' = Clamped(Len(new) - Len(text) + caret, Len(new))
    BY <1>2, <2>1 DEF Format, CaretAfter
  <2>5. Len(right) = m  BY <2>3, GroupedCount
  <2>6. Only(new, Digit) = d  BY <2>1, OnlyOfFormatted
  <2> HIDE DEF d, left, right
  <2>7. Len(d) = Len(left) + Len(right) /\ Len(left) \in Nat /\ Len(d) \in Nat
    BY <2>1, <2>3, ConcatProperties
  <2>8. m <= Len(d)  BY <2>2, <2>5, <2>7
  <2>9. /\ g \in Seq(S) /\ Grouped(g) /\ Len(g) \in Nat
        /\ (r <= Len(g) \/ (r = Len(g) + 1 /\ Len(d) = m))
    <3>1. CASE d = <<>>
      <4>1. g = <<>> /\ Grouped(g)  BY <3>1 DEF GroupDigits, Grouped
      <4>2. r = 0  BY <2>2, <2>8, <3>1
      <4> QED  BY <4>1, <4>2
    <3>2. CASE d # <<>>
      <4>1. Len(d) \in Nat \ {0} /\ Len(g) = Width(Len(d))  BY <2>1, <3>2, GroupValue
      <4>2. Width(Len(d)) \in Nat  BY <4>1, WidthType
      <4>3. r <= Width(Len(d)) \/ (r = Width(Len(d)) + 1 /\ Len(d) = m)
        BY <2>2, <2>8, <4>1, RoomForDigits
      <4>4. g \in Seq(Digit \cup {Comma}) /\ Grouped(g)
        BY <2>1, <3>2, GroupType, DigitsAreGrouped
      <4>5. g \in Seq(S)
        <5>1. Digit \cup {Comma} \subseteq S  OBVIOUS
        <5> HIDE DEF S, g
        <5> QED  BY <4>4, <5>1, SeqMonotonic
      <4> QED  BY <4>1, <4>2, <4>3, <4>4, <4>5
    <3> QED  BY <3>1, <3>2
  <2>10. <<Dollar>> \in Seq(S) /\ Len(<<Dollar>>) = 1 /\ Dollar \in S  OBVIOUS
  <2> HIDE DEF S, g
  <2>11. new \in Seq(S) /\ Len(new) = 1 + Len(g)  BY <2>9, <2>10, ConcatProperties
  <2> DEFINE c == Len(new) - r
  <2>12. c \in 0 .. Len(new) /\ caret' = c
    <3>1. c \in 0 .. Len(new)  BY <2>2, <2>9, <2>11
    <3>2. Len(new) - Len(text) + caret = c  BY <2>2, <2>11, <2>9
    <3> QED  BY <2>4, <3>1, <3>2 DEF Clamped
  <2> DEFINE before == Only(SubSeq(new, 1, c), Digit)
             after == Only(RightOf(new, c), Digit)
  <2>13. /\ d = before \o after /\ before \in Seq(Digit) /\ after \in Seq(Digit)
         /\ RightOf(new, c) \in Seq(S) /\ Len(RightOf(new, c)) = r
    <3>1. Len(new) - c = r  BY <2>2, <2>9, <2>11
    <3> HIDE DEF new, c
    <3> QED  BY <2>6, <2>11, <2>12, <3>1, DigitsOfParts
  <2>14. Len(after) = m
    <3>1. CASE r <= Len(g)
      <4>1. r \in 0 .. Len(g)  BY <2>2, <2>9, <3>1
      <4>2. Grouped(SubSeq(<<Dollar>> \o g, 2 + Len(g) - r, 1 + Len(g)))
        BY <2>9, <2>10, <4>1, SuffixGrouped
      <4>3. 2 + Len(g) - r = c + 1 /\ 1 + Len(g) = Len(new)  BY <2>2, <2>9, <2>11
      <4>4. Grouped(RightOf(new, c))  BY <4>2, <4>3 DEF RightOf
      <4> QED  BY <2>13, <4>4, GroupedCount
    <3>2. CASE r = Len(g) + 1 /\ Len(d) = m
      <4>1. c = 0  BY <2>2, <2>9, <2>11, <3>2
      <4>2. RightOf(new, c) = SubSeq(new, 1, Len(new))  BY <4>1 DEF RightOf
      <4>3. RightOf(new, c) = new  BY <2>11, <4>2, SubSeqFull
      <4> QED  BY <2>6, <3>2, <4>3
    <3> QED  BY <2>9, <3>1, <3>2
  <2> HIDE DEF before, after, new, c, m, r
  <2>15. after = right
    <3>1. left \o right = before \o after /\ Len(right) = Len(after)
      BY <2>3, <2>5, <2>13, <2>14
    <3> QED  BY <2>3, <2>13, <3>1, SameEnd
  <2> QED  BY <2>1, <2>12, <2>15 DEF after, right
<1> QED  BY <1>1, <1>2

\* If the text to its right is in order, the caret stays before the digits it was before,
\* whatever commas, dollar signs and other characters formatting adds or removes to its
\* left, and never needs to stop at an end of the text for it.
THEOREM CaretKept == Spec => CaretKeepsPlace
<1>1. TypeOK /\ [Next]_vars =>
        [Format /\ Grouped(RightOf(text, caret)) =>
           Only(RightOf(text', caret'), Digit) = Only(RightOf(text, caret), Digit)]_vars
  BY CaretStep
<1> QED  BY <1>1, FieldTypes, PTL DEF Spec, CaretKeepsPlace
=============================================================================
