----------------------------- MODULE ReplayProofs -----------------------------
(* Proofs that a node that starts again has the account table it had, for     *)
(* every chain of blocks, whatever crashes and failed writes came between.     *)
EXTENDS LedgerProofs, Recursion

-----------------------------------------------------------------------------
(* Folds over sequences. *)

\* The elements of a sequence are taken from the left: the last one of a prefix is
\* the one of the greatest index, and what is before it is the prefix without it.
LEMMA LastOfPrefix ==
  ASSUME NEW n \in Nat
  PROVE  Max(1 .. n + 1) = n + 1 /\ (1 .. n + 1) \ {n + 1} = 1 .. n
<1>1. (1 .. n + 1) # {} /\ 1 .. n + 1 \subseteq Int /\ n + 1 \in 1 .. n + 1  OBVIOUS
<1>2. IsFiniteSet(1 .. n + 1)  BY FS_Interval
<1>3. Max(1 .. n + 1) \in 1 .. n + 1 /\ n + 1 <= Max(1 .. n + 1)
  BY <1>1, <1>2, MaxIsGreatest
<1> QED  BY <1>3

LEMMA MaxOfIndices ==
  ASSUME NEW n \in Nat
  PROVE  /\ IsFiniteSet(1 .. n)
         /\ \A s \in SUBSET (1 .. n) : s # {} => Max(s) \in s
<1>1. IsFiniteSet(1 .. n)  BY FS_Interval
<1>2. ASSUME NEW s \in SUBSET (1 .. n), s # {} PROVE Max(s) \in s
  <2>1. IsFiniteSet(s)  BY <1>1, FS_Subset
  <2>2. s \subseteq Int  OBVIOUS
  <2> QED  BY <1>2, <2>1, <2>2, MaxIsGreatest
<1> QED  BY <1>1, <1>2

\* The account tables.
Tables == UNION {[d -> Table!Info] : d \in SUBSET Account}

LEMMA TablesOK == \A m : m \in Tables <=> TableOK(m)
BY DEF Tables, TableOK

-----------------------------------------------------------------------------
(* Applying the transactions of a block: the table after the first j. *)

Passes(m, b) ==
  CHOOSE it : it = [s \in SUBSET DOMAIN b.txs |->
                      IF s = {} THEN m
                      ELSE Table!Applied(it[s \ {Max(s)}], b.miner, b.txs[Max(s)])]
After(m, b, j) == Passes(m, b)[1 .. j]

LEMMA AfterSteps ==
  ASSUME NEW m, TableOK(m), NEW b \in Block
  PROVE  /\ After(m, b, 0) = m
         /\ \A j \in 0 .. Len(b.txs) - 1 :
              After(m, b, j + 1) = Table!Applied(After(m, b, j), b.miner, b.txs[j + 1])
         /\ BlockApplied(m, b) = Table!Rewarded(After(m, b, Len(b.txs)), b.miner)
<1> DEFINE L == Len(b.txs)
           D == DOMAIN b.txs
           G == [p \in D \X Tables |-> Table!Applied(p[2], b.miner, b.txs[p[1]])]
           C == [s \in SUBSET D |-> Max(s)]
           Is(it) == it = [s \in SUBSET D |->
                             IF s = {} THEN m
                             ELSE Table!Applied(it[s \ {Max(s)}], b.miner, b.txs[Max(s)])]
<1>1. /\ b.miner \in Account /\ b.txs \in Seq(Tx)
      /\ L \in Nat /\ D = 1 .. L /\ \A i \in D : b.txs[i] \in Tx
  <2>1. b.miner \in Account /\ b.txs \in Seq(Tx)  BY BlockFields
  <2> QED  BY <2>1, LenProperties, ElementOfSeq
<1> HIDE DEF L
<1>2. IsFiniteSet(D) /\ \A s \in SUBSET D : s # {} => C[s] \in s
  BY <1>1, MaxOfIndices
<1>3. G \in [D \X Tables -> Tables]
  <2>1. \A i \in D, n \in Tables : Table!Applied(n, b.miner, b.txs[i]) \in Tables
    BY <1>1, AppliedKeeps, TablesOK
  <2> QED  BY <2>1
<1>4. \E it : Is(it)
  <2> HIDE DEF G, C, D
  <2>1. m \in Tables  BY TablesOK
  <2>2. PICK f \in [SUBSET D -> Tables] : Folds(f, D, m, C, G)
    BY <1>2, <1>3, <2>1, SubsetRecursion
  <2>3. ASSUME NEW s \in SUBSET D, s # {}
        PROVE  f[s] = Table!Applied(f[s \ {Max(s)}], b.miner, b.txs[Max(s)])
    <3>1. C[s] = Max(s) /\ Max(s) \in D  BY <1>2, <2>3 DEF C
    <3>2. f[s] = G[<<C[s], f[s \ {C[s]}]>>]  BY <2>2, <2>3 DEF Folds
    <3>3. <<C[s], f[s \ {C[s]}]>> \in D \X Tables  BY <2>2, <3>1
    <3> QED  BY <3>1, <3>2, <3>3 DEF G
  <2>4. f[{}] = m  BY <2>2 DEF Folds
  <2>5. Is(f)  BY <2>2, <2>3, <2>4
  <2> QED  BY <2>5
<1> DEFINE it == Passes(m, b)
<1>5. Is(it)  BY <1>4 DEF Passes
<1>6. BlockApplied(m, b) = Table!Rewarded(it[D], b.miner)
  BY DEF BlockApplied, FoldLeft, MapThenFoldSet, Passes
<1> HIDE DEF it
<1>7. it[{}] = m  BY <1>5
<1>8. ASSUME NEW j \in 0 .. L - 1
      PROVE  it[1 .. j + 1] = Table!Applied(it[1 .. j], b.miner, b.txs[j + 1])
  <2>1. 1 .. j + 1 \in SUBSET D /\ 1 .. j + 1 # {}  BY <1>1
  <2>2. Max(1 .. j + 1) = j + 1 /\ (1 .. j + 1) \ {j + 1} = 1 .. j
    <3>1. j \in Nat  BY <1>1
    <3> QED  BY <3>1, LastOfPrefix
  <2> DEFINE s == 1 .. j + 1
  <2>3. it[s] = Table!Applied(it[s \ {Max(s)}], b.miner, b.txs[Max(s)])
    <3> HIDE DEF s
    <3> QED  BY <1>5, <2>1 DEF s
  <2> QED  BY <2>2, <2>3
<1>9. 1 .. 0 = {}  OBVIOUS
<1> QED  BY <1>1, <1>6, <1>7, <1>8, <1>9 DEF After, it, L

LEMMA AfterKeeps ==
  ASSUME NEW m, TableOK(m), NEW b \in Block
  PROVE  /\ \A j \in 0 .. Len(b.txs) : TableOK(After(m, b, j))
         /\ TableOK(BlockApplied(m, b))
<1> DEFINE L == Len(b.txs)
           T == {j \in 0 .. L : TableOK(After(m, b, j))}
<1>1. /\ b.miner \in Account /\ L \in Nat /\ \A i \in 1 .. L : b.txs[i] \in Tx
  <2>1. b.miner \in Account /\ b.txs \in Seq(Tx)  BY BlockFields
  <2> QED  BY <2>1, LenProperties, ElementOfSeq
<1>2. /\ After(m, b, 0) = m
      /\ \A j \in 0 .. L - 1 :
           After(m, b, j + 1) = Table!Applied(After(m, b, j), b.miner, b.txs[j + 1])
      /\ BlockApplied(m, b) = Table!Rewarded(After(m, b, L), b.miner)
  BY AfterSteps
<1> HIDE DEF L
<1>3. 0 \in T  BY <1>1, <1>2
<1>4. ASSUME NEW j \in 1 .. L, j - 1 \in T PROVE j \in T
  <2> DEFINE i == j - 1
  <2>1. i \in 0 .. L - 1 /\ i + 1 = j  BY <1>1
  <2>2. TableOK(After(m, b, i))  BY <1>4
  <2> HIDE DEF i
  <2>3. After(m, b, i + 1) = Table!Applied(After(m, b, i), b.miner, b.txs[i + 1])
    BY <1>2, <2>1
  <2>4. b.txs[i + 1] \in Tx  BY <1>1, <2>1
  <2>5. TableOK(After(m, b, i + 1))  BY <1>1, <2>2, <2>3, <2>4, AppliedKeeps
  <2>6. TableOK(After(m, b, j))  BY <2>1, <2>5
  <2> QED  BY <1>1, <2>6
<1>5. \A j \in T : TableOK(After(m, b, j))  OBVIOUS
<1> HIDE DEF T
<1>6. 0 .. L \subseteq T  BY <1>1, <1>3, <1>4, BoundedInduction
<1>7. \A j \in 0 .. L : TableOK(After(m, b, j))  BY <1>5, <1>6
<1>8. TableOK(BlockApplied(m, b))
  <2>1. TableOK(After(m, b, L))  BY <1>1, <1>7
  <2> QED  BY <1>1, <1>2, <2>1, RewardedKeeps
<1> QED  BY <1>7, <1>8 DEF L

-----------------------------------------------------------------------------
(* Applying the blocks of a chain: the table after the first k. *)

Replays(s) ==
  CHOOSE it : it = [d \in SUBSET DOMAIN s |->
                      IF d = {} THEN Table!Founded
                      ELSE BlockApplied(it[d \ {Max(d)}], s[Max(d)])]
TableOf(s, k) == Replays(s)[1 .. k]

LEMMA TableOfSteps ==
  ASSUME NEW s \in Seq(Block)
  PROVE  /\ TableOf(s, 0) = Table!Founded
         /\ \A k \in 0 .. Len(s) - 1 :
              TableOf(s, k + 1) = BlockApplied(TableOf(s, k), s[k + 1])
         /\ Replayed(s) = TableOf(s, Len(s))
<1> DEFINE L == Len(s)
           D == DOMAIN s
           G == [p \in D \X Tables |-> BlockApplied(p[2], s[p[1]])]
           C == [d \in SUBSET D |-> Max(d)]
           Is(it) == it = [d \in SUBSET D |->
                             IF d = {} THEN Table!Founded
                             ELSE BlockApplied(it[d \ {Max(d)}], s[Max(d)])]
<1>1. L \in Nat /\ D = 1 .. L /\ \A i \in D : s[i] \in Block
  BY LenProperties, ElementOfSeq
<1> HIDE DEF L
<1>2. IsFiniteSet(D) /\ \A d \in SUBSET D : d # {} => C[d] \in d
  BY <1>1, MaxOfIndices
<1>3. G \in [D \X Tables -> Tables]
  <2>1. \A i \in D, n \in Tables : BlockApplied(n, s[i]) \in Tables
    BY <1>1, AfterKeeps, TablesOK
  <2> QED  BY <2>1
<1>4. \E it : Is(it)
  <2> HIDE DEF G, C, D
  <2>1. Table!Founded \in Tables  BY TablesOK, FoundedOK
  <2>2. PICK f \in [SUBSET D -> Tables] : Folds(f, D, Table!Founded, C, G)
    BY <1>2, <1>3, <2>1, SubsetRecursion
  <2>3. ASSUME NEW d \in SUBSET D, d # {}
        PROVE  f[d] = BlockApplied(f[d \ {Max(d)}], s[Max(d)])
    <3>1. C[d] = Max(d) /\ Max(d) \in D  BY <1>2, <2>3 DEF C
    <3>2. f[d] = G[<<C[d], f[d \ {C[d]}]>>]  BY <2>2, <2>3 DEF Folds
    <3>3. <<C[d], f[d \ {C[d]}]>> \in D \X Tables  BY <2>2, <3>1
    <3> QED  BY <3>1, <3>2, <3>3 DEF G
  <2>4. f[{}] = Table!Founded  BY <2>2 DEF Folds
  <2>5. Is(f)  BY <2>2, <2>3, <2>4
  <2> QED  BY <2>5
<1> DEFINE it == Replays(s)
<1>5. Is(it)  BY <1>4 DEF Replays
<1>6. Replayed(s) = it[D]
  BY DEF Replayed, FoldLeft, MapThenFoldSet, Replays
<1> HIDE DEF it
<1>7. it[{}] = Table!Founded  BY <1>5
<1>8. ASSUME NEW k \in 0 .. L - 1
      PROVE  it[1 .. k + 1] = BlockApplied(it[1 .. k], s[k + 1])
  <2>1. 1 .. k + 1 \in SUBSET D /\ 1 .. k + 1 # {}  BY <1>1
  <2>2. Max(1 .. k + 1) = k + 1 /\ (1 .. k + 1) \ {k + 1} = 1 .. k
    <3>1. k \in Nat  BY <1>1
    <3> QED  BY <3>1, LastOfPrefix
  <2> DEFINE d == 1 .. k + 1
  <2>3. it[d] = BlockApplied(it[d \ {Max(d)}], s[Max(d)])
    <3> HIDE DEF d
    <3> QED  BY <1>5, <2>1 DEF d
  <2> QED  BY <2>2, <2>3
<1>9. 1 .. 0 = {}  OBVIOUS
<1> QED  BY <1>1, <1>6, <1>7, <1>8, <1>9 DEF TableOf, it, L

LEMMA TableOfKeeps ==
  ASSUME NEW s \in Seq(Block)
  PROVE  \A k \in 0 .. Len(s) : TableOK(TableOf(s, k))
<1> DEFINE L == Len(s)
           T == {k \in 0 .. L : TableOK(TableOf(s, k))}
<1>1. L \in Nat /\ \A i \in 1 .. L : s[i] \in Block
  BY LenProperties, ElementOfSeq
<1>2. /\ TableOf(s, 0) = Table!Founded
      /\ \A k \in 0 .. L - 1 : TableOf(s, k + 1) = BlockApplied(TableOf(s, k), s[k + 1])
  BY TableOfSteps
<1> HIDE DEF L
<1>3. 0 \in T  BY <1>1, <1>2, FoundedOK
<1>4. ASSUME NEW k \in 1 .. L, k - 1 \in T PROVE k \in T
  <2> DEFINE i == k - 1
  <2>1. i \in 0 .. L - 1 /\ i + 1 = k /\ k \in 0 .. L  BY <1>1
  <2>2. TableOK(TableOf(s, i))  BY <1>4
  <2> HIDE DEF i
  <2>3. TableOf(s, i + 1) = BlockApplied(TableOf(s, i), s[i + 1])  BY <1>2, <2>1
  <2>4. s[i + 1] \in Block  BY <1>1, <2>1
  <2>5. TableOK(TableOf(s, i + 1))  BY <2>2, <2>3, <2>4, AfterKeeps
  <2> QED  BY <2>1, <2>5
<1>5. \A k \in T : TableOK(TableOf(s, k))  OBVIOUS
<1> HIDE DEF T
<1>6. 0 .. L \subseteq T  BY <1>1, <1>3, <1>4, BoundedInduction
<1> QED  BY <1>5, <1>6 DEF L

\* The next block of the chain changes none of the tables before it.
LEMMA TableOfAppend ==
  ASSUME NEW s \in Seq(Block), NEW b \in Block
  PROVE  /\ \A k \in 0 .. Len(s) : TableOf(Append(s, b), k) = TableOf(s, k)
         /\ Replayed(Append(s, b)) = BlockApplied(Replayed(s), b)
<1> DEFINE r == Append(s, b)
           L == Len(s)
           T == {k \in 0 .. L : TableOf(r, k) = TableOf(s, k)}
<1>1. /\ r \in Seq(Block) /\ L \in Nat /\ Len(r) = L + 1
      /\ \A i \in 1 .. L : r[i] = s[i]
      /\ r[L + 1] = b
  BY AppendProperties, LenProperties
<1> HIDE DEF r
<1>2. /\ TableOf(s, 0) = Table!Founded
      /\ \A k \in 0 .. L - 1 : TableOf(s, k + 1) = BlockApplied(TableOf(s, k), s[k + 1])
      /\ Replayed(s) = TableOf(s, L)
  BY TableOfSteps
<1>3. /\ TableOf(r, 0) = Table!Founded
      /\ \A k \in 0 .. L : TableOf(r, k + 1) = BlockApplied(TableOf(r, k), r[k + 1])
      /\ Replayed(r) = TableOf(r, L + 1)
  <2>1. /\ TableOf(r, 0) = Table!Founded
        /\ \A k \in 0 .. Len(r) - 1 :
             TableOf(r, k + 1) = BlockApplied(TableOf(r, k), r[k + 1])
        /\ Replayed(r) = TableOf(r, Len(r))
    BY <1>1, TableOfSteps
  <2>2. Len(r) - 1 = L  BY <1>1
  <2> QED  BY <1>1, <2>1, <2>2
<1> HIDE DEF L
<1>4. 0 \in T  BY <1>1, <1>2, <1>3
<1>5. ASSUME NEW k \in 1 .. L, k - 1 \in T PROVE k \in T
  <2> DEFINE i == k - 1
  <2>1. i \in 0 .. L - 1 /\ i \in 0 .. L /\ i + 1 = k /\ k \in 0 .. L  BY <1>1
  <2>2. TableOf(r, i) = TableOf(s, i)  BY <1>5
  <2> HIDE DEF i
  <2>3. TableOf(s, i + 1) = BlockApplied(TableOf(s, i), s[i + 1])  BY <1>2, <2>1
  <2>4. TableOf(r, i + 1) = BlockApplied(TableOf(r, i), r[i + 1])  BY <1>3, <2>1
  <2>5. r[k] = s[k]  BY <1>1
  <2>6. TableOf(r, k) = TableOf(s, k)  BY <2>1, <2>2, <2>3, <2>4, <2>5
  <2> QED  BY <2>1, <2>6
<1>6. \A k \in T : TableOf(r, k) = TableOf(s, k)  OBVIOUS
<1> HIDE DEF T
<1>7. 0 .. L \subseteq T  BY <1>1, <1>4, <1>5, BoundedInduction
<1>8. \A k \in 0 .. L : TableOf(r, k) = TableOf(s, k)  BY <1>6, <1>7
<1>9. Replayed(r) = BlockApplied(Replayed(s), b)
  <2>1. L \in 0 .. L  BY <1>1
  <2>2. TableOf(r, L + 1) = BlockApplied(TableOf(r, L), r[L + 1])  BY <1>3, <2>1
  <2> QED  BY <1>1, <1>2, <1>3, <1>8, <2>1, <2>2
<1> QED  BY <1>8, <1>9 DEF r, L

-----------------------------------------------------------------------------
(* What is left of a sequence after its first j elements. *)

Remaining(s, j) == SubSeq(s, j + 1, Len(s))

LEMMA RemainingFacts ==
  ASSUME NEW S, NEW s \in Seq(S), NEW j \in 0 .. Len(s)
  PROVE  /\ Remaining(s, 0) = s
         /\ Remaining(s, j) = <<>> <=> j = Len(s)
         /\ j < Len(s) => /\ Head(Remaining(s, j)) = s[j + 1]
                          /\ Tail(Remaining(s, j)) = Remaining(s, j + 1)
<1> DEFINE r == Remaining(s, j)
           q == Remaining(s, j + 1)
<1>1. /\ Len(s) \in Nat /\ r \in Seq(S) /\ Len(r) = Len(s) - j
      /\ \A i \in 1 .. Len(s) - j : r[i] = s[j + i]
  <2>1. \A i \in j + 1 .. Len(s) : s[i] \in S  BY ElementOfSeq
  <2> QED  BY <2>1 DEF Remaining
<1>2. Remaining(s, 0) = s  BY DEF Remaining
<1>3. r = <<>> <=> j = Len(s)  BY <1>1
<1>4. ASSUME j < Len(s) PROVE Head(r) = s[j + 1] /\ Tail(r) = q
  <2>1. /\ q \in Seq(S) /\ Len(q) = Len(s) - (j + 1)
        /\ \A i \in 1 .. Len(s) - (j + 1) : q[i] = s[j + 1 + i]
    <3>1. \A i \in j + 2 .. Len(s) : s[i] \in S  BY ElementOfSeq
    <3> QED  BY <1>4, <3>1 DEF Remaining
  <2> HIDE DEF r, q
  <2>2. r # <<>> /\ Head(r) = r[1]  BY <1>1, <1>4
  <2>3. /\ Tail(r) \in Seq(S) /\ Len(Tail(r)) = Len(r) - 1
        /\ \A i \in 1 .. Len(r) - 1 : Tail(r)[i] = r[i + 1]
    BY <1>1, <2>2, HeadTailProperties
  <2>4. Len(Tail(r)) = Len(q)  BY <1>1, <2>1, <2>3
  <2>5. ASSUME NEW i \in 1 .. Len(q) PROVE Tail(r)[i] = q[i]
    <3>1. i \in 1 .. Len(r) - 1 /\ i + 1 \in 1 .. Len(s) - j
      BY <1>1, <2>1
    <3>2. j + (i + 1) = j + 1 + i  BY <3>1
    <3> QED  BY <1>1, <2>1, <2>3, <3>1, <3>2
  <2>6. Tail(r) = q  BY <2>1, <2>3, <2>4, <2>5, SeqEqual
  <2>7. r[1] = s[j + 1]  BY <1>1, <1>4
  <2> QED  BY <2>2, <2>6, <2>7
<1> QED  BY <1>2, <1>3, <1>4

LEMMA FrontLast ==
  ASSUME NEW S, NEW s \in Seq(S), s # <<>>
  PROVE  /\ Len(s) \in Nat /\ Len(s) > 0
         /\ Front(s) \in Seq(S) /\ Len(Front(s)) = Len(s) - 1
         /\ \A i \in 1 .. Len(s) - 1 : Front(s)[i] = s[i]
         /\ Last(s) = s[Len(s)]
<1>1. Len(s) \in Nat /\ Len(s) > 0  OBVIOUS
<1>2. \A i \in 1 .. Len(s) - 1 : s[i] \in S  BY <1>1, ElementOfSeq
<1>3. Front(s) = SubSeq(s, 1, Len(s) - 1)  BY DEF Front
<1>4. Last(s) = s[Len(s)]  BY DEF Last
<1> DEFINE n == Len(s) - 1
           r == SubSeq(s, 1, n)
<1>5. /\ r \in Seq(S) /\ Len(r) = n
      /\ \A i \in 1 .. n : r[i] = s[i]
  <2>1. n \in Nat /\ \A i \in 1 .. n : s[i] \in S  BY <1>1, <1>2
  <2> HIDE DEF n
  <2> QED  BY <2>1
<1> QED  BY <1>1, <1>3, <1>4, <1>5

-----------------------------------------------------------------------------
(* The file next to the chain. *)

\* No line of the file is too long for the scanner.
ShortLines == \A i \in DOMAIN lines : lines[i] \notin Long

Garbage == \E i \in DOMAIN lines : lines[i] = Garbled

\* Unless it does not decode, the file holds the chain, or the chain and a block
\* whose write failed but for its newline.
DiskExact ==
  \/ Garbage
  \/ lines = stored
  \/ open /\ (\E b \in Block : lines = Append(stored, b))

\* What a write makes of the file: a line that is too long stays, and one that lacks
\* its newline is spoilt.
LEMMA ExtendedFacts ==
  ASSUME lines \in Seq(Block \cup {Garbled}), NEW e \in Block \cup {Garbled}
  PROVE  /\ (\E i \in DOMAIN lines : lines[i] \in Long)
              => \E i \in DOMAIN Extended(e) : Extended(e)[i] \in Long
         /\ open => \E i \in DOMAIN Extended(e) : Extended(e)[i] \in Long \cup {Garbled}
         /\ ~open => Extended(e) = Append(lines, e)
<1> DEFINE Line == Block \cup {Garbled}
           x == Extended(e)
<1>1. lines \in Seq(Line) /\ e \in Line  OBVIOUS
<1>2. Joined(e) \in Line /\ Joined(e) \in Long \cup {Garbled}
  BY BlockAssumption DEF Joined
<1> HIDE DEF Line
<1>3. CASE open
  <2>1. x = Front(lines) \o <<Joined(e)>>  BY <1>3 DEF Extended
  <2>2. Front(lines) \in Seq(Line)  BY <1>1, FrontType
  <2>3. DOMAIN x = 1 .. Len(Front(lines)) + 1 /\ Len(Front(lines)) \in Nat
        /\ (\A i \in 1 .. Len(Front(lines)) : x[i] = Front(lines)[i])
        /\ x[Len(Front(lines)) + 1] = Joined(e)
    BY <1>2, <2>1, <2>2
  <2> HIDE DEF x
  <2>4. \E i \in DOMAIN x : x[i] \in Long \cup {Garbled}
    <3>1. Len(Front(lines)) + 1 \in DOMAIN x  BY <2>3
    <3> QED  BY <1>2, <2>3, <3>1
  <2>5. ASSUME NEW i \in DOMAIN lines, lines[i] \in Long
        PROVE  \E k \in DOMAIN x : x[k] \in Long
    <3>1. lines # <<>> /\ i \in 1 .. Len(lines)  BY <1>1
    <3>2. /\ Len(lines) \in Nat /\ Len(Front(lines)) = Len(lines) - 1
          /\ \A n \in 1 .. Len(lines) - 1 : Front(lines)[n] = lines[n]
          /\ Last(lines) = lines[Len(lines)]
      BY <1>1, <3>1, FrontLast
    <3>3. CASE i = Len(lines)
      <4>1. Joined(e) \in Long  BY <2>5, <3>2, <3>3 DEF Joined
      <4>2. Len(Front(lines)) + 1 \in DOMAIN x  BY <2>3
      <4> QED  BY <2>3, <4>1, <4>2
    <3>4. CASE i # Len(lines)
      <4>1. i \in 1 .. Len(lines) - 1  BY <3>1, <3>2, <3>4
      <4>2. i \in DOMAIN x /\ x[i] = lines[i]  BY <2>3, <3>2, <4>1
      <4> QED  BY <2>5, <4>2
    <3> QED  BY <3>3, <3>4
  <2> QED  BY <1>3, <2>4, <2>5 DEF x
<1>4. CASE ~open
  <2>1. x = Append(lines, e)  BY <1>4 DEF Extended
  <2>2. ASSUME NEW i \in DOMAIN lines, lines[i] \in Long
        PROVE  \E k \in DOMAIN x : x[k] \in Long
    <3>1. i \in DOMAIN x /\ x[i] = lines[i]  BY <1>1, <2>1
    <3> QED  BY <2>2, <3>1
  <2> QED  BY <1>4, <2>1, <2>2
<1> QED  BY <1>3, <1>4

LEMMA ShortBefore == Applying /\ [Next]_vars /\ ShortLines' => ShortLines
<1> SUFFICES ASSUME Applying, [Next]_vars, ShortLines', ~ShortLines PROVE FALSE
  OBVIOUS
<1>1. \E i \in DOMAIN lines : lines[i] \in Long  BY DEF ShortLines
<1>2. \A e \in Block \cup {Garbled} : lines' # Extended(e)
  <2>1. ASSUME NEW e \in Block \cup {Garbled}
        PROVE  \E i \in DOMAIN Extended(e) : Extended(e)[i] \in Long
    BY <1>1, ExtendedFacts DEF Applying
  <2> QED  BY <2>1 DEF ShortLines
<1>3. ASSUME NEW b \in Block, Store(b) PROVE FALSE
  BY <1>2, <1>3 DEF Store, Written
<1>4. ASSUME NEW b \in Block, StoreFails(b) PROVE FALSE
  BY <1>2, <1>4 DEF StoreFails, HalfWritten
<1>5. ASSUME NEW tx \in Tx, Upsert(tx) PROVE lines' = lines
  BY <1>5 DEF Upsert, disk
<1>6. ASSUME \/ ApplyStored \/ RewardStored \/ Crash \/ Restart \/ RestartFails
             \/ NextUnread \/ ApplyRead \/ RewardRead \/ Ready \/ UNCHANGED vars
      PROVE  lines' = lines
  BY <1>6 DEF ApplyStored, RewardStored, Crash, Restart, RestartFails, NextUnread,
              ApplyRead, RewardRead, Ready, vars, disk
<1> QED  BY <1>1, <1>3, <1>4, <1>5, <1>6 DEF Next, ShortLines

\* A node that starts again reads the chain, and nothing but the chain.
LEMMA RestartReads ==
  ASSUME Applying, PhasesOK, ShortLines, DiskExact, Restart
  PROVE  unread' = stored' /\ lines' = stored'
<1>1. PICK n \in 0 .. Len(lines) :
        Reads(n) /\ Decodes(n) /\ unread' = SubSeq(lines, 1, n)
  BY DEF Restart
<1>2. lines \in Seq(Block \cup {Garbled}) /\ stored \in Seq(Block) /\ lines' = lines
  BY DEF Applying, PhasesOK, Restart, disk
<1>3. n = Len(lines)
  <2>1. ~(n < Len(lines))
    <3> SUFFICES ASSUME n < Len(lines) PROVE FALSE  OBVIOUS
    <3>1. n + 1 \in DOMAIN lines  BY <1>2
    <3> QED  BY <1>1, <3>1 DEF Reads, ShortLines
  <2> QED  BY <1>2, <2>1
<1>4. unread' = lines
  <2>1. SubSeq(lines, 1, Len(lines)) = lines  BY <1>2
  <2> QED  BY <1>1, <1>3, <2>1
<1>5. ~Garbage
  <2>1. DOMAIN lines = 1 .. n  BY <1>2, <1>3
  <2> QED  BY <1>1, <2>1 DEF Decodes, Garbage
<1>6. stored' = IF open /\ Len(unread') > Len(stored)
                THEN Append(stored, Last(unread')) ELSE stored
  BY DEF Restart
<1>7. CASE lines = stored  BY <1>2, <1>4, <1>6, <1>7
<1>8. ASSUME open, NEW b \in Block, lines = Append(stored, b)
      PROVE  stored' = lines
  <2>1. Len(lines) = Len(stored) + 1 /\ Last(lines) = b /\ Len(stored) \in Nat
    BY <1>2, <1>8 DEF Last
  <2>2. Len(unread') > Len(stored)  BY <1>4, <2>1
  <2> QED  BY <1>4, <1>6, <1>8, <2>1, <2>2
<1> QED  BY <1>2, <1>4, <1>5, <1>7, <1>8 DEF DiskExact

LEMMA DiskStays ==
  ASSUME Applying, PhasesOK, ShortLines, ShortLines', DiskExact, [Next]_vars
  PROVE  DiskExact'
<1> DEFINE Line == Block \cup {Garbled}
<1>1. lines \in Seq(Line) /\ stored \in Seq(Block)  BY DEF Applying, PhasesOK
<1>2. ASSUME NEW e \in Line, lines' = Extended(e), open
      PROVE  DiskExact'
  <2>1. \E i \in DOMAIN Extended(e) : Extended(e)[i] \in Long \cup {Garbled}
    BY <1>1, <1>2, ExtendedFacts
  <2> QED  BY <1>2, <2>1 DEF DiskExact, Garbage, ShortLines
<1>3. ASSUME NEW e \in Line, lines' = Extended(e), ~open
      PROVE  lines' = Append(lines, e) /\ (Garbage => Garbage')
  <2>1. lines' = Append(lines, e)  BY <1>1, <1>2, <1>3, ExtendedFacts
  <2>2. ASSUME NEW i \in DOMAIN lines
        PROVE  i \in DOMAIN lines' /\ lines'[i] = lines[i]
    BY <1>1, <2>1
  <2> QED  BY <2>1, <2>2 DEF Garbage
<1>4. ASSUME NEW b \in Block, Store(b) PROVE DiskExact'
  <2>1. lines' = Extended(b) /\ stored' = Append(stored, b) /\ b \in Line
    BY <1>4 DEF Store, Written
  <2>2. CASE ~open  BY <1>3, <2>1, <2>2 DEF DiskExact
  <2> QED  BY <1>2, <2>1, <2>2
<1>5. ASSUME NEW b \in Block, StoreFails(b) PROVE DiskExact'
  <2>1. PICK e \in {b, Garbled} : lines' = Extended(e) /\ open' = TRUE
    BY <1>5 DEF StoreFails, HalfWritten
  <2>2. stored' = stored /\ e \in Line  BY <1>5 DEF StoreFails
  <2>3. CASE ~open
    <3>1. lines' = Append(lines, e) /\ (Garbage => Garbage')
      BY <1>3, <2>1, <2>2, <2>3
    <3>2. CASE e = Garbled
      <4>1. Len(lines) + 1 \in DOMAIN lines' /\ lines'[Len(lines) + 1] = Garbled
        BY <1>1, <3>1, <3>2
      <4> QED  BY <4>1 DEF DiskExact, Garbage
    <3>3. CASE e = b
      BY <2>1, <2>2, <2>3, <3>1, <3>3 DEF DiskExact
    <3> QED  BY <3>2, <3>3
  <2> QED  BY <1>2, <2>1, <2>2, <2>3
<1>6. CASE Restart
  <2>1. lines' = stored'  BY <1>6, RestartReads
  <2> QED  BY <2>1 DEF DiskExact
<1>7. ASSUME NEW tx \in Tx, Upsert(tx) PROVE UNCHANGED <<lines, open, stored>>
  BY <1>7 DEF Upsert, disk, history
<1>8. ASSUME \/ ApplyStored \/ RewardStored \/ Crash \/ RestartFails
             \/ NextUnread \/ ApplyRead \/ RewardRead \/ Ready \/ UNCHANGED vars
      PROVE  UNCHANGED <<lines, open, stored>>
  BY <1>8 DEF ApplyStored, RewardStored, Crash, RestartFails, NextUnread, ApplyRead,
              RewardRead, Ready, vars, disk, history
<1>9. CASE UNCHANGED <<lines, open, stored>>  BY <1>9 DEF DiskExact, Garbage
<1> QED  BY <1>4, <1>5, <1>6, <1>7, <1>8, <1>9 DEF Next

-----------------------------------------------------------------------------
(* The account table next to the chain. *)

\* Of the k-th block, the first j transactions are applied.
Partial(k) ==
  LET b == stored[k]
  IN  /\ miner = b.miner
      /\ \E j \in 0 .. Len(b.txs) : /\ rest = Remaining(b.txs, j)
                                    /\ info = After(TableOf(stored, k - 1), b, j)

\* The first k blocks are applied, all but the end of the last of them perhaps, and
\* the others are still to be read.
Reading(k) ==
  /\ unread = Remaining(stored, k)
  /\ IF miner = NoAccount THEN rest = <<>> /\ info = TableOf(stored, k)
     ELSE k > 0 /\ Partial(k)

TableExact ==
  /\ phase = "up" => info = TableOf(stored, Len(stored))
  /\ phase = "storing" => Len(stored) > 0 /\ Partial(Len(stored))
  /\ phase = "replaying" => \E k \in 0 .. Len(stored) : Reading(k)

\* Nothing is being applied by a node that is up, or down.
Idle == phase \in {"up", "down"} => miner = NoAccount /\ rest = <<>>

LEMMA IdleStays == Idle /\ Applying /\ [Next]_vars => Idle'
<1> SUFFICES ASSUME Idle, Applying, [Next]_vars PROVE Idle'
  OBVIOUS
<1> USE DEF Idle, current
<1>1. ASSUME NEW tx \in Tx, Upsert(tx) PROVE Idle'  BY <1>1 DEF Upsert
<1>2. ASSUME NEW b \in Block, Store(b) PROVE Idle'  BY <1>2 DEF Store
<1>3. ASSUME NEW b \in Block, StoreFails(b) PROVE Idle'  BY <1>3 DEF StoreFails
<1>4. CASE RewardStored  BY <1>4 DEF RewardStored
<1>5. CASE Ready  BY <1>5, TableAssumption DEF Ready, Applying
<1>6. ASSUME \/ ApplyStored \/ Crash \/ Restart \/ RestartFails \/ NextUnread
             \/ ApplyRead \/ RewardRead
      PROVE  Idle'
  BY <1>6 DEF ApplyStored, Crash, Restart, RestartFails, NextUnread, ApplyRead,
              RewardRead
<1>7. CASE UNCHANGED vars  BY <1>7 DEF vars
<1> QED  BY <1>1, <1>2, <1>3, <1>4, <1>5, <1>6, <1>7 DEF Next

\* The k-th block begins.
LEMMA Begins ==
  ASSUME stored' \in Seq(Block), NEW k \in 1 .. Len(stored'),
         info' = TableOf(stored', k - 1),
         miner' = stored'[k].miner, rest' = stored'[k].txs
  PROVE  Partial(k)'
<1> DEFINE b == stored'[k]
           m == TableOf(stored', k - 1)
<1>1. b \in Block  BY ElementOfSeq
<1>2. TableOK(m)
  <2>1. k - 1 \in 0 .. Len(stored')  BY LenProperties
  <2> QED  BY <2>1, TableOfKeeps
<1>3. b.txs \in Seq(Tx)  BY <1>1, BlockFields
<1> HIDE DEF b, m
<1>4. After(m, b, 0) = m  BY <1>1, <1>2, AfterSteps
<1>5. 0 \in 0 .. Len(b.txs) /\ Remaining(b.txs, 0) = b.txs
  <2>1. 0 \in 0 .. Len(b.txs)  BY <1>3, LenProperties
  <2> QED  BY <1>3, <2>1, RemainingFacts
<1>6. /\ miner' = b.miner
      /\ \E j \in 0 .. Len(b.txs) : rest' = Remaining(b.txs, j) /\ info' = After(m, b, j)
  <2>1. miner' = b.miner /\ rest' = b.txs /\ info' = m  BY DEF b, m
  <2> QED  BY <1>4, <1>5, <2>1
<1> QED  BY <1>6 DEF Partial, b, m

\* Its next transaction is applied.
LEMMA Continues ==
  ASSUME stored \in Seq(Block), NEW k \in 1 .. Len(stored), Partial(k),
         rest # <<>>, rest' = Tail(rest), miner' = miner, stored' = stored,
         info' = Table!Applied(info, miner, Head(rest))
  PROVE  Partial(k)'
<1> DEFINE b == stored[k]
           m == TableOf(stored, k - 1)
<1>1. b \in Block  BY ElementOfSeq
<1>2. TableOK(m)
  <2>1. k - 1 \in 0 .. Len(stored)  BY LenProperties
  <2> QED  BY <2>1, TableOfKeeps
<1>3. b.txs \in Seq(Tx) /\ Len(b.txs) \in Nat  BY <1>1, BlockFields, LenProperties
<1>4. miner = b.miner  BY DEF Partial
<1>5. PICK j \in 0 .. Len(b.txs) :
        rest = Remaining(b.txs, j) /\ info = After(m, b, j)
  BY DEF Partial
<1>6. UNCHANGED stored  OBVIOUS
<1> HIDE DEF b, m
<1>7. j < Len(b.txs)
  <2>1. j # Len(b.txs)  BY <1>3, <1>5, RemainingFacts
  <2> QED  BY <1>3, <2>1
<1>8. Head(rest) = b.txs[j + 1] /\ Tail(rest) = Remaining(b.txs, j + 1)
  BY <1>3, <1>5, <1>7, RemainingFacts
<1>9. After(m, b, j + 1) = Table!Applied(After(m, b, j), b.miner, b.txs[j + 1])
  <2>1. j \in 0 .. Len(b.txs) - 1  BY <1>3, <1>7
  <2> QED  BY <1>1, <1>2, <2>1, AfterSteps
<1>10. info' = After(m, b, j + 1) /\ rest' = Remaining(b.txs, j + 1)
  BY <1>4, <1>5, <1>8, <1>9
<1>11. j + 1 \in 0 .. Len(b.txs)  BY <1>3, <1>7
<1>12. /\ miner' = b.miner
       /\ \E n \in 0 .. Len(b.txs) : rest' = Remaining(b.txs, n) /\ info' = After(m, b, n)
  BY <1>4, <1>10, <1>11
<1> QED  BY <1>6, <1>12 DEF Partial, b, m

\* The miner gets its reward.
LEMMA Ends ==
  ASSUME stored \in Seq(Block), NEW k \in 1 .. Len(stored), Partial(k),
         rest = <<>>, info' = Table!Rewarded(info, miner)
  PROVE  info' = TableOf(stored, k)
<1> DEFINE b == stored[k]
           i == k - 1
           m == TableOf(stored, i)
<1>1. b \in Block  BY ElementOfSeq
<1>2. i \in 0 .. Len(stored) - 1 /\ i \in 0 .. Len(stored) /\ i + 1 = k
  BY LenProperties
<1>3. b.txs \in Seq(Tx) /\ Len(b.txs) \in Nat  BY <1>1, BlockFields, LenProperties
<1>4. miner = b.miner  BY DEF Partial
<1>5. PICK j \in 0 .. Len(b.txs) :
        rest = Remaining(b.txs, j) /\ info = After(m, b, j)
  BY DEF Partial
<1> HIDE DEF i
<1>6. TableOK(m)  BY <1>2, TableOfKeeps
<1>7. TableOf(stored, i + 1) = BlockApplied(TableOf(stored, i), stored[i + 1])
  BY <1>2, TableOfSteps
<1>8. TableOf(stored, k) = BlockApplied(m, b)  BY <1>2, <1>7
<1> HIDE DEF b, m
<1>9. j = Len(b.txs)  BY <1>3, <1>5, RemainingFacts
<1>10. BlockApplied(m, b) = Table!Rewarded(After(m, b, Len(b.txs)), b.miner)
  BY <1>1, <1>6, AfterSteps
<1> QED  BY <1>4, <1>5, <1>8, <1>9, <1>10

LEMMA ExactStays ==
  ASSUME Applying, PhasesOK, Idle, ShortLines, DiskExact, TableExact, [Next]_vars
  PROVE  TableExact'
<1> DEFINE L == Len(stored)
<1>1. /\ stored \in Seq(Block) /\ unread \in Seq(Block) /\ L \in Nat
      /\ NoAccount \notin Account
      /\ rest # <<>> => miner # NoAccount
  BY TableAssumption, LenProperties DEF PhasesOK, Applying
<1> USE DEF disk, current, history
<1>2. ASSUME NEW tx \in Tx, Upsert(tx) PROVE TableExact'
  <2>1. UNCHANGED <<info, phase, miner, rest, unread, stored>>  BY <1>2 DEF Upsert
  <2> QED  BY <2>1 DEF TableExact, Partial, Reading
<1>3. ASSUME NEW b \in Block, Store(b) PROVE TableExact'
  <2>1. /\ stored' = Append(stored, b) /\ phase' = "storing" /\ info' = info
        /\ miner' = b.miner /\ rest' = b.txs /\ phase = "up"
    BY <1>3 DEF Store
  <2>2. PICK k \in Nat : k = L + 1  BY <1>1
  <2>3. stored' \in Seq(Block) /\ Len(stored') = k /\ stored'[k] = b
    BY <1>1, <2>2, <2>1
  <2>4. TableOf(stored', L) = TableOf(stored, L)
    <3>1. L \in 0 .. L  BY <1>1
    <3> QED  BY <1>1, <2>1, <3>1, TableOfAppend
  <2>5. k - 1 = L /\ k > 0 /\ k \in 1 .. k  BY <1>1, <2>2
  <2>6. info' = TableOf(stored', k - 1)  BY <2>1, <2>4, <2>5 DEF TableExact
  <2>7. k \in 1 .. Len(stored')  BY <2>3, <2>5
  <2>8. Partial(k)'  BY <2>1, <2>3, <2>6, <2>7, Begins
  <2> QED  BY <2>1, <2>3, <2>5, <2>8 DEF TableExact
<1>4. ASSUME NEW b \in Block, StoreFails(b) PROVE TableExact'
  <2>1. UNCHANGED <<info, phase, miner, rest, unread, stored>>
    BY <1>4 DEF StoreFails
  <2> QED  BY <2>1 DEF TableExact, Partial, Reading
<1>5. CASE ApplyStored
  <2>1. /\ phase = "storing" /\ phase' = "storing" /\ rest # <<>>
        /\ rest' = Tail(rest) /\ miner' = miner /\ stored' = stored
        /\ info' = Table!Applied(info, miner, Head(rest))
    BY <1>5 DEF ApplyStored
  <2>2. L > 0 /\ L \in 1 .. L /\ Partial(L)  BY <1>1, <2>1 DEF TableExact
  <2>3. Partial(L)'  BY <1>1, <2>1, <2>2, Continues
  <2> QED  BY <2>1, <2>2, <2>3 DEF TableExact
<1>6. CASE RewardStored
  <2>1. /\ phase = "storing" /\ phase' = "up" /\ rest = <<>> /\ stored' = stored
        /\ info' = Table!Rewarded(info, miner)
    BY <1>6 DEF RewardStored
  <2>2. L \in 1 .. L /\ Partial(L)  BY <1>1, <2>1 DEF TableExact
  <2>3. info' = TableOf(stored, L)  BY <1>1, <2>1, <2>2, Ends
  <2> QED  BY <2>1, <2>3 DEF TableExact
<1>7. CASE Crash \/ RestartFails
  <2>1. phase' \in {"down", "failed"}  BY <1>7 DEF Crash, RestartFails
  <2> QED  BY <2>1 DEF TableExact
<1>8. CASE Restart
  <2>1. unread' = stored'  BY <1>8, RestartReads
  <2>2. /\ phase' = "replaying" /\ info' = Table!Founded
        /\ miner' = NoAccount /\ rest' = <<>>
    BY <1>8 DEF Restart, Idle
  <2>3. stored' \in Seq(Block)
    <3>1. unread' \in Seq(Block)
      <4>1. Applying'  BY NextApplying
      <4> QED  BY <4>1 DEF Applying
    <3> QED  BY <2>1, <3>1
  <2>4. 0 \in 0 .. Len(stored')  BY <2>3, LenProperties
  <2>5. Remaining(stored', 0) = stored' /\ TableOf(stored', 0) = Table!Founded
    BY <2>3, <2>4, RemainingFacts, TableOfSteps
  <2>6. Reading(0)'  BY <2>1, <2>2, <2>5 DEF Reading
  <2> QED  BY <2>2, <2>4, <2>6 DEF TableExact
<1>9. CASE NextUnread
  <2>1. /\ phase = "replaying" /\ phase' = "replaying" /\ miner = NoAccount
        /\ unread # <<>> /\ unread' = Tail(unread) /\ UNCHANGED <<info, stored>>
        /\ miner' = Head(unread).miner /\ rest' = Head(unread).txs
    BY <1>9 DEF NextUnread
  <2>2. PICK k \in 0 .. L : Reading(k)  BY <2>1 DEF TableExact
  <2>3. unread = Remaining(stored, k) /\ info = TableOf(stored, k)
    BY <2>1, <2>2 DEF Reading
  <2>4. k < L
    <3>1. k # L  BY <1>1, <2>1, <2>3, RemainingFacts
    <3> QED  BY <1>1, <3>1
  <2>5. Head(unread) = stored[k + 1] /\ Tail(unread) = Remaining(stored, k + 1)
    BY <1>1, <2>3, <2>4, RemainingFacts
  <2> DEFINE i == k + 1
  <2>6. i \in 1 .. L /\ i \in 0 .. L /\ i - 1 = k /\ i > 0  BY <1>1, <2>4
  <2>7. /\ miner' = stored[i].miner /\ rest' = stored[i].txs
        /\ unread' = Remaining(stored, i)
    BY <2>1, <2>5
  <2> HIDE DEF i
  <2>8. Partial(i)'
    <3>1. stored' = stored /\ info' = TableOf(stored, i - 1)  BY <2>1, <2>3, <2>6
    <3> QED  BY <1>1, <2>6, <2>7, <3>1, Begins
  <2>9. miner' # NoAccount
    <3>1. stored[i] \in Block  BY <1>1, <2>6, ElementOfSeq
    <3>2. stored[i].miner \in Account  BY <3>1, BlockFields
    <3> QED  BY <1>1, <2>7, <3>2
  <2>10. Reading(i)'  BY <2>1, <2>6, <2>7, <2>8, <2>9 DEF Reading
  <2> QED  BY <2>1, <2>6, <2>10 DEF TableExact
<1>10. CASE ApplyRead
  <2>1. /\ phase = "replaying" /\ phase' = "replaying" /\ rest # <<>>
        /\ rest' = Tail(rest) /\ UNCHANGED <<miner, stored, unread>>
        /\ info' = Table!Applied(info, miner, Head(rest))
    BY <1>10 DEF ApplyRead
  <2>2. PICK k \in 0 .. L : Reading(k)  BY <2>1 DEF TableExact
  <2>3. miner # NoAccount  BY <1>1, <2>1
  <2>4. k \in 1 .. L /\ k > 0 /\ Partial(k) /\ unread = Remaining(stored, k)
    BY <1>1, <2>2, <2>3 DEF Reading
  <2>5. Partial(k)'  BY <1>1, <2>1, <2>4, Continues
  <2>6. Reading(k)'  BY <2>1, <2>3, <2>4, <2>5 DEF Reading
  <2> QED  BY <2>1, <2>6 DEF TableExact
<1>11. CASE RewardRead
  <2>1. /\ phase = "replaying" /\ phase' = "replaying" /\ rest = <<>>
        /\ miner # NoAccount /\ miner' = NoAccount
        /\ UNCHANGED <<rest, stored, unread>>
        /\ info' = Table!Rewarded(info, miner)
    BY <1>11 DEF RewardRead
  <2>2. PICK k \in 0 .. L : Reading(k)  BY <2>1 DEF TableExact
  <2>3. k \in 1 .. L /\ Partial(k) /\ unread = Remaining(stored, k)
    BY <1>1, <2>1, <2>2 DEF Reading
  <2>4. info' = TableOf(stored, k)  BY <1>1, <2>1, <2>3, Ends
  <2>5. Reading(k)'  BY <2>1, <2>3, <2>4 DEF Reading
  <2> QED  BY <2>1, <2>5 DEF TableExact
<1>12. CASE Ready
  <2>1. /\ phase = "replaying" /\ phase' = "up" /\ miner = NoAccount
        /\ unread = <<>> /\ UNCHANGED <<info, stored>>
    BY <1>12 DEF Ready
  <2>2. PICK k \in 0 .. L : Reading(k)  BY <2>1 DEF TableExact
  <2>3. unread = Remaining(stored, k) /\ info = TableOf(stored, k)
    BY <2>1, <2>2 DEF Reading
  <2>4. k = L  BY <1>1, <2>1, <2>3, RemainingFacts
  <2> QED  BY <2>1, <2>3, <2>4 DEF TableExact
<1>13. CASE UNCHANGED vars
  <2>1. UNCHANGED <<info, phase, miner, rest, unread, stored>>  BY <1>13 DEF vars
  <2> QED  BY <2>1 DEF TableExact, Partial, Reading
<1> QED  BY <1>2, <1>3, <1>4, <1>5, <1>6, <1>7, <1>8, <1>9, <1>10, <1>11, <1>12,
            <1>13 DEF Next

\* What holds of a node as long as its file has no line too long to read.
Exact == ShortLines => DiskExact /\ TableExact

LEMMA ExactHolds == Spec => [](PhasesOK /\ Exact)
<1>1. Init => Idle /\ Exact
  <2> SUFFICES ASSUME Init PROVE Idle /\ DiskExact /\ TableExact
    BY DEF Exact
  <2>1. Idle /\ DiskExact  BY DEF Init, Idle, DiskExact
  <2>2. /\ phase = "up" /\ stored = <<>> /\ info = Table!Founded
    BY DEF Init
  <2>3. TableOf(stored, 0) = Table!Founded /\ Len(stored) = 0
    <3>1. stored \in Seq(Block) /\ Len(stored) = 0  BY <2>2
    <3> QED  BY <3>1, TableOfSteps
  <2> QED  BY <2>1, <2>2, <2>3 DEF TableExact
<1>2. Applying /\ PhasesOK /\ Idle /\ Exact /\ [Next]_vars => Exact'
  <2> SUFFICES ASSUME Applying, PhasesOK, Idle, Exact, [Next]_vars, ShortLines'
               PROVE  DiskExact' /\ TableExact'
    BY DEF Exact
  <2>1. ShortLines  BY ShortBefore
  <2>2. DiskExact /\ TableExact  BY <2>1 DEF Exact
  <2> QED  BY <2>1, <2>2, DiskStays, ExactStays
<1> QED  BY <1>1, <1>2, InitPhases, ApplyingHolds, IdleStays, PhasesStay, PTL DEF Spec

\* A node that is up has the account table that the blocks of its chain give when
\* they are applied in order to the genesis: however many blocks and refused
\* transactions there are, wherever it stopped, and whichever writes failed half-way.
\* The exception is a file with a line longer than the scanner of ReadAllBlocks takes.
THEOREM RestartsExactly == Spec => [](ShortLines => RestartExact)
<1>1. Exact /\ PhasesOK => (ShortLines => RestartExact)
  <2> SUFFICES ASSUME Exact, PhasesOK, ShortLines, phase = "up"
               PROVE  info = Replayed(stored)
    BY DEF RestartExact
  <2>1. info = TableOf(stored, Len(stored))  BY DEF Exact, TableExact
  <2>2. stored \in Seq(Block)  BY DEF PhasesOK
  <2> QED  BY <2>1, <2>2, TableOfSteps
<1> QED  BY <1>1, ExactHolds, PTL
=============================================================================
