----------------------------- MODULE SupplyProofs -----------------------------
(* Proofs that the money in the account table is what the genesis and the     *)
(* rewards account for, for every chain of blocks mined by third parties.     *)
EXTENDS ReplayProofs

\* Equal but for a multiple of the size of a uint.
Same(x, y) == \E k \in Int : x = y + UintSize * k

LEMMA SameRemainder ==
  ASSUME NEW x \in Int, NEW y \in Int, Same(x, y)
  PROVE  x % UintSize = y % UintSize
BY RemainderShift, TableAssumption DEF Same

LEMMA SameFacts ==
  /\ \A x \in Int : Same(x, x)
  /\ \A x, y, z \in Int : Same(x, y) /\ Same(y, z) => Same(x, z)
  /\ \A x, y, c \in Int : Same(x, y) => Same(x + c, y + c)
  /\ \A x \in Int : Same(Table!Wrap(x), x) /\ Table!Wrap(x) \in Int
<1>1. UintSize \in Nat \ {0}  BY TableAssumption
<1>2. ASSUME NEW x \in Int PROVE Same(x, x)
  <2>1. x = x + UintSize * 0  BY <1>1
  <2> QED  BY <2>1 DEF Same
<1>3. ASSUME NEW x \in Int, NEW y \in Int, NEW z \in Int, Same(x, y), Same(y, z)
      PROVE  Same(x, z)
  <2>1. PICK k \in Int : x = y + UintSize * k  BY <1>3 DEF Same
  <2>2. PICK l \in Int : y = z + UintSize * l  BY <1>3 DEF Same
  <2>3. x = z + UintSize * (k + l)  BY <1>1, <2>1, <2>2
  <2> QED  BY <2>3 DEF Same
<1>4. ASSUME NEW x \in Int, NEW y \in Int, NEW c \in Int, Same(x, y)
      PROVE  Same(x + c, y + c)
  <2>1. PICK k \in Int : x = y + UintSize * k  BY <1>4 DEF Same
  <2>2. x + c = (y + c) + UintSize * k  BY <1>1, <2>1
  <2> QED  BY <2>2 DEF Same
<1>5. ASSUME NEW x \in Int PROVE Same(Table!Wrap(x), x) /\ Table!Wrap(x) \in Int
  <2> DEFINE r == x % UintSize
  <2>1. PICK k \in Int : x = UintSize * k + r  BY <1>1, Quotient
  <2>2. r \in Int  BY <1>1, Quotient
  <2> HIDE DEF r
  <2>3. r = x + UintSize * (- k)  BY <1>1, <2>1, <2>2
  <2>4. - k \in Int  OBVIOUS
  <2> QED  BY <2>2, <2>3, <2>4 DEF Same, Table!Wrap, r
<1> QED  BY <1>2, <1>3, <1>4, <1>5

-----------------------------------------------------------------------------
(* The sum of the balances. *)

\* A table with finitely many entries.
Summed(m) == TableOK(m) /\ IsFiniteSet(DOMAIN m)

Balances(m) == [a \in DOMAIN m |-> m[a].balance]

LEMMA TotalAdds ==
  ASSUME NEW m, Summed(m)
  PROVE  \E f : Adds(f, DOMAIN m, Balances(m)) /\ Total(m) = f[DOMAIN m]
<1> DEFINE D == DOMAIN m
           v == Balances(m)
           Is(f) == f = [s \in SUBSET D |->
                             IF s = {} THEN 0
                             ELSE LET x == CHOOSE x \in s : TRUE
                                  IN  m[x].balance + f[s \ {x}]]
           it == CHOOSE f : Is(f)
<1>1. v \in [D -> Int]
  BY TableAssumption DEF Balances, Summed, TableOK, Table!Info, Table!Uint
<1>2. \A f : Is(f) <=> Sums(f, D, v)
  <2>1. \A s \in SUBSET D : AnyOf(D)[s] = CHOOSE x \in s : TRUE  BY DEF AnyOf
  <2>2. ASSUME NEW f, NEW s \in SUBSET D, s # {}
        PROVE  v[AnyOf(D)[s]] + f[s \ {AnyOf(D)[s]}]
                 = LET x == CHOOSE x \in s : TRUE IN m[x].balance + f[s \ {x}]
    <3>1. (CHOOSE x \in s : TRUE) \in D  BY <2>2
    <3> QED  BY <2>1, <3>1 DEF Balances
  <2>3. ASSUME NEW f PROVE Is(f) <=> Sums(f, D, v)
    <3> DEFINE One(s) == IF s = {} THEN 0
                         ELSE LET x == CHOOSE x \in s : TRUE
                              IN  m[x].balance + f[s \ {x}]
               Other(s) == IF s = {} THEN 0
                           ELSE v[AnyOf(D)[s]] + f[s \ {AnyOf(D)[s]}]
    <3>1. \A s \in SUBSET D : One(s) = Other(s)  BY <2>2
    <3>2. Is(f) <=> f = [s \in SUBSET D |-> One(s)]  OBVIOUS
    <3>3. Sums(f, D, v) <=> f = [s \in SUBSET D |-> Other(s)]  BY DEF Sums
    <3> HIDE DEF One, Other, Is
    <3> QED  BY <3>1, <3>2, <3>3
  <2> QED  BY <2>3
<1>3. IsFiniteSet(D)  BY DEF Summed
<1>4. Total(m) = it[D]
  BY DEF Total, MapThenSumSet, MapThenFoldSet
<1> HIDE DEF v, Is
<1>5. \E f : Is(f)  BY <1>1, <1>2, <1>3, SumsExist
<1>6. Sums(it, D, v)  BY <1>2, <1>5
<1> HIDE DEF it
<1>7. Adds(it, D, v)  BY <1>1, <1>3, <1>6, SumsOfFold
<1> QED  BY <1>4, <1>7 DEF v

LEMMA TotalType ==
  ASSUME NEW m, Summed(m)
  PROVE  Total(m) \in Int
<1>1. PICK f : Adds(f, DOMAIN m, Balances(m)) /\ Total(m) = f[DOMAIN m]  BY TotalAdds
<1> QED  BY <1>1 DEF Adds

\* Assigning one entry changes the sum by what it changes that entry.
LEMMA TotalAssign ==
  ASSUME NEW m, Summed(m), NEW a \in Account, NEW i \in Table!Info
  PROVE  /\ Summed(Table!Assign(m, a, i))
         /\ Total(Table!Assign(m, a, i)) =
              Total(m) - Table!Lookup(m, a).balance + i.balance
<1> DEFINE n == Table!Assign(m, a, i)
           D == DOMAIN m
           v == Balances(m)
           w == Balances(n)
<1>1. TableOK(n)  BY AssignKeeps DEF Summed
<1>2. /\ DOMAIN n = D \cup {a} /\ n[a] = i
      /\ \A x \in D : x # a => n[x] = m[x]
  BY DEF Table!Assign
<1>3. IsFiniteSet(D)  BY DEF Summed
<1>4. IsFiniteSet(DOMAIN n)  BY <1>2, <1>3, FS_AddElement
<1>5. Summed(n)  BY <1>1, <1>4 DEF Summed
<1> HIDE DEF n
<1>6. w[a] = i.balance /\ \A x \in D : x # a => w[x] = v[x]
  BY <1>2 DEF Balances
<1>7. a \in D => v[a] = m[a].balance  BY DEF Balances
<1>8. PICK f : Adds(f, D, v) /\ Total(m) = f[D]  BY TotalAdds
<1>9. PICK g : Adds(g, DOMAIN n, w) /\ Total(n) = g[DOMAIN n]  BY <1>5, TotalAdds
<1> HIDE DEF D, v, w
<1>10. Adds(g, D \cup {a}, w) /\ Total(n) = g[D \cup {a}]  BY <1>2, <1>9
<1>11. Total(n) = f[D] - (IF a \in D THEN v[a] ELSE 0) + w[a]
  BY <1>3, <1>6, <1>8, <1>10, SumChanged
<1>12. Table!Lookup(m, a).balance = IF a \in D THEN v[a] ELSE 0
  BY <1>7 DEF Table!Lookup, Table!NoInfo, D
<1> QED  BY <1>5, <1>6, <1>8, <1>11, <1>12 DEF n

LEMMA LookupOK ==
  ASSUME NEW m, Summed(m), NEW a
  PROVE  Table!Lookup(m, a) \in Table!Info /\ Table!Lookup(m, a).balance \in Int
<1>1. Table!Lookup(m, a) \in Table!Info
  BY TableAssumption
  DEF Summed, TableOK, Table!Lookup, Table!NoInfo, Table!Info, Table!Uint
<1> QED  BY <1>1, TableAssumption DEF Table!Info, Table!Uint

\* Setting the balance of an account to its old one and a wrapped amount adds that
\* amount to the sum, in uints.
LEMMA TotalMoved ==
  ASSUME NEW m, Summed(m), NEW a \in Account, NEW i \in Table!Info, NEW amount \in Int,
         i.balance = Table!Wrap(Table!Lookup(m, a).balance + amount)
  PROVE  /\ Summed(Table!Assign(m, a, i))
         /\ Same(Total(Table!Assign(m, a, i)), Total(m) + amount)
<1> DEFINE n == Table!Assign(m, a, i)
           b == Table!Lookup(m, a).balance
<1>1. b \in Int  BY LookupOK
<1>2. Total(m) \in Int  BY TotalType
<1>3. Summed(n) /\ Total(n) = Total(m) - b + i.balance  BY TotalAssign
<1> HIDE DEF n, b
<1>4. Same(i.balance, b + amount) /\ i.balance \in Int
  <2>1. b + amount \in Int  BY <1>1
  <2>2. i.balance = Table!Wrap(b + amount)  BY DEF b
  <2> QED  BY <2>1, <2>2, SameFacts
<1>5. Same(i.balance + (Total(m) - b), b + amount + (Total(m) - b))
  <2>1. Total(m) - b \in Int /\ b + amount \in Int  BY <1>1, <1>2
  <2> QED  BY <1>4, <2>1, SameFacts
<1>6. /\ i.balance + (Total(m) - b) = Total(n)
      /\ b + amount + (Total(m) - b) = Total(m) + amount
  BY <1>1, <1>2, <1>3, <1>4
<1> QED  BY <1>3, <1>5, <1>6 DEF n

LEMMA RewardAdds ==
  ASSUME NEW m, Summed(m), NEW a \in Account
  PROVE  /\ Summed(Table!Rewarded(m, a))
         /\ Same(Total(Table!Rewarded(m, a)), Total(m) + MiningReward)
<1> DEFINE i == Table!Credited(m, a, MiningReward)
<1>1. MiningReward \in Int  BY TableAssumption DEF Table!Uint
<1>2. i \in Table!Info  BY <1>1, CreditKeeps DEF Summed
<1>3. i.balance = Table!Wrap(Table!Lookup(m, a).balance + MiningReward)
  BY DEF Table!Credited
<1> HIDE DEF i
<1>4. /\ Summed(Table!Assign(m, a, i))
      /\ Same(Total(Table!Assign(m, a, i)), Total(m) + MiningReward)
  BY <1>1, <1>2, <1>3, TotalMoved
<1> QED  BY <1>4 DEF Table!Rewarded, i

\* A transaction that a third party mines, applied or refused, adds nothing.
LEMMA AppliedAdds ==
  ASSUME NEW m, Summed(m), NEW a \in Account, NEW tx \in Tx, a \notin {tx.from, tx.to}
  PROVE  /\ Summed(Table!Applied(m, a, tx))
         /\ Same(Total(Table!Applied(m, a, tx)), Total(m))
<1>1. CASE Table!Rejects(m, tx)
  <2>1. Table!Applied(m, a, tx) = m  BY <1>1 DEF Table!Applied
  <2>2. Total(m) \in Int  BY TotalType
  <2> QED  BY <2>1, <2>2, SameFacts
<1>2. CASE ~Table!Rejects(m, tx)
  <2> DEFINE fee == Table!Fee(tx)
             d == Table!Debited(m, tx)
             c == Table!Credited(m, tx.to, tx.value)
             e == Table!Credited(m, a, fee)
             m1 == Table!Assign(m, tx.from, d)
             m2 == Table!Assign(m1, tx.to, c)
             m3 == Table!Assign(m2, a, e)
  <2>1. tx.from \in Account /\ tx.to \in Account /\ tx.from # tx.to
    BY <1>2, TableAssumption DEF Table!Rejects
  <2>2. fee \in Int /\ tx.value \in Int /\ tx.nonce \in Table!Uint
    <3>1. tx.gas + tx.tip \in Int /\ tx.value \in Int /\ tx.nonce \in Table!Uint
      BY TableAssumption DEF Table!Uint
    <3>2. fee \in Table!Uint  BY <3>1, WrapType DEF Table!Fee
    <3> QED  BY <3>1, <3>2, TableAssumption DEF Table!Uint
  <2>3. Table!Applied(m, a, tx) = m3
    BY <1>2 DEF Table!Applied, Table!Transferred
  <2> HIDE DEF fee
  <2>4. c \in Table!Info /\ e \in Table!Info
    BY <2>2, CreditKeeps DEF Summed
  <2>5. /\ d \in Table!Info
        /\ d.balance =
             Table!Wrap(Table!Lookup(m, tx.from).balance + (- tx.value - fee))
    <3>1. Table!Lookup(m, tx.from).balance \in Int  BY LookupOK
    <3>2. /\ Table!Lookup(m, tx.from).balance - tx.value - fee \in Int
          /\ Table!Lookup(m, tx.from).balance - tx.value - fee
               = Table!Lookup(m, tx.from).balance + (- tx.value - fee)
      BY <2>2, <3>1
    <3>3. d = [balance |-> Table!Wrap(Table!Lookup(m, tx.from).balance - tx.value - fee),
               nonce   |-> tx.nonce]
      BY DEF Table!Debited, fee
    <3> QED  BY <2>2, <3>2, <3>3, WrapType DEF Table!Info
  <2>6. /\ c.balance = Table!Wrap(Table!Lookup(m, tx.to).balance + tx.value)
        /\ e.balance = Table!Wrap(Table!Lookup(m, a).balance + fee)
    BY DEF Table!Credited
  <2>7. /\ Table!Lookup(m1, tx.to) = Table!Lookup(m, tx.to)
        /\ Table!Lookup(m2, a) = Table!Lookup(m, a)
    <3> HIDE DEF c, d
    <3> QED  BY <2>1 DEF Table!Lookup, Table!Assign
  <2> HIDE DEF c, d, e
  <2>8. Summed(m1) /\ Same(Total(m1), Total(m) + (- tx.value - fee))
    <3>1. - tx.value - fee \in Int  BY <2>2
    <3> QED  BY <2>1, <2>5, <3>1, TotalMoved
  <2> HIDE DEF m1
  <2>9. Summed(m2) /\ Same(Total(m2), Total(m1) + tx.value)
    BY <2>1, <2>2, <2>4, <2>6, <2>7, <2>8, TotalMoved
  <2> HIDE DEF m2
  <2>10. Summed(m3) /\ Same(Total(m3), Total(m2) + fee)
    BY <2>2, <2>4, <2>6, <2>7, <2>9, TotalMoved
  <2> HIDE DEF m3
  <2> DEFINE t == Total(m)
             t1 == Total(m1)
             t2 == Total(m2)
             t3 == Total(m3)
  <2>11. t \in Int /\ t1 \in Int /\ t2 \in Int /\ t3 \in Int
    BY <2>8, <2>9, <2>10, TotalType
  <2>12. /\ Same(t1, t + (- tx.value - fee)) /\ Same(t2, t1 + tx.value)
         /\ Same(t3, t2 + fee)
    BY <2>8, <2>9, <2>10
  <2> HIDE DEF t, t1, t2, t3
  <2>13. Same(t1 + (tx.value + fee), t)
    <3> DEFINE x == t + (- tx.value - fee)
               y == tx.value + fee
    <3>1. x \in Int /\ y \in Int /\ x + y = t  BY <2>2, <2>11
    <3>2. Same(t1, x)  BY <2>12
    <3> HIDE DEF x, y
    <3>3. Same(t1 + y, x + y)  BY <2>11, <3>1, <3>2, SameFacts
    <3> QED  BY <3>1, <3>3 DEF y
  <2>14. Same(t2 + fee, t1 + (tx.value + fee))
    <3>1. t1 + tx.value \in Int /\ t1 + tx.value + fee = t1 + (tx.value + fee)
      BY <2>2, <2>11
    <3>2. Same(t2 + fee, t1 + tx.value + fee)  BY <2>2, <2>11, <2>12, <3>1, SameFacts
    <3> QED  BY <3>1, <3>2
  <2>15. Same(t3, t)
    <3>1. t2 + fee \in Int /\ t1 + (tx.value + fee) \in Int  BY <2>2, <2>11
    <3>2. Same(t2 + fee, t)  BY <2>11, <2>13, <2>14, <3>1, SameFacts
    <3> QED  BY <2>11, <2>12, <3>1, <3>2, SameFacts
  <2> QED  BY <2>3, <2>10, <2>15 DEF t, t3
<1> QED  BY <1>1, <1>2

-----------------------------------------------------------------------------
(* The sum over the blocks of a chain. *)

\* The transactions of a block, the first j of them or all, add nothing; the block
\* adds the reward.
LEMMA BlockAdds ==
  ASSUME NEW m, Summed(m), NEW b \in Block, ByThirdParty(b)
  PROVE  /\ \A j \in 0 .. Len(b.txs) :
              Total(After(m, b, j)) \in Int /\ Same(Total(After(m, b, j)), Total(m))
         /\ Summed(BlockApplied(m, b))
         /\ Same(Total(BlockApplied(m, b)), Total(m) + MiningReward)
<1> DEFINE L == Len(b.txs)
           Right(n) == Summed(n) /\ Same(Total(n), Total(m))
           T == {j \in 0 .. L : Right(After(m, b, j))}
<1>1. /\ b.miner \in Account /\ L \in Nat /\ \A i \in 1 .. L : b.txs[i] \in Tx
      /\ \A i \in 1 .. L : b.miner \notin {b.txs[i].from, b.txs[i].to}
  <2>1. b.miner \in Account /\ b.txs \in Seq(Tx)  BY BlockFields
  <2> QED  BY <2>1, LenProperties, ElementOfSeq DEF ByThirdParty
<1>2. /\ After(m, b, 0) = m
      /\ \A j \in 0 .. L - 1 :
           After(m, b, j + 1) = Table!Applied(After(m, b, j), b.miner, b.txs[j + 1])
      /\ BlockApplied(m, b) = Table!Rewarded(After(m, b, L), b.miner)
  BY AfterSteps DEF Summed
<1>3. Total(m) \in Int /\ Right(m)
  <2>1. Total(m) \in Int  BY TotalType
  <2> QED  BY <2>1, SameFacts
<1> HIDE DEF L
<1>4. 0 \in T  BY <1>1, <1>2, <1>3
<1>5. ASSUME NEW j \in 1 .. L, j - 1 \in T PROVE j \in T
  <2> DEFINE i == j - 1
             n == After(m, b, i)
             r == After(m, b, i + 1)
  <2>1. i \in 0 .. L - 1 /\ i + 1 = j /\ j \in 0 .. L  BY <1>1
  <2>2. Right(n)  BY <1>5
  <2> HIDE DEF i
  <2>3. r = Table!Applied(n, b.miner, b.txs[i + 1])  BY <1>2, <2>1
  <2>4. b.txs[i + 1] \in Tx /\ b.miner \notin {b.txs[i + 1].from, b.txs[i + 1].to}
    BY <1>1, <2>1
  <2> HIDE DEF n, r
  <2>5. Summed(r) /\ Same(Total(r), Total(n))  BY <1>1, <2>2, <2>3, <2>4, AppliedAdds
  <2>6. Total(r) \in Int /\ Total(n) \in Int  BY <2>2, <2>5, TotalType
  <2>7. Same(Total(r), Total(m))  BY <1>3, <2>2, <2>5, <2>6, SameFacts
  <2>8. Right(After(m, b, j))  BY <2>1, <2>5, <2>7 DEF r
  <2> HIDE DEF Right
  <2> QED  BY <2>1, <2>8
<1>6. \A j \in T : Right(After(m, b, j))  OBVIOUS
<1> HIDE DEF T
<1>7. 0 .. L \subseteq T  BY <1>1, <1>4, <1>5, BoundedInduction
<1>8. \A j \in 0 .. L : Right(After(m, b, j))  BY <1>6, <1>7
<1>9. \A j \in 0 .. L :
        Total(After(m, b, j)) \in Int /\ Same(Total(After(m, b, j)), Total(m))
  BY <1>8, TotalType
<1>10. /\ Summed(BlockApplied(m, b))
       /\ Same(Total(BlockApplied(m, b)), Total(m) + MiningReward)
  <2> DEFINE n == After(m, b, L)
             r == BlockApplied(m, b)
  <2>1. L \in 0 .. L  BY <1>1
  <2>2. Right(n)  BY <1>8, <2>1
  <2>3. r = Table!Rewarded(n, b.miner)  BY <1>2
  <2> HIDE DEF n, r
  <2>4. Summed(r) /\ Same(Total(r), Total(n) + MiningReward)
    BY <1>1, <2>2, <2>3, RewardAdds
  <2>5. Total(r) \in Int /\ Total(n) \in Int /\ MiningReward \in Int
    BY <2>2, <2>4, TotalType, TableAssumption DEF Table!Uint
  <2>6. Same(Total(n) + MiningReward, Total(m) + MiningReward)
    BY <1>3, <2>2, <2>5, SameFacts
  <2>7. /\ Total(n) + MiningReward \in Int /\ Total(m) + MiningReward \in Int
    BY <1>3, <2>5
  <2>8. Same(Total(r), Total(m) + MiningReward)
    BY <2>4, <2>5, <2>6, <2>7, SameFacts
  <2> QED  BY <2>4, <2>8 DEF r
<1> QED  BY <1>9, <1>10 DEF L

LEMMA FoundedSummed == Summed(Table!Founded)
<1>1. DOMAIN Table!Founded = DOMAIN GenesisBalances  BY DEF Table!Founded
<1> QED  BY <1>1, FoundedOK, TableAssumption DEF Summed

\* What the genesis and k rewards come to.
Owed(k) == Total(Table!Founded) + k * MiningReward

LEMMA OwedType == \A k \in Int : Owed(k) \in Int /\ Owed(k + 1) = Owed(k) + MiningReward
<1>1. Total(Table!Founded) \in Int  BY FoundedSummed, TotalType
<1>2. MiningReward \in Int  BY TableAssumption DEF Table!Uint
<1>3. ASSUME NEW k \in Int
      PROVE  k * MiningReward \in Int /\ (k + 1) * MiningReward = k * MiningReward + MiningReward
  BY <1>2
<1> QED  BY <1>1, <1>2, <1>3 DEF Owed

LEMMA ChainAdds ==
  ASSUME NEW s \in Seq(Block), \A i \in DOMAIN s : ByThirdParty(s[i])
  PROVE  \A k \in 0 .. Len(s) :
           Summed(TableOf(s, k)) /\ Same(Total(TableOf(s, k)), Owed(k))
<1> DEFINE L == Len(s)
           Right(k) == Summed(TableOf(s, k)) /\ Same(Total(TableOf(s, k)), Owed(k))
           T == {k \in 0 .. L : Right(k)}
<1>1. L \in Nat /\ \A i \in 1 .. L : s[i] \in Block /\ ByThirdParty(s[i])
  BY LenProperties, ElementOfSeq
<1>2. /\ TableOf(s, 0) = Table!Founded
      /\ \A k \in 0 .. L - 1 : TableOf(s, k + 1) = BlockApplied(TableOf(s, k), s[k + 1])
  BY TableOfSteps
<1> HIDE DEF L
<1>3. 0 \in T
  <2>1. Owed(0) = Total(Table!Founded)
    <3>1. Total(Table!Founded) \in Int /\ MiningReward \in Int
      BY FoundedSummed, TotalType, TableAssumption DEF Table!Uint
    <3> QED  BY <3>1 DEF Owed
  <2>2. Same(Owed(0), Owed(0))  BY OwedType, SameFacts
  <2>3. Right(0)  BY <1>2, <2>1, <2>2, FoundedSummed
  <2> HIDE DEF Right
  <2> QED  BY <1>1, <2>3
<1>4. ASSUME NEW k \in 1 .. L, k - 1 \in T PROVE k \in T
  <2> DEFINE i == k - 1
             n == TableOf(s, i)
             r == TableOf(s, i + 1)
  <2>1. i \in 0 .. L - 1 /\ i + 1 = k /\ k \in 0 .. L /\ i \in Int  BY <1>1
  <2>2. Summed(n) /\ Same(Total(n), Owed(i))  BY <1>4
  <2> HIDE DEF i
  <2>3. r = BlockApplied(n, s[i + 1])  BY <1>2, <2>1
  <2>4. s[i + 1] \in Block /\ ByThirdParty(s[i + 1])  BY <1>1, <2>1
  <2> HIDE DEF n, r
  <2>5. Summed(r) /\ Same(Total(r), Total(n) + MiningReward)
    BY <2>2, <2>3, <2>4, BlockAdds
  <2>6. /\ Total(r) \in Int /\ Total(n) \in Int /\ MiningReward \in Int
        /\ Owed(i) \in Int /\ Owed(i + 1) \in Int
        /\ Owed(i) + MiningReward = Owed(i + 1)
    <3>1. MiningReward \in Int  BY TableAssumption DEF Table!Uint
    <3>2. i + 1 \in Int  BY <2>1
    <3> QED  BY <2>1, <2>2, <2>5, <3>1, <3>2, TotalType, OwedType
  <2>7. Same(Total(n) + MiningReward, Owed(i + 1))
    <3>1. Same(Total(n) + MiningReward, Owed(i) + MiningReward)
      BY <2>2, <2>6, SameFacts
    <3> QED  BY <2>6, <3>1
  <2>8. Same(Total(r), Owed(i + 1))
    <3>1. Total(n) + MiningReward \in Int  BY <2>6
    <3> QED  BY <2>5, <2>6, <2>7, <3>1, SameFacts
  <2>9. Right(k)  BY <2>1, <2>5, <2>8 DEF r
  <2> HIDE DEF Right
  <2> QED  BY <2>1, <2>9
<1>5. \A k \in T : Right(k)  OBVIOUS
<1> HIDE DEF T, Right
<1>6. 0 .. L \subseteq T  BY <1>1, <1>3, <1>4, BoundedInduction
<1> QED  BY <1>5, <1>6 DEF L, Right

-----------------------------------------------------------------------------
\* The sum of a chain of which k blocks are finished and the next perhaps begun.
LEMMA PartialAdds ==
  ASSUME stored \in Seq(Block), \A i \in DOMAIN stored : ByThirdParty(stored[i]),
         NEW k \in 1 .. Len(stored), Partial(k)
  PROVE  Total(info) \in Int /\ Same(Total(info), Owed(k - 1))
<1> DEFINE i == k - 1
           b == stored[k]
           m == TableOf(stored, i)
<1>1. i \in 0 .. Len(stored) /\ i \in Int  BY LenProperties
<1>2. b \in Block /\ ByThirdParty(b)  BY ElementOfSeq
<1>3. PICK j \in 0 .. Len(b.txs) : info = After(m, b, j)  BY DEF Partial
<1> HIDE DEF i, b
<1>4. Summed(m) /\ Same(Total(m), Owed(i))  BY <1>1, ChainAdds
<1> HIDE DEF m
<1>5. Total(info) \in Int /\ Same(Total(info), Total(m))
  BY <1>2, <1>3, <1>4, BlockAdds
<1>6. Total(m) \in Int /\ Owed(i) \in Int  BY <1>1, <1>4, TotalType, OwedType
<1>7. Same(Total(info), Owed(i))  BY <1>4, <1>5, <1>6, SameFacts
<1> QED  BY <1>5, <1>7 DEF i

\* At every step, the middle of a block and of a restart included, the balances sum
\* up to the genesis and the rewards of the finished blocks, in uints, when no block
\* was mined by a party to one of its transactions: for every genesis, every reward,
\* every width of uint and every chain a node can read back.
THEOREM SupplyIsAccounted == Spec => [](ShortLines => SupplyAccounted)
<1>1. Applying /\ PhasesOK /\ Exact => (ShortLines => SupplyAccounted)
  <2> SUFFICES ASSUME Applying, PhasesOK, TableExact,
                      phase \in {"up", "storing", "replaying"},
                      \A i \in DOMAIN stored : ByThirdParty(stored[i])
               PROVE  Total(info) % UintSize =
                        (Total(Table!Founded) + Finished * MiningReward) % UintSize
    BY DEF Exact, SupplyAccounted
  <2> DEFINE L == Len(stored)
  <2>1. stored \in Seq(Block) /\ L \in Nat  BY LenProperties DEF PhasesOK
  <2>2. ASSUME NEW k \in 0 .. L, info = TableOf(stored, k)
        PROVE  Total(info) \in Int /\ Same(Total(info), Owed(k))
    <3>1. Summed(TableOf(stored, k)) /\ Same(Total(TableOf(stored, k)), Owed(k))
      BY <2>1, ChainAdds
    <3> QED  BY <2>2, <3>1, TotalType
  <2>3. \E k \in Int : k = Finished /\ Total(info) \in Int /\ Same(Total(info), Owed(k))
    <3>1. CASE phase = "up"
      <4>1. L \in 0 .. L /\ Finished = L /\ L \in Int  BY <2>1, <3>1 DEF Finished
      <4>2. info = TableOf(stored, L)  BY <3>1 DEF TableExact
      <4> QED  BY <2>2, <4>1, <4>2
    <3>2. CASE phase = "storing"
      <4>1. L \in 1 .. L /\ Partial(L)  BY <2>1, <3>2 DEF TableExact
      <4>2. Finished = L - 1 /\ L - 1 \in Int  BY <2>1, <3>2 DEF Finished
      <4> QED  BY <2>1, <4>1, <4>2, PartialAdds
    <3>3. CASE phase = "replaying"
      <4>1. PICK k \in 0 .. L : Reading(k)  BY <3>3 DEF TableExact
      <4>2. Len(unread) = L - k
        <5>1. unread = SubSeq(stored, k + 1, L)  BY <4>1 DEF Reading, Remaining
        <5>2. \A i \in k + 1 .. L : stored[i] \in Block  BY <2>1, ElementOfSeq
        <5> QED  BY <2>1, <5>1, <5>2
      <4>3. CASE miner = NoAccount
        <5>1. Finished = k /\ k \in Int  BY <2>1, <3>3, <4>2, <4>3 DEF Finished
        <5>2. info = TableOf(stored, k)  BY <4>1, <4>3 DEF Reading
        <5> QED  BY <2>2, <5>1, <5>2
      <4>4. CASE miner # NoAccount
        <5>1. Finished = k - 1 /\ k - 1 \in Int
          BY <2>1, <3>3, <4>2, <4>4 DEF Finished
        <5>2. k \in 1 .. L /\ Partial(k)  BY <2>1, <4>1, <4>4 DEF Reading
        <5> QED  BY <2>1, <5>1, <5>2, PartialAdds
      <4> QED  BY <4>3, <4>4
    <3> QED  BY <3>1, <3>2, <3>3
  <2>4. PICK k \in Int :
          k = Finished /\ Total(info) \in Int /\ Same(Total(info), Owed(k))
    BY <2>3
  <2>5. Owed(k) \in Int  BY OwedType
  <2>6. Total(info) % UintSize = Owed(k) % UintSize  BY <2>4, <2>5, SameRemainder
  <2> QED  BY <2>4, <2>6 DEF Owed
<1> QED  BY <1>1, ApplyingHolds, ExactHolds, PTL
=============================================================================
