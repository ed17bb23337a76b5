--------------------------- MODULE AccountsProofs ---------------------------
(* Proofs about the account table, for every set of accounts, every set of  *)
(* transactions, every genesis and every width of uint.                     *)
EXTENDS Accounts, Recursion

-----------------------------------------------------------------------------
(* Arithmetic of uints. *)

\* A wrapped integer is a uint.
LEMMA WrapIsUint == \A n \in Int : Wrap(n) \in Uint
BY UintAssumption DEF Wrap, Uint

\* What wrapping forgets is a whole multiple of the size.
LEMMA WrapQuotient ==
  ASSUME NEW n \in Int
  PROVE  \E k \in Int : n = UintSize * k + Wrap(n)
BY UintAssumption, Quotient DEF Wrap

\* Wrapping forgets nothing but whole multiples of the size.
LEMMA WrapShift ==
  ASSUME NEW n \in Int, NEW k \in Int
  PROVE  Wrap(n + UintSize * k) = Wrap(n)
BY UintAssumption, RemainderShift DEF Wrap

-----------------------------------------------------------------------------
\* A table of entries: what TypeOK says of info.
Table(m) == DOMAIN m \subseteq Account /\ m \in [DOMAIN m -> Info]

LEMMA LookupType ==
  ASSUME NEW m, Table(m), NEW a
  PROVE  Lookup(m, a) \in Info
BY UintAssumption DEF Table, Lookup, NoInfo, Info, Uint

LEMMA AssignType ==
  ASSUME NEW m, Table(m), NEW a \in Account, NEW i \in Info
  PROVE  Table(Assign(m, a, i))
BY DEF Table, Assign

\* Reading back what a map assignment wrote.
LEMMA LookupAssign ==
  ASSUME NEW m, NEW a, NEW i, NEW b
  PROVE  Lookup(Assign(m, a, i), b) = IF b = a THEN i ELSE Lookup(m, b)
BY DEF Lookup, Assign

LEMMA FeeType ==
  ASSUME NEW tx \in Tx
  PROVE  Fee(tx) \in Uint
<1>1. tx.gas + tx.tip \in Int  BY TxAssumption, UintAssumption DEF Uint
<1> QED  BY <1>1, WrapIsUint DEF Fee

LEMMA CreditedType ==
  ASSUME NEW m, Table(m), NEW a, NEW amount \in Int
  PROVE  /\ Credited(m, a, amount) \in Info
         /\ Credited(m, a, amount).nonce = Lookup(m, a).nonce
<1>1. Lookup(m, a) \in Info  BY LookupType
<1>2. Lookup(m, a).balance + amount \in Int
  BY <1>1, UintAssumption DEF Info, Uint
<1> QED  BY <1>1, <1>2, WrapIsUint DEF Credited, Info

LEMMA DebitedType ==
  ASSUME NEW m, Table(m), NEW tx \in Tx
  PROVE  Debited(m, tx) \in Info
<1>1. Lookup(m, tx.from) \in Info  BY LookupType
<1>2. Lookup(m, tx.from).balance - tx.value - Fee(tx) \in Int
  BY <1>1, FeeType, TxAssumption, UintAssumption DEF Info, Uint
<1>3. tx.nonce \in Uint  BY TxAssumption
<1> QED  BY <1>2, <1>3, WrapIsUint DEF Debited, Info

-----------------------------------------------------------------------------
(* Each operation keeps the table well formed. *)

LEMMA FoundedType == Table(Founded)
BY GenesisAssumption, UintAssumption DEF Table, Founded, Info, Uint

LEMMA TransferredType ==
  ASSUME NEW m, Table(m), NEW miner \in Account, NEW tx \in Tx,
         ~Rejects(m, tx)
  PROVE  Table(Transferred(m, miner, tx))
<1>1. tx.from \in Account /\ tx.to \in Account
  BY TxAssumption DEF Rejects
<1>2. /\ Debited(m, tx) \in Info
      /\ Credited(m, tx.to, tx.value) \in Info
      /\ Credited(m, miner, Fee(tx)) \in Info
  BY DebitedType, CreditedType, FeeType, TxAssumption, UintAssumption DEF Uint
<1> QED  BY <1>1, <1>2, AssignType DEF Transferred

LEMMA RewardedType ==
  ASSUME NEW m, Table(m), NEW miner \in Account
  PROVE  Table(Rewarded(m, miner))
<1>1. Credited(m, miner, MiningReward) \in Info
  BY CreditedType, GenesisAssumption, UintAssumption DEF Uint
<1> QED  BY <1>1, AssignType DEF Rewarded

\* The table keeps its shape, in every state of the specification.
THEOREM TypeCorrect == Spec => []TypeOK
<1>1. Init => TypeOK  BY FoundedType DEF Init, TypeOK, Table
<1>2. TypeOK /\ [Next]_info => TypeOK'
  <2> SUFFICES ASSUME TypeOK, [Next]_info PROVE TypeOK'
    OBVIOUS
  <2>1. Table(info)  BY DEF TypeOK, Table
  <2>2. ASSUME NEW miner \in Account, NEW tx \in Tx,
               ApplyTransaction(miner, tx)
        PROVE  Table(info')
    BY <2>1, <2>2, TransferredType DEF ApplyTransaction
  <2>3. ASSUME NEW miner \in Account, ApplyMiningReward(miner)
        PROVE  Table(info')
    BY <2>1, <2>3, RewardedType DEF ApplyMiningReward
  <2>4. CASE Reset  BY <2>4, FoundedType DEF Reset, TypeOK, Table
  <2>5. ASSUME NEW a \in Account, Remove(a) PROVE Table(info')
    BY <2>1, <2>5 DEF Remove, Table
  <2>6. CASE UNCHANGED info  BY <2>6 DEF TypeOK
  <2> QED  BY <2>2, <2>3, <2>4, <2>5, <2>6 DEF Next, TypeOK, Table
<1> QED  BY <1>1, <1>2, PTL DEF Spec

-----------------------------------------------------------------------------
\* Applying a transaction lowers no nonce, whichever of the three parties are
\* the same account.
LEMMA TransferKeepsNonces ==
  ASSUME NEW m, Table(m), NEW miner \in Account, NEW tx \in Tx,
         ~Rejects(m, tx), NEW a
  PROVE  NonceOf(m, a) <= NonceOf(Transferred(m, miner, tx), a)
<1>1. /\ Lookup(m, tx.from) \in Info
      /\ Lookup(m, a) \in Info
  BY LookupType
<1>2. /\ Lookup(m, tx.from).nonce \in Int
      /\ Lookup(m, a).nonce \in Int
      /\ tx.nonce \in Int
  BY <1>1, TxAssumption, UintAssumption DEF Info, Uint
<1>3. Lookup(m, tx.from).nonce <= Debited(m, tx).nonce
  BY <1>2 DEF Rejects, Debited
<1>4. /\ Credited(m, tx.to, tx.value).nonce = Lookup(m, tx.to).nonce
      /\ Credited(m, miner, Fee(tx)).nonce = Lookup(m, miner).nonce
  BY DEF Credited
<1>5. Lookup(Transferred(m, miner, tx), a) =
        IF a = miner THEN Credited(m, miner, Fee(tx))
        ELSE IF a = tx.to THEN Credited(m, tx.to, tx.value)
        ELSE IF a = tx.from THEN Debited(m, tx)
        ELSE Lookup(m, a)
  BY LookupAssign DEF Transferred
<1> QED  BY <1>2, <1>3, <1>4, <1>5 DEF NonceOf

\* No step but a reset or a removal lowers the nonce of an account.
THEOREM NoncesNeverFall == Spec => NonceNeverFalls
<1> DEFINE Rises ==
      \/ Reset
      \/ \E a \in Account : Remove(a)
      \/ \A a \in Account : NonceOf(info, a) <= NonceOf(info', a)
<1>1. TypeOK /\ [Next]_info => [Rises]_info
  <2> SUFFICES ASSUME TypeOK, Next PROVE Rises
    OBVIOUS
  <2>1. Table(info)  BY DEF TypeOK, Table
  <2>2. ASSUME NEW miner \in Account, NEW tx \in Tx,
               ApplyTransaction(miner, tx)
        PROVE  Rises
    BY <2>1, <2>2, TransferKeepsNonces DEF ApplyTransaction
  <2>3. ASSUME NEW miner \in Account, ApplyMiningReward(miner) PROVE Rises
    <3>1. ASSUME NEW a \in Account
          PROVE  NonceOf(info', a) = NonceOf(info, a)
      BY <2>3, LookupAssign DEF ApplyMiningReward, Rewarded, Credited, NonceOf
    <3>2. ASSUME NEW a \in Account PROVE NonceOf(info, a) \in Int
      BY <2>1, LookupType, UintAssumption DEF NonceOf, Info, Uint
    <3> QED  BY <3>1, <3>2
  <2> QED  BY <2>2, <2>3 DEF Next
<1> QED  BY <1>1, TypeCorrect, PTL DEF Spec, NonceNeverFalls

-----------------------------------------------------------------------------
\* Three uints that take part in a transfer keep their sum, modulo the size.
SumKept(f, t, c, v, e) ==
  Wrap(Wrap(f - v - e) + Wrap(t + v) + Wrap(c + e)) = Wrap(f + t + c)

LEMMA TransferSum ==
  ASSUME NEW f \in Int, NEW t \in Int, NEW c \in Int, NEW v \in Int, NEW e \in Int
  PROVE  SumKept(f, t, c, v, e)
<1> DEFINE a == f - v - e
           b == t + v
           d == c + e
<1>1. PICK i \in Int : a = UintSize * i + Wrap(a)  BY WrapQuotient
<1>2. PICK j \in Int : b = UintSize * j + Wrap(b)  BY WrapQuotient
<1>3. PICK k \in Int : d = UintSize * k + Wrap(d)  BY WrapQuotient
<1>4. Wrap(a) \in Int /\ Wrap(b) \in Int /\ Wrap(d) \in Int
  BY WrapIsUint, UintAssumption DEF Uint
<1>5. a + b + d = f + t + c  OBVIOUS
<1> HIDE DEF a, b, d
<1> DEFINE s == Wrap(a) + Wrap(b) + Wrap(d)
           n == i + j + k
<1>6. UintSize * n = UintSize * i + UintSize * j + UintSize * k
  BY UintAssumption
<1>7. f + t + c = s + UintSize * n
  BY <1>1, <1>2, <1>3, <1>4, <1>5, <1>6, UintAssumption
<1>8. s \in Int /\ n \in Int  BY <1>4
<1> HIDE DEF s, n
<1>9. Wrap(f + t + c) = Wrap(s)  BY <1>7, <1>8, WrapShift
<1> QED  BY <1>9 DEF s, a, b, d, SumKept

LEMMA TransferBalances ==
  ASSUME NEW m, Table(m), NEW miner \in Account, NEW tx \in Tx,
         ~Rejects(m, tx), miner \notin {tx.from, tx.to}
  PROVE  Wrap(BalanceOf(Transferred(m, miner, tx), tx.from)
                + BalanceOf(Transferred(m, miner, tx), tx.to)
                + BalanceOf(Transferred(m, miner, tx), miner)) =
           Wrap(BalanceOf(m, tx.from) + BalanceOf(m, tx.to)
                  + BalanceOf(m, miner))
<1>1. tx.from # tx.to  BY DEF Rejects
<1>2. /\ BalanceOf(Transferred(m, miner, tx), tx.from) =
           Wrap(BalanceOf(m, tx.from) - tx.value - Fee(tx))
      /\ BalanceOf(Transferred(m, miner, tx), tx.to) =
           Wrap(BalanceOf(m, tx.to) + tx.value)
      /\ BalanceOf(Transferred(m, miner, tx), miner) =
           Wrap(BalanceOf(m, miner) + Fee(tx))
  BY <1>1, LookupAssign DEF Transferred, Debited, Credited, BalanceOf
<1>3. /\ BalanceOf(m, tx.from) \in Int
      /\ BalanceOf(m, tx.to) \in Int
      /\ BalanceOf(m, miner) \in Int
  BY LookupType, UintAssumption DEF BalanceOf, Info, Uint
<1>4. tx.value \in Int /\ Fee(tx) \in Int
  BY FeeType, TxAssumption, UintAssumption DEF Uint
<1>5. SumKept(BalanceOf(m, tx.from), BalanceOf(m, tx.to), BalanceOf(m, miner),
              tx.value, Fee(tx))
  BY <1>3, <1>4, TransferSum
<1> QED  BY <1>2, <1>5 DEF SumKept

\* Every transfer a third party mines conserves the money of its parties.
THEOREM TransfersConserve == Spec => TransferConserves
<1> DEFINE Conserves ==
      \A miner \in Account, tx \in Tx :
        ApplyTransaction(miner, tx) /\ miner \notin {tx.from, tx.to} =>
          /\ Wrap(BalanceOf(info', tx.from) + BalanceOf(info', tx.to)
                    + BalanceOf(info', miner)) =
               Wrap(BalanceOf(info, tx.from) + BalanceOf(info, tx.to)
                    + BalanceOf(info, miner))
          /\ \A a \in Account \ {tx.from, tx.to, miner} :
               Lookup(info', a) = Lookup(info, a)
<1>1. TypeOK => Conserves
  <2> SUFFICES ASSUME TypeOK, NEW miner \in Account, NEW tx \in Tx,
                      ApplyTransaction(miner, tx),
                      miner \notin {tx.from, tx.to}
               PROVE  /\ Wrap(BalanceOf(info', tx.from) + BalanceOf(info', tx.to)
                                + BalanceOf(info', miner)) =
                           Wrap(BalanceOf(info, tx.from) + BalanceOf(info, tx.to)
                                + BalanceOf(info, miner))
                      /\ \A a \in Account \ {tx.from, tx.to, miner} :
                           Lookup(info', a) = Lookup(info, a)
    OBVIOUS
  <2>1. Table(info)  BY DEF TypeOK, Table
  <2>2. ~Rejects(info, tx) /\ info' = Transferred(info, miner, tx)
    BY DEF ApplyTransaction
  <2>3. ASSUME NEW a \in Account \ {tx.from, tx.to, miner}
        PROVE  Lookup(info', a) = Lookup(info, a)
    BY <2>2, <2>3, LookupAssign DEF Transferred
  <2> QED  BY <2>1, <2>2, <2>3, TransferBalances
<1>2. TypeOK => [Conserves]_info  BY <1>1
<1> QED  BY <1>2, TypeCorrect, PTL DEF Spec, TransferConserves
=============================================================================
