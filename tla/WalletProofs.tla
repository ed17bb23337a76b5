----------------------------- MODULE WalletProofs -----------------------------
(* Proofs about the browser wallet, for any number of accounts, requests,     *)
(* clicks, blocks and mining operations, whatever the user enters and          *)
(* whatever is lost on the way.                                                *)
EXTENDS Wallet, Recursion, SequenceTheorems, FiniteSetTheorems, TLAPS

-----------------------------------------------------------------------------
(* Sequences.                                                                *)

LEMMA RemoveAtFacts ==
  ASSUME NEW S, NEW s \in Seq(S), NEW i \in 1 .. Len(s)
  PROVE  /\ RemoveAt(s, i) \in Seq(S)
         /\ Len(RemoveAt(s, i)) = Len(s) - 1
         /\ \A j \in 1 .. Len(s) - 1 :
              RemoveAt(s, i)[j] = IF j < i THEN s[j] ELSE s[j + 1]
<1> DEFINE front == SubSeq(s, 1, i - 1)
           back == SubSeq(s, i + 1, Len(s))
<1>1. Len(s) \in Nat  OBVIOUS
<1>2. front \in Seq(S) /\ Len(front) = i - 1
  <2>1. \A j \in 1 .. i - 1 : s[j] \in S  BY <1>1, ElementOfSeq
  <2> QED  BY <1>1, <2>1, SubSeqProperties
<1>3. back \in Seq(S) /\ Len(back) = Len(s) - i
  <2>1. \A j \in i + 1 .. Len(s) : s[j] \in S  BY <1>1, ElementOfSeq
  <2> QED  BY <1>1, <2>1, SubSeqProperties
<1>4. \A j \in 1 .. i - 1 : front[j] = s[j]  BY <1>1, SubSeqProperties
<1>5. \A j \in 1 .. Len(s) - i : back[j] = s[i + j]  BY <1>1, SubSeqProperties
<1>6. RemoveAt(s, i) = front \o back  BY DEF RemoveAt
<1> HIDE DEF front, back
<1>7. /\ front \o back \in Seq(S)
      /\ Len(front \o back) = Len(front) + Len(back)
      /\ \A j \in 1 .. Len(front) + Len(back) :
           (front \o back)[j] = IF j <= Len(front) THEN front[j] ELSE back[j - Len(front)]
  BY <1>2, <1>3, ConcatProperties
<1>8. Len(front) + Len(back) = Len(s) - 1  BY <1>1, <1>2, <1>3
<1>9. ASSUME NEW j \in 1 .. Len(s) - 1
      PROVE  (front \o back)[j] = IF j < i THEN s[j] ELSE s[j + 1]
  <2>1. (front \o back)[j] = IF j <= i - 1 THEN front[j] ELSE back[j - (i - 1)]
    BY <1>2, <1>7, <1>8
  <2>2. CASE j < i
    <3>1. j <= i - 1 /\ j \in 1 .. i - 1  BY <2>2, <1>1
    <3> QED  BY <3>1, <2>1, <2>2, <1>4
  <2>3. CASE ~(j < i)
    <3>1. j - (i - 1) \in 1 .. Len(s) - i /\ ~(j <= i - 1)  BY <2>3, <1>1
    <3>2. back[j - (i - 1)] = s[i + (j - (i - 1))]  BY <3>1, <1>5
    <3>3. i + (j - (i - 1)) = j + 1  BY <1>1
    <3> QED  BY <2>1, <2>3, <3>1, <3>2, <3>3
  <2> QED  BY <2>2, <2>3
<1> QED  BY <1>6, <1>7, <1>8, <1>9

\* Nothing but the element removed is lost, and nothing is added.
LEMMA RemoveAtElements ==
  ASSUME NEW S, NEW s \in Seq(S), NEW i \in 1 .. Len(s)
  PROVE  /\ \A j \in DOMAIN RemoveAt(s, i) :
              \E k \in DOMAIN s : RemoveAt(s, i)[j] = s[k]
         /\ \A k \in DOMAIN s :
              k # i => \E j \in DOMAIN RemoveAt(s, i) : RemoveAt(s, i)[j] = s[k]
<1> DEFINE r == RemoveAt(s, i)
<1>1. /\ r \in Seq(S) /\ Len(r) = Len(s) - 1 /\ Len(s) \in Nat
      /\ \A j \in 1 .. Len(s) - 1 : r[j] = IF j < i THEN s[j] ELSE s[j + 1]
  BY RemoveAtFacts
<1> HIDE DEF r
<1>2. DOMAIN r = 1 .. Len(s) - 1 /\ DOMAIN s = 1 .. Len(s)  BY <1>1
<1>3. ASSUME NEW j \in DOMAIN r PROVE \E k \in DOMAIN s : r[j] = s[k]
  <2>1. CASE j < i  BY <2>1, <1>1, <1>2
  <2>2. CASE ~(j < i)
    <3>1. j + 1 \in DOMAIN s /\ r[j] = s[j + 1]  BY <2>2, <1>1, <1>2
    <3> QED  BY <3>1
  <2> QED  BY <2>1, <2>2
<1>4. ASSUME NEW k \in DOMAIN s, k # i PROVE \E j \in DOMAIN r : r[j] = s[k]
  <2>1. CASE k < i
    <3>1. k \in DOMAIN r /\ r[k] = s[k]  BY <2>1, <1>1, <1>2
    <3> QED  BY <3>1
  <2>2. CASE ~(k < i)
    <3>1. k - 1 \in 1 .. Len(s) - 1 /\ ~(k - 1 < i) /\ (k - 1) + 1 = k
      BY <2>2, <1>1, <1>2, <1>4
    <3>2. r[k - 1] = s[k]  BY <3>1, <1>1
    <3> QED  BY <3>1, <3>2, <1>2
  <2> QED  BY <2>1, <2>2
<1> QED  BY <1>3, <1>4 DEF r

-----------------------------------------------------------------------------
(* The functions of the page and of the node keep their types.               *)

\* The tables and the states of the node, as sets.
Tables == UNION {[known -> Info] : known \in SUBSET Address}
Node == [info : Tables, pool : SUBSET PoolTx, mined : [Account -> Nat]]

LEMMA TableType ==
  ASSUME NEW m
  PROVE  m \in Tables <=> DOMAIN m \subseteq Address /\ m \in [DOMAIN m -> Info]
BY DEF Tables

LEMMA NodeType ==
  ASSUME NEW n
  PROVE  IsNode(n) <=> n \in Node /\ IsFiniteSet(n.pool)
<1>1. ASSUME IsNode(n) PROVE n \in Node /\ IsFiniteSet(n.pool)
  <2>1. n.info \in Tables  BY <1>1, TableType DEF IsNode
  <2> QED  BY <1>1, <2>1 DEF IsNode, Node
<1>2. ASSUME n \in Node, IsFiniteSet(n.pool) PROVE IsNode(n)
  <2>1. n.info \in Tables  BY <1>2 DEF Node
  <2>2. DOMAIN n.info \subseteq Address /\ n.info \in [DOMAIN n.info -> Info]
    BY <2>1, TableType
  <2> QED  BY <1>2, <2>2 DEF IsNode, Node
<1> QED  BY <1>1, <1>2

LEMMA PageFunctions ==
  ASSUME NEW p \in Page
  PROVE  /\ ShowMessage(p) \in Page
         /\ ShowConfirmation(p) \in Page
         /\ CloseModal(p) \in Page
         /\ Load(p) \in Page
         /\ \A body : HandleAjaxError(p, body) \in Page
BY DEF Page, ShowMessage, ShowConfirmation, CloseModal, Load, HandleAjaxError

\* What the functions of the page leave alone.
LEMMA PageFunctionsKeep ==
  ASSUME NEW p \in Page
  PROVE  \A q \in {ShowMessage(p), ShowConfirmation(p), CloseModal(p), Load(p)} \cup
                  {HandleAjaxError(p, body) : body \in BOOLEAN} :
           /\ q.label = p.label /\ q.amount = p.amount /\ q.tip = p.tip
           /\ q.nonce = p.nonce \/ (q.nonce = 0 /\ p.label = "CONNECTED")
           /\ q.from = p.from
BY ZenonT(30) DEF Page, ShowMessage, ShowConfirmation, CloseModal, Load, HandleAjaxError

LEMMA LoadNonce ==
  ASSUME NEW p \in Page, p.label = "CONNECTED"
  PROVE  Load(p).nonce = 0 /\ ~Load(p).confirm /\ ~Load(p).message
BY DEF Page, CloseModal, Load

LEMMA InfoOfKnown ==
  ASSUME NEW n \in Node, NEW a \in Known(n)
  PROVE  n.info[a] \in Info
<1>1. n.info \in Tables  BY DEF Node
<1> QED  BY <1>1, TableType DEF Known

LEMMA MinusType ==
  ASSUME NEW number \in Number, NEW amount
  PROVE  Minus(number, amount) \in Number
BY DEF Minus, Number

LEMMA FromBalanceType ==
  ASSUME NEW p \in Page, NEW n \in Node, NEW c
  PROVE  FromBalance(p, c, n) \in Page
<1>1. CASE c.account \notin Known(n)  BY <1>1 DEF FromBalance
<1>2. CASE c.account \in Known(n)
  <2> DEFINE i == n.info[c.account]
             next == IF p.nonce = 0 THEN i.nonce + 1 ELSE p.nonce
  <2>1. i \in Info  BY <1>2, InfoOfKnown
  <2>2. i.balance \in Int /\ i.nonce \in Nat /\ i.nonce \in Int  BY <2>1 DEF Info
  <2>3. p.nonce \in Nat  BY DEF Page
  <2>4. next \in Nat /\ next \in Int
    <3> HIDE DEF i
    <3> QED  BY <2>2, <2>3
  <2>5. FromBalance(p, c, n) = [p EXCEPT !.frombal = i.balance, !.fromnonce = i.nonce,
                                         !.nonce = next, !.nextnonce = next]
    BY <1>2 DEF FromBalance
  <2> HIDE DEF i, next
  <2> QED  BY <2>2, <2>4, <2>5 DEF Page, Number
<1> QED  BY <1>1, <1>2

LEMMA ToBalanceType ==
  ASSUME NEW p \in Page, NEW n \in Node, NEW c
  PROVE  ToBalance(p, c, n) \in Page
<1>1. CASE c.account \notin Known(n)  BY <1>1 DEF ToBalance
<1>2. CASE c.account \in Known(n)
  <2>1. n.info[c.account] \in Info  BY <1>2, InfoOfKnown
  <2>2. n.info[c.account].balance \in Int  BY <2>1 DEF Info
  <2> QED  BY <1>2, <2>2 DEF ToBalance, Page, Number
<1> QED  BY <1>1, <1>2

LEMMA TransactionsType ==
  ASSUME NEW p \in Page, NEW n \in Node, NEW c, c.account \in Account
  PROVE  Transactions(p, c, n) \in Page
<1>1. n.mined[c.account] \in Nat  BY DEF Node
<1> QED  BY <1>1 DEF Transactions, Page

LEMMA MempoolType ==
  ASSUME NEW p \in Page, NEW n \in Node, IsFiniteSet(n.pool), NEW c,
         NEW next \in Highest({p.nonce} \cup {t.nonce + 1 : t \in OwnPool(n, c.account)})
  PROVE  Mempool(p, c, n, next) \in Page /\ next >= p.nonce
<1>1. n.pool \subseteq PoolTx  BY DEF Node
<1>2. next \in Nat /\ next \in Int /\ next >= p.nonce
  <2>1. p.nonce \in Nat  BY DEF Page
  <2>2. \A t \in OwnPool(n, c.account) : t.nonce + 1 \in Nat  BY <1>1 DEF OwnPool, PoolTx, BlockTx
  <2>3. next \in {p.nonce} \cup {t.nonce + 1 : t \in OwnPool(n, c.account)}
    BY DEF Highest
  <2>4. next \in Nat  BY <2>1, <2>2, <2>3
  <2>5. p.nonce <= next  BY DEF Highest
  <2> QED  BY <2>1, <2>4, <2>5
<1>3. Cardinality(Involving(n, c.account)) \in Nat
  <2>1. IsFiniteSet(Involving(n, c.account))  BY FS_Subset DEF Involving
  <2> QED  BY <2>1, FS_CardinalityType
<1>4. Minus(p.frombal, Pending(n, c.account)) \in Number  BY MinusType DEF Page
<1>5. p.frombal \in Number /\ p.nextnonce \in Number /\ next \in Number
  BY <1>2 DEF Page, Number
<1> DEFINE own == OwnPool(n, c.account)
           pending == Pending(n, c.account)
           memp == Cardinality(Involving(n, c.account))
           nextnonce == IF next = p.nonce THEN p.nextnonce ELSE next
           frombal == IF own = {} THEN p.frombal ELSE Minus(p.frombal, pending)
<1>6. Mempool(p, c, n, next) = [p EXCEPT !.nonce = next, !.nextnonce = nextnonce,
                                         !.frombal = frombal, !.memp = memp]
  BY DEF Mempool
<1>7. nextnonce \in Number /\ frombal \in Number /\ memp \in Nat
  BY <1>3, <1>4, <1>5
<1> HIDE DEF nextnonce, frombal, memp
<1> QED  BY ZenonT(30), <1>2, <1>6, <1>7 DEF Page

LEMMA ShownType ==
  ASSUME NEW p \in Page, NEW n \in Node, IsFiniteSet(n.pool), NEW c \in Read,
         NEW q \in Shown(p, c, n)
  PROVE  q \in Page
<1>1. c.account \in Account /\ c.op \in {"fromBalance", "toBalance", "transactions", "mempool"}
  BY DEF Read
<1>2. CASE c.op = "fromBalance"  BY <1>2, FromBalanceType DEF Shown
<1>3. CASE c.op = "toBalance"  BY <1>3, ToBalanceType DEF Shown
<1>4. CASE c.op = "transactions"  BY <1>1, <1>4, TransactionsType DEF Shown
<1>5. CASE c.op = "mempool"
  <2>1. PICK next \in Highest({p.nonce} \cup {t.nonce + 1 : t \in OwnPool(n, c.account)}) :
          q = Mempool(p, c, n, next)
    BY <1>5 DEF Shown
  <2> QED  BY <2>1, MempoolType
<1> QED  BY <1>1, <1>2, <1>3, <1>4, <1>5

LEMMA UpsertType ==
  ASSUME NEW n \in Node, IsFiniteSet(n.pool), NEW tx \in PoolTx
  PROVE  Upsert(n, tx) \in Node /\ IsFiniteSet(Upsert(n, tx).pool)
<1> DEFINE kept == {t \in n.pool : ~SameKey(t, tx)}
<1>1. n.pool \subseteq PoolTx  BY DEF Node
<1>2. kept \cup {tx} \subseteq PoolTx  BY <1>1
<1>3. IsFiniteSet(kept \cup {tx})
  <2>1. IsFiniteSet(kept)  BY FS_Subset
  <2> QED  BY <2>1, FS_AddElement
<1>4. Upsert(n, tx) = [n EXCEPT !.pool = kept \cup {tx}]  BY DEF Upsert
<1> HIDE DEF kept
<1> QED  BY <1>2, <1>3, <1>4 DEF Node

-----------------------------------------------------------------------------
(* What a block does to the account table (module Accounts).                 *)

LEMMA WrapType == \A k \in Int : Table!Wrap(k) \in Int
BY NodeAssumption DEF Table!Wrap

LEMMA LookupType ==
  ASSUME NEW m \in Tables, NEW a
  PROVE  Table!Lookup(m, a) \in Info
<1>1. m \in [DOMAIN m -> Info]  BY TableType
<1> QED  BY <1>1 DEF Table!Lookup, Table!NoInfo, Info

LEMMA AssignType ==
  ASSUME NEW m \in Tables, NEW a \in Address, NEW i \in Info
  PROVE  Table!Assign(m, a, i) \in Tables
<1> DEFINE r == Table!Assign(m, a, i)
<1>1. DOMAIN m \subseteq Address /\ m \in [DOMAIN m -> Info]  BY TableType
<1>2. DOMAIN r \subseteq Address /\ r \in [DOMAIN r -> Info]
  BY <1>1 DEF Table!Assign
<1> QED  BY <1>2, TableType

LEMMA CreditedType ==
  ASSUME NEW m \in Tables, NEW a, NEW amount \in Int
  PROVE  Table!Credited(m, a, amount) \in Info
<1>1. Table!Lookup(m, a) \in Info  BY LookupType
<1>2. Table!Lookup(m, a).balance + amount \in Int  BY <1>1 DEF Info
<1> QED  BY <1>1, <1>2, WrapType DEF Table!Credited, Info

LEMMA AppliedType ==
  ASSUME NEW m \in Tables, NEW miner \in Address, NEW tx \in BlockTx
  PROVE  Table!Applied(m, miner, tx) \in Tables
<1>1. CASE Table!Rejects(m, tx)  BY <1>1 DEF Table!Applied
<1>2. CASE ~Table!Rejects(m, tx)
  <2>1. tx.from \in Address /\ tx.to \in Address
    BY <1>2 DEF BlockTx, Table!Rejects
  <2>2. tx.value \in Int /\ tx.nonce \in Nat /\ tx.gas + tx.tip \in Int  BY DEF BlockTx
  <2>3. Table!Fee(tx) \in Int  BY <2>2, WrapType DEF Table!Fee
  <2>4. Table!Lookup(m, tx.from).balance - tx.value - Table!Fee(tx) \in Int
    <3>1. Table!Lookup(m, tx.from).balance \in Int  BY LookupType DEF Info
    <3> QED  BY <2>2, <2>3, <3>1
  <2>5. Table!Debited(m, tx) \in Info  BY <2>2, <2>4, WrapType DEF Table!Debited, Info
  <2>6. /\ Table!Credited(m, tx.to, tx.value) \in Info
        /\ Table!Credited(m, miner, Table!Fee(tx)) \in Info
    BY <2>2, <2>3, CreditedType
  <2>7. Table!Transferred(m, miner, tx) \in Tables
    BY <2>1, <2>5, <2>6, AssignType DEF Table!Transferred
  <2> QED  BY <1>2, <2>7 DEF Table!Applied
<1> QED  BY <1>1, <1>2

LEMMA RewardedType ==
  ASSUME NEW m \in Tables, NEW miner \in Address
  PROVE  Table!Rewarded(m, miner) \in Tables
<1>1. MiningReward \in Int  BY NodeAssumption
<1> QED  BY <1>1, CreditedType, AssignType DEF Table!Rewarded

\* The tables between the transactions of a block: Applied is defined by recursion.
LEMMA TablesBetween ==
  ASSUME NEW m \in Tables, NEW miner \in Address, NEW txs \in Seq(BlockTx)
  PROVE  Applied(m, miner, txs) \in [0 .. Len(txs) -> Tables]
<1> DEFINE N == Len(txs)
           Step(f) == [k \in 0 .. N |->
             IF k = 0 THEN m ELSE Table!Applied(f[k - 1], miner, txs[k])]
           G == [kt \in (1 .. N) \X Tables |-> Table!Applied(kt[2], miner, txs[kt[1]])]
           table == CHOOSE f : f = Step(f)
<1>1. N \in Nat /\ \A k \in 1 .. N : txs[k] \in BlockTx
  BY ElementOfSeq, LenProperties
<1>2. G \in [(1 .. N) \X Tables -> Tables]  BY <1>1, AppliedType
<1>3. \E f : f = Step(f)
  <2>1. PICK f \in [0 .. N -> Tables] : Iterates(f, N, m, G)
    <3> HIDE DEF G, N
    <3> QED  BY <1>1, <1>2, BoundedRecursion
  <2>2. ASSUME NEW k \in 0 .. N PROVE f[k] = Step(f)[k]
    <3>1. CASE k = 0  BY <2>1, <3>1 DEF Iterates
    <3>2. CASE k # 0
      <4>1. k \in 1 .. N /\ k - 1 \in 0 .. N  BY <1>1, <3>2
      <4>2. f[k] = G[<<k, f[k - 1]>>] /\ f[k - 1] \in Tables
        BY <2>1, <4>1 DEF Iterates
      <4>3. G[<<k, f[k - 1]>>] = Table!Applied(f[k - 1], miner, txs[k])  BY <4>1, <4>2
      <4> QED  BY <3>2, <4>2, <4>3
    <3> QED  BY <3>1, <3>2
  <2>3. f = Step(f)  BY <2>1, <2>2
  <2> QED  BY <2>3
<1>4. table = Step(table)  BY <1>3
<1>5. Applied(m, miner, txs) = table  BY DEF Applied
<1> HIDE DEF table
<1> DEFINE T == {k \in 0 .. N : table[k] \in Tables}
<1>6. 0 \in T  BY <1>1, <1>4
<1>7. ASSUME NEW k \in 1 .. N, k - 1 \in T PROVE k \in T
  <2>1. table[k] = Table!Applied(table[k - 1], miner, txs[k])  BY <1>1, <1>4
  <2> QED  BY <1>1, <1>7, <2>1, AppliedType
<1>8. 0 .. N \subseteq T
  <2> HIDE DEF T, N
  <2> QED  BY <1>1, <1>6, <1>7, BoundedInduction
<1>9. DOMAIN table = 0 .. N /\ \A k \in 0 .. N : table[k] \in Tables  BY <1>4, <1>8
<1>10. table = [k \in 0 .. N |-> table[k]]  BY <1>4
<1> QED  BY <1>5, <1>9, <1>10

LEMMA StoredType ==
  ASSUME NEW n \in Node, IsFiniteSet(n.pool), NEW miner \in Address,
         NEW txs \in Seq(BlockTx)
  PROVE  Stored(n, miner, txs) \in Node /\ IsFiniteSet(Stored(n, miner, txs).pool)
<1> DEFINE b == Stored(n, miner, txs)
<1>1. /\ n.info \in Tables /\ n.pool \subseteq PoolTx
      /\ \A a \in Account : n.mined[a] + 1 \in Nat /\ n.mined[a] + 0 \in Nat
  BY DEF Node
<1>2. Len(txs) \in Nat /\ Applied(n.info, miner, txs)[Len(txs)] \in Tables
  <2>1. Len(txs) \in 0 .. Len(txs)  BY LenProperties
  <2> QED  BY <1>1, <2>1, TablesBetween
<1>3. b.info \in Tables  BY <1>2, RewardedType DEF Stored
<1>4. b.pool \subseteq n.pool  BY DEF Stored
<1>5. b.mined \in [Account -> Nat]  BY <1>1 DEF Stored
<1>6. b = [info |-> b.info, pool |-> b.pool, mined |-> b.mined]  BY DEF Stored
<1> HIDE DEF b
<1>7. IsFiniteSet(b.pool)  BY <1>4, FS_Subset
<1>8. b \in Node  BY <1>1, <1>3, <1>4, <1>5, <1>6 DEF Node
<1> QED  BY <1>7, <1>8 DEF b

-----------------------------------------------------------------------------
(* The inductive invariant.                                                  *)

\* What the check of submitTran lets through.
Checked(amount, tip) == IsPositive(amount) /\ (tip = 0 \/ IsPositive(tip))

\* What may be under way when the node has been in that many states.
Request(length) ==
  {c \in Read : c.since <= length} \cup
  {c \in Submission : Checked(c.tx.value, c.tx.tip)}

PastOK ==
  /\ past \in Seq(Node) /\ past # <<>>
  /\ \A k \in DOMAIN past : IsFiniteSet(past[k].pool)

\* The label says whether the socket is open; only an open one has messages; until
\* it is, nothing is asked; an open confirmation covers entries that were checked.
IInv ==
  /\ page \in Page
  /\ PastOK
  /\ calls \in Seq(Request(Len(past)))
  /\ socket \in {"connecting", "open", "closed"}
  /\ inbox \in Seq({"MINING", "completed"})
  /\ mining \in BOOLEAN /\ quiet \in BOOLEAN /\ misses \in Nat
  /\ page.label # "NOT CONNECTED" <=> socket = "open"
  /\ inbox # <<>> => socket = "open"
  /\ socket = "connecting" => page.nonce = 0 /\ calls = <<>> /\ ~page.confirm
  /\ page.confirm => Checked(page.amount, page.tip)

LEMMA NodeOfPast ==
  ASSUME PastOK
  PROVE  Len(past) \in Nat \ {0} /\ node \in Node /\ IsFiniteSet(node.pool)
<1>1. past \in Seq(Node) /\ past # <<>>  BY DEF PastOK
<1>2. Len(past) \in Nat \ {0} /\ DOMAIN past = 1 .. Len(past)
  BY <1>1, EmptySeq, LenProperties
<1>3. Len(past) \in DOMAIN past  BY <1>2
<1>4. past[Len(past)] \in Node  BY <1>1, <1>2, ElementOfSeq
<1>5. IsFiniteSet(past[Len(past)].pool)  BY <1>3 DEF PastOK
<1> QED  BY <1>2, <1>4, <1>5 DEF node

LEMMA CallsType ==
  ASSUME IInv, NEW i \in DOMAIN calls
  PROVE  /\ calls[i] \in Request(Len(past))
         /\ calls[i].op # "submit" => calls[i] \in Read
         /\ calls[i].op = "submit" => calls[i] \in Submission
         /\ i \in 1 .. Len(calls) /\ Len(calls) \in Nat
<1>1. calls[i] \in Request(Len(past)) /\ i \in 1 .. Len(calls) /\ Len(calls) \in Nat
  <2>1. calls \in Seq(Request(Len(past)))  BY DEF IInv
  <2> QED  BY <2>1, ElementOfSeq, LenProperties
<1>2. calls[i] \in Read \/ calls[i] \in Submission  BY <1>1 DEF Request
<1> QED  BY <1>1, <1>2 DEF Read, Submission

LEMMA InvariantImplies == IInv => TypeOK /\ SubmittedWasChecked
<1> SUFFICES ASSUME IInv PROVE TypeOK /\ SubmittedWasChecked
  OBVIOUS
<1>1. calls \in Seq(Read \cup Submission)
  <2>1. Request(Len(past)) \subseteq Read \cup Submission  BY DEF Request
  <2> QED  BY <2>1, SeqMonotonic DEF IInv
<1>2. ASSUME NEW i \in DOMAIN calls, calls[i] \in Read PROVE calls[i].since <= Len(past)
  <2>1. calls[i] \notin Submission  BY <1>2 DEF Read, Submission
  <2> QED  BY <1>2, <2>1, CallsType DEF Request
<1>3. ASSUME NEW i \in DOMAIN calls, calls[i].op = "submit"
      PROVE  Checked(calls[i].tx.value, calls[i].tx.tip)
  <2>1. calls[i] \notin Read  BY <1>3 DEF Read
  <2> QED  BY <1>3, <2>1, CallsType DEF Request
<1>4. ASSUME NEW k \in 1 .. Len(past) PROVE IsNode(past[k])
  <2>1. past \in Seq(Node)  BY DEF IInv, PastOK
  <2>2. k \in DOMAIN past /\ past[k] \in Node  BY <2>1, ElementOfSeq, LenProperties
  <2> QED  BY <2>2, NodeType DEF IInv, PastOK
<1> QED
  BY <1>1, <1>2, <1>3, <1>4 DEF IInv, PastOK, TypeOK, SubmittedWasChecked, Checked

LEMMA InitInvariant == Init => IInv
<1> SUFFICES ASSUME Init PROVE IInv
  OBVIOUS
<1>1. PICK n \in InitialNode : past = <<n>>  BY DEF Init
<1>2. n \in Node /\ IsFiniteSet(n.pool)  BY NodeAssumption, NodeType
<1>3. PastOK  BY <1>1, <1>2 DEF PastOK
<1>4. page \in Page
  <2>1. NaN \in Number /\ 0 \in Entry /\ 0 \in Nat  BY DEF Number, Entry
  <2> QED  BY <2>1, MenuAssumption DEF Init, Page
<1>5. page.label = "NOT CONNECTED" /\ page.nonce = 0 /\ ~page.confirm  BY DEF Init
<1>6. \A S : <<>> \in Seq(S)  BY EmptySeq
<1> QED  BY <1>3, <1>4, <1>5, <1>6 DEF Init, IInv

LEMMA LoadCallsType ==
  ASSUME NEW p \in Page, PastOK
  PROVE  LoadCalls(p) \in Seq(Request(Len(past)))
<1> DEFINE R == Request(Len(past))
<1>1. Len(past) \in Nat \ {0}  BY NodeOfPast
<1>2. p.from \in Account /\ p.to \in Account  BY DEF Page
<1>3. \A op \in {"fromBalance", "toBalance", "transactions", "mempool"}, a \in Account :
        Ask(op, a) \in R
  BY <1>1 DEF Ask, Read, Request
<1> HIDE DEF R
<1>4. <<Ask("fromBalance", p.from), Ask("toBalance", p.to),
        Ask("transactions", p.from), Ask("mempool", p.from)>> \in Seq(R)
  BY <1>2, <1>3
<1>5. <<>> \in Seq(R)  BY EmptySeq
<1> QED  BY <1>4, <1>5 DEF LoadCalls, R

LEMMA ReloadStep ==
  ASSUME PastOK, NEW p \in Page, NEW rest \in Seq(Request(Len(past))), Reload(p, rest)
  PROVE  /\ page' \in Page
         /\ calls' \in Seq(Request(Len(past)))
         /\ quiet' \in BOOLEAN
         /\ page'.label = p.label /\ page'.amount = p.amount /\ page'.tip = p.tip
         /\ page'.confirm => p.confirm
<1>1. page' = Load(p) /\ calls' = rest \o LoadCalls(p)  BY DEF Reload
<1>2. calls' \in Seq(Request(Len(past)))  BY <1>1, LoadCallsType, ConcatProperties
<1>3. quiet' \in BOOLEAN  BY DEF Reload
<1>4. Load(p).confirm => p.confirm  BY DEF Load, ShowMessage, CloseModal, Page
<1> QED  BY <1>1, <1>2, <1>3, <1>4, PageFunctions, PageFunctionsKeep

\* Reads and submissions that are taken from those under way.
LEMMA RemovedCall ==
  ASSUME IInv, NEW i \in DOMAIN calls
  PROVE  RemoveAt(calls, i) \in Seq(Request(Len(past)))
<1>1. calls \in Seq(Request(Len(past)))  BY DEF IInv
<1> QED  BY <1>1, CallsType, RemoveAtFacts

LEMMA OpenInvariant == ASSUME IInv, Open PROVE IInv'
<1> DEFINE p == [page EXCEPT !.label = "CONNECTED"]
<1>1. p \in Page /\ p.label = "CONNECTED" /\ p.confirm = page.confirm
  BY DEF IInv, Page
<1>2. Reload(p, calls) /\ past' = past  BY DEF Open
<1>3. ~p.confirm  BY <1>1 DEF IInv, Open
<1> HIDE DEF p
<1>4. /\ page' \in Page /\ calls' \in Seq(Request(Len(past))) /\ quiet' \in BOOLEAN
      /\ page'.label = "CONNECTED" /\ ~page'.confirm
  BY <1>1, <1>2, <1>3, ReloadStep DEF IInv
<1> QED  BY <1>2, <1>4 DEF IInv, PastOK, Open

LEMMA DisconnectedInvariant ==
  ASSUME IInv, NEW p \in Page, p.label = "NOT CONNECTED", Disconnected(p),
         p.confirm = page.confirm, p.amount = page.amount, p.tip = page.tip
  PROVE  IInv'
<1>1. <<>> \in Seq({"MINING", "completed"})  BY EmptySeq
<1> QED  BY <1>1 DEF IInv, PastOK, Disconnected

LEMMA CloseInvariant == ASSUME IInv, Close \/ Error PROVE IInv'
<1> DEFINE p == [page EXCEPT !.label = "NOT CONNECTED"]
<1>1. /\ p \in Page /\ p.label = "NOT CONNECTED" /\ p.confirm = page.confirm
      /\ p.amount = page.amount /\ p.tip = page.tip
  BY DEF IInv, Page
<1>2. Disconnected(p) \/ Disconnected(ShowMessage(p))  BY DEF Close, Error
<1> HIDE DEF p
<1>3. ShowMessage(p).confirm = p.confirm  BY <1>1 DEF ShowMessage, Page
<1>4. /\ ShowMessage(p) \in Page /\ ShowMessage(p).label = p.label
      /\ ShowMessage(p).amount = p.amount /\ ShowMessage(p).tip = p.tip
  BY <1>1, PageFunctions, PageFunctionsKeep
<1> QED  BY <1>1, <1>2, <1>3, <1>4, DisconnectedInvariant

LEMMA MessageInvariant == ASSUME IInv, Message PROVE IInv'
<1>1. inbox' \in Seq({"MINING", "completed"})
  BY HeadTailProperties DEF IInv, Message
<1>2. socket = "open" /\ socket' = "open" /\ past' = past /\ misses' = misses /\ mining' = mining
  BY DEF IInv, Message
<1>3. CASE Reload([page EXCEPT !.label = "CONNECTED"], calls)
  <2> DEFINE p == [page EXCEPT !.label = "CONNECTED"]
  <2>1. /\ p \in Page /\ p.label = "CONNECTED" /\ p.confirm = page.confirm
        /\ p.amount = page.amount /\ p.tip = page.tip
    BY DEF IInv, Page
  <2>2. Reload(p, calls)  BY <1>3
  <2> HIDE DEF p
  <2>3. /\ page' \in Page /\ calls' \in Seq(Request(Len(past))) /\ quiet' \in BOOLEAN
        /\ page'.label = "CONNECTED"
        /\ page'.confirm => page.confirm
        /\ page'.amount = page.amount /\ page'.tip = page.tip
    BY <2>1, <2>2, ReloadStep DEF IInv
  <2> QED  BY <1>1, <1>2, <2>3 DEF IInv, PastOK
<1>4. CASE page' = [page EXCEPT !.label = "MINING..."] /\ UNCHANGED <<calls, quiet>>
  <2>1. /\ page' \in Page /\ page'.label = "MINING..." /\ page'.confirm = page.confirm
        /\ page'.amount = page.amount /\ page'.tip = page.tip
    BY <1>4 DEF IInv, Page
  <2> QED  BY <1>1, <1>2, <1>4, <2>1 DEF IInv, PastOK
<1> QED  BY <1>3, <1>4 DEF Message

\* A step that leaves the socket, the node and the label alone.
LEMMA QuietStep ==
  ASSUME IInv, UNCHANGED <<socket, inbox, past, mining, misses>>,
         page' \in Page, calls' \in Seq(Request(Len(past))), quiet' \in BOOLEAN,
         page'.label = page.label,
         page'.confirm => Checked(page'.amount, page'.tip),
         socket = "connecting" => page'.nonce = 0 /\ calls' = <<>> /\ ~page'.confirm
  PROVE  IInv'
BY DEF IInv, PastOK

LEMMA ReloadInvariant ==
  ASSUME IInv, UNCHANGED <<socket, inbox, past, mining, misses>>,
         NEW p \in Page, NEW rest \in Seq(Request(Len(past))), Reload(p, rest),
         p.label = page.label, p.amount = page.amount, p.tip = page.tip,
         p.nonce = page.nonce, p.confirm = page.confirm, calls = <<>> => rest = <<>>
  PROVE  IInv'
<1>1. /\ page' \in Page /\ calls' \in Seq(Request(Len(past))) /\ quiet' \in BOOLEAN
      /\ page'.label = page.label /\ page'.amount = page.amount /\ page'.tip = page.tip
  BY ReloadStep DEF IInv
<1>2. page'.confirm => page.confirm  BY ReloadStep DEF IInv
<1>3. page'.confirm => Checked(page'.amount, page'.tip)  BY <1>1, <1>2 DEF IInv
<1>4. ASSUME socket = "connecting"
      PROVE  page'.nonce = 0 /\ calls' = <<>> /\ ~page'.confirm
  <2>1. page.label = "NOT CONNECTED" /\ page.nonce = 0 /\ rest = <<>> /\ ~page.confirm
    BY <1>4 DEF IInv, Page
  <2>2. LoadCalls(p) = <<>> /\ Load(p) = ShowMessage(p)  BY <2>1 DEF LoadCalls, Load
  <2>3. page' = ShowMessage(p) /\ calls' = <<>> \o <<>>  BY <2>1, <2>2 DEF Reload
  <2>4. page'.nonce = 0  BY <2>1, <2>3 DEF ShowMessage, Page
  <2>5. <<>> \o <<>> = <<>>  BY EmptySeq, ConcatEmptySeq
  <2> QED  BY <1>2, <2>1, <2>3, <2>4, <2>5
<1> QED  BY <1>1, <1>3, <1>4, QuietStep

LEMMA UserInvariant == ASSUME IInv, User PROVE IInv'
<1>1. UNCHANGED <<socket, inbox, past, mining, misses>>  BY DEF User
<1>2. page \in Page /\ calls \in Seq(Request(Len(past))) /\ quiet \in BOOLEAN
  BY DEF IInv
<1>3. CASE Refresh  BY <1>1, <1>2, <1>3, ReloadInvariant DEF Refresh
<1>4. CASE ChangeFrom
  <2>1. PICK a \in Account : Reload([page EXCEPT !.from = a], calls)
    BY <1>4 DEF ChangeFrom
  <2> DEFINE p == [page EXCEPT !.from = a]
  <2>2. /\ p \in Page /\ p.label = page.label /\ p.amount = page.amount
        /\ p.tip = page.tip /\ p.nonce = page.nonce /\ p.confirm = page.confirm
    BY <1>2 DEF Page
  <2> HIDE DEF p
  <2> QED  BY <1>1, <1>2, <2>1, <2>2, ReloadInvariant DEF p
<1>5. CASE ChangeTo
  <2>1. PICK a \in Account : Reload([page EXCEPT !.to = a], calls)
    BY <1>5 DEF ChangeTo
  <2> DEFINE p == [page EXCEPT !.to = a]
  <2>2. /\ p \in Page /\ p.label = page.label /\ p.amount = page.amount
        /\ p.tip = page.tip /\ p.nonce = page.nonce /\ p.confirm = page.confirm
    BY <1>2 DEF Page
  <2> HIDE DEF p
  <2> QED  BY <1>1, <1>2, <2>1, <2>2, ReloadInvariant DEF p
<1>6. CASE ShowTab \/ EnterAmount \/ EnterTip
  <2>1. ~page.confirm /\ UNCHANGED <<calls, quiet>>
    BY <1>6 DEF ShowTab, EnterAmount, EnterTip, Uncovered
  <2>2. AmountEntry \subseteq Entry /\ TipEntry \subseteq Entry
    BY EntryAssumption DEF Entry
  <2>3. /\ page' \in Page /\ page'.label = page.label
        /\ page'.confirm = page.confirm /\ page'.nonce = page.nonce
    BY ZenonT(30), <1>2, <1>6, <2>2 DEF ShowTab, ShowInfoTab, EnterAmount, EnterTip, Page
  <2> QED  BY <1>1, <1>2, <2>1, <2>3, QuietStep DEF IInv
<1>7. CASE SubmitTran
  <2>1. ~page.confirm /\ quiet' = quiet  BY <1>7 DEF SubmitTran, Uncovered
  <2>2. CASE page' = ShowMessage(page) /\ calls' = calls
    <3>1. /\ page' \in Page /\ page'.label = page.label
          /\ page'.confirm = page.confirm /\ page'.nonce = page.nonce
      BY <1>2, <2>2 DEF ShowMessage, Page
    <3> QED  BY <1>1, <1>2, <2>1, <2>2, <3>1, QuietStep DEF IInv
  <2>3. CASE /\ page.label = "CONNECTED"
             /\ calls' = Append(calls, Ask("fromBalance", page.from))
             /\ page' = IF Acceptable(page) THEN ShowConfirmation(page) ELSE ShowMessage(page)
    <3>1. socket = "open"  BY <2>3 DEF IInv
    <3>2. Ask("fromBalance", page.from) \in Request(Len(past))
      <4>1. Len(past) \in Nat \ {0}  BY NodeOfPast DEF IInv
      <4>2. page.from \in Account  BY <1>2 DEF Page
      <4> QED  BY <4>1, <4>2 DEF Ask, Read, Request
    <3>3. calls' \in Seq(Request(Len(past)))  BY <1>2, <2>3, <3>2, AppendProperties
    <3>4. page' \in Page  BY <1>2, <2>3, PageFunctions
    <3>5. page'.label = page.label /\ page'.amount = page.amount /\ page'.tip = page.tip
      BY <1>2, <2>3, PageFunctionsKeep
    <3>6. page'.confirm => Acceptable(page)
      BY <1>2, <2>1, <2>3 DEF ShowMessage, Page
    <3>7. page'.confirm => Checked(page'.amount, page'.tip)
      BY <3>5, <3>6 DEF Acceptable, Checked
    <3> QED  BY <1>1, <1>2, <2>1, <3>1, <3>3, <3>4, <3>5, <3>7, QuietStep
  <2> QED  BY <1>7, <2>2, <2>3 DEF SubmitTran
<1>8. CASE Dismiss
  <2>1. page' = CloseModal(page) /\ UNCHANGED <<calls, quiet>>  BY <1>8 DEF Dismiss
  <2>2. /\ page' \in Page /\ page'.label = page.label
        /\ ~page'.confirm /\ page'.nonce = page.nonce
    BY <1>2, <2>1 DEF CloseModal, Page
  <2> QED  BY <1>1, <1>2, <2>1, <2>2, QuietStep DEF IInv
<1>9. CASE CreateTransaction
  <2> DEFINE tx == [from |-> page.from, to |-> page.to, nonce |-> page.nonce,
                    value |-> page.amount, tip |-> page.tip]
  <2>1. /\ page.confirm /\ page' = CloseModal(page) /\ quiet' = quiet
        /\ calls' = Append(calls, Post(tx))
    BY <1>9 DEF CreateTransaction
  <2>2. Checked(tx.value, tx.tip) /\ socket # "connecting"  BY <2>1 DEF IInv
  <2>3. Post(tx) \in Request(Len(past))
    <3>1. /\ page.from \in Account /\ page.to \in Account /\ page.nonce \in Nat
          /\ page.amount \in Entry /\ page.tip \in Entry
      BY <1>2 DEF Page
    <3>2. tx \in [from : Account, to : Account, nonce : Nat, value : Entry, tip : Entry]
      BY <3>1
    <3> HIDE DEF tx
    <3> QED  BY <2>2, <3>2 DEF Post, Submission, Request
  <2> HIDE DEF tx
  <2>4. calls' \in Seq(Request(Len(past)))  BY <1>2, <2>1, <2>3, AppendProperties
  <2>5. page' \in Page /\ page'.label = page.label /\ ~page'.confirm
    BY <1>2, <2>1 DEF CloseModal, Page
  <2> QED  BY <1>1, <1>2, <2>1, <2>2, <2>4, <2>5, QuietStep
<1> QED  BY <1>3, <1>4, <1>5, <1>6, <1>7, <1>8, <1>9 DEF User

\* The answers to reads fill in numbers; the nonce only grows.
LEMMA ShownKeeps ==
  ASSUME NEW p \in Page, NEW n \in Node, IsFiniteSet(n.pool), NEW c \in Read,
         NEW q \in Shown(p, c, n)
  PROVE  /\ q.label = p.label /\ q.amount = p.amount /\ q.tip = p.tip
         /\ q.confirm = p.confirm /\ q.nonce >= p.nonce
<1>1. c.op \in {"fromBalance", "toBalance", "transactions", "mempool"}  BY DEF Read
<1>2. p.nonce \in Nat  BY DEF Page
<1>3. CASE c.op = "fromBalance"
  <2>1. q = FromBalance(p, c, n)  BY <1>3 DEF Shown
  <2>2. CASE c.account \notin Known(n)  BY <1>2, <2>1, <2>2 DEF FromBalance
  <2>3. CASE c.account \in Known(n)
    <3> DEFINE i == n.info[c.account]
               next == IF p.nonce = 0 THEN i.nonce + 1 ELSE p.nonce
    <3>1. i.nonce \in Nat  BY <2>3, InfoOfKnown DEF Info
    <3>2. next >= p.nonce
      <4> HIDE DEF i
      <4> QED  BY <1>2, <3>1
    <3>3. q = [p EXCEPT !.frombal = i.balance, !.fromnonce = i.nonce,
                        !.nonce = next, !.nextnonce = next]
      BY <2>1, <2>3 DEF FromBalance
    <3> HIDE DEF i, next
    <3> QED  BY <3>2, <3>3 DEF Page
  <2> QED  BY <2>2, <2>3
<1>4. CASE c.op = "toBalance"
  <2>1. q = p \/ q = [p EXCEPT !.tobal = n.info[c.account].balance]
    BY <1>4 DEF Shown, ToBalance
  <2>2. /\ q.label = p.label /\ q.amount = p.amount /\ q.tip = p.tip
        /\ q.confirm = p.confirm /\ q.nonce = p.nonce
    BY <2>1 DEF Page
  <2> QED  BY <1>2, <2>2
<1>5. CASE c.op = "transactions"
  <2>1. q = p \/ q = [p EXCEPT !.trans = n.mined[c.account]]
    BY <1>5 DEF Shown, Transactions
  <2>2. /\ q.label = p.label /\ q.amount = p.amount /\ q.tip = p.tip
        /\ q.confirm = p.confirm /\ q.nonce = p.nonce
    BY <2>1 DEF Page
  <2> QED  BY <1>2, <2>2
<1>6. CASE c.op = "mempool"
  <2>1. PICK next \in Highest({p.nonce} \cup {t.nonce + 1 : t \in OwnPool(n, c.account)}) :
          q = Mempool(p, c, n, next)
    BY <1>6 DEF Shown
  <2>2. next >= p.nonce  BY MempoolType
  <2>3. q.nonce = next  BY <2>1 DEF Mempool, Page
  <2>4. q.label = p.label /\ q.amount = p.amount /\ q.tip = p.tip /\ q.confirm = p.confirm
    BY <2>1 DEF Mempool, Page
  <2> QED  BY <2>2, <2>3, <2>4
<1> QED  BY <1>1, <1>3, <1>4, <1>5, <1>6

LEMMA StateOfRead ==
  ASSUME IInv, NEW c \in Read, NEW k \in c.since .. Len(past)
  PROVE  past[k] \in Node /\ IsFiniteSet(past[k].pool)
<1>1. Len(past) \in Nat \ {0}  BY NodeOfPast DEF IInv
<1>2. c.since \in Nat \ {0}  BY DEF Read
<1>3. past \in Seq(Node)  BY DEF IInv, PastOK
<1>4. k \in 1 .. Len(past)  BY <1>1, <1>2
<1> QED  BY <1>3, <1>4, ElementOfSeq, LenProperties DEF IInv, PastOK

LEMMA ReadDoneInvariant == ASSUME IInv, NEW i \in DOMAIN calls, ReadDone(i) PROVE IInv'
<1>1. calls[i] \in Read /\ calls # <<>>  BY CallsType DEF ReadDone
<1>2. PICK k \in calls[i].since .. Len(past) : page' \in Shown(page, calls[i], past[k])
  BY DEF ReadDone
<1>3. past[k] \in Node /\ IsFiniteSet(past[k].pool)  BY <1>1, <1>2, StateOfRead
<1>4. page \in Page  BY DEF IInv
<1>5. page' \in Page  BY <1>1, <1>2, <1>3, <1>4, ShownType
<1>6. /\ page'.label = page.label /\ page'.amount = page.amount /\ page'.tip = page.tip
      /\ page'.confirm = page.confirm
  BY <1>1, <1>2, <1>3, <1>4, ShownKeeps
<1>7. calls' \in Seq(Request(Len(past)))  BY RemovedCall DEF ReadDone
<1>8. socket # "connecting"  BY <1>1 DEF IInv
<1>9. UNCHANGED <<socket, inbox, past, mining, misses, quiet>>  BY DEF ReadDone
<1> QED  BY <1>5, <1>6, <1>7, <1>8, <1>9, QuietStep DEF IInv

LEMMA SubmitDoneInvariant ==
  ASSUME IInv, NEW i \in DOMAIN calls, SubmitDone(i)
  PROVE  IInv'
<1> DEFINE p == [page EXCEPT !.nextnonce = page.nonce]
<1>1. UNCHANGED <<socket, inbox, past, mining, misses>> /\ socket # "connecting"
  <2>1. calls # <<>>  OBVIOUS
  <2> QED  BY <2>1 DEF SubmitDone, IInv
<1>2. page \in Page /\ PastOK /\ quiet \in BOOLEAN  BY DEF IInv
<1>3. RemoveAt(calls, i) \in Seq(Request(Len(past)))  BY RemovedCall
<1>4. CASE /\ page' = ShowMessage(Load(p))
           /\ calls' = RemoveAt(calls, i) \o LoadCalls(p)
           /\ quiet' \in BOOLEAN
  <2>1. p \in Page
    <3>1. page.nonce \in Nat  BY <1>2 DEF Page
    <3>2. page.nonce \in Number  BY <3>1 DEF Number
    <3> QED  BY <1>2, <3>2 DEF Page
  <2>2. /\ p.label = page.label /\ p.amount = page.amount /\ p.tip = page.tip
        /\ p.confirm = page.confirm
    BY <1>2 DEF Page
  <2> HIDE DEF p
  <2>3. calls' \in Seq(Request(Len(past)))
    BY <1>2, <1>3, <1>4, <2>1, LoadCallsType, ConcatProperties
  <2>4. Load(p) \in Page /\ page' \in Page  BY <1>4, <2>1, PageFunctions
  <2>5. page'.label = p.label /\ page'.amount = p.amount /\ page'.tip = p.tip
    BY <1>4, <2>1, <2>4, PageFunctionsKeep
  <2>6. page'.confirm => p.confirm
    BY <1>4, <2>1 DEF Load, ShowMessage, CloseModal, Page
  <2>7. page'.confirm => Checked(page'.amount, page'.tip)
    BY <2>2, <2>5, <2>6 DEF IInv
  <2> QED  BY <1>1, <1>4, <2>2, <2>3, <2>4, <2>5, <2>7, QuietStep
<1>5. CASE /\ page' = HandleAjaxError(page, TRUE)
           /\ calls' = RemoveAt(calls, i)
           /\ quiet' = quiet
  <2>1. /\ page' \in Page /\ page'.label = page.label /\ page'.amount = page.amount
        /\ page'.tip = page.tip
    BY <1>2, <1>5, PageFunctions, PageFunctionsKeep
  <2>2. page'.confirm = page.confirm
    BY <1>2, <1>5 DEF HandleAjaxError, ShowMessage, Page
  <2> QED  BY <1>1, <1>2, <1>3, <1>5, <2>1, <2>2, QuietStep DEF IInv
<1> QED  BY <1>4, <1>5 DEF SubmitDone

LEMMA UnansweredInvariant ==
  ASSUME IInv, NEW i \in DOMAIN calls, Unanswered(i)
  PROVE  IInv'
<1>1. RemoveAt(calls, i) \in Seq(Request(Len(past)))  BY RemovedCall
<1>2. page' = page  BY DEF Unanswered, HandleAjaxError
<1>3. calls # <<>>  OBVIOUS
<1>4. misses' \in Nat
  <2>1. misses \in Nat  BY DEF IInv
  <2>2. misses' = misses + 1  BY DEF Unanswered
  <2> QED  BY <2>1, <2>2
<1> QED  BY <1>1, <1>2, <1>3, <1>4 DEF IInv, PastOK, Unanswered

\* The node moves: what was under way still has a state to be answered from.
LEMMA MovesInvariant ==
  ASSUME IInv, NEW n \in Node, IsFiniteSet(n.pool), Moves(n),
         calls' \in Seq(Request(Len(past))), calls = <<>> => calls' = <<>>
  PROVE  IInv'
<1>1. past' = Append(past, n)  BY DEF Moves
<1>2. past \in Seq(Node) /\ Len(past) \in Nat \ {0}  BY NodeOfPast DEF IInv, PastOK
<1>3. /\ past' \in Seq(Node) /\ Len(past') = Len(past) + 1
      /\ \A k \in 1 .. Len(past) : past'[k] = past[k]
      /\ past'[Len(past) + 1] = n
  BY <1>1, <1>2, AppendProperties
<1>4. PastOK'
  <2>1. past' # <<>>  BY <1>2, <1>3, EmptySeq
  <2>2. ASSUME NEW k \in DOMAIN past' PROVE IsFiniteSet(past'[k].pool)
    <3>1. k \in 1 .. Len(past) + 1  BY <1>3, LenProperties
    <3>2. CASE k = Len(past) + 1  BY <1>3, <3>2
    <3>3. CASE k # Len(past) + 1
      <4>1. k \in 1 .. Len(past)  BY <1>2, <3>1, <3>3
      <4>2. k \in DOMAIN past  BY <1>2, <4>1, LenProperties
      <4> QED  BY <1>3, <4>1, <4>2 DEF IInv, PastOK
    <3> QED  BY <3>2, <3>3
  <2> QED  BY <1>3, <2>1, <2>2 DEF PastOK
<1>5. calls' \in Seq(Request(Len(past')))
  <2>1. Request(Len(past)) \subseteq Request(Len(past) + 1)
    BY <1>2 DEF Request, Read
  <2> QED  BY <1>3, <2>1, SeqMonotonic
<1>6. /\ UNCHANGED <<page, socket, inbox, mining, misses>> /\ quiet' = FALSE
  BY DEF Moves
<1> QED  BY <1>4, <1>5, <1>6 DEF IInv

LEMMA NodeSubmitInvariant ==
  ASSUME IInv, NEW i \in DOMAIN calls, NodeSubmit(i)
  PROVE  IInv'
<1> DEFINE c == calls[i]
<1>1. c \in Submission /\ c \in Request(Len(past))  BY CallsType DEF NodeSubmit
<1>2. Checked(c.tx.value, c.tx.tip)
  <2>1. c \notin Read  BY <1>1 DEF Read, Submission
  <2> QED  BY <1>1, <2>1 DEF Request
<1>3. \A status \in {"sent", "accepted", "refused"} :
        [calls EXCEPT ![i].status = status] \in Seq(Request(Len(past)))
  <2> SUFFICES ASSUME NEW status \in {"sent", "accepted", "refused"}
               PROVE  [calls EXCEPT ![i].status = status] \in Seq(Request(Len(past)))
    OBVIOUS
  <2> DEFINE d == [c EXCEPT !.status = status]
  <2>1. d \in Submission /\ d.tx = c.tx
    <3> HIDE DEF c
    <3> QED  BY <1>1 DEF Submission
  <2>2. d \in Request(Len(past))
    <3> HIDE DEF c, d
    <3> QED  BY <1>2, <2>1 DEF Request
  <2>3. [calls EXCEPT ![i].status = status] = [calls EXCEPT ![i] = d]  OBVIOUS
  <2> HIDE DEF d
  <2>4. calls \in Seq(Request(Len(past))) /\ i \in 1 .. Len(calls)
    BY CallsType DEF IInv
  <2> QED  BY <2>2, <2>3, <2>4, ExceptSeq
<1>4. calls # <<>>  OBVIOUS
<1>5. CASE /\ calls' = [calls EXCEPT ![i].status = "refused"]
           /\ UNCHANGED <<page, socket, inbox, past, mining, quiet, misses>>
  <2>1. socket # "connecting"  BY <1>4 DEF IInv
  <2> QED  BY <1>3, <1>5, <2>1, QuietStep DEF IInv
<1> DEFINE blockTx == [from |-> c.tx.from, to |-> c.tx.to, nonce |-> c.tx.nonce,
                       value |-> c.tx.value, tip |-> c.tx.tip, gas |-> GasPrice]
<1>6. CASE /\ {c.tx.value, c.tx.tip} \subseteq Table!Uint
           /\ calls' = [calls EXCEPT ![i].status = "accepted"]
           /\ Moves(Upsert(node, blockTx))
  <2>1. blockTx \in PoolTx
    <3>1. c.tx.from \in Account /\ c.tx.to \in Account /\ c.tx.nonce \in Nat
      <4> HIDE DEF c, blockTx
      <4> QED  BY <1>1 DEF Submission
    <3>2. c.tx.value \in Int /\ c.tx.tip \in Int /\ GasPrice \in Int
      <4> HIDE DEF c, blockTx
      <4> QED  BY <1>6, NodeAssumption DEF Table!Uint
    <3>3. c.tx.from \in Address /\ c.tx.to \in Address /\ NoAccount \notin Address
      <4> HIDE DEF c, blockTx
      <4> QED  BY <3>1, MenuAssumption, NodeAssumption
    <3> HIDE DEF c
    <3> QED  BY <3>1, <3>2, <3>3 DEF PoolTx, BlockTx
  <2>2. node \in Node /\ IsFiniteSet(node.pool)  BY NodeOfPast DEF IInv
  <2> HIDE DEF blockTx
  <2>3. Upsert(node, blockTx) \in Node /\ IsFiniteSet(Upsert(node, blockTx).pool)
    BY <2>1, <2>2, UpsertType
  <2> QED  BY <1>3, <1>4, <1>6, <2>3, MovesInvariant
<1> QED  BY <1>5, <1>6 DEF NodeSubmit

LEMMA NodeReceiveInvariant == ASSUME IInv, NodeReceive PROVE IInv'
<1>1. PICK tx \in PoolTx : Moves(Upsert(node, tx))  BY DEF NodeReceive
<1>2. node \in Node /\ IsFiniteSet(node.pool)  BY NodeOfPast DEF IInv
<1>3. Upsert(node, tx) \in Node /\ IsFiniteSet(Upsert(node, tx).pool)
  BY <1>2, UpsertType
<1>4. calls' = calls  BY DEF NodeReceive
<1> QED  BY <1>1, <1>3, <1>4, MovesInvariant DEF IInv

LEMMA NodeStoreInvariant == ASSUME IInv, NodeStore PROVE IInv'
<1>1. node \in Node /\ IsFiniteSet(node.pool)  BY NodeOfPast DEF IInv
<1> DEFINE S == node.pool \cup PeerTx
<1>2. S \subseteq BlockTx  BY <1>1, NodeAssumption DEF Node, PoolTx, BlockTx
<1>3. PICK miner \in Miner, txs \in BoundedSeq(S, MaxTrans) :
        Moves(Stored(node, miner, txs))
  BY DEF NodeStore
<1>4. txs \in Seq(BlockTx)
  <2>1. PICK k \in 0 .. MaxTrans : txs \in [1 .. k -> S]  BY <1>3 DEF BoundedSeq, SeqOf
  <2>2. k \in Nat  BY NodeAssumption
  <2>3. txs \in [1 .. k -> BlockTx]  BY <1>2, <2>1
  <2> QED  BY <2>2, <2>3, SeqDef
<1>5. miner \in Address  BY NodeAssumption
<1>6. /\ Stored(node, miner, txs) \in Node
      /\ IsFiniteSet(Stored(node, miner, txs).pool)
  BY <1>1, <1>4, <1>5, StoredType
<1>7. calls' = calls  BY DEF NodeStore
<1> QED  BY <1>3, <1>6, <1>7, MovesInvariant DEF IInv

LEMMA NodeMineInvariant == ASSUME IInv, NodeMine PROVE IInv'
<1>1. PICK event \in {"MINING", "completed"} : Notify(event)
  BY DEF NodeMine
<1>2. mining' \in BOOLEAN /\ UNCHANGED <<page, calls, socket, past, quiet>>
  BY DEF NodeMine
<1>3. misses \in Nat  BY DEF IInv
<1>4. \/ inbox' = Append(inbox, event) /\ socket = "open" /\ misses' = misses
      \/ inbox' = inbox /\ misses' = misses + IF socket = "open" THEN 1 ELSE 0
  BY <1>1 DEF Notify
<1>5. misses' \in Nat
  <2>1. misses + 0 \in Nat /\ misses + 1 \in Nat  BY <1>3
  <2>2. misses' \in {misses, misses + 0, misses + 1}  BY <1>4
  <2> QED  BY <1>3, <2>1, <2>2
<1>6. /\ inbox \in Seq({"MINING", "completed"})
      /\ inbox # <<>> => socket = "open"
  BY DEF IInv
<1>7. inbox' \in Seq({"MINING", "completed"})
  <2> DEFINE Event == {"MINING", "completed"}
  <2>1. inbox \in Seq(Event) /\ event \in Event  BY <1>6
  <2> HIDE DEF Event
  <2>2. inbox' \in Seq(Event)
    <3>1. Append(inbox, event) \in Seq(Event)  BY <2>1, AppendProperties
    <3> QED  BY <1>4, <2>1, <3>1
  <2> QED  BY <2>2 DEF Event
<1>8. inbox' # <<>> => socket = "open"  BY <1>4, <1>6
<1> QED  BY <1>2, <1>5, <1>7, <1>8 DEF IInv, PastOK

LEMMA NextInvariant == IInv /\ [Next]_vars => IInv'
<1> SUFFICES ASSUME IInv, [Next]_vars PROVE IInv'
  OBVIOUS
<1>1. CASE Open  BY <1>1, OpenInvariant
<1>2. CASE Close \/ Error  BY <1>2, CloseInvariant
<1>3. CASE Message  BY <1>3, MessageInvariant
<1>4. CASE User  BY <1>4, UserInvariant
<1>5. CASE \E i \in DOMAIN calls : Answer(i) \/ Unanswered(i)
  <2>1. PICK i \in DOMAIN calls :
          ReadDone(i) \/ SubmitDone(i) \/ NodeSubmit(i) \/ Unanswered(i)
    BY <1>5 DEF Answer
  <2> QED
    BY <2>1, ReadDoneInvariant, SubmitDoneInvariant, NodeSubmitInvariant,
       UnansweredInvariant
<1>6. CASE NodeReceive \/ NodeStore  BY <1>6, NodeReceiveInvariant, NodeStoreInvariant
<1>7. CASE NodeMine  BY <1>7, NodeMineInvariant
<1>8. CASE UNCHANGED vars
  <2>1. UNCHANGED <<page, calls, socket, inbox, past, mining, quiet, misses>>
    BY <1>8 DEF vars
  <2> QED  BY <2>1 DEF IInv, PastOK
<1> QED  BY <1>1, <1>2, <1>3, <1>4, <1>5, <1>6, <1>7, <1>8 DEF Next

LEMMA Invariant == Spec => []IInv
<1> QED  BY InitInvariant, NextInvariant, PTL DEF Spec

\* Every variable has its type, and every read has a state of the node to be
\* answered from: the page, the requests of popup.js, the socket and the node.
THEOREM WalletTypes == Spec => []TypeOK
<1>1. IInv => TypeOK  BY InvariantImplies
<1> QED  BY <1>1, Invariant, PTL

\* Nothing the checks of submitTran refuse is ever sent, although the answers of
\* the node and the events on the socket may change the page between the check
\* and the click on Yes (submitTran, createTransaction).
THEOREM OnlyCheckedIsSent == Spec => []SubmittedWasChecked
<1>1. IInv => SubmittedWasChecked  BY InvariantImplies
<1> QED  BY <1>1, Invariant, PTL

-----------------------------------------------------------------------------
(* What a step may do.                                                       *)

\* What a step leaves alone of the requests, it took from those under way.
Old(c) == \E j \in DOMAIN calls : c = calls[j]

LEMMA OldKept ==
  ASSUME NEW rest, NEW added, NEW S, rest \in Seq(S), added \in Seq(S),
         \A j \in DOMAIN rest : Old(rest[j]), added = <<>>,
         NEW i \in DOMAIN (rest \o added)
  PROVE  Old((rest \o added)[i])
<1>1. rest \o added = rest  BY ConcatEmptySeq
<1> QED  BY <1>1

\* A load adds no request unless the label says CONNECTED.
LEMMA ReloadAdds ==
  ASSUME PastOK, NEW p \in Page, NEW rest \in Seq(Request(Len(past))),
         \A j \in DOMAIN rest : Old(rest[j]),
         calls' = rest \o LoadCalls(p), p.label # "CONNECTED",
         NEW i \in DOMAIN calls'
  PROVE  Old(calls'[i])
<1>1. LoadCalls(p) = <<>>  BY DEF LoadCalls
<1> QED  BY <1>1, LoadCallsType, OldKept

LEMMA CallsAreOld == \A j \in DOMAIN calls : Old(calls[j])
BY DEF Old

LEMMA RestIsOld ==
  ASSUME IInv, NEW k \in DOMAIN calls, NEW j \in DOMAIN RemoveAt(calls, k)
  PROVE  Old(RemoveAt(calls, k)[j])
<1>1. calls \in Seq(Request(Len(past)))  BY DEF IInv
<1> QED  BY <1>1, CallsType, RemoveAtElements DEF Old

\* load() called with the page p, whose label is that of the page.
LEMMA LoadAddsNothingOffline ==
  ASSUME IInv, page.label # "CONNECTED", NEW p \in Page, p.label = page.label,
         Reload(p, calls), NEW i \in DOMAIN calls'
  PROVE  Old(calls'[i])
<1>1. calls' = calls \o LoadCalls(p)  BY DEF Reload
<1> QED  BY <1>1, CallsAreOld, ReloadAdds DEF IInv

LEMMA AppendedIsOldOrNew ==
  ASSUME NEW S, calls \in Seq(S), NEW c \in S, calls' = Append(calls, c),
         NEW i \in DOMAIN calls'
  PROVE  Old(calls'[i]) \/ calls'[i] = c
<1>1. /\ Len(calls) \in Nat /\ DOMAIN calls = 1 .. Len(calls)
      /\ DOMAIN calls' = 1 .. Len(calls) + 1
  BY LenProperties, AppendProperties
<1>2. CASE i = Len(calls) + 1  BY <1>2, AppendProperties
<1>3. CASE i # Len(calls) + 1
  <2>1. i \in DOMAIN calls  BY <1>1, <1>3
  <2>2. calls'[i] = calls[i]  BY <1>1, <2>1, AppendProperties
  <2> QED  BY <2>1, <2>2 DEF Old
<1> QED  BY <1>2, <1>3

LEMMA UserReads ==
  ASSUME IInv, User, socket' # "open", NEW i \in DOMAIN calls', calls'[i].op # "submit"
  PROVE  Old(calls'[i])
<1>1. page.label # "CONNECTED" /\ page \in Page  BY DEF User, IInv
<1>2. CASE Refresh  BY <1>1, <1>2, LoadAddsNothingOffline DEF Refresh
<1>3. CASE ChangeFrom
  <2>1. PICK a \in Account : Reload([page EXCEPT !.from = a], calls)
    BY <1>3 DEF ChangeFrom
  <2> DEFINE p == [page EXCEPT !.from = a]
  <2>2. p \in Page /\ p.label = page.label  BY <1>1 DEF Page
  <2> HIDE DEF p
  <2> QED  BY <1>1, <2>1, <2>2, LoadAddsNothingOffline DEF p
<1>4. CASE ChangeTo
  <2>1. PICK a \in Account : Reload([page EXCEPT !.to = a], calls)
    BY <1>4 DEF ChangeTo
  <2> DEFINE p == [page EXCEPT !.to = a]
  <2>2. p \in Page /\ p.label = page.label  BY <1>1 DEF Page
  <2> HIDE DEF p
  <2> QED  BY <1>1, <2>1, <2>2, LoadAddsNothingOffline DEF p
<1>5. CASE calls' = calls  BY <1>5, CallsAreOld
<1>6. CASE CreateTransaction
  <2>1. PICK tx : calls' = Append(calls, Post(tx))  BY <1>6 DEF CreateTransaction
  <2>2. calls \in Seq(Request(Len(past)) \cup {Post(tx)})
    <3>1. calls \in Seq(Request(Len(past)))  BY DEF IInv
    <3> QED  BY <3>1, SeqMonotonic
  <2>3. Post(tx).op = "submit"  BY DEF Post
  <2>4. Old(calls'[i]) \/ calls'[i] = Post(tx)  BY <2>1, <2>2, AppendedIsOldOrNew
  <2> QED  BY <2>3, <2>4
<1> QED
  BY <1>1, <1>2, <1>3, <1>4, <1>5, <1>6
  DEF User, ShowTab, EnterAmount, EnterTip, SubmitTran, Dismiss

LEMMA AnswerReads ==
  ASSUME IInv, NEW k \in DOMAIN calls, Answer(k) \/ Unanswered(k), socket' # "open",
         NEW i \in DOMAIN calls', calls'[i].op # "submit"
  PROVE  Old(calls'[i])
<1>1. CASE calls' = RemoveAt(calls, k)  BY <1>1, RestIsOld
<1>2. CASE SubmitDone(k) /\ calls' # RemoveAt(calls, k)
  <2> DEFINE p == [page EXCEPT !.nextnonce = page.nonce]
  <2>1. calls' = RemoveAt(calls, k) \o LoadCalls(p) /\ socket' = socket
    BY <1>2 DEF SubmitDone
  <2>2. p \in Page /\ p.label = page.label
    <3>1. page \in Page  BY DEF IInv
    <3>2. page.nonce \in Nat  BY <3>1 DEF Page
    <3>3. page.nonce \in Number  BY <3>2 DEF Number
    <3> QED  BY <3>1, <3>3 DEF Page
  <2>3. page.label # "CONNECTED"  BY <2>1 DEF IInv
  <2> HIDE DEF p
  <2> QED  BY <2>1, <2>2, <2>3, RemovedCall, RestIsOld, ReloadAdds DEF IInv
<1>3. CASE NodeSubmit(k)
  <2>1. PICK status : calls' = [calls EXCEPT ![k].status = status]
    BY <1>3 DEF NodeSubmit
  <2>2. calls[k].op = "submit" /\ calls[k] \in Submission  BY <1>3, CallsType DEF NodeSubmit
  <2>3. DOMAIN calls' = DOMAIN calls  BY <2>1
  <2>4. CASE i = k
    <3>1. calls'[i] = [calls[k] EXCEPT !.status = status]  BY <2>1, <2>4
    <3>2. calls'[i].op = "submit"  BY <2>2, <3>1 DEF Submission
    <3> QED  BY <3>2
  <2>5. CASE i # k  BY <2>1, <2>3, <2>5 DEF Old
  <2> QED  BY <2>4, <2>5
<1> QED  BY <1>1, <1>2, <1>3 DEF Answer, Unanswered, ReadDone

\* A wallet whose socket is not open starts no read, whatever the user clicks and
\* whichever answers are late (load, submitTran and the handlers of the socket).
THEOREM OfflineWalletIsSilent == Spec => ReadsNeedConnection
<1>1. ASSUME IInv, [Next]_vars
      PROVE  [\A i \in DOMAIN calls' :
                calls'[i].op # "submit" /\ socket' # "open" =>
                  \E j \in DOMAIN calls : calls'[i] = calls[j]]_vars
  <2> SUFFICES ASSUME NEW i \in DOMAIN calls', calls'[i].op # "submit", socket' # "open"
               PROVE  Old(calls'[i])
    BY DEF Old
  <2>1. CASE calls' = calls  BY <2>1, CallsAreOld
  <2>2. CASE Message  BY <1>1, <2>2 DEF Message, IInv
  <2>3. CASE User  BY <1>1, <2>3, UserReads
  <2>4. CASE \E k \in DOMAIN calls : Answer(k) \/ Unanswered(k)  BY <1>1, <2>4, AnswerReads
  <2>5. CASE UNCHANGED vars  BY <2>1, <2>5 DEF vars
  <2> QED
    BY <1>1, <2>1, <2>2, <2>3, <2>4, <2>5
    DEF Next, Open, Close, Error, Disconnected, NodeReceive, NodeStore, NodeMine
<1> QED  BY <1>1, Invariant, PTL DEF Spec, ReadsNeedConnection

-----------------------------------------------------------------------------
(* The next nonce.                                                           *)

NonceStep == page'.nonce < page.nonce => page'.nonce = 0 /\ LoadStarts

LEMMA SameNonce == ASSUME IInv, page'.nonce = page.nonce PROVE NonceStep
<1>1. page.nonce \in Nat  BY DEF IInv, Page
<1> QED  BY <1>1 DEF NonceStep

\* Load runs: the requests it makes are those of the page that comes out.
LEMMA LoadedNonce ==
  ASSUME IInv, NEW p \in Page, p.nonce = page.nonce,
         page' \in {Load(p), ShowMessage(Load(p))}, past' = past,
         NEW rest \in {calls} \cup {RemoveAt(calls, i) : i \in DOMAIN calls},
         calls' = rest \o LoadCalls(p)
  PROVE  NonceStep
<1>1. CASE p.label = "CONNECTED"
  <2> DEFINE q == [CloseModal(p) EXCEPT !.nonce = 0, !.trans = 0]
  <2>1. q \in Page /\ q.nonce = 0 /\ q.label = p.label /\ q.from = p.from /\ q.to = p.to
    BY DEF CloseModal, Page
  <2>2. page' \in {q, ShowMessage(q)}  BY <1>1 DEF Load
  <2> HIDE DEF q
  <2>3. page'.nonce = 0 /\ page'.label = p.label /\ page'.from = p.from /\ page'.to = p.to
    BY <2>1, <2>2 DEF ShowMessage, Page
  <2>4. LoadCalls(page') = LoadCalls(p)  BY <2>3 DEF LoadCalls
  <2>5. LoadStarts  BY <1>1, <2>3, <2>4 DEF LoadStarts
  <2> QED  BY <2>3, <2>5 DEF NonceStep
<1>2. CASE p.label # "CONNECTED"
  <2>1. page' \in {ShowMessage(p), ShowMessage(ShowMessage(p))}  BY <1>2 DEF Load
  <2>2. page'.nonce = page.nonce  BY <2>1 DEF ShowMessage, Page
  <2> QED  BY <2>2, SameNonce
<1> QED  BY <1>1, <1>2

LEMMA UserNonce == ASSUME IInv, User PROVE NonceStep
<1>1. page \in Page  BY DEF IInv
<1>2. past' = past  BY DEF User
<1>3. CASE Refresh  BY <1>1, <1>2, <1>3, LoadedNonce DEF Refresh, Reload
<1>4. ASSUME NEW a \in Account, NEW p, p \in {[page EXCEPT !.from = a], [page EXCEPT !.to = a]},
             Reload(p, calls)
      PROVE  NonceStep
  <2>1. p \in Page /\ p.nonce = page.nonce  BY <1>1, <1>4 DEF Page
  <2>2. page' = Load(p) /\ calls' = calls \o LoadCalls(p)  BY <1>4 DEF Reload
  <2> QED  BY <1>2, <2>1, <2>2, LoadedNonce
<1>5. CASE ChangeFrom \/ ChangeTo  BY <1>4, <1>5 DEF ChangeFrom, ChangeTo
<1>6. CASE ShowTab \/ EnterAmount \/ EnterTip
  BY <1>1, <1>6, SameNonce DEF ShowTab, ShowInfoTab, EnterAmount, EnterTip, Page
<1>7. CASE SubmitTran \/ Dismiss \/ CreateTransaction
  <2>1. page' \in {ShowMessage(page), ShowConfirmation(page), CloseModal(page)}
    BY <1>7 DEF SubmitTran, Dismiss, CreateTransaction
  <2>2. page'.nonce = page.nonce
    BY <1>1, <2>1 DEF ShowMessage, ShowConfirmation, CloseModal, Page
  <2> QED  BY <2>2, SameNonce
<1> QED  BY <1>3, <1>5, <1>6, <1>7 DEF User

LEMMA ReadDoneNonce ==
  ASSUME IInv, NEW i \in DOMAIN calls, ReadDone(i)
  PROVE  page'.nonce >= page.nonce
<1>1. calls[i] \in Read  BY CallsType DEF ReadDone
<1>2. PICK k \in calls[i].since .. Len(past) : page' \in Shown(page, calls[i], past[k])
  BY DEF ReadDone
<1>3. past[k] \in Node /\ IsFiniteSet(past[k].pool)  BY <1>1, <1>2, StateOfRead
<1>4. page \in Page  BY DEF IInv
<1> QED  BY <1>1, <1>2, <1>3, <1>4, ShownKeeps

LEMMA NonceSteps == ASSUME IInv, IInv', [Next]_vars PROVE NonceStep
<1>1. page \in Page /\ page.nonce \in Nat /\ page'.nonce \in Nat
  BY DEF IInv, Page
<1>2. CASE Open
  <2>1. page.nonce = 0  BY <1>2 DEF Open, IInv
  <2> QED  BY <1>1, <2>1 DEF NonceStep
<1>3. CASE Close \/ Error
  <2>1. page'.nonce = page.nonce
    BY <1>1, <1>3 DEF Close, Error, Disconnected, ShowMessage, Page
  <2> QED  BY <2>1, SameNonce
<1>4. CASE Message
  <2> DEFINE p == [page EXCEPT !.label = "CONNECTED"]
  <2>1. CASE Reload(p, calls) /\ past' = past
    <3>1. p \in Page /\ p.nonce = page.nonce  BY <1>1 DEF Page
    <3>2. page' = Load(p) /\ calls' = calls \o LoadCalls(p)  BY <2>1 DEF Reload
    <3> HIDE DEF p
    <3> QED  BY <2>1, <3>1, <3>2, LoadedNonce
  <2>2. CASE page' = [page EXCEPT !.label = "MINING..."]
    BY <1>1, <2>2, SameNonce DEF Page
  <2> QED  BY <1>4, <2>1, <2>2 DEF Message
<1>5. CASE User  BY <1>5, UserNonce
<1>6. ASSUME NEW i \in DOMAIN calls, ReadDone(i) PROVE NonceStep
  BY <1>1, <1>6, ReadDoneNonce DEF NonceStep
<1>7. ASSUME NEW i \in DOMAIN calls, SubmitDone(i) PROVE NonceStep
  <2> DEFINE p == [page EXCEPT !.nextnonce = page.nonce]
  <2>1. p \in Page /\ p.nonce = page.nonce
    <3>1. page.nonce \in Number  BY <1>1 DEF Number
    <3> QED  BY <1>1, <3>1 DEF Page
  <2>2. \/ page' = ShowMessage(Load(p)) /\ calls' = RemoveAt(calls, i) \o LoadCalls(p)
        \/ page' = HandleAjaxError(page, TRUE)
    BY <1>7 DEF SubmitDone
  <2>3. past' = past  BY <1>7 DEF SubmitDone
  <2> HIDE DEF p
  <2>4. CASE page' = ShowMessage(Load(p)) /\ calls' = RemoveAt(calls, i) \o LoadCalls(p)
    BY <2>1, <2>3, <2>4, LoadedNonce
  <2>5. CASE page' = HandleAjaxError(page, TRUE)
    <3>1. page'.nonce = page.nonce  BY <1>1, <2>5 DEF HandleAjaxError, ShowMessage, Page
    <3> QED  BY <3>1, SameNonce
  <2> QED  BY <2>2, <2>4, <2>5
<1>8. CASE page' = page  BY <1>8, SameNonce
<1>9. CASE \E i \in DOMAIN calls : Answer(i) \/ Unanswered(i)
  BY <1>6, <1>7, <1>8, <1>9
  DEF Answer, Unanswered, HandleAjaxError, NodeSubmit, Moves
<1>10. CASE UNCHANGED vars  BY <1>8, <1>10 DEF vars
<1> QED
  BY <1>2, <1>3, <1>4, <1>5, <1>8, <1>9, <1>10
  DEF Next, NodeReceive, NodeStore, NodeMine, Moves

\* No answer to a read takes back a nonce another has learnt: the next nonce falls
\* only to zero, in a step that runs load and so asks for it again (load, fromBalance,
\* mempool).
THEOREM NonceNeverLost == Spec => NonceOnlyReset
<1>1. ASSUME IInv, IInv', [Next]_vars
      PROVE  [page'.nonce < page.nonce => page'.nonce = 0 /\ LoadStarts]_vars
  BY <1>1, NonceSteps DEF NonceStep
<1> QED  BY <1>1, Invariant, PTL DEF Spec, NonceOnlyReset

-----------------------------------------------------------------------------
(* Nonce zero.                                                               *)

Holds(s) == \E j \in DOMAIN s : s[j].op = "fromBalance"

\* The first of what is appended comes right after what was there.
LEMMA FirstAppended ==
  ASSUME NEW S, NEW s \in Seq(S), NEW t \in Seq(S), Len(t) # 0
  PROVE  Len(s) + 1 \in DOMAIN (s \o t) /\ (s \o t)[Len(s) + 1] = t[1]
<1>1. Len(s) \in Nat /\ Len(t) \in Nat \ {0}  OBVIOUS
<1>2. Len(s) + 1 \in 1 .. Len(s) + Len(t)  BY <1>1
<1>3. (s \o t)[Len(s) + 1] = t[Len(s) + 1 - Len(s)]  BY <1>1, <1>2, ConcatProperties
<1>4. DOMAIN (s \o t) = 1 .. Len(s) + Len(t)  BY ConcatProperties, LenProperties
<1>5. Len(s) + 1 - Len(s) = 1  BY <1>1
<1> QED  BY <1>2, <1>3, <1>4, <1>5

LEMMA LoadAsks ==
  ASSUME PastOK, NEW p \in Page, p.label = "CONNECTED",
         NEW rest \in Seq(Request(Len(past)))
  PROVE  Holds(rest \o LoadCalls(p))
<1> DEFINE added == LoadCalls(p)
<1>1. added = <<Ask("fromBalance", p.from), Ask("toBalance", p.to),
                Ask("transactions", p.from), Ask("mempool", p.from)>>
  BY DEF LoadCalls
<1>2. Len(added) # 0 /\ added[1].op = "fromBalance"  BY <1>1 DEF Ask
<1>3. added \in Seq(Request(Len(past)))  BY LoadCallsType
<1> HIDE DEF added
<1>4. /\ (rest \o added)[Len(rest) + 1] = added[1]
      /\ Len(rest) + 1 \in DOMAIN (rest \o added)
  BY <1>2, <1>3, FirstAppended
<1> QED  BY <1>2, <1>4 DEF Holds, added

LEMMA LoadedAsks ==
  ASSUME PastOK, NEW p \in Page, NEW rest \in Seq(Request(Len(past))),
         calls' = rest \o LoadCalls(p),
         page' \in {Load(p), ShowMessage(Load(p))}, page'.nonce = 0,
         p.nonce = 0 => Holds(rest)
  PROVE  Holds(calls')
<1>1. CASE p.label = "CONNECTED"  BY <1>1, LoadAsks
<1>2. CASE p.label # "CONNECTED"
  <2>1. LoadCalls(p) = <<>> /\ Load(p) = ShowMessage(p)  BY <1>2 DEF LoadCalls, Load
  <2>2. page'.nonce = p.nonce  BY ZenonT(30), <2>1 DEF ShowMessage, Page
  <2>3. calls' = rest  BY <2>1, ConcatEmptySeq
  <2> QED  BY <2>2, <2>3
<1> QED  BY <1>1, <1>2

LEMMA AppendHolds ==
  ASSUME NEW S, NEW s \in Seq(S), NEW c \in S, Holds(s)
  PROVE  Holds(Append(s, c))
<1>1. PICK j \in DOMAIN s : s[j].op = "fromBalance"  BY DEF Holds
<1>2. j \in DOMAIN Append(s, c) /\ Append(s, c)[j] = s[j]
  BY AppendProperties, LenProperties
<1> QED  BY <1>1, <1>2 DEF Holds

LEMMA RemoveHolds ==
  ASSUME IInv, NEW i \in DOMAIN calls, calls[i].op # "fromBalance", Holds(calls)
  PROVE  Holds(RemoveAt(calls, i))
<1>1. PICK j \in DOMAIN calls : calls[j].op = "fromBalance" /\ j # i  BY DEF Holds
<1>2. calls \in Seq(Request(Len(past)))  BY DEF IInv
<1>3. PICK k \in DOMAIN RemoveAt(calls, i) : RemoveAt(calls, i)[k] = calls[j]
  BY <1>1, <1>2, CallsType, RemoveAtElements
<1> QED  BY <1>1, <1>3 DEF Holds

LEMMA UserAsks ==
  ASSUME IInv, User, page'.nonce = 0, page.nonce = 0 => Holds(calls)
  PROVE  Holds(calls')
<1>1. page \in Page /\ PastOK /\ calls \in Seq(Request(Len(past)))  BY DEF IInv
<1>2. CASE Refresh  BY <1>1, <1>2, LoadedAsks DEF Refresh, Reload
<1>3. CASE ChangeFrom
  <2>1. PICK a \in Account : Reload([page EXCEPT !.from = a], calls)
    BY <1>3 DEF ChangeFrom
  <2> DEFINE p == [page EXCEPT !.from = a]
  <2>2. p \in Page /\ p.nonce = page.nonce  BY <1>1 DEF Page
  <2>3. page' = Load(p) /\ calls' = calls \o LoadCalls(p)  BY <2>1 DEF Reload
  <2> HIDE DEF p
  <2> QED  BY <1>1, <2>2, <2>3, LoadedAsks
<1>4. CASE ChangeTo
  <2>1. PICK a \in Account : Reload([page EXCEPT !.to = a], calls)
    BY <1>4 DEF ChangeTo
  <2> DEFINE p == [page EXCEPT !.to = a]
  <2>2. p \in Page /\ p.nonce = page.nonce  BY <1>1 DEF Page
  <2>3. page' = Load(p) /\ calls' = calls \o LoadCalls(p)  BY <2>1 DEF Reload
  <2> HIDE DEF p
  <2> QED  BY <1>1, <2>2, <2>3, LoadedAsks
<1>5. CASE ShowTab \/ EnterAmount \/ EnterTip
  <2>1. page'.nonce = page.nonce
    BY <1>1, <1>5 DEF ShowTab, ShowInfoTab, EnterAmount, EnterTip, Page
  <2> QED  BY <1>5, <2>1 DEF ShowTab, EnterAmount, EnterTip
<1>6. CASE SubmitTran \/ Dismiss \/ CreateTransaction
  <2>1. page' \in {ShowMessage(page), ShowConfirmation(page), CloseModal(page)}
    BY <1>6 DEF SubmitTran, Dismiss, CreateTransaction
  <2>2. Holds(calls)
    BY <1>1, <2>1 DEF ShowMessage, ShowConfirmation, CloseModal, Page
  <2>3. calls' = calls \/ \E c : calls' = Append(calls, c)
    BY <1>6 DEF SubmitTran, Dismiss, CreateTransaction
  <2>4. ASSUME NEW c, calls' = Append(calls, c) PROVE Holds(calls')
    <3>1. calls \in Seq(Request(Len(past)) \cup {c})  BY <1>1, SeqMonotonic
    <3> QED  BY <2>2, <2>4, <3>1, AppendHolds
  <2> QED  BY <2>2, <2>3, <2>4
<1> QED  BY <1>2, <1>3, <1>4, <1>5, <1>6 DEF User

\* The answer to the read of the balance of a known account leaves a nonce.
LEMMA BalanceGivesNonce ==
  ASSUME NEW p \in Page, NEW n \in Node, Account \subseteq Known(n), NEW c \in Read,
         c.op = "fromBalance", NEW q \in Shown(p, c, n)
  PROVE  q.nonce # 0
<1> DEFINE i == n.info[c.account]
           next == IF p.nonce = 0 THEN i.nonce + 1 ELSE p.nonce
<1>1. c.account \in Known(n)  BY DEF Read
<1>2. i.nonce \in Nat  BY <1>1, InfoOfKnown DEF Info
<1>3. next # 0
  <2> HIDE DEF i
  <2> QED  BY <1>2
<1>4. q = [p EXCEPT !.frombal = i.balance, !.fromnonce = i.nonce,
                    !.nonce = next, !.nextnonce = next]
  BY <1>1 DEF Shown, FromBalance
<1> HIDE DEF i, next
<1> QED  BY <1>3, <1>4 DEF Page

AllKnown == \A k \in DOMAIN past : Account \subseteq Known(past[k])

LEMMA AnswerAsks ==
  ASSUME IInv, AllKnown, page'.nonce = 0, page.nonce = 0 => Holds(calls),
         NEW i \in DOMAIN calls, Answer(i)
  PROVE  Holds(calls')
<1>1. page \in Page /\ PastOK /\ calls \in Seq(Request(Len(past)))  BY DEF IInv
<1>2. CASE ReadDone(i)
  <2>1. page.nonce = 0
    <3>1. page'.nonce >= page.nonce  BY <1>2, ReadDoneNonce
    <3>2. page.nonce \in Nat  BY <1>1 DEF Page
    <3> QED  BY <3>1, <3>2
  <2>2. calls[i] \in Read  BY <1>2, CallsType DEF ReadDone
  <2>3. calls[i].op # "fromBalance"
    <3>1. PICK k \in calls[i].since .. Len(past) : page' \in Shown(page, calls[i], past[k])
      BY <1>2 DEF ReadDone
    <3>2. past[k] \in Node  BY <2>2, <3>1, StateOfRead
    <3>3. Account \subseteq Known(past[k])
      <4>1. calls[i].since \in Nat \ {0} /\ Len(past) \in Nat  BY <1>1, <2>2, NodeOfPast DEF Read
      <4>2. k \in 1 .. Len(past)  BY <4>1
      <4>3. k \in DOMAIN past  BY <1>1, <4>2, LenProperties DEF PastOK
      <4> QED  BY <4>3 DEF AllKnown
    <3> QED  BY <1>1, <2>2, <3>1, <3>2, <3>3, BalanceGivesNonce
  <2> QED  BY <1>2, <2>1, <2>3, RemoveHolds DEF ReadDone
<1>3. CASE SubmitDone(i)
  <2> DEFINE p == [page EXCEPT !.nextnonce = page.nonce]
             rest == RemoveAt(calls, i)
  <2>1. p \in Page /\ p.nonce = page.nonce
    <3>1. page.nonce \in Nat  BY <1>1 DEF Page
    <3>2. page.nonce \in Number  BY <3>1 DEF Number
    <3> QED  BY <1>1, <3>2 DEF Page
  <2>2. rest \in Seq(Request(Len(past)))  BY RemovedCall
  <2>3. page.nonce = 0 => Holds(rest)  BY <1>3, RemoveHolds DEF SubmitDone
  <2>4. CASE page' = ShowMessage(Load(p)) /\ calls' = rest \o LoadCalls(p)
    <3> HIDE DEF p, rest
    <3> QED  BY <1>1, <2>1, <2>2, <2>3, <2>4, LoadedAsks
  <2>5. CASE page' = HandleAjaxError(page, TRUE) /\ calls' = rest
    <3>1. page'.nonce = page.nonce  BY <1>1, <2>5 DEF HandleAjaxError, ShowMessage, Page
    <3> QED  BY <2>3, <2>5, <3>1
  <2> QED  BY <1>3, <2>4, <2>5 DEF SubmitDone
<1>4. CASE NodeSubmit(i)
  <2>1. PICK status : calls' = [calls EXCEPT ![i].status = status]
    BY <1>4 DEF NodeSubmit
  <2>2. page' = page  BY <1>4 DEF NodeSubmit, Moves
  <2>3. PICK j \in DOMAIN calls : calls[j].op = "fromBalance"  BY <2>2 DEF Holds
  <2>4. j # i  BY <1>4, <2>3 DEF NodeSubmit
  <2>5. j \in DOMAIN calls' /\ calls'[j] = calls[j]  BY <2>1, <2>4
  <2> QED  BY <2>3, <2>5 DEF Holds
<1> QED  BY <1>2, <1>3, <1>4 DEF Answer

LEMMA KnownBefore == ASSUME IInv, [Next]_vars, AllKnown' PROVE AllKnown
<1>1. CASE past' = past  BY <1>1 DEF AllKnown
<1>2. CASE \E n : past' = Append(past, n)
  <2>1. PICK n : past' = Append(past, n)  BY <1>2
  <2>2. past \in Seq(Node \cup {n})
    <3>1. past \in Seq(Node)  BY DEF IInv, PastOK
    <3> QED  BY <3>1, SeqMonotonic
  <2>3. ASSUME NEW k \in DOMAIN past PROVE Account \subseteq Known(past[k])
    <3>1. k \in DOMAIN past' /\ past'[k] = past[k]
      BY <2>1, <2>2, AppendProperties, LenProperties
    <3>2. Account \subseteq Known(past'[k])  BY <3>1 DEF AllKnown
    <3> QED  BY <3>1, <3>2
  <2> QED  BY <2>3 DEF AllKnown
<1>3. past' = past \/ \E n : past' = Append(past, n)
  <2>1. CASE \E i \in DOMAIN calls : Answer(i) \/ Unanswered(i)
    BY <2>1 DEF Answer, ReadDone, SubmitDone, NodeSubmit, Moves, Unanswered
  <2>2. CASE NodeReceive \/ NodeStore  BY <2>2 DEF NodeReceive, NodeStore, Moves
  <2>3. CASE Open \/ Close \/ Error \/ Message \/ User \/ NodeMine
    BY <2>3 DEF Open, Close, Error, Disconnected, Message, User, NodeMine
  <2>4. CASE UNCHANGED vars  BY <2>4 DEF vars
  <2> QED  BY <2>1, <2>2, <2>3, <2>4 DEF Next
<1> QED  BY <1>1, <1>2, <1>3

LEMMA NonceZeroStep ==
  ASSUME IInv, NonceZeroWhileAsked, [Next]_vars
  PROVE  NonceZeroWhileAsked'
<1> SUFFICES ASSUME socket' = "open", page'.nonce = 0, misses' = 0, AllKnown'
             PROVE  Holds(calls')
  BY DEF NonceZeroWhileAsked, AllKnown, Holds
<1>1. AllKnown  BY KnownBefore
<1>2. page \in Page /\ PastOK /\ calls \in Seq(Request(Len(past))) /\ misses \in Nat
  BY DEF IInv
<1>3. ASSUME socket = "open", misses = 0, page.nonce = 0 PROVE Holds(calls)
  BY <1>1, <1>3 DEF NonceZeroWhileAsked, AllKnown, Holds
<1>4. CASE Open
  <2> DEFINE p == [page EXCEPT !.label = "CONNECTED"]
  <2>1. p \in Page /\ p.label = "CONNECTED"  BY <1>2 DEF Page
  <2>2. calls' = calls \o LoadCalls(p)  BY <1>4 DEF Open, Reload
  <2> HIDE DEF p
  <2> QED  BY <1>2, <2>1, <2>2, LoadAsks
<1>5. CASE Close \/ Error  BY <1>5 DEF Close, Error, Disconnected
<1>6. CASE Message
  <2> DEFINE p == [page EXCEPT !.label = "CONNECTED"]
  <2>1. p \in Page /\ p.label = "CONNECTED"  BY <1>2 DEF Page
  <2>2. CASE calls' = calls \o LoadCalls(p)
    <3> HIDE DEF p
    <3> QED  BY <1>2, <2>1, <2>2, LoadAsks
  <2>3. CASE page' = [page EXCEPT !.label = "MINING..."] /\ calls' = calls
    <3>1. page.nonce = 0  BY <1>2, <2>3 DEF Page
    <3>2. socket = "open" /\ misses = 0  BY <1>6 DEF Message
    <3> QED  BY <1>3, <2>3, <3>1, <3>2
  <2> QED  BY <1>6, <2>2, <2>3 DEF Message, Reload
<1>7. CASE User
  <2>1. socket = "open" /\ misses = 0  BY <1>7 DEF User
  <2> QED  BY <1>3, <1>7, <2>1, UserAsks
<1>8. ASSUME NEW i \in DOMAIN calls, Answer(i) PROVE Holds(calls')
  <2>1. socket = "open" /\ misses = 0
    BY <1>8 DEF Answer, ReadDone, SubmitDone, NodeSubmit, Moves
  <2> QED  BY <1>1, <1>3, <1>8, <2>1, AnswerAsks
<1>9. ASSUME NEW i \in DOMAIN calls, Unanswered(i) PROVE FALSE
  <2>1. misses' = misses + 1  BY <1>9 DEF Unanswered
  <2> QED  BY <1>2, <2>1
<1>10. CASE NodeReceive \/ NodeStore
  <2>1. UNCHANGED <<page, calls, socket, misses>>
    BY <1>10 DEF NodeReceive, NodeStore, Moves
  <2> QED  BY <1>3, <2>1
<1>11. CASE NodeMine
  <2>1. UNCHANGED <<page, calls, socket>>  BY <1>11 DEF NodeMine
  <2>2. misses' = misses \/ misses' = misses + 1
    BY <1>11, <2>1 DEF NodeMine, Notify
  <2>3. misses = 0  BY <1>2, <2>2
  <2> QED  BY <1>3, <2>1, <2>3
<1>12. CASE UNCHANGED vars
  <2>1. UNCHANGED <<page, calls, socket, misses>>  BY <1>12 DEF vars
  <2> QED  BY <1>3, <2>1
<1> QED  BY <1>4, <1>5, <1>6, <1>7, <1>8, <1>9, <1>10, <1>11, <1>12 DEF Next

\* With a node that knows every account, the wallet shows and signs with nonce zero
\* only while a balance it asked for has not arrived (load, fromBalance).
THEOREM NonceZeroOnlyWhileAsked == Spec => []NonceZeroWhileAsked
<1>1. Init => NonceZeroWhileAsked  BY DEF Init, NonceZeroWhileAsked
<1>2. IInv /\ NonceZeroWhileAsked /\ [Next]_vars => NonceZeroWhileAsked'
  BY NonceZeroStep
<1> QED  BY <1>1, <1>2, Invariant, PTL DEF Spec

-----------------------------------------------------------------------------
(* A load that nothing disturbs.                                             *)

LEMMA PendingType ==
  ASSUME NEW n \in Node, IsFiniteSet(n.pool), NEW a
  PROVE  Pending(n, a) \in Int
<1> DEFINE D == OwnPool(n, a)
           v == [t \in D |-> t.value]
           Is(f) == f = [s \in SUBSET D |->
                             IF s = {} THEN 0
                             ELSE LET x == CHOOSE x \in s : TRUE
                                  IN  ValueOf(x) + f[s \ {x}]]
           it == CHOOSE f : Is(f)
<1>1. D \subseteq PoolTx  BY DEF OwnPool, Node
<1>2. IsFiniteSet(D)  BY FS_Subset DEF OwnPool
<1>3. v \in [D -> Int]  BY <1>1 DEF PoolTx, BlockTx
<1>4. Pending(n, a) = it[D]  BY DEF Pending, MapThenSumSet, MapThenFoldSet
<1> HIDE DEF D
<1>5. ASSUME NEW f PROVE Is(f) <=> Sums(f, D, v)
  <2> DEFINE One(s) == IF s = {} THEN 0
                       ELSE LET x == CHOOSE x \in s : TRUE IN ValueOf(x) + f[s \ {x}]
             Other(s) == IF s = {} THEN 0
                         ELSE v[AnyOf(D)[s]] + f[s \ {AnyOf(D)[s]}]
  <2>1. ASSUME NEW s \in SUBSET D PROVE One(s) = Other(s)
    <3>1. CASE s = {}  BY <3>1
    <3>2. CASE s # {}
      <4>1. (CHOOSE x \in s : TRUE) \in D  BY <3>2
      <4>2. AnyOf(D)[s] = CHOOSE x \in s : TRUE  BY DEF AnyOf
      <4> QED  BY <3>2, <4>1, <4>2 DEF ValueOf
    <3> QED  BY <3>1, <3>2
  <2>2. Is(f) <=> f = [s \in SUBSET D |-> One(s)]  OBVIOUS
  <2>3. Sums(f, D, v) <=> f = [s \in SUBSET D |-> Other(s)]  BY DEF Sums
  <2> HIDE DEF One, Other, Is
  <2> QED  BY <2>1, <2>2, <2>3
<1> HIDE DEF v, Is
<1>6. \E f : Is(f)  BY <1>2, <1>3, <1>5, SumsExist
<1>7. Sums(it, D, v)  BY <1>5, <1>6
<1> HIDE DEF it
<1>8. Adds(it, D, v)  BY <1>2, <1>3, <1>7, SumsOfFold
<1> QED  BY <1>4, <1>8 DEF Adds

\* What the page p owes to the state n of the node while answers to the requests R
\* are outstanding: what has been answered is shown, and the nonce is either still
\* zero or above that of the account or of a transaction in the pool.
Right(p, R, n) ==
  /\ p.from \in Known(n) =>
       /\ p.nonce = 0 => "fromBalance" \in R
       /\ "mempool" \in R => p.nonce \in {0, n.info[p.from].nonce + 1}
       /\ p.nonce \in {0, n.info[p.from].nonce + 1}
                        \cup {t.nonce + 1 : t \in OwnPool(n, p.from)}
       /\ "fromBalance" \notin R =>
            /\ p.fromnonce = n.info[p.from].nonce
            /\ p.nextnonce = p.nonce
            /\ \/ p.frombal = n.info[p.from].balance
               \/ /\ "mempool" \notin R
                  /\ p.frombal = n.info[p.from].balance - Pending(n, p.from)
  /\ "mempool" \notin R =>
       /\ \A t \in OwnPool(n, p.from) : p.nonce >= t.nonce + 1
       /\ p.memp = Cardinality(Involving(n, p.from))
  /\ "toBalance" \notin R /\ p.to \in Known(n) => p.tobal = n.info[p.to].balance
  /\ p.trans \in {0, n.mined[p.from]}
  /\ "transactions" \notin R => p.trans = n.mined[p.from]

\* What Right reads of a page.
SameReadings(p, q) ==
  /\ q.from = p.from /\ q.to = p.to /\ q.nonce = p.nonce /\ q.fromnonce = p.fromnonce
  /\ q.nextnonce = p.nextnonce /\ q.frombal = p.frombal /\ q.tobal = p.tobal
  /\ q.trans = p.trans /\ q.memp = p.memp

LEMMA RightSame ==
  ASSUME NEW p, NEW q, NEW R, NEW n, Right(p, R, n), SameReadings(p, q)
  PROVE  Right(q, R, n)
BY Zenon DEF Right, SameReadings

\* Asking for the balance once more, or submitting, changes nothing of what is owed.
LEMMA RightMoreAsked ==
  ASSUME NEW p, NEW R, NEW n, Right(p, R, n), NEW op \in {"fromBalance", "submit"}
  PROVE  Right(p, R \cup {op}, n)
BY DEF Right

LEMMA RightLoaded ==
  ASSUME NEW p, NEW R, NEW n, p.nonce = 0, p.trans = 0,
         {"fromBalance", "toBalance", "transactions", "mempool"} \subseteq R
  PROVE  Right(p, R, n)
BY DEF Right

\* The requests R without the one just answered, of which there may be another.
Answered(R, op, rest) ==
  /\ rest \subseteq R /\ R \ {op} \subseteq rest
  /\ op = "mempool" => op \notin rest

LEMMA FromBalanceRight ==
  ASSUME NEW p \in Page, NEW n \in Node, NEW R, Right(p, R, n), NEW c,
         c.account = p.from, NEW rest, Answered(R, "fromBalance", rest)
  PROVE  Right(FromBalance(p, c, n), rest, n)
<1>1. "mempool" \in rest <=> "mempool" \in R  BY DEF Answered
<1>2. "toBalance" \in rest <=> "toBalance" \in R  BY DEF Answered
<1>3. "transactions" \in rest <=> "transactions" \in R  BY DEF Answered
<1>4. CASE p.from \notin Known(n)
  <2>1. FromBalance(p, c, n) = p  BY <1>4 DEF FromBalance
  <2> QED  BY <1>1, <1>2, <1>3, <1>4, <2>1 DEF Right
<1>5. CASE p.from \in Known(n)
  <2> DEFINE i == n.info[p.from]
             next == IF p.nonce = 0 THEN i.nonce + 1 ELSE p.nonce
             q == [p EXCEPT !.frombal = i.balance, !.fromnonce = i.nonce,
                            !.nonce = next, !.nextnonce = next]
  <2>1. FromBalance(p, c, n) = q  BY <1>5 DEF FromBalance
  <2>2. i.nonce \in Nat /\ p.nonce \in Nat  BY <1>5, InfoOfKnown DEF Info, Page
  <2>3. next # 0 /\ next >= p.nonce /\ next \in Nat
    <3> HIDE DEF i
    <3> QED  BY <2>2
  <2>4. /\ q.from = p.from /\ q.to = p.to /\ q.tobal = p.tobal /\ q.trans = p.trans
        /\ q.memp = p.memp /\ q.nonce = next /\ q.nextnonce = next
        /\ q.frombal = i.balance /\ q.fromnonce = i.nonce
    <3> HIDE DEF i, next
    <3> QED  BY DEF Page
  <2>5. "mempool" \in R => next \in {0, i.nonce + 1}  BY <1>5 DEF Right
  <2>6. next \in {0, i.nonce + 1} \cup {t.nonce + 1 : t \in OwnPool(n, p.from)}
    BY <1>5 DEF Right
  <2>7. ASSUME "mempool" \notin R, NEW t \in OwnPool(n, p.from) PROVE next >= t.nonce + 1
    <3>1. p.nonce >= t.nonce + 1  BY <2>7 DEF Right
    <3>2. t.nonce \in Nat  BY DEF OwnPool, Node, PoolTx, BlockTx
    <3> HIDE DEF next
    <3> QED  BY <2>2, <2>3, <3>1, <3>2
  <2>8. "mempool" \notin R => p.memp = Cardinality(Involving(n, p.from))  BY DEF Right
  <2>9. "toBalance" \notin R /\ p.to \in Known(n) => p.tobal = n.info[p.to].balance
    BY DEF Right
  <2>10. /\ p.trans \in {0, n.mined[p.from]}
         /\ "transactions" \notin R => p.trans = n.mined[p.from]
    BY DEF Right
  <2> HIDE DEF next, q
  <2>11. Right(q, rest, n)
    BY <1>1, <1>2, <1>3, <2>3, <2>4, <2>5, <2>6, <2>7, <2>8, <2>9, <2>10 DEF Right
  <2> QED  BY <2>1, <2>11
<1> QED  BY <1>4, <1>5

LEMMA ToBalanceRight ==
  ASSUME NEW p \in Page, NEW n \in Node, NEW R, Right(p, R, n), NEW c,
         c.account = p.to, NEW rest, Answered(R, "toBalance", rest)
  PROVE  Right(ToBalance(p, c, n), rest, n)
<1> DEFINE q == ToBalance(p, c, n)
<1>1. /\ "fromBalance" \in rest <=> "fromBalance" \in R
      /\ "mempool" \in rest <=> "mempool" \in R
      /\ "transactions" \in rest <=> "transactions" \in R
  BY DEF Answered
<1>2. /\ q.from = p.from /\ q.to = p.to /\ q.nonce = p.nonce
      /\ q.fromnonce = p.fromnonce /\ q.nextnonce = p.nextnonce
      /\ q.frombal = p.frombal /\ q.trans = p.trans /\ q.memp = p.memp
  BY DEF ToBalance, Page
<1>3. p.to \in Known(n) => q.tobal = n.info[p.to].balance  BY DEF ToBalance, Page
<1> HIDE DEF q
<1>4. Right(q, rest, n)  BY Zenon, <1>1, <1>2, <1>3 DEF Right
<1> QED  BY <1>4 DEF q

LEMMA TransactionsRight ==
  ASSUME NEW p \in Page, NEW n \in Node, NEW R, Right(p, R, n), NEW c,
         c.account = p.from, NEW rest, Answered(R, "transactions", rest)
  PROVE  Right(Transactions(p, c, n), rest, n)
<1> DEFINE q == Transactions(p, c, n)
<1>1. /\ "fromBalance" \in rest <=> "fromBalance" \in R
      /\ "mempool" \in rest <=> "mempool" \in R
      /\ "toBalance" \in rest <=> "toBalance" \in R
  BY DEF Answered
<1>2. /\ q.from = p.from /\ q.to = p.to /\ q.nonce = p.nonce
      /\ q.fromnonce = p.fromnonce /\ q.nextnonce = p.nextnonce
      /\ q.frombal = p.frombal /\ q.tobal = p.tobal /\ q.memp = p.memp
  BY DEF Transactions, Page
<1>3. q.trans = n.mined[p.from]
  <2>1. p.trans \in {0, n.mined[p.from]}  BY DEF Right
  <2> QED  BY <2>1 DEF Transactions, Page
<1> HIDE DEF q
<1>4. Right(q, rest, n)  BY Zenon, <1>1, <1>2, <1>3 DEF Right
<1> QED  BY <1>4 DEF q

LEMMA MempoolRight ==
  ASSUME NEW p \in Page, NEW n \in Node, IsFiniteSet(n.pool), NEW R, Right(p, R, n),
         NEW c, c.account = p.from, "mempool" \in R,
         NEW rest, Answered(R, "mempool", rest),
         NEW next \in Highest({p.nonce} \cup {t.nonce + 1 : t \in OwnPool(n, p.from)})
  PROVE  Right(Mempool(p, c, n, next), rest, n)
<1> DEFINE own == OwnPool(n, p.from)
           pending == Pending(n, p.from)
           q == Mempool(p, c, n, next)
<1>1. /\ "fromBalance" \in rest <=> "fromBalance" \in R
      /\ "transactions" \in rest <=> "transactions" \in R
      /\ "toBalance" \in rest <=> "toBalance" \in R
      /\ "mempool" \notin rest
  BY DEF Answered
<1>2. pending \in Int  BY PendingType
<1>3. p.nonce \in Nat /\ \A t \in own : t.nonce \in Nat
  BY DEF Page, OwnPool, Node, PoolTx, BlockTx
<1>4. /\ next \in {p.nonce} \cup {t.nonce + 1 : t \in own}
      /\ p.nonce <= next
      /\ \A t \in own : t.nonce + 1 <= next
  BY DEF Highest
<1>5. /\ q.from = p.from /\ q.to = p.to /\ q.tobal = p.tobal /\ q.trans = p.trans
      /\ q.fromnonce = p.fromnonce /\ q.nonce = next
      /\ q.nextnonce = IF next = p.nonce THEN p.nextnonce ELSE next
      /\ q.frombal = IF own = {} THEN p.frombal ELSE Minus(p.frombal, pending)
      /\ q.memp = Cardinality(Involving(n, p.from))
  BY DEF Mempool, Page
<1> HIDE DEF q, own, pending
<1>6. \A t \in own : q.nonce >= t.nonce + 1
  <2>1. next \in Nat  BY <1>3, <1>4
  <2> QED  BY <1>3, <1>4, <1>5, <2>1
<1>7. ASSUME p.from \in Known(n)
      PROVE  /\ q.nonce = 0 => "fromBalance" \in rest
             /\ q.nonce \in {0, n.info[p.from].nonce + 1} \cup {t.nonce + 1 : t \in own}
  <2>1. /\ p.nonce = 0 => "fromBalance" \in R
        /\ p.nonce \in {0, n.info[p.from].nonce + 1}
    BY <1>7 DEF Right
  <2>2. next = 0 => p.nonce = 0  BY <1>3, <1>4
  <2> QED  BY <1>1, <1>4, <1>5, <2>1, <2>2
<1>8. ASSUME p.from \in Known(n), "fromBalance" \notin rest
      PROVE  /\ q.fromnonce = n.info[p.from].nonce
             /\ q.nextnonce = q.nonce
             /\ \/ q.frombal = n.info[p.from].balance
                \/ q.frombal = n.info[p.from].balance - pending
  <2>1. /\ p.fromnonce = n.info[p.from].nonce
        /\ p.nextnonce = p.nonce
        /\ p.frombal = n.info[p.from].balance
    BY <1>1, <1>8 DEF Right
  <2>2. n.info[p.from].balance \in Int  BY <1>8, InfoOfKnown DEF Info
  <2>3. n.info[p.from].balance # NaN  BY <2>2, NumberAssumption
  <2>4. Minus(p.frombal, pending) = n.info[p.from].balance - pending
    BY <1>2, <2>1, <2>3 DEF Minus
  <2> QED  BY <1>5, <2>1, <2>4
<1>9. "toBalance" \notin R /\ p.to \in Known(n) => p.tobal = n.info[p.to].balance
  BY DEF Right
<1>10. /\ p.trans \in {0, n.mined[p.from]}
       /\ "transactions" \notin R => p.trans = n.mined[p.from]
  BY DEF Right
<1>11. Right(q, rest, n)
  BY <1>1, <1>5, <1>6, <1>7, <1>8, <1>9, <1>10 DEF Right, own, pending
<1> QED  BY <1>11 DEF q

\* What the requests of s ask for.
Asked(s) == {s[j].op : j \in DOMAIN s}

\* At most one asks for the pool, whose value would otherwise be taken twice.
PoolOnce(s) ==
  \A j, k \in DOMAIN s : s[j].op = "mempool" /\ s[k].op = "mempool" => j = k

\* A read was made at the present state of the node, for the account in the menu.
Present(c) ==
  c.op # "submit" =>
    /\ c.since = Len(past)
    /\ c.account = IF c.op = "toBalance" THEN page.to ELSE page.from

\* While nothing disturbs the last load, each answer that is outstanding will be
\* about the page and the node as they are, and what has been answered is shown.
Settling ==
  quiet => /\ \A j \in DOMAIN calls : Present(calls[j])
           /\ PoolOnce(calls)
           /\ Right(page, Asked(calls), node)

LEMMA RemoveAsked ==
  ASSUME NEW S, NEW s \in Seq(S), NEW i \in 1 .. Len(s), PoolOnce(s)
  PROVE  /\ Answered(Asked(s), s[i].op, Asked(RemoveAt(s, i)))
         /\ PoolOnce(RemoveAt(s, i))
         /\ s[i].op \in Asked(s)
<1> DEFINE r == RemoveAt(s, i)
           from(j) == IF j < i THEN j ELSE j + 1
<1>1. /\ DOMAIN s = 1 .. Len(s) /\ Len(s) \in Nat
      /\ \A j \in DOMAIN r : \E k \in DOMAIN s : r[j] = s[k]
      /\ \A k \in DOMAIN s : k # i => \E j \in DOMAIN r : r[j] = s[k]
  BY RemoveAtElements, LenProperties
<1>2. /\ DOMAIN r = 1 .. Len(s) - 1
      /\ \A j \in DOMAIN r : r[j] = IF j < i THEN s[j] ELSE s[j + 1]
  BY RemoveAtFacts, LenProperties
<1> HIDE DEF r
<1>3. \A j \in DOMAIN r : from(j) \in DOMAIN s /\ from(j) # i /\ r[j] = s[from(j)]
  BY <1>1, <1>2
<1>4. \A j, k \in DOMAIN r : from(j) = from(k) => j = k  BY <1>1, <1>2
<1> HIDE DEF from
<1>5. Asked(r) \subseteq Asked(s)  BY <1>1 DEF Asked
<1>6. Asked(s) \ {s[i].op} \subseteq Asked(r)  BY <1>1 DEF Asked
<1>7. PoolOnce(r)  BY <1>3, <1>4 DEF PoolOnce
<1>8. ASSUME s[i].op = "mempool" PROVE "mempool" \notin Asked(r)
  <2>1. \A j \in DOMAIN r : s[from(j)].op # "mempool"  BY <1>1, <1>3, <1>8 DEF PoolOnce
  <2> QED  BY <1>3, <2>1 DEF Asked
<1>9. s[i].op \in Asked(s)  BY <1>1 DEF Asked
<1> QED  BY <1>5, <1>6, <1>7, <1>8, <1>9 DEF Answered, r

LEMMA AppendAsked ==
  ASSUME NEW S, NEW s \in Seq(S), NEW c \in S, c.op # "mempool", PoolOnce(s)
  PROVE  Asked(Append(s, c)) = Asked(s) \cup {c.op} /\ PoolOnce(Append(s, c))
<1> DEFINE t == Append(s, c)
<1>1. /\ DOMAIN s = 1 .. Len(s) /\ Len(s) \in Nat /\ DOMAIN t = 1 .. Len(s) + 1
      /\ \A j \in 1 .. Len(s) : t[j] = s[j]
      /\ t[Len(s) + 1] = c
  BY AppendProperties, LenProperties
<1> HIDE DEF t
<1>2. \A j \in DOMAIN t : j \in DOMAIN s \/ j = Len(s) + 1  BY <1>1
<1>3. DOMAIN s \subseteq DOMAIN t /\ Len(s) + 1 \in DOMAIN t  BY <1>1
<1>4. Asked(t) = Asked(s) \cup {c.op}
  <2>1. ASSUME NEW op \in Asked(t) PROVE op \in Asked(s) \cup {c.op}
    <3>1. PICK j \in DOMAIN t : op = t[j].op  BY DEF Asked
    <3> QED  BY <1>1, <1>2, <3>1 DEF Asked
  <2>2. ASSUME NEW op \in Asked(s) PROVE op \in Asked(t)
    <3>1. PICK j \in DOMAIN s : op = s[j].op  BY DEF Asked
    <3> QED  BY <1>1, <1>3, <3>1 DEF Asked
  <2>3. c.op \in Asked(t)  BY <1>1, <1>3 DEF Asked
  <2> QED  BY <2>1, <2>2, <2>3
<1>5. PoolOnce(t)
  <2> SUFFICES ASSUME NEW j \in DOMAIN t, NEW k \in DOMAIN t,
                      t[j].op = "mempool", t[k].op = "mempool"
               PROVE  j = k
    BY DEF PoolOnce
  <2>1. j \in DOMAIN s /\ k \in DOMAIN s  BY <1>1, <1>2
  <2> QED  BY <1>1, <2>1 DEF PoolOnce
<1> QED  BY <1>4, <1>5 DEF t

\* The answer to a read.
LEMMA ShownRight ==
  ASSUME NEW p \in Page, NEW n \in Node, IsFiniteSet(n.pool), NEW c \in Read,
         c.account = IF c.op = "toBalance" THEN p.to ELSE p.from,
         NEW R, Right(p, R, n), c.op \in R, NEW rest, Answered(R, c.op, rest),
         NEW q \in Shown(p, c, n)
  PROVE  Right(q, rest, n) /\ q.from = p.from /\ q.to = p.to
<1>1. c.op \in {"fromBalance", "toBalance", "transactions", "mempool"}  BY DEF Read
<1>2. CASE c.op = "fromBalance"
  <2>1. q = FromBalance(p, c, n)  BY <1>2 DEF Shown
  <2>2. q.from = p.from /\ q.to = p.to  BY <2>1 DEF FromBalance, Page
  <2> QED  BY <1>2, <2>1, <2>2, FromBalanceRight
<1>3. CASE c.op = "toBalance"
  <2>1. q = ToBalance(p, c, n)  BY <1>3 DEF Shown
  <2>2. q.from = p.from /\ q.to = p.to  BY <2>1 DEF ToBalance, Page
  <2> QED  BY <1>3, <2>1, <2>2, ToBalanceRight
<1>4. CASE c.op = "transactions"
  <2>1. q = Transactions(p, c, n)  BY <1>4 DEF Shown
  <2>2. q.from = p.from /\ q.to = p.to  BY <2>1 DEF Transactions, Page
  <2> QED  BY <1>4, <2>1, <2>2, TransactionsRight
<1>5. CASE c.op = "mempool"
  <2>1. c.account = p.from  BY <1>5
  <2>2. PICK next \in Highest({p.nonce} \cup {t.nonce + 1 : t \in OwnPool(n, p.from)}) :
          q = Mempool(p, c, n, next)
    BY <1>5, <2>1 DEF Shown
  <2>3. q.from = p.from /\ q.to = p.to  BY <2>2 DEF Mempool, Page
  <2> QED  BY <1>5, <2>1, <2>2, <2>3, MempoolRight
<1> QED  BY <1>1, <1>2, <1>3, <1>4, <1>5

\* A step that changes nothing a load reads or shows.
LEMMA SettlingStep ==
  ASSUME Settling, UNCHANGED <<calls, past>>, quiet' => quiet, SameReadings(page, page')
  PROVE  Settling'
<1> SUFFICES ASSUME quiet' PROVE Settling'
  BY DEF Settling
<1>1. node' = node  BY DEF node
<1>2. /\ \A j \in DOMAIN calls : Present(calls[j])
      /\ PoolOnce(calls)
      /\ Right(page, Asked(calls), node)
  BY DEF Settling
<1>3. Right(page', Asked(calls'), node')  BY <1>1, <1>2, RightSame
<1>4. PoolOnce(calls')  BY <1>2
<1>5. ASSUME NEW j \in DOMAIN calls' PROVE Present(calls[j])'
  BY <1>2 DEF Present, SameReadings
<1>6. \A j \in DOMAIN calls' : Present(calls[j])'  BY <1>5
<1> QED  BY <1>3, <1>4, <1>6 DEF Settling

\* A load that finds no request under way begins to settle.
LEMMA LoadSettles ==
  ASSUME PastOK, past' = past, NEW p \in Page, NEW rest,
         page' = Load(p) \/ page' = ShowMessage(Load(p)), calls' = rest \o LoadCalls(p),
         quiet' => p.label = "CONNECTED" /\ rest = <<>>
  PROVE  Settling'
<1> SUFFICES ASSUME quiet' PROVE Settling'
  BY DEF Settling
<1> DEFINE four == <<Ask("fromBalance", p.from), Ask("toBalance", p.to),
                     Ask("transactions", p.from), Ask("mempool", p.from)>>
<1>1. p.label = "CONNECTED" /\ rest = <<>>  OBVIOUS
<1>2. LoadCalls(p) = four  BY <1>1 DEF LoadCalls
<1>3. calls' = four
  <2>1. LoadCalls(p) \in Seq(Request(Len(past)))  BY LoadCallsType
  <2> QED  BY <1>1, <1>2, <2>1, ConcatEmptySeq
<1>4. page'.from = p.from /\ page'.to = p.to /\ page'.nonce = 0 /\ page'.trans = 0
  <2>1. Load(p) = [CloseModal(p) EXCEPT !.nonce = 0, !.trans = 0]  BY <1>1 DEF Load
  <2>2. /\ Load(p).from = p.from /\ Load(p).to = p.to
        /\ Load(p).nonce = 0 /\ Load(p).trans = 0 /\ Load(p) \in Page
    <3> DEFINE m == CloseModal(p)
    <3>1. m \in Page /\ m.from = p.from /\ m.to = p.to
      BY PageFunctions DEF CloseModal, Page
    <3>2. Load(p) \in Page  BY PageFunctions
    <3> HIDE DEF m
    <3> QED  BY <2>1, <3>1, <3>2 DEF m, Page
  <2>3. CASE page' = Load(p)  BY <2>2, <2>3
  <2>4. CASE page' = ShowMessage(Load(p))
    <3> DEFINE l == Load(p)
    <3> HIDE DEF l
    <3>1. l \in Page  BY <2>2 DEF l
    <3>2. /\ ShowMessage(l).from = l.from /\ ShowMessage(l).to = l.to
          /\ ShowMessage(l).nonce = l.nonce /\ ShowMessage(l).trans = l.trans
      BY <3>1 DEF ShowMessage, Page
    <3> QED  BY <2>2, <2>4, <3>2 DEF l
  <2> QED  BY <2>3, <2>4
<1>5. DOMAIN four = 1 .. 4  OBVIOUS
<1>6. /\ four[1] = Ask("fromBalance", p.from) /\ four[2] = Ask("toBalance", p.to)
      /\ four[3] = Ask("transactions", p.from) /\ four[4] = Ask("mempool", p.from)
  OBVIOUS
<1> HIDE DEF four
<1>7. /\ four[1].op = "fromBalance" /\ four[2].op = "toBalance"
      /\ four[3].op = "transactions" /\ four[4].op = "mempool"
  BY <1>6 DEF Ask
<1>8. PoolOnce(four)
  <2>1. \A j \in 1 .. 4 : four[j].op = "mempool" => j = 4  BY <1>7
  <2> QED  BY <1>5, <2>1 DEF PoolOnce
<1>9. {"fromBalance", "toBalance", "transactions", "mempool"} \subseteq Asked(four)
  <2>1. 1 \in DOMAIN four /\ 2 \in DOMAIN four /\ 3 \in DOMAIN four /\ 4 \in DOMAIN four
    BY <1>5
  <2> QED  BY <1>7, <2>1 DEF Asked
<1>10. Right(page', Asked(calls'), node')  BY <1>3, <1>4, <1>9, RightLoaded
<1>11. ASSUME NEW j \in DOMAIN calls' PROVE Present(calls[j])'
  <2>1. j \in 1 .. 4 /\ calls'[j] = four[j]  BY <1>3, <1>5
  <2>2. /\ four[j].since = Len(past)
        /\ four[j].account = IF four[j].op = "toBalance" THEN p.to ELSE p.from
    <3>1. four[j] = Ask(four[j].op, IF four[j].op = "toBalance" THEN p.to ELSE p.from)
      BY <1>6, <1>7, <2>1
    <3> QED  BY <3>1 DEF Ask
  <2>3. Len(past') = Len(past)  OBVIOUS
  <2> QED  BY <1>4, <2>1, <2>2, <2>3 DEF Present
<1>12. \A j \in DOMAIN calls' : Present(calls[j])'  BY <1>11
<1> QED  BY <1>3, <1>8, <1>10, <1>12 DEF Settling

\* One more request that reads neither the pool nor another account.
LEMMA MoreAsked ==
  ASSUME IInv, Settling, past' = past, quiet' = quiet, SameReadings(page, page'),
         NEW c, calls' = Append(calls, c),
         \/ c.op = "submit"
         \/ c = Ask("fromBalance", page.from)
  PROVE  Settling'
<1> SUFFICES ASSUME quiet' PROVE Settling'
  BY DEF Settling
<1>1. /\ \A j \in DOMAIN calls : Present(calls[j])
      /\ PoolOnce(calls)
      /\ Right(page, Asked(calls), node)
  BY DEF Settling
<1>2. c.op \in {"fromBalance", "submit"}  BY DEF Ask
<1>3. calls \in Seq(Request(Len(past)) \cup {c})
  <2>1. calls \in Seq(Request(Len(past)))  BY DEF IInv
  <2> QED  BY <2>1, SeqMonotonic
<1>4. Asked(calls') = Asked(calls) \cup {c.op} /\ PoolOnce(calls')
  BY <1>1, <1>2, <1>3, AppendAsked
<1>5. Right(page', Asked(calls'), node')
  <2>1. node' = node  BY DEF node
  <2>2. Right(page, Asked(calls) \cup {c.op}, node)  BY <1>1, <1>2, RightMoreAsked
  <2> QED  BY <1>4, <2>1, <2>2, RightSame
<1>6. ASSUME NEW j \in DOMAIN calls' PROVE Present(calls[j])'
  <2>1. Old(calls'[j]) \/ calls'[j] = c  BY <1>3, AppendedIsOldOrNew
  <2>2. CASE Old(calls'[j])
    <3>1. PICK k \in DOMAIN calls : calls'[j] = calls[k]  BY <2>2 DEF Old
    <3>2. Present(calls[k])  BY <1>1
    <3> QED  BY <3>1, <3>2 DEF Present, SameReadings
  <2>3. CASE calls'[j] = c
    <3>1. c.op = "fromBalance" => c.since = Len(past) /\ c.account = page.from
      BY DEF Ask
    <3> QED  BY <1>2, <2>3, <3>1 DEF Present, SameReadings
  <2> QED  BY <2>1, <2>2, <2>3
<1>7. \A j \in DOMAIN calls' : Present(calls[j])'  BY <1>6
<1> QED  BY <1>4, <1>5, <1>7 DEF Settling

LEMMA DialogsKeepReadings ==
  ASSUME NEW p \in Page
  PROVE  /\ SameReadings(p, ShowMessage(p)) /\ SameReadings(p, ShowConfirmation(p))
         /\ SameReadings(p, CloseModal(p)) /\ SameReadings(p, p)
         /\ \A body : SameReadings(p, HandleAjaxError(p, body))
BY DEF SameReadings, ShowMessage, ShowConfirmation, CloseModal, HandleAjaxError, Page

LEMMA ReloadSettles ==
  ASSUME PastOK, past' = past, NEW p \in Page, NEW rest, Reload(p, rest)
  PROVE  Settling'
<1>1. page' = Load(p) /\ calls' = rest \o LoadCalls(p)  BY DEF Reload
<1>2. quiet' => p.label = "CONNECTED" /\ rest = <<>>  BY Zenon DEF Reload
<1> QED  BY <1>1, <1>2, LoadSettles

LEMMA SocketSettles ==
  ASSUME IInv, Settling, Open \/ Close \/ Error \/ Message
  PROVE  Settling'
<1>1. page \in Page /\ PastOK  BY DEF IInv
<1> DEFINE on == [page EXCEPT !.label = "CONNECTED"]
           off == [page EXCEPT !.label = "NOT CONNECTED"]
           busy == [page EXCEPT !.label = "MINING..."]
<1>2. on \in Page /\ off \in Page  BY <1>1 DEF Page
<1>3. SameReadings(page, off) /\ SameReadings(page, busy)
  BY <1>1 DEF SameReadings, Page
<1>4. SameReadings(page, ShowMessage(off))
  BY <1>1 DEF SameReadings, ShowMessage, Page
<1>5. CASE Open
  <2>1. Reload(on, calls) /\ past' = past  BY <1>5 DEF Open
  <2> HIDE DEF on
  <2> QED  BY <1>1, <1>2, <2>1, ReloadSettles
<1>6. CASE Close \/ Error
  <2>1. /\ page' = off \/ page' = ShowMessage(off)
        /\ UNCHANGED <<calls, past, quiet>>
    BY <1>6 DEF Close, Error, Disconnected
  <2> HIDE DEF off
  <2> QED  BY <1>3, <1>4, <2>1, SettlingStep
<1>7. CASE Message
  <2>1. /\ past' = past
        /\ \/ Reload(on, calls)
           \/ page' = busy /\ UNCHANGED <<calls, quiet>>
    BY Zenon, <1>7 DEF Message
  <2> HIDE DEF on, busy
  <2>2. CASE Reload(on, calls)  BY <1>1, <1>2, <2>1, <2>2, ReloadSettles
  <2>3. CASE page' = busy /\ UNCHANGED <<calls, quiet>>
    BY <1>3, <2>1, <2>3, SettlingStep
  <2> QED  BY <2>1, <2>2, <2>3
<1> QED  BY <1>5, <1>6, <1>7

LEMMA UserSettles == ASSUME IInv, Settling, User PROVE Settling'
<1>1. page \in Page /\ PastOK /\ past' = past  BY DEF IInv, User
<1>2. CASE Refresh  BY <1>1, <1>2, ReloadSettles DEF Refresh
<1>3. CASE ChangeFrom
  <2>1. PICK a \in Account : Reload([page EXCEPT !.from = a], calls)
    BY <1>3 DEF ChangeFrom
  <2> DEFINE p == [page EXCEPT !.from = a]
  <2>2. p \in Page  BY <1>1 DEF Page
  <2> HIDE DEF p
  <2> QED  BY <1>1, <2>1, <2>2, ReloadSettles DEF p
<1>4. CASE ChangeTo
  <2>1. PICK a \in Account : Reload([page EXCEPT !.to = a], calls)
    BY <1>4 DEF ChangeTo
  <2> DEFINE p == [page EXCEPT !.to = a]
  <2>2. p \in Page  BY <1>1 DEF Page
  <2> HIDE DEF p
  <2> QED  BY <1>1, <2>1, <2>2, ReloadSettles DEF p
<1>5. CASE ShowTab \/ EnterAmount \/ EnterTip
  <2>1. UNCHANGED <<calls, quiet>>  BY <1>5 DEF ShowTab, EnterAmount, EnterTip
  <2>2. SameReadings(page, page')
    BY <1>1, <1>5 DEF ShowTab, ShowInfoTab, EnterAmount, EnterTip, SameReadings, Page
  <2> QED  BY <1>1, <2>1, <2>2, SettlingStep
<1>6. CASE SubmitTran \/ Dismiss \/ CreateTransaction
  <2>1. page' \in {ShowMessage(page), ShowConfirmation(page), CloseModal(page)}
    BY <1>6 DEF SubmitTran, Dismiss, CreateTransaction
  <2>2. SameReadings(page, page')  BY <1>1, <2>1, DialogsKeepReadings
  <2>3. quiet' = quiet  BY <1>6 DEF SubmitTran, Dismiss, CreateTransaction
  <2>4. \/ calls' = calls
        \/ calls' = Append(calls, Ask("fromBalance", page.from))
        \/ \E tx : calls' = Append(calls, Post(tx))
    BY <1>6 DEF SubmitTran, Dismiss, CreateTransaction
  <2>5. CASE calls' = calls  BY <1>1, <2>2, <2>3, <2>5, SettlingStep
  <2>6. CASE calls' = Append(calls, Ask("fromBalance", page.from))
    BY <1>1, <2>2, <2>3, <2>6, MoreAsked
  <2>7. CASE \E tx : calls' = Append(calls, Post(tx))
    <3>1. PICK tx : calls' = Append(calls, Post(tx))  BY <2>7
    <3>2. Post(tx).op = "submit"  BY DEF Post
    <3> QED  BY <1>1, <2>2, <2>3, <3>1, <3>2, MoreAsked
  <2> QED  BY <2>4, <2>5, <2>6, <2>7
<1> QED  BY <1>2, <1>3, <1>4, <1>5, <1>6 DEF User

\* The state a read is answered from is the present one.
LEMMA ReadDoneSettles ==
  ASSUME IInv, Settling, NEW i \in DOMAIN calls, ReadDone(i)
  PROVE  Settling'
<1> SUFFICES ASSUME quiet' PROVE Settling'
  BY DEF Settling
<1> DEFINE c == calls[i]
<1>1. quiet /\ past' = past /\ calls' = RemoveAt(calls, i)  BY DEF ReadDone
<1>2. /\ \A j \in DOMAIN calls : Present(calls[j])
      /\ PoolOnce(calls)
      /\ Right(page, Asked(calls), node)
  BY <1>1 DEF Settling
<1>3. c \in Read /\ i \in 1 .. Len(calls)  BY CallsType DEF ReadDone
<1>4. PICK k \in c.since .. Len(past) : page' \in Shown(page, c, past[k])
  BY DEF ReadDone
<1>5. /\ c.since = Len(past)
      /\ c.account = IF c.op = "toBalance" THEN page.to ELSE page.from
  BY <1>2 DEF Present, ReadDone
<1>6. page \in Page /\ PastOK /\ calls \in Seq(Request(Len(past)))  BY DEF IInv
<1>7. Len(past) \in Nat \ {0} /\ node \in Node /\ IsFiniteSet(node.pool)
  BY <1>6, NodeOfPast
<1> HIDE DEF c
<1>8. page' \in Shown(page, c, node)
  <2>1. k = Len(past)  BY <1>4, <1>5, <1>7
  <2> QED  BY <1>4, <2>1 DEF node
<1>9. /\ Answered(Asked(calls), c.op, Asked(calls'))
      /\ PoolOnce(calls')
      /\ c.op \in Asked(calls)
  BY <1>1, <1>2, <1>3, <1>6, RemoveAsked DEF c
<1>10. Right(page', Asked(calls'), node) /\ page'.from = page.from /\ page'.to = page.to
  <2> DEFINE R == Asked(calls)
             rest == Asked(calls')
  <2>1. Right(page, R, node) /\ Answered(R, c.op, rest) /\ c.op \in R
    BY <1>2, <1>9
  <2>2. page \in Page /\ node \in Node /\ IsFiniteSet(node.pool) /\ c \in Read
    BY <1>3, <1>6, <1>7
  <2> HIDE DEF R, rest
  <2>3. Right(page', rest, node) /\ page'.from = page.from /\ page'.to = page.to
    BY <1>5, <1>8, <2>1, <2>2, ShownRight
  <2> QED  BY <2>3 DEF rest
<1>11. node' = node  BY <1>1 DEF node
<1>12. ASSUME NEW j \in DOMAIN calls' PROVE Present(calls[j])'
  <2>1. PICK m \in DOMAIN calls : calls'[j] = calls[m]
    BY <1>1, <1>3, <1>6, RemoveAtElements
  <2>2. Present(calls[m])  BY <1>2
  <2> QED  BY <1>1, <1>10, <2>1, <2>2 DEF Present
<1>13. \A j \in DOMAIN calls' : Present(calls[j])'  BY <1>12
<1> QED  BY <1>9, <1>10, <1>11, <1>13 DEF Settling

LEMMA SubmitDoneSettles ==
  ASSUME IInv, Settling, NEW i \in DOMAIN calls, SubmitDone(i)
  PROVE  Settling'
<1> DEFINE p == [page EXCEPT !.nextnonce = page.nonce]
           rest == RemoveAt(calls, i)
<1>1. page \in Page /\ PastOK /\ past' = past /\ calls \in Seq(Request(Len(past)))
  BY DEF IInv, SubmitDone
<1>2. i \in 1 .. Len(calls) /\ calls[i].op = "submit"  BY CallsType DEF SubmitDone
<1>3. CASE /\ page' = ShowMessage(Load(p))
           /\ calls' = rest \o LoadCalls(p)
           /\ quiet' = (p.label = "CONNECTED" /\ Len(calls) = 1)
  <2>1. p \in Page
    <3>1. page.nonce \in Nat  BY <1>1 DEF Page
    <3>2. page.nonce \in Number  BY <3>1 DEF Number
    <3> QED  BY <1>1, <3>2 DEF Page
  <2>2. Len(calls) = 1 => rest = <<>>
    <3>1. rest \in Seq(Request(Len(past))) /\ Len(rest) = Len(calls) - 1
      BY <1>1, <1>2, RemoveAtFacts
    <3> HIDE DEF rest
    <3> QED  BY <3>1, EmptySeq
  <2> HIDE DEF p, rest
  <2>3. quiet' => p.label = "CONNECTED" /\ rest = <<>>  BY Zenon, <1>3, <2>2
  <2>4. page' = ShowMessage(Load(p)) /\ calls' = rest \o LoadCalls(p)  BY Zenon, <1>3
  <2>5. PastOK /\ past' = past  BY <1>1
  <2> QED  BY <2>1, <2>3, <2>4, <2>5, LoadSettles
<1>4. CASE /\ page' = HandleAjaxError(page, TRUE)
           /\ calls' = rest
           /\ quiet' = quiet
  <2> SUFFICES ASSUME quiet' PROVE Settling'
    BY DEF Settling
  <2>1. /\ \A j \in DOMAIN calls : Present(calls[j])
        /\ PoolOnce(calls)
        /\ Right(page, Asked(calls), node)
    BY <1>4 DEF Settling
  <2>2. SameReadings(page, page')  BY <1>1, <1>4, DialogsKeepReadings
  <2>3. Answered(Asked(calls), "submit", Asked(calls')) /\ PoolOnce(calls')
    BY <1>1, <1>2, <1>4, <2>1, RemoveAsked
  <2>4. Right(page, Asked(calls'), node)  BY <2>1, <2>3 DEF Answered, Right
  <2>5. Right(page', Asked(calls'), node')
    <3>1. node' = node  BY <1>1 DEF node
    <3> QED  BY <2>2, <2>4, <3>1, RightSame
  <2>6. ASSUME NEW j \in DOMAIN calls' PROVE Present(calls[j])'
    <3>1. PICK m \in DOMAIN calls : calls'[j] = calls[m]
      BY <1>1, <1>2, <1>4, RemoveAtElements
    <3>2. Present(calls[m])  BY <2>1
    <3> QED  BY <1>1, <2>2, <3>1, <3>2 DEF Present, SameReadings
  <2>7. \A j \in DOMAIN calls' : Present(calls[j])'  BY <2>6
  <2> QED  BY <2>3, <2>5, <2>7 DEF Settling
<1> QED  BY <1>3, <1>4 DEF SubmitDone

\* A submission the node refuses is still under way.
LEMMA NodeSubmitSettles ==
  ASSUME IInv, Settling, NEW i \in DOMAIN calls, NodeSubmit(i)
  PROVE  Settling'
<1>1. CASE quiet' = FALSE  BY <1>1 DEF Settling
<1>2. CASE /\ calls' = [calls EXCEPT ![i].status = "refused"]
           /\ UNCHANGED <<page, past, quiet>>
  <2> SUFFICES ASSUME quiet' PROVE Settling'
    BY DEF Settling
  <2>1. /\ \A j \in DOMAIN calls : Present(calls[j])
        /\ PoolOnce(calls)
        /\ Right(page, Asked(calls), node)
    BY <1>2 DEF Settling
  <2>2. calls[i] \in Submission /\ calls[i].op = "submit"  BY CallsType DEF NodeSubmit
  <2>3. DOMAIN calls' = DOMAIN calls  BY <1>2
  <2>4. calls'[i] = [calls[i] EXCEPT !.status = "refused"]  BY <1>2
  <2>5. calls'[i].op = "submit"
    <3> DEFINE c == calls[i]
    <3> HIDE DEF c
    <3>1. c \in Submission  BY <2>2 DEF c
    <3>2. [c EXCEPT !.status = "refused"].op = "submit"  BY <3>1 DEF Submission
    <3> QED  BY <2>4, <3>2 DEF c
  <2>6. \A j \in DOMAIN calls : j # i => calls'[j] = calls[j]  BY <1>2
  <2>7. \A j \in DOMAIN calls : calls'[j].op = calls[j].op  BY <2>2, <2>5, <2>6
  <2>8. Asked(calls') = Asked(calls)  BY <2>3, <2>7 DEF Asked
  <2>9. PoolOnce(calls')  BY <2>1, <2>3, <2>7 DEF PoolOnce
  <2>10. ASSUME NEW j \in DOMAIN calls' PROVE Present(calls[j])'
    <3>1. CASE j = i  BY <2>5, <3>1 DEF Present
    <3>2. CASE j # i
      <4>1. calls'[j] = calls[j] /\ Present(calls[j])  BY <2>1, <2>3, <2>6, <3>2
      <4> QED  BY <1>2, <4>1 DEF Present
    <3> QED  BY <3>1, <3>2
  <2>11. \A j \in DOMAIN calls' : Present(calls[j])'  BY <2>10
  <2>12. node' = node  BY <1>2 DEF node
  <2> QED  BY <1>2, <2>1, <2>8, <2>9, <2>11, <2>12 DEF Settling
<1> QED  BY <1>1, <1>2 DEF NodeSubmit, Moves

LEMMA NextSettles == ASSUME IInv, Settling, [Next]_vars PROVE Settling'
<1>1. page \in Page  BY DEF IInv
<1>2. CASE Open \/ Close \/ Error \/ Message  BY <1>2, SocketSettles
<1>3. CASE User  BY <1>3, UserSettles
<1>4. CASE \E i \in DOMAIN calls : Answer(i) \/ Unanswered(i)
  <2>1. PICK i \in DOMAIN calls :
          ReadDone(i) \/ SubmitDone(i) \/ NodeSubmit(i) \/ Unanswered(i)
    BY <1>4 DEF Answer
  <2>2. CASE Unanswered(i)  BY <2>2 DEF Unanswered, Settling
  <2> QED  BY <2>1, <2>2, ReadDoneSettles, SubmitDoneSettles, NodeSubmitSettles
<1>5. CASE NodeReceive \/ NodeStore
  <2>1. quiet' = FALSE  BY <1>5 DEF NodeReceive, NodeStore, Moves
  <2> QED  BY <2>1 DEF Settling
<1>6. CASE UNCHANGED <<page, calls, past, quiet>>
  <2>1. SameReadings(page, page')  BY <1>6 DEF SameReadings
  <2> QED  BY <1>6, <2>1, SettlingStep
<1>7. CASE NodeMine  BY <1>6, <1>7 DEF NodeMine
<1>8. CASE UNCHANGED vars  BY <1>6, <1>8 DEF vars
<1> QED  BY <1>2, <1>3, <1>4, <1>5, <1>7, <1>8 DEF Next

LEMMA NextNonceIs ==
  ASSUME NEW n \in Node, IsFiniteSet(n.pool), NEW a \in Known(n), NEW nonce,
         nonce \in {n.info[a].nonce + 1} \cup {t.nonce + 1 : t \in OwnPool(n, a)},
         \A t \in OwnPool(n, a) : nonce >= t.nonce + 1,
         \A t \in OwnPool(n, a) : t.nonce > n.info[a].nonce
  PROVE  nonce = NextNonce(n, a)
<1> DEFINE own == OwnPool(n, a)
           D == {n.info[a].nonce} \cup {t.nonce : t \in own}
           m == Max(D)
<1>1. own \subseteq PoolTx  BY DEF OwnPool, Node
<1>2. IsFiniteSet(own)  BY FS_Subset DEF OwnPool
<1>3. n.info[a].nonce \in Nat  BY InfoOfKnown DEF Info
<1>4. \A t \in own : t.nonce \in Nat  BY <1>1 DEF PoolTx, BlockTx
<1>5. NextNonce(n, a) = 1 + m  BY DEF NextNonce
<1> HIDE DEF own
<1>6. IsFiniteSet(D) /\ D \subseteq Int /\ D # {}
  <2>1. IsFiniteSet({t.nonce : t \in own})
    <3> DEFINE f == [t \in own |-> t.nonce]
    <3>1. f \in Surjection(own, {t.nonce : t \in own})  BY DEF Surjection
    <3> QED  BY <1>2, <3>1, FS_Surjection
  <2>2. IsFiniteSet(D)
    <3>1. IsFiniteSet({n.info[a].nonce})  BY FS_Singleton
    <3> QED  BY <2>1, <3>1, FS_Union
  <2> QED  BY <1>3, <1>4, <2>2
<1>7. m \in D /\ \A y \in D : y <= m
  <2> HIDE DEF D
  <2> QED  BY <1>6, MaxIsGreatest
<1>8. n.info[a].nonce <= m /\ (\A t \in own : t.nonce <= m)  BY <1>7
<1>9. m \in Nat /\ (m = n.info[a].nonce \/ \E t \in own : m = t.nonce)
  BY <1>3, <1>4, <1>7
<1> HIDE DEF m, D
<1>10. nonce = n.info[a].nonce + 1 \/ \E t \in own : nonce = t.nonce + 1  BY DEF own
<1>11. \A t \in own : nonce >= t.nonce + 1 /\ t.nonce > n.info[a].nonce  BY DEF own
<1>12. CASE nonce = n.info[a].nonce + 1
  <2>1. own = {}
    <3> SUFFICES ASSUME NEW t \in own PROVE FALSE  OBVIOUS
    <3>1. t.nonce \in Nat /\ nonce >= t.nonce + 1 /\ t.nonce > n.info[a].nonce
      BY <1>4, <1>11
    <3> QED  BY <1>3, <1>12, <3>1
  <2>2. m = n.info[a].nonce  BY <1>9, <2>1
  <2> QED  BY <1>3, <1>5, <1>12, <2>2
<1>13. CASE \E t \in own : nonce = t.nonce + 1
  <2>1. PICK t \in own : nonce = t.nonce + 1  BY <1>13
  <2>2. t.nonce \in Nat /\ t.nonce <= m /\ t.nonce > n.info[a].nonce
    BY <1>4, <1>8, <1>11, <2>1
  <2>3. m <= t.nonce
    <3>1. CASE m = n.info[a].nonce  BY <1>3, <2>2, <3>1
    <3>2. CASE \E u \in own : m = u.nonce
      <4>1. PICK u \in own : m = u.nonce  BY <3>2
      <4>2. nonce >= u.nonce + 1 /\ u.nonce \in Nat  BY <1>4, <1>11, <4>1
      <4> QED  BY <2>1, <2>2, <4>1, <4>2
    <3> QED  BY <1>9, <3>1, <3>2
  <2>4. m = t.nonce  BY <1>9, <2>2, <2>3
  <2> QED  BY <1>5, <2>1, <2>2, <2>4
<1> QED  BY <1>10, <1>12, <1>13

LEMMA SettlingShows == ASSUME IInv, Settling PROVE QuietLoadSettles
<1> SUFFICES ASSUME quiet, calls = <<>> PROVE QuietLoadSettles
  BY DEF QuietLoadSettles
<1> DEFINE own == OwnPool(node, page.from)
           info == node.info[page.from]
<1>1. Asked(calls) = {}
  <2>1. DOMAIN calls = {}  OBVIOUS
  <2> QED  BY <2>1 DEF Asked
<1>2. Right(page, {}, node)  BY <1>1 DEF Settling
<1>3. node \in Node /\ IsFiniteSet(node.pool)  BY NodeOfPast DEF IInv
<1>4. /\ page.to \in Known(node) => page.tobal = node.info[page.to].balance
      /\ page.trans = node.mined[page.from]
      /\ page.memp = Cardinality(Involving(node, page.from))
      /\ \A t \in own : page.nonce >= t.nonce + 1
  BY <1>2 DEF Right
<1>5. ASSUME page.from \in Known(node)
      PROVE  /\ page.fromnonce = info.nonce
             /\ page.nextnonce = page.nonce
             /\ page.nonce # 0
             /\ page.nonce \in {0, info.nonce + 1} \cup {t.nonce + 1 : t \in own}
             /\ page.frombal \in {info.balance, info.balance - Pending(node, page.from)}
  BY <1>2, <1>5 DEF Right
<1>6. ASSUME page.from \in Known(node), \A t \in own : t.nonce > info.nonce
      PROVE  page.nonce = NextNonce(node, page.from)
  <2>1. page.nonce \in {info.nonce + 1} \cup {t.nonce + 1 : t \in own}  BY <1>5, <1>6
  <2> QED  BY <1>3, <1>4, <1>6, <2>1, NextNonceIs
<1> QED  BY <1>4, <1>5, <1>6 DEF QuietLoadSettles

\* The answers to a load that nothing disturbs give the same page in every order in
\* which they arrive, for any accounts, pool and number of further submissions that
\* the node refuses: the next nonce follows those of the account and of the pool
\* (load, fromBalance, toBalance, transactions, mempool).
THEOREM QuietLoadsSettle == Spec => []QuietLoadSettles
<1>1. Init => Settling  BY DEF Init, Settling
<1>2. IInv /\ Settling /\ [Next]_vars => Settling'  BY NextSettles
<1>3. IInv /\ Settling => QuietLoadSettles  BY SettlingShows
<1> QED  BY <1>1, <1>2, <1>3, Invariant, PTL DEF Spec
=============================================================================
