----------------------------- MODULE LedgerProofs -----------------------------
(* Proofs about the ledger of one node, for every set of accounts, blocks and *)
(* transactions, and any number of crashes and restarts.                      *)
EXTENDS Ledger, SequenceTheorems, TLAPS

\* What the steps on the account table rely on: the block being applied and those
\* still unread are made of blocks and of transactions, and a block being applied
\* has a miner.
Applying ==
  /\ lines \in Seq(Block \cup {Garbled})
  /\ unread \in Seq(Block)
  /\ rest \in Seq(Tx)
  /\ miner \in Account \cup {NoAccount}
  /\ phase = "storing" => miner \in Account
  /\ rest # <<>> => miner \in Account

LEMMA BlockFields ==
  ASSUME NEW b \in Block
  PROVE  b.miner \in Account /\ b.txs \in Seq(Tx)
BY BlockAssumption

LEMMA FrontType ==
  ASSUME NEW S, NEW s \in Seq(S)
  PROVE  Front(s) \in Seq(S)
<1>1. CASE s = <<>>  BY <1>1 DEF Front
<1>2. CASE s # <<>>
  <2>1. Len(s) - 1 \in 0 .. Len(s)  BY <1>2, EmptySeq
  <2>2. \A i \in 1 .. Len(s) - 1 : s[i] \in S  BY ElementOfSeq
  <2> QED  BY <2>1, <2>2, SubSeqProperties DEF Front
<1> QED  BY <1>1, <1>2

LEMMA WholePrefix ==
  ASSUME NEW S, NEW x, x \notin S, NEW s \in Seq(S \cup {x}),
         NEW n \in 0 .. Len(s), \A i \in 1 .. n : s[i] # x
  PROVE  SubSeq(s, 1, n) \in Seq(S)
<1>1. \A i \in 1 .. n : s[i] \in S  BY ElementOfSeq
<1> QED  BY <1>1, SubSeqProperties

\* Every outcome of a write leaves a file of lines.
LEMMA WrittenType ==
  ASSUME lines \in Seq(Block \cup {Garbled}), NEW b \in Block
  PROVE  /\ Written(b).lines \in Seq(Block \cup {Garbled})
         /\ \A d \in HalfWritten(b) : d.lines \in Seq(Block \cup {Garbled})
<1> DEFINE Line == Block \cup {Garbled}
<1>1. b \in Line /\ Garbled \in Line /\ Long \subseteq Line  BY BlockAssumption
<1> HIDE DEF Line
<1>2. lines \in Seq(Line)  BY DEF Line
<1>3. \A e : Joined(e) \in Line  BY <1>1 DEF Joined
<1>4. \A e \in Line : Append(lines, e) \in Seq(Line)  BY <1>2
<1>5. ASSUME NEW e \in Line PROVE Extended(e) \in Seq(Line)
  <2>1. Front(lines) \o <<Joined(e)>> \in Seq(Line)
    BY <1>2, <1>3, FrontType, ConcatProperties
  <2> QED  BY <1>4, <2>1 DEF Extended
<1>6. Written(b).lines \in Seq(Line)  BY <1>1, <1>5 DEF Written
<1>7. ASSUME NEW d \in HalfWritten(b) PROVE d.lines \in Seq(Line)
  <2>1. PICK e \in {b, Garbled} : d = [lines |-> Extended(e), open |-> TRUE]
    BY <1>7 DEF HalfWritten
  <2> QED  BY <1>1, <1>5, <2>1
<1> QED  BY <1>6, <1>7 DEF Line

-----------------------------------------------------------------------------
LEMMA InitApplying == Init => Applying
BY DEF Init, Applying

LEMMA NextApplying == Applying /\ [Next]_vars => Applying'
<1> SUFFICES ASSUME Applying, [Next]_vars PROVE Applying'
  OBVIOUS
<1> USE DEF Applying, disk, current, history
<1>1. ASSUME NEW tx \in Tx, Upsert(tx) PROVE Applying'
  BY <1>1 DEF Upsert
<1>2. ASSUME NEW b \in Block, Store(b) PROVE Applying'
  <2>1. b.miner \in Account /\ b.txs \in Seq(Tx)  BY BlockFields
  <2>2. lines' \in Seq(Block \cup {Garbled})  BY <1>2, WrittenType DEF Store
  <2> QED  BY <1>2, <2>1, <2>2 DEF Store
<1>3. ASSUME NEW b \in Block, StoreFails(b) PROVE Applying'
  <2>1. lines' \in Seq(Block \cup {Garbled})
    BY <1>3, WrittenType DEF StoreFails
  <2> QED  BY <1>3, <2>1 DEF StoreFails
<1>4. CASE ApplyStored
  BY <1>4, HeadTailProperties DEF ApplyStored
<1>5. CASE RewardStored  BY <1>5 DEF RewardStored
<1>6. CASE Crash  BY <1>6 DEF Crash
<1>7. CASE Restart
  <2>1. PICK n \in 0 .. Len(lines) :
          Decodes(n) /\ unread' = SubSeq(lines, 1, n)
    BY <1>7 DEF Restart
  <2>2. unread' \in Seq(Block)
    BY <2>1, BlockAssumption, WholePrefix DEF Decodes
  <2> QED  BY <1>7, <2>2 DEF Restart
<1>8. CASE RestartFails  BY <1>8 DEF RestartFails
<1>9. CASE NextUnread
  <2>1. Head(unread) \in Block /\ Tail(unread) \in Seq(Block)
    BY <1>9, HeadTailProperties DEF NextUnread
  <2>2. Head(unread).miner \in Account /\ Head(unread).txs \in Seq(Tx)
    BY <2>1, BlockFields
  <2> QED  BY <1>9, <2>1, <2>2 DEF NextUnread
<1>10. CASE ApplyRead
  BY <1>10, HeadTailProperties DEF ApplyRead
<1>11. CASE RewardRead  BY <1>11 DEF RewardRead
<1>12. CASE Ready  BY <1>12 DEF Ready
<1>13. CASE UNCHANGED vars  BY <1>13 DEF vars
<1> QED  BY <1>1, <1>2, <1>3, <1>4, <1>5, <1>6, <1>7, <1>8, <1>9, <1>10,
            <1>11, <1>12, <1>13 DEF Next

\* What is being applied is always well formed.
THEOREM ApplyingHolds == Spec => []Applying
BY InitApplying, NextApplying, PTL DEF Spec

-----------------------------------------------------------------------------
\* Applying a transaction of a block is a step of the account table, or leaves it
\* as it was when the accounts refuse it.
LEMMA AppliedStep ==
  ASSUME NEW tx \in Tx, miner \in Account, info' = Table!Applied(info, miner, tx)
  PROVE  [Table!Next]_info
BY DEF Table!Applied, Table!Next, Table!ApplyTransaction

LEMMA RewardedStep ==
  ASSUME miner \in Account, info' = Table!Rewarded(info, miner)
  PROVE  Table!Next
BY DEF Table!Next, Table!ApplyMiningReward

LEMMA TableStep == Applying /\ [Next]_vars => [Table!Next]_info
<1> SUFFICES ASSUME Applying, [Next]_vars PROVE [Table!Next]_info
  OBVIOUS
<1>1. ASSUME NEW tx \in Tx, Upsert(tx) PROVE info' = info
  BY <1>1 DEF Upsert
<1>2. ASSUME NEW b \in Block, Store(b) \/ StoreFails(b) PROVE info' = info
  BY <1>2 DEF Store, StoreFails
<1>3. ASSUME rest # <<>>
      PROVE  Head(rest) \in Tx /\ miner \in Account
  BY <1>3, HeadTailProperties DEF Applying
<1>4. CASE ApplyStored
  <2>1. info' = Table!Applied(info, miner, Head(rest)) /\ rest # <<>>
    BY <1>4 DEF ApplyStored
  <2> QED  BY <2>1, <1>3, AppliedStep
<1>5. CASE RewardStored
  <2>1. info' = Table!Rewarded(info, miner) /\ miner \in Account
    BY <1>5 DEF RewardStored, Applying
  <2> QED  BY <2>1, RewardedStep
<1>6. CASE Crash  BY <1>6 DEF Crash
<1>7. CASE Restart
  <2>1. Table!Reset  BY <1>7 DEF Restart, Table!Reset
  <2> QED  BY <2>1 DEF Table!Next
<1>8. CASE RestartFails  BY <1>8 DEF RestartFails
<1>9. CASE NextUnread  BY <1>9 DEF NextUnread
<1>10. CASE ApplyRead
  <2>1. info' = Table!Applied(info, miner, Head(rest)) /\ rest # <<>>
    BY <1>10 DEF ApplyRead
  <2> QED  BY <2>1, <1>3, AppliedStep
<1>11. CASE RewardRead
  <2>1. info' = Table!Rewarded(info, miner) /\ miner \in Account
    BY <1>11 DEF RewardRead, Applying
  <2> QED  BY <2>1, RewardedStep
<1>12. CASE Ready  BY <1>12 DEF Ready
<1>13. CASE UNCHANGED vars  BY <1>13 DEF vars
<1> QED  BY <1>1, <1>2, <1>4, <1>5, <1>6, <1>7, <1>8, <1>9, <1>10, <1>11,
            <1>12, <1>13 DEF Next

\* Whatever blocks are stored and wherever the process stops, the account table
\* goes only through steps of module Accounts: storing and replaying a block are
\* transactions and a reward, a restart is a reset.
THEOREM TableImplemented == Spec => ImplementsAccounts
<1>1. Init => Table!Init  BY DEF Init, Table!Init
<1> QED  BY <1>1, ApplyingHolds, TableStep, PTL
         DEF Spec, ImplementsAccounts, Table!Spec

-----------------------------------------------------------------------------
(* The account table keeps its shape, in the ledger as in module Accounts. *)

TableOK(m) == DOMAIN m \subseteq Account /\ m \in [DOMAIN m -> Table!Info]

LEMMA WrapType == \A n \in Int : Table!Wrap(n) \in Table!Uint
BY TableAssumption DEF Table!Wrap, Table!Uint

LEMMA AssignKeeps ==
  ASSUME NEW m, TableOK(m), NEW a \in Account, NEW i \in Table!Info
  PROVE  TableOK(Table!Assign(m, a, i))
BY DEF TableOK, Table!Assign

LEMMA CreditKeeps ==
  ASSUME NEW m, TableOK(m), NEW a, NEW amount \in Int
  PROVE  Table!Credited(m, a, amount) \in Table!Info
<1>1. Table!Lookup(m, a) \in Table!Info
  BY TableAssumption DEF TableOK, Table!Lookup, Table!NoInfo, Table!Info, Table!Uint
<1>2. Table!Lookup(m, a).balance + amount \in Int
  BY <1>1, TableAssumption DEF Table!Info, Table!Uint
<1> QED  BY <1>1, <1>2, WrapType DEF Table!Credited, Table!Info

LEMMA AppliedKeeps ==
  ASSUME NEW m, TableOK(m), NEW a \in Account, NEW tx \in Tx
  PROVE  TableOK(Table!Applied(m, a, tx))
<1>1. CASE Table!Rejects(m, tx)  BY <1>1 DEF Table!Applied
<1>2. CASE ~Table!Rejects(m, tx)
  <2>1. tx.from \in Account /\ tx.to \in Account
    BY <1>2, TableAssumption DEF Table!Rejects
  <2>2. Table!Fee(tx) \in Int /\ tx.value \in Int /\ tx.nonce \in Table!Uint
    <3>1. tx.gas + tx.tip \in Int /\ tx.value \in Int
      BY TableAssumption DEF Table!Uint
    <3>2. Table!Fee(tx) \in Table!Uint  BY <3>1, WrapType DEF Table!Fee
    <3> QED  BY <3>1, <3>2, TableAssumption DEF Table!Uint
  <2>3. Table!Debited(m, tx) \in Table!Info
    <3>1. Table!Lookup(m, tx.from) \in Table!Info
      BY TableAssumption
      DEF TableOK, Table!Lookup, Table!NoInfo, Table!Info, Table!Uint
    <3>2. Table!Lookup(m, tx.from).balance - tx.value - Table!Fee(tx) \in Int
      BY <2>2, <3>1, TableAssumption DEF Table!Info, Table!Uint
    <3> QED  BY <2>2, <3>2, WrapType DEF Table!Debited, Table!Info
  <2>4. /\ Table!Credited(m, tx.to, tx.value) \in Table!Info
        /\ Table!Credited(m, a, Table!Fee(tx)) \in Table!Info
    BY <2>2, CreditKeeps
  <2>5. TableOK(Table!Transferred(m, a, tx))
    BY <2>1, <2>3, <2>4, AssignKeeps DEF Table!Transferred
  <2> QED  BY <1>2, <2>5 DEF Table!Applied
<1> QED  BY <1>1, <1>2

LEMMA RewardedKeeps ==
  ASSUME NEW m, TableOK(m), NEW a \in Account
  PROVE  TableOK(Table!Rewarded(m, a))
<1>1. Table!Credited(m, a, MiningReward) \in Table!Info
  BY CreditKeeps, TableAssumption DEF Table!Uint
<1> QED  BY <1>1, AssignKeeps DEF Table!Rewarded

LEMMA FoundedOK == TableOK(Table!Founded)
BY TableAssumption DEF TableOK, Table!Founded, Table!Info, Table!Uint

LEMMA TableStays == TableOK(info) /\ Applying /\ [Next]_vars => TableOK(info')
<1> SUFFICES ASSUME TableOK(info), Applying, [Next]_vars PROVE TableOK(info')
  OBVIOUS
<1>1. ASSUME rest # <<>>
      PROVE  Head(rest) \in Tx /\ miner \in Account
  BY <1>1, HeadTailProperties DEF Applying
<1>2. CASE ApplyStored \/ ApplyRead
  <2>1. info' = Table!Applied(info, miner, Head(rest)) /\ rest # <<>>
    BY <1>2 DEF ApplyStored, ApplyRead
  <2> QED  BY <2>1, <1>1, AppliedKeeps
<1>3. CASE RewardStored \/ RewardRead
  <2>1. info' = Table!Rewarded(info, miner) /\ miner \in Account
    BY <1>3 DEF RewardStored, RewardRead, Applying
  <2> QED  BY <2>1, RewardedKeeps
<1>4. CASE Restart  BY <1>4, FoundedOK DEF Restart
<1>5. ASSUME NEW tx \in Tx, Upsert(tx) PROVE info' = info
  BY <1>5 DEF Upsert
<1>6. ASSUME NEW b \in Block, Store(b) \/ StoreFails(b) PROVE info' = info
  BY <1>6 DEF Store, StoreFails
<1>7. CASE Crash \/ RestartFails \/ NextUnread \/ Ready \/ UNCHANGED vars
  BY <1>7 DEF Crash, RestartFails, NextUnread, Ready, vars
<1> QED  BY <1>2, <1>3, <1>4, <1>5, <1>6, <1>7 DEF Next

-----------------------------------------------------------------------------
(* The mempool, and the history of the chain. *)

PoolOK == \A k \in DOMAIN pool : pool[k] \in Tx /\ k = Key(pool[k])

LEMMA PoolStays == PoolOK /\ [Next]_vars => PoolOK'
<1> SUFFICES ASSUME PoolOK, [Next]_vars PROVE PoolOK'
  OBVIOUS
<1>1. ASSUME NEW tx \in Tx, Upsert(tx) PROVE PoolOK'
  BY <1>1 DEF Upsert, Upserted, PoolOK, Key
<1>2. CASE ApplyStored
  BY <1>2 DEF ApplyStored, Deleted, PoolOK, Key
<1>3. CASE Crash  BY <1>3 DEF Crash, EmptyPool, PoolOK
<1>4. ASSUME NEW b \in Block, Store(b) \/ StoreFails(b) PROVE pool' = pool
  BY <1>4 DEF Store, StoreFails
<1>5. ASSUME \/ RewardStored \/ Restart \/ RestartFails \/ NextUnread
             \/ ApplyRead \/ RewardRead \/ Ready \/ UNCHANGED vars
      PROVE  pool' = pool
  BY <1>5 DEF RewardStored, Restart, RestartFails, NextUnread, ApplyRead, RewardRead,
              Ready, vars
<1> QED  BY <1>1, <1>2, <1>3, <1>4, <1>5 DEF Next, PoolOK, Key

PhasesOK ==
  /\ open \in BOOLEAN /\ torn \in BOOLEAN
  /\ phase \in {"up", "storing", "down", "replaying", "failed"}
  /\ stored \in Seq(Block)

LEMMA PhasesStay == Applying /\ Applying' /\ PhasesOK /\ [Next]_vars => PhasesOK'
<1> SUFFICES ASSUME Applying, Applying', PhasesOK, [Next]_vars PROVE PhasesOK'
  OBVIOUS
<1> USE DEF PhasesOK, disk, current, history
<1>1. ASSUME NEW tx \in Tx, Upsert(tx) PROVE PhasesOK'
  BY <1>1 DEF Upsert
<1>2. ASSUME NEW b \in Block, Store(b) PROVE PhasesOK'
  BY <1>2 DEF Store, Written
<1>3. ASSUME NEW b \in Block, StoreFails(b) PROVE PhasesOK'
  <2>1. PICK d \in HalfWritten(b) : open' = d.open  BY <1>3 DEF StoreFails
  <2>2. d.open = TRUE  BY DEF HalfWritten
  <2>3. UNCHANGED <<phase, stored>> /\ torn' = TRUE  BY <1>3 DEF StoreFails
  <2> QED  BY <2>1, <2>2, <2>3, Zenon
<1>4. CASE Restart
  <2>1. ASSUME Len(unread') > Len(stored)
        PROVE  Append(stored, Last(unread')) \in Seq(Block)
    <3>1. Last(unread') \in Block  BY <2>1 DEF Applying, Last
    <3> QED  BY <3>1
  <2> QED  BY <1>4, <2>1 DEF Restart
<1>5. ASSUME \/ ApplyStored \/ RewardStored \/ Crash \/ RestartFails
             \/ NextUnread \/ ApplyRead \/ RewardRead \/ Ready \/ UNCHANGED vars
      PROVE  PhasesOK'
  BY <1>5 DEF ApplyStored, RewardStored, Crash, RestartFails, NextUnread, ApplyRead,
              RewardRead, Ready, vars
<1> QED  BY <1>1, <1>2, <1>3, <1>4, <1>5 DEF Next

LEMMA InitPhases == Init => PhasesOK
<1> SUFFICES ASSUME Init PROVE PhasesOK
  OBVIOUS
<1>1. open = FALSE /\ torn = FALSE /\ phase = "up" /\ stored = <<>>  BY DEF Init
<1>2. <<>> \in Seq(Block)  OBVIOUS
<1> QED  BY <1>1, <1>2, Zenon DEF PhasesOK

\* The switches of the node have their values, and its chain consists of blocks.
THEOREM PhasesHold == Spec => []PhasesOK
BY InitPhases, ApplyingHolds, PhasesStay, PTL DEF Spec

-----------------------------------------------------------------------------
(* Starting again. *)

\* While no write has failed half-way, the lines of the file are the blocks of the
\* chain, each with its newline.
Whole == ~torn => ~open /\ lines = stored

LEMMA WholeStays == Whole /\ Applying /\ [Next]_vars => Whole'
<1> SUFFICES ASSUME Whole, Applying, [Next]_vars, ~torn' PROVE Whole'
  BY DEF Whole
<1> USE DEF disk, current, history
<1>1. ASSUME NEW b \in Block, Store(b) PROVE Whole'
  <2>1. ~torn /\ ~open  BY <1>1 DEF Store, Whole
  <2>2. lines' = Append(lines, b) /\ open' = FALSE
    BY <1>1, <2>1 DEF Store, Written, Extended
  <2>3. stored' = Append(stored, b)  BY <1>1 DEF Store
  <2> QED  BY <2>1, <2>2, <2>3 DEF Whole
<1>2. ASSUME NEW b \in Block, StoreFails(b) PROVE FALSE
  BY <1>2 DEF StoreFails
<1>3. ASSUME NEW tx \in Tx, Upsert(tx) PROVE UNCHANGED <<lines, open, stored, torn>>
  BY <1>3 DEF Upsert
<1>4. CASE Restart
  <2>1. UNCHANGED <<lines, open, torn>>  BY <1>4 DEF Restart
  <2>2. ~open => stored' = stored  BY <1>4 DEF Restart
  <2> QED  BY <2>1, <2>2 DEF Whole
<1>5. ASSUME \/ ApplyStored \/ RewardStored \/ Crash \/ RestartFails
             \/ NextUnread \/ ApplyRead \/ RewardRead \/ Ready \/ UNCHANGED vars
      PROVE  UNCHANGED <<lines, open, stored, torn>>
  BY <1>5 DEF ApplyStored, RewardStored, Crash, RestartFails, NextUnread,
              ApplyRead, RewardRead, Ready, vars
<1> QED  BY <1>1, <1>2, <1>3, <1>4, <1>5 DEF Next, Whole

\* Whether the blank block is in the chain.
Blanked == \E i \in DOMAIN stored : stored[i] = Blank

LEMMA RestartsStays ==
  AlwaysRestarts /\ Whole /\ Applying /\ PhasesOK /\ [Next]_vars => AlwaysRestarts'
<1> SUFFICES ASSUME AlwaysRestarts, Whole, Applying, PhasesOK, [Next]_vars,
                    phase' = "failed"
             PROVE  torn' \/ Blanked'
  BY DEF AlwaysRestarts, Blanked
<1> USE DEF disk, current, history
<1>1. CASE RestartFails
  <2>1. PICK n \in 0 .. Len(lines) : ~Decodes(n)  BY <1>1 DEF RestartFails
  <2>2. PICK i \in DOMAIN lines : lines[i] \in {Garbled, Blank}
    BY <2>1 DEF Decodes, Applying
  <2>3. ASSUME ~torn PROVE Blanked
    <3>1. lines = stored  BY <2>3 DEF Whole
    <3>2. stored[i] \in Block  BY <3>1 DEF PhasesOK
    <3> QED  BY <2>2, <3>1, <3>2, BlockAssumption DEF Blanked
  <2>4. UNCHANGED <<stored, torn>>  BY <1>1 DEF RestartFails
  <2> QED  BY <2>3, <2>4 DEF Blanked
<1>2. ASSUME NEW tx \in Tx, Upsert(tx) PROVE UNCHANGED <<phase, stored, torn>>
  BY <1>2 DEF Upsert
<1>3. ASSUME NEW b \in Block, Store(b) PROVE FALSE  BY <1>3 DEF Store
<1>4. ASSUME NEW b \in Block, StoreFails(b) PROVE torn'  BY <1>4 DEF StoreFails
<1>5. ASSUME RewardStored \/ Crash \/ Restart \/ Ready PROVE FALSE
  BY <1>5 DEF RewardStored, Crash, Restart, Ready
<1>6. ASSUME ApplyStored \/ NextUnread \/ ApplyRead \/ RewardRead \/ UNCHANGED vars
      PROVE  UNCHANGED <<phase, stored, torn>>
  BY <1>6 DEF ApplyStored, NextUnread, ApplyRead, RewardRead, vars
<1>7. UNCHANGED <<phase, stored, torn>> => torn' \/ Blanked'
  BY DEF AlwaysRestarts, Blanked
<1> QED  BY <1>1, <1>2, <1>3, <1>4, <1>5, <1>6, <1>7 DEF Next

\* Whatever is stored, and wherever the process stops, a node whose writes were all
\* whole and that never stored the blank block starts again: New refuses a file only
\* for a line that does not decode or has another hash than its block, and a Write of
\* any other block that succeeds or never starts leaves none.
THEOREM NodeRestarts == Spec => []AlwaysRestarts
<1>1. Init => AlwaysRestarts /\ Whole
  BY DEF Init, AlwaysRestarts, Whole
<1> QED  BY <1>1, ApplyingHolds, PhasesHold, WholeStays, RestartsStays, PTL DEF Spec

-----------------------------------------------------------------------------
(* Types. *)

\* Memory, file and history keep their types through crashes, restarts and writes
\* that fail half-way; each transaction of the mempool stays under its own key.
THEOREM LedgerTypes == Spec => []TypeOK
<1>1. Init => TableOK(info) /\ PoolOK
  <2> SUFFICES ASSUME Init PROVE TableOK(info) /\ PoolOK
    OBVIOUS
  <2>1. info = Table!Founded  BY DEF Init
  <2>2. TableOK(info)  BY <2>1, FoundedOK
  <2>3. PoolOK  BY DEF Init, PoolOK, EmptyPool
  <2> QED  BY <2>2, <2>3
<1>2. TableOK(info) /\ Applying /\ [Next]_vars => TableOK(info)'
  BY TableStays DEF TableOK
<1>3. Applying /\ TableOK(info) /\ PoolOK /\ PhasesOK => TypeOK
  BY DEF Applying, TableOK, PoolOK, PhasesOK, TypeOK
<1> QED  BY <1>1, <1>2, <1>3, ApplyingHolds, PoolStays, PhasesHold, PTL DEF Spec
=============================================================================
