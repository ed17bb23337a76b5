-------------------------------- MODULE Ledger --------------------------------
(***************************************************************************)
(* What one node keeps of the chain, in memory and on disk, and what of it *)
(* a crash leaves (state/state.go, storage/storage.go, mempool/mempool.go,  *)
(* with the account table of module Accounts).                             *)
(*                                                                         *)
(* updateLocalState writes a block to the file and then applies its        *)
(* transactions one by one; a restart reads the file and applies them all  *)
(* again.  Blocks are stored one at a time (module Worker is about who      *)
(* stores them, here it is state.mu that serialises them) and whether a    *)
(* block was worth storing is not asked.                                   *)
(*                                                                         *)
(* Each line of the file is a block, Blank included, or Garbled, a line    *)
(* that does not decode.  A process may stop at any point; what it has     *)
(* written stays.                                                          *)
(* The definitions named Fault... are plausible slips the checks detect.   *)
(***************************************************************************)
EXTENDS Integers, Sequences, SequencesExt, FiniteSetsExt

CONSTANTS
  Account, NoAccount, GenesisBalances, MiningReward, UintSize, Tx,  \* of Accounts
  Block,          \* the blocks stored: [miner, txs]
  Long,           \* those whose line exceeds the buffer of bufio.Scanner, 64 KB; a
                  \* line that several of the others share is taken not to
  Blank,          \* the zero value of BlockFS, which performPOW returns when it gets
                  \* no random number: no transactions, a miner with an empty name,
                  \* and a hash that is not the one of its block
  Garbled,        \* a line that is no block
  MaxLines        \* bound: how many lines the file may have

VARIABLES
  lines,   \* the database file
  open,    \* whether its last line lacks the newline
  info,    \* the account table
  pool,    \* the mempool: a function on the keys account:nonce
  phase,   \* what the node does: see TypeOK
  miner,   \* the miner and
  rest,    \* the remaining transactions of the block being applied
  unread,  \* the blocks read from disk and still to be applied, in a restart
  stored,  \* history: the blocks that are in the chain of this node
  torn     \* history: whether a write ever failed half-way

disk == <<lines, open>>
current == <<miner, rest>>
history == <<stored, torn>>
vars == <<disk, info, pool, phase, current, unread, history>>

Table == INSTANCE Accounts

\* What module Accounts assumes of its constants.
ASSUME TableAssumption ==
  /\ UintSize \in Nat \ {0} /\ NoAccount \notin Account
  /\ DOMAIN GenesisBalances \subseteq Account /\ IsFiniteSet(DOMAIN GenesisBalances)
  /\ GenesisBalances \in [DOMAIN GenesisBalances -> Table!Uint]
  /\ MiningReward \in Table!Uint
  /\ Tx \subseteq [from : Account \cup {NoAccount}, to : Account, nonce : Table!Uint,
                   value : Table!Uint, tip : Table!Uint, gas : Table!Uint]

ASSUME BlockAssumption ==
  /\ Block \subseteq [miner : Account, txs : Seq(Tx)]
  /\ Long \subseteq Block
  /\ Blank \in Block \ Long /\ Blank.txs = <<>>
  /\ Garbled \notin Block
  /\ MaxLines \in Nat

-----------------------------------------------------------------------------
(* The mempool. *)

Key(tx) == <<tx.from, tx.nonce>>

FaultKeyedByRecipient(p, tx) ==
  [k \in DOMAIN p \cup {<<tx.to, tx.nonce>>} |->
     IF k = <<tx.to, tx.nonce>> THEN tx ELSE p[k]]

Upserted(p, tx) ==
  [k \in DOMAIN p \cup {Key(tx)} |-> IF k = Key(tx) THEN tx ELSE p[k]]

Deleted(p, tx) == [k \in DOMAIN p \ {Key(tx)} |-> p[k]]

EmptyPool == [k \in {} |-> NoAccount]

-----------------------------------------------------------------------------
(* The file. *)

\* Bytes are appended where the last ones ended: what follows a line without its
\* newline makes one line with it, which does not decode, or is too long if a part
\* of it was.
Joined(e) ==
  IF Last(lines) \in Long THEN Last(lines) ELSE IF e \in Long THEN e ELSE Garbled

Extended(e) == IF open THEN Front(lines) \o <<Joined(e)>> ELSE Append(lines, e)

FaultNoNewline(b) == [lines |-> Extended(b), open |-> TRUE]

Written(b) == [lines |-> Extended(b), open |-> FALSE]

\* A write that fails may leave a part of the line, all but the newline at most.
HalfWritten(b) == {[lines |-> Extended(e), open |-> TRUE] : e \in {b, Garbled}}

\* ReadAllBlocks.  The scanner stops at a line too long for it, which the loop
\* that calls it takes for the end of the file: it reads n lines.
Reads(n) ==
  /\ \A i \in 1 .. n : lines[i] \notin Long
  /\ n < Len(lines) => lines[n + 1] \in Long

\* A line that does not decode, or decodes to a block whose hash is not the one in
\* the line, is an error, and then the node does not start.
Decodes(n) == \A i \in 1 .. n : lines[i] \notin {Garbled, Blank}

-----------------------------------------------------------------------------
Init ==
  /\ lines = <<>> /\ open = FALSE
  /\ info = Table!Founded
  /\ pool = EmptyPool
  /\ phase = "up"
  /\ miner = NoAccount /\ rest = <<>>
  /\ unread = <<>> /\ stored = <<>> /\ torn = FALSE

\* A transaction arrives: from a wallet, a node, or the pool of a peer at boot.
Upsert(tx) ==
  /\ phase \in {"up", "storing"}
  /\ tx.from # NoAccount
  /\ pool' = Upserted(pool, tx)
  /\ UNCHANGED <<disk, info, phase, current, unread, history>>

\* updateLocalState: the line is written before anything changes in memory.
Store(b) ==
  /\ phase = "up" /\ Len(lines) < MaxLines
  /\ lines' = Written(b).lines /\ open' = Written(b).open
  /\ phase' = "storing"
  /\ miner' = b.miner /\ rest' = b.txs
  /\ stored' = Append(stored, b)
  /\ UNCHANGED <<info, pool, unread, torn>>

\* The write fails: updateLocalState returns, nothing changed in memory.
StoreFails(b) ==
  /\ phase = "up" /\ Len(lines) < MaxLines
  /\ \E d \in HalfWritten(b) : lines' = d.lines /\ open' = d.open
  /\ torn' = TRUE
  /\ UNCHANGED <<info, pool, phase, current, unread, stored>>

FaultRefusalIgnored ==
  /\ phase = "storing" /\ rest # <<>>
  /\ info' = Table!Transferred(info, miner, Head(rest))
  /\ pool' = Deleted(pool, Head(rest))
  /\ rest' = Tail(rest)
  /\ UNCHANGED <<disk, phase, miner, unread, history>>

\* One transaction; the pool keeps those the accounts refuse.
ApplyStored ==
  /\ phase = "storing" /\ rest # <<>>
  /\ LET tx == Head(rest)
     IN  /\ info' = Table!Applied(info, miner, tx)
         /\ pool' = IF Table!Rejects(info, tx) THEN pool ELSE Deleted(pool, tx)
  /\ rest' = Tail(rest)
  /\ UNCHANGED <<disk, phase, miner, unread, history>>

RewardStored ==
  /\ phase = "storing" /\ rest = <<>>
  /\ info' = Table!Rewarded(info, miner)
  /\ phase' = "up" /\ miner' = NoAccount
  /\ UNCHANGED <<disk, pool, rest, unread, history>>

-----------------------------------------------------------------------------
(* Crash and restart. *)

\* The process stops; of a block being stored, the line is on disk.
Crash ==
  /\ phase \in {"up", "storing", "replaying"}
  /\ phase' = "down"
  /\ pool' = EmptyPool
  /\ miner' = NoAccount /\ rest' = <<>> /\ unread' = <<>>
  /\ UNCHANGED <<disk, info, history>>

\* New reads the file.  A block whose write failed but for its newline is one of
\* the chain now, if it is read.
Restart ==
  /\ phase = "down"
  /\ \E n \in 0 .. Len(lines) :
       Reads(n) /\ Decodes(n) /\ unread' = SubSeq(lines, 1, n)
  /\ phase' = "replaying"
  /\ info' = Table!Founded
  /\ stored' = IF open /\ Len(unread') > Len(stored)
               THEN Append(stored, Last(unread')) ELSE stored
  /\ UNCHANGED <<disk, pool, current, torn>>

RestartFails ==
  /\ phase = "down"
  /\ \E n \in 0 .. Len(lines) : Reads(n) /\ ~Decodes(n)
  /\ phase' = "failed"
  /\ UNCHANGED <<disk, info, pool, current, unread, history>>

\* The loop of New over the blocks, and the one over the transactions of each,
\* which does not look at the error of ApplyTransaction.
NextUnread ==
  /\ phase = "replaying" /\ miner = NoAccount /\ unread # <<>>
  /\ miner' = Head(unread).miner /\ rest' = Head(unread).txs
  /\ unread' = Tail(unread)
  /\ UNCHANGED <<disk, info, pool, phase, history>>

FaultStopAtRefused ==
  /\ phase = "replaying" /\ rest # <<>>
  /\ info' = Table!Applied(info, miner, Head(rest))
  /\ rest' = IF Table!Rejects(info, Head(rest)) THEN <<>> ELSE Tail(rest)
  /\ UNCHANGED <<disk, pool, phase, miner, unread, history>>

ApplyRead ==
  /\ phase = "replaying" /\ rest # <<>>
  /\ info' = Table!Applied(info, miner, Head(rest))
  /\ rest' = Tail(rest)
  /\ UNCHANGED <<disk, pool, phase, miner, unread, history>>

FaultNoRewardRead ==
  /\ phase = "replaying" /\ miner # NoAccount /\ rest = <<>>
  /\ miner' = NoAccount
  /\ UNCHANGED <<disk, info, pool, phase, rest, unread, history>>

RewardRead ==
  /\ phase = "replaying" /\ miner # NoAccount /\ rest = <<>>
  /\ info' = Table!Rewarded(info, miner)
  /\ miner' = NoAccount
  /\ UNCHANGED <<disk, pool, phase, rest, unread, history>>

Ready ==
  /\ phase = "replaying" /\ miner = NoAccount /\ unread = <<>>
  /\ phase' = "up"
  /\ UNCHANGED <<disk, info, pool, current, unread, history>>

Next ==
  \/ \E tx \in Tx : Upsert(tx)
  \/ \E b \in Block : Store(b) \/ StoreFails(b)
  \/ ApplyStored \/ RewardStored
  \/ Crash \/ Restart \/ RestartFails
  \/ NextUnread \/ ApplyRead \/ RewardRead \/ Ready

Spec == Init /\ [][Next]_vars

-----------------------------------------------------------------------------
TypeOK ==
  /\ lines \in Seq(Block \cup {Garbled}) /\ open \in BOOLEAN
  /\ DOMAIN info \subseteq Account /\ info \in [DOMAIN info -> Table!Info]
  /\ \A k \in DOMAIN pool : pool[k] \in Tx /\ k = Key(pool[k])
  /\ phase \in {"up", "storing", "down", "replaying", "failed"}
  /\ miner \in Account \cup {NoAccount} /\ rest \in Seq(Tx)
  /\ unread \in Seq(Block) /\ stored \in Seq(Block) /\ torn \in BOOLEAN

\* The account table of a node that is up is what the blocks of its chain give,
\* applied in order to the genesis: whether it applied them as they came or read
\* them back, refused transactions included, crashes at any point included.
BlockApplied(m, b) ==
  Table!Rewarded(FoldLeft(LAMBDA n, tx : Table!Applied(n, b.miner, tx), m, b.txs),
                 b.miner)
Replayed(s) == FoldLeft(BlockApplied, Table!Founded, s)
RestartExact == phase = "up" => info = Replayed(stored)

\* A node starts again from whatever file it left, unless a write failed half-way
\* or, once, no random number was to be had and it stored the blank block.
AlwaysRestarts == phase = "failed" => torn \/ \E i \in DOMAIN stored : stored[i] = Blank

\* Crashes and restarts included, all that happens to the table is what the
\* operations of module Accounts do: a restart resets it.
ImplementsAccounts == Table!Spec

\* No money appears or disappears over any number of blocks, crashes and restarts:
\* at each step, the middle of a block and of a restart included, the balances sum
\* up to the genesis and the rewards of the blocks applied, in uints, as long as
\* no block was mined by a party to one of its transactions.
Total(m) == MapThenSumSet(LAMBDA a : m[a].balance, DOMAIN m)
ByThirdParty(b) == \A i \in DOMAIN b.txs : b.miner \notin {b.txs[i].from, b.txs[i].to}
Finished ==
  CASE phase = "up"        -> Len(stored)
    [] phase = "storing"   -> Len(stored) - 1
    [] phase = "replaying" -> Len(stored) - Len(unread)
                                - (IF miner = NoAccount THEN 0 ELSE 1)
SupplyAccounted ==
  /\ phase \in {"up", "storing", "replaying"}
  /\ \A i \in DOMAIN stored : ByThirdParty(stored[i])
  => Total(info) % UintSize =
       (Total(Table!Founded) + Finished * MiningReward) % UintSize
=============================================================================
