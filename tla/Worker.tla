-------------------------------- MODULE Worker --------------------------------
(***************************************************************************)
(* How the goroutines of one node extend its chain (state/worker.go,       *)
(* state/state.go, state/pow.go):                                          *)
(*   - the mining G runs miningOperations and, per operation, two more: one *)
(*     listens for a cancel signal, one mines and stores the block;        *)
(*   - each call of MinePeerBlock, one per block a peer sends, asks the     *)
(*     running operation to stop, validates the block and stores it;       *)
(*   - each submission of a transaction puts it in the mempool and signals  *)
(*     the mining G when the pool is large enough;                          *)
(*   - Shutdown stops the worker and closes the database file.             *)
(*                                                                         *)
(* A block is opaque: what is known of it is its parent, its number and    *)
(* its transactions.  Hashes are injective but for blocks of number 0,     *)
(* which all hash to ZeroHash: Zero stands for them.  Whether a            *)
(* transaction is applied or refused by the accounts is their business     *)
(* (module Accounts): here it is a choice for the transactions in          *)
(* Refusable.  Every definition named Fault... is a plausible slip in the  *)
(* one that follows it: no action uses them, the checks detect them.       *)
(***************************************************************************)
EXTENDS Integers, Sequences, FiniteSets

CONSTANTS
  Tx,               \* the transactions, identified by their mempool key
  Refusable,        \* those ApplyTransaction may refuse
  TransPerBlock,    \* genesis.TransPerBlock
  Block, Zero,      \* the blocks, and the zero value of the Go type
  Parent(_),        \* the block whose hash is Header.ParentHash
  Number(_),        \* Header.Number
  Txs(_),           \* the transactions of a block
  Mined(_, _),      \* blocks that solve the puzzle for a parent and transactions
  Solved, Signed,   \* blocks whose hash is solved; whose transactions are signed
  PeerBlock,        \* blocks the peers send
  InitFile,         \* the database file when sync() is over
  InitPool,         \* the mempool sync() got from the peers at boot
  Handler,          \* the calls of MinePeerBlock
  Submitter,        \* the calls of SubmitWalletTransaction, SubmitNodeTransaction
  Miner, Main,      \* the mining operation and the caller of Shutdown
  Boot,             \* a call of MinePeerBlock that sync() made at boot
  NoWait, Free,     \* no wait channel; nobody holds state.mu
  RandFails         \* rand.Int fails at most while the file is shorter than this

Writer == Handler \cup {Miner}        \* who calls updateLocalState
Caller == Handler \cup {Main, Boot}   \* who calls signalCancelMining

ASSUME TransPerBlockAssumption == TransPerBlock \in Nat \ {0}
ASSUME TxAssumption ==
  IsFiniteSet(Tx) /\ Refusable \subseteq Tx /\ InitPool \subseteq Tx
ASSUME NameAssumption ==
  /\ Miner \notin Handler /\ Main \notin Handler /\ Boot \notin Handler \cup {Main}
  /\ NoWait \notin Caller /\ Free \notin Writer
  /\ RandFails \in Nat
ASSUME BlockAssumption ==
  /\ Zero \in Block /\ Txs(Zero) = {} /\ Number(Zero) = 0
  /\ PeerBlock \subseteq Block /\ InitFile \in Seq(Block)
  /\ \A b \in Block : /\ Parent(b) \in Block
                      /\ Number(b) \in Nat
                      /\ Txs(b) \subseteq Tx
ASSUME MinedAssumption ==
  \A p \in Block, T \in SUBSET Tx : \A b \in Mined(p, T) :
    /\ b \in Block
    /\ Parent(b) = p
    /\ Number(b) = Number(p) + 1
    /\ Txs(b) = T

VARIABLES
  file,          \* the blocks written to the database file, in order
  latest,        \* state.latestBlock
  mu,            \* who holds state.mu across several steps
  todo,          \* transactions of the block being stored still to be applied
  pool,          \* the mempool
  startMining,   \* whether the channel startMining holds a signal
  cancelMining,  \* the caller whose wait channel is in cancelMining, or NoWait
  mining,        \* where the mining G is
  listener,      \* where the G that listens for a cancel is
  ctx,           \* whether the context of the operation is cancelled
  wait,          \* the caller whose wait channel the operation received
  picked,        \* the transactions of the block being mined
  parent,        \* its parent
  stage,         \* where each writer is: the G that mines, each MinePeerBlock
  block,         \* the block each writer has in hand
  submit,        \* where each submission is
  closing,       \* where Shutdown is
  heard          \* history: callers that signalled during the last operation

pend == <<startMining, cancelMining>>
chain == <<file, latest, mu, todo>>
operation == <<mining, listener, ctx, wait, heard>>
proof == <<picked, parent>>
vars == <<chain, pool, pend, operation, proof, stage, block, submit, closing>>
-----------------------------------------------------------------------------
\* w.shut is closed; the wait channel of a caller is closed.
ShutClosed == closing \in {"joining", "closed"}
FaultNeverDone(c) == FALSE

DoneCalled(c) ==
  \/ c = Boot
  \/ c = Main /\ closing \notin {"idle", "signalled"}
  \/ c \in Handler /\ stage[c] = "done"

\* The last block of a file, which New takes for the latest one.
LastOf(f) == IF f = <<>> THEN Zero ELSE f[Len(f)]

\* The worker's goroutines run and sync() is over: it may have stored blocks, left
\* transactions in the pool, and in the channel the wait of the first block it
\* asked for, whose MinePeerBlock has returned.
Init ==
  /\ file = InitFile /\ latest = LastOf(InitFile)
  /\ mu = Free /\ todo = {}
  /\ pool = InitPool
  /\ startMining = FALSE /\ cancelMining \in {NoWait, Boot}
  /\ mining = "select" /\ listener = "done" /\ ctx = TRUE /\ wait = NoWait
  /\ picked = {} /\ parent = Zero
  /\ stage = [p \in Writer |-> IF p = Miner THEN "done" ELSE "idle"]
  /\ block = [p \in Writer |-> Zero]
  /\ submit = [s \in Submitter |-> "idle"]
  /\ closing = "idle"
  /\ heard = {}

At(p, s) == stage[p] = s
Goto(p, s) == stage' = [stage EXCEPT ![p] = s]

\* A call that returns has no block any more: its local variables are gone.
Forget(p) == block' = [block EXCEPT ![p] = Zero]

-----------------------------------------------------------------------------
(* Submissions. *)

\* mempool.Upsert returns the size of the pool, which decides on the signal.  (The
\* request to share the transaction, which never blocks, is left out.)
Upsert(s) ==
  /\ submit[s] = "idle"
  /\ \E tx \in Tx : pool' = pool \cup {tx}
  /\ submit' = [submit EXCEPT ![s] =
                  IF Cardinality(pool') >= TransPerBlock THEN "signal" ELSE "done"]
  /\ UNCHANGED <<chain, pend, operation, proof, stage, block, closing>>

\* The channel holds one signal: one more is dropped.
SignalStartMining(s) ==
  /\ submit[s] = "signal"
  /\ startMining' = TRUE
  /\ submit' = [submit EXCEPT ![s] = "done"]
  /\ UNCHANGED <<chain, pool, cancelMining, operation, proof, stage, block, closing>>

-----------------------------------------------------------------------------
(* signalCancelMining, by a handler or by Shutdown. *)

SendWait(c) ==
  /\ cancelMining' = IF cancelMining = NoWait THEN c ELSE cancelMining
  /\ heard' = IF mining = "mining" THEN heard \cup {c} ELSE heard

-----------------------------------------------------------------------------
(* updateLocalState, which MineNewBlock and MinePeerBlock call. *)

\* Under state.mu, which stays held: the block goes to disk and becomes the
\* latest one, whatever that was.
Write(p) ==
  /\ At(p, "update") /\ mu = Free
  /\ closing # "closed"
  /\ file' = Append(file, block[p])
  /\ latest' = block[p]
  /\ mu' = p
  /\ todo' = Txs(block[p])
  /\ Goto(p, "apply")
  /\ UNCHANGED <<pool, pend, operation, proof, block, submit, closing>>

FaultWriteErrorIgnored(p) ==
  /\ At(p, "update") /\ mu = Free
  /\ latest' = block[p]
  /\ mu' = p
  /\ todo' = Txs(block[p])
  /\ Goto(p, "apply")
  /\ UNCHANGED <<file, pool, pend, operation, proof, block, submit, closing>>

\* An I/O error, or the file was closed: nothing changes in memory and the error is
\* returned.  (What it may leave of a line is module Ledger's subject: here file
\* lists the blocks whose Write succeeded.)
WriteFails(p) ==
  /\ At(p, "update") /\ mu = Free
  /\ Goto(p, IF p = Miner THEN "done" ELSE "close")
  /\ ctx' = (ctx \/ p = Miner)
  /\ UNCHANGED <<chain, pool, pend, mining, listener, wait, heard, proof, block,
                 submit, closing>>

\* A transaction that is applied leaves the pool; one that is refused stays.
Apply(p) ==
  /\ At(p, "apply") /\ mu = p
  /\ \E tx \in todo :
       /\ todo' = todo \ {tx}
       /\ \/ pool' = pool \ {tx}
          \/ tx \in Refusable /\ pool' = pool
  /\ UNCHANGED <<file, latest, mu, pend, operation, proof, stage, block, submit,
                 closing>>

FaultNoUnlock(p) ==
  /\ At(p, "apply") /\ mu = p /\ todo = {}
  /\ Goto(p, IF p = Miner THEN "send" ELSE "close")
  /\ UNCHANGED <<chain, pool, pend, operation, proof, block, submit, closing>>

\* The mining reward is applied and state.mu released.
Release(p) ==
  /\ At(p, "apply") /\ mu = p /\ todo = {}
  /\ mu' = Free
  /\ Goto(p, IF p = Miner THEN "send" ELSE "close")
  /\ UNCHANGED <<file, latest, todo, pool, pend, operation, proof, block, submit,
                 closing>>

-----------------------------------------------------------------------------
(* MinePeerBlock. *)

PeerBlockArrives(h) ==
  /\ At(h, "idle")
  /\ \E b \in PeerBlock : block' = [block EXCEPT ![h] = b]
  /\ SendWait(h)
  /\ Goto(h, "validate")
  /\ UNCHANGED <<chain, pool, startMining, mining, listener, ctx, wait, proof,
                 submit, closing>>

\* What validateBlock answers, its checks in the order of the code.
FaultNoParentCheck(b) ==
  IF b \notin Solved THEN "not solved"
  ELSE IF Number(b) >= Number(latest) + 3 THEN "forked"
  ELSE IF Number(b) # Number(latest) + 1 THEN "not next"
  ELSE IF b \notin Signed THEN "not signed"
  ELSE "ok"

Verdict(b) ==
  IF b \notin Solved THEN "not solved"
  ELSE IF Number(b) >= Number(latest) + 3 THEN "forked"
  ELSE IF Number(b) # Number(latest) + 1 THEN "not next"
  ELSE IF Parent(b) # latest THEN "not on latest"
  ELSE IF b \notin Signed THEN "not signed"
  ELSE "ok"

\* validateBlock reads latestBlock under state.mu and releases it again; a block
\* whose hash is not solved it refuses without.
ValidateBlock(h) ==
  /\ At(h, "validate")
  /\ mu = Free \/ block[h] \notin Solved
  /\ Goto(h, IF Verdict(block[h]) = "ok" THEN "update" ELSE "close")
  /\ UNCHANGED <<chain, pool, pend, operation, proof, block, submit, closing>>

\* The deferred call of done closes the wait channel.
Done(h) ==
  /\ At(h, "close")
  /\ Goto(h, "done")
  /\ Forget(h)
  /\ UNCHANGED <<chain, pool, pend, operation, proof, submit, closing>>

-----------------------------------------------------------------------------
(* miningOperations and runMiningOperation, in the mining G. *)

ReceiveStart ==
  /\ mining = "select" /\ startMining
  /\ startMining' = FALSE
  /\ mining' = "woken"
  /\ UNCHANGED <<chain, pool, cancelMining, listener, ctx, wait, heard, proof,
                 stage, block, submit, closing>>

\* After isShutdown and the check of the length of the pool.
CheckLength ==
  /\ mining = "woken"
  /\ mining' = IF ShutClosed \/ Cardinality(pool) < TransPerBlock
               THEN "select" ELSE "drain"
  /\ UNCHANGED <<chain, pool, pend, listener, ctx, wait, heard, proof, stage,
                 block, submit, closing>>

\* A leftover cancel signal is dropped and the two G's start.
FaultNoDrain ==
  /\ mining = "drain"
  /\ mining' = "mining" /\ listener' = "listen"
  /\ ctx' = FALSE /\ wait' = NoWait /\ heard' = {}
  /\ Goto(Miner, "count")
  /\ UNCHANGED <<chain, pool, pend, proof, block, submit, closing>>

DrainCancel ==
  /\ mining = "drain"
  /\ cancelMining' = NoWait
  /\ mining' = "mining" /\ listener' = "listen"
  /\ ctx' = FALSE /\ wait' = NoWait /\ heard' = {}
  /\ Goto(Miner, "count")
  /\ UNCHANGED <<chain, pool, startMining, proof, block, submit, closing>>

\* wg.Wait: both G's are over.
Join ==
  /\ mining = "mining"
  /\ listener = "done" /\ At(Miner, "done")
  /\ mining' = IF wait = NoWait THEN "again" ELSE "waiting"
  /\ UNCHANGED <<chain, pool, pend, listener, ctx, wait, heard, proof, stage,
                 block, submit, closing>>

\* The first deferred function: the caller that cancelled has called done.
AwaitDone ==
  /\ mining = "waiting" /\ DoneCalled(wait)
  /\ mining' = "again"
  /\ UNCHANGED <<chain, pool, pend, listener, ctx, wait, heard, proof, stage,
                 block, submit, closing>>

\* The second one: a new operation is signalled if the pool is large enough.
FaultNoSecondSignal ==
  /\ mining = "again"
  /\ mining' = "select" /\ wait' = NoWait
  /\ UNCHANGED <<chain, pool, pend, listener, ctx, heard, proof,
                 stage, block, submit, closing>>

FaultSignalsCancel ==
  /\ mining = "again"
  /\ cancelMining' = IF Cardinality(pool) >= TransPerBlock /\ cancelMining = NoWait
                     THEN Miner ELSE cancelMining
  /\ mining' = "select" /\ wait' = NoWait
  /\ UNCHANGED <<chain, pool, startMining, listener, ctx, heard, proof,
                 stage, block, submit, closing>>

SignalAgain ==
  /\ mining = "again"
  /\ startMining' = (startMining \/ Cardinality(pool) >= TransPerBlock)
  /\ mining' = "select" /\ wait' = NoWait
  /\ UNCHANGED <<chain, pool, cancelMining, listener, ctx, heard, proof,
                 stage, block, submit, closing>>

\* The select of miningOperations may as well take the shut channel.
ExitOnShut ==
  /\ mining = "select" /\ ShutClosed
  /\ mining' = "exited"
  /\ UNCHANGED <<chain, pool, pend, listener, ctx, wait, heard, proof, stage,
                 block, submit, closing>>

-----------------------------------------------------------------------------
(* The G that listens for a cancel. *)

ReceiveCancel ==
  /\ listener = "listen" /\ cancelMining # NoWait
  /\ wait' = cancelMining /\ cancelMining' = NoWait
  /\ listener' = "cancel"
  /\ UNCHANGED <<chain, pool, startMining, mining, ctx, heard, proof, stage,
                 block, submit, closing>>

CancelContext ==
  /\ listener = "cancel"
  /\ ctx' = TRUE /\ listener' = "done"
  /\ UNCHANGED <<chain, pool, pend, mining, wait, heard, proof, stage, block,
                 submit, closing>>

\* Of a cancelled context and a pending signal the select takes either.
ContextDone ==
  /\ listener = "listen" /\ ctx
  /\ listener' = "done"
  /\ UNCHANGED <<chain, pool, pend, mining, ctx, wait, heard, proof, stage,
                 block, submit, closing>>

-----------------------------------------------------------------------------
(* The G that mines: MineNewBlock and performPOW. *)

\* The G returns: its deferred function cancels the context.
Return ==
  /\ Goto(Miner, "done")
  /\ ctx' = TRUE
  /\ Forget(Miner) /\ picked' = {} /\ parent' = Zero
  /\ UNCHANGED <<chain, pool, pend, mining, listener, wait, heard, submit, closing>>

CountPool ==
  /\ At(Miner, "count") /\ Cardinality(pool) >= TransPerBlock
  /\ Goto(Miner, "pick")
  /\ UNCHANGED <<chain, pool, pend, operation, proof, block, submit, closing>>

NotEnough ==
  /\ At(Miner, "count") /\ Cardinality(pool) < TransPerBlock
  /\ Return

\* PickBest takes what is there, at most TransPerBlock of them, in map order.
PickBest ==
  /\ At(Miner, "pick")
  /\ \E T \in SUBSET pool :
       /\ \/ Cardinality(T) = TransPerBlock
          \/ T = pool /\ Cardinality(T) < TransPerBlock
       /\ picked' = T
  /\ Goto(Miner, "parent")
  /\ UNCHANGED <<chain, pool, pend, operation, parent, block, submit, closing>>

\* NewBlock on RetrieveLatestBlock, which takes state.mu.
NewBlock ==
  /\ At(Miner, "parent") /\ mu = Free
  /\ parent' = latest
  /\ Goto(Miner, "pow")
  /\ UNCHANGED <<chain, pool, pend, operation, picked, block, submit, closing>>

\* A hash is found, and neither performPOW nor MineNewBlock sees a cancel.
Solve ==
  /\ At(Miner, "pow") /\ ~ctx
  /\ \E b \in Mined(parent, picked) : block' = [block EXCEPT ![Miner] = b]
  /\ Goto(Miner, "update")
  /\ UNCHANGED <<chain, pool, pend, operation, proof, submit, closing>>

\* rand.Int fails: performPOW returns no block and, ctx not being cancelled,
\* no error either.  RandFails bounds how often.
SolveNothing ==
  /\ Len(file) < RandFails
  /\ At(Miner, "pow") /\ ~ctx
  /\ block' = [block EXCEPT ![Miner] = Zero]
  /\ Goto(Miner, "update")
  /\ UNCHANGED <<chain, pool, pend, operation, proof, submit, closing>>

PowCancelled == At(Miner, "pow") /\ ctx /\ Return

\* sendBlockToPeers ends, with an error or without.
BlockSent == At(Miner, "send") /\ Return

-----------------------------------------------------------------------------
(* Shutdown. *)

SignalShutdown ==
  /\ closing = "idle"
  /\ SendWait(Main)
  /\ closing' = "signalled"
  /\ UNCHANGED <<chain, pool, startMining, mining, listener, ctx, wait, proof,
                 stage, block, submit>>

ShutdownDone ==
  /\ closing = "signalled"
  /\ closing' = "waited"
  /\ UNCHANGED <<chain, pool, pend, operation, proof, stage, block, submit>>

CloseShut ==
  /\ closing = "waited"
  /\ closing' = "joining"
  /\ UNCHANGED <<chain, pool, pend, operation, proof, stage, block, submit>>

FaultNoJoin ==
  /\ closing = "joining"
  /\ closing' = "closed"
  /\ UNCHANGED <<chain, pool, pend, operation, proof, stage, block, submit>>

\* wg.Wait returns, and the deferred storage.Close runs.
CloseStorage ==
  /\ closing = "joining" /\ mining = "exited"
  /\ closing' = "closed"
  /\ UNCHANGED <<chain, pool, pend, operation, proof, stage, block, submit>>

-----------------------------------------------------------------------------
MiningG == ReceiveStart \/ CheckLength \/ DrainCancel \/ Join \/ AwaitDone
             \/ SignalAgain
ListenerG == ReceiveCancel \/ CancelContext \/ ContextDone
ProofG == CountPool \/ NotEnough \/ PickBest \/ PowCancelled \/ BlockSent
Search == Solve \/ SolveNothing
Store(p) == Write(p) \/ WriteFails(p)
Update(p) == Apply(p) \/ Release(p)
Closer == ShutdownDone \/ CloseShut \/ CloseStorage

Next ==
  \/ \E s \in Submitter : Upsert(s) \/ SignalStartMining(s)
  \/ \E h \in Handler : PeerBlockArrives(h) \/ ValidateBlock(h) \/ Done(h)
  \/ \E p \in Writer : Store(p) \/ Update(p)
  \/ MiningG \/ ExitOnShut
  \/ ListenerG
  \/ ProofG \/ NewBlock \/ Search
  \/ SignalShutdown \/ Closer

Spec == Init /\ [][Next]_vars

\* Goroutines are scheduled.  A lock is handed to whoever waits long enough
\* (sync.Mutex has a starvation mode) and a select takes a channel that is ready
\* over and over (it chooses at random): strong fairness.  No call arrives and no
\* Shutdown starts by necessity.  Nor need a puzzle be solved.
Fairness ==
  /\ WF_vars(MiningG) /\ SF_vars(ExitOnShut)
  /\ WF_vars(ListenerG)
  /\ WF_vars(ProofG) /\ SF_vars(NewBlock)
  /\ \A p \in Writer : SF_vars(Store(p)) /\ WF_vars(Update(p))
  /\ \A h \in Handler : SF_vars(ValidateBlock(h)) /\ WF_vars(Done(h))
  /\ \A s \in Submitter : WF_vars(SignalStartMining(s))
  /\ WF_vars(Closer)

FairSpec == Spec /\ Fairness

-----------------------------------------------------------------------------
(* Type invariant. *)

SubmitStage == {"idle", "signal", "done"}
WriterStage == {"idle", "validate", "update", "apply", "close", "done", "count",
                "pick", "parent", "pow", "send"}
MiningStage == {"select", "woken", "drain", "mining", "waiting", "again", "exited"}
ClosingStage == {"idle", "signalled", "waited", "joining", "closed"}

TypeOK ==
  /\ file \in Seq(Block) /\ latest \in Block
  /\ mu \in Writer \cup {Free} /\ todo \subseteq Tx
  /\ pool \subseteq Tx
  /\ startMining \in BOOLEAN /\ cancelMining \in Caller \cup {NoWait}
  /\ mining \in MiningStage /\ listener \in {"listen", "cancel", "done"}
  /\ ctx \in BOOLEAN /\ wait \in Caller \cup {NoWait}
  /\ picked \subseteq Tx /\ parent \in Block
  /\ stage \in [Writer -> WriterStage]
  /\ block \in [Writer -> Block]
  /\ submit \in [Submitter -> SubmitStage]
  /\ closing \in ClosingStage
  /\ heard \subseteq Caller

-----------------------------------------------------------------------------
(* Safety. *)

\* The database file grows as a tree rooted at genesis, whatever the races of
\* MinePeerBlock and the mining operation: the file is a BlockLog.
Log == INSTANCE BlockLog WITH log <- file, Start <- InitFile
ImplementsBlockLog == Log!Spec

\* Whatever a goroutine is about to do with a block, the block it was or will be
\* mined on is in the file.
Known(b) == b = Zero \/ b \in {file[i] : i \in DOMAIN file}
ParentOnDisk ==
  /\ Known(latest) /\ Known(parent)
  /\ \A p \in Writer : At(p, "update") =>
       block[p] = Zero \/ Known(Parent(block[p]))

\* latestBlock is what a restart would take it to be, the last block of the file.
LatestIsLast == latest = LastOf(file)

\* No wakeup is lost between the submissions, the mining operation that looks
\* at the pool when it starts and again when it ends, and the channel of one
\* signal: after a submission, a pool large enough to mine is being dealt with.
Submitted == \E s \in Submitter : submit[s] # "idle"
MiningPending ==
  \/ startMining
  \/ mining \in {"woken", "drain", "mining", "waiting", "again"}
  \/ \E s \in Submitter : submit[s] = "signal"
  \/ ShutClosed
NoLostWakeup ==
  Submitted /\ Cardinality(pool) >= TransPerBlock => MiningPending

\* A cancel signal left over from before an operation neither cancels it nor
\* makes it wait: what an operation waits for was signalled while it ran.
StaleCancelIgnored == wait # NoWait => wait \in heard

\* No mining G is left to use the database file once it is closed.
MinerGoneBeforeClose ==
  closing = "closed" => mining = "exited" /\ At(Miner, "done") /\ mu # Miner

\* A transaction leaves the pool only for a block that is in the database file.
OnlyStoredLeave ==
  [][\A tx \in pool : tx \notin pool' =>
       \E i \in DOMAIN file : tx \in Txs(file[i])]_vars

-----------------------------------------------------------------------------
(* Liveness. *)

\* Every block a peer sends is answered: its handler waits for no operation.
PeerBlockAnswered == \A h \in Handler : At(h, "validate") ~> At(h, "done")

\* An operation that received a cancel signal ends, found hash or not.
CancelStopsOperation == mining = "mining" /\ wait # NoWait ~> mining = "select"

\* Two of the properties need that a search ends.  The first says that none goes on
\* for ever: it finds a hash or is cancelled; the second that a search for which
\* there is a block to find finds one, unless it is cancelled before.
SearchEnds == []<>~(At(Miner, "pow") /\ ~ctx)
SearchSucceeds == WF_vars(Search)

\* The mining G does not meet an I/O error each time it writes.
WritesSucceed == SF_vars(Write(Miner))

\* Shutdown ends: neither its own cancel signal being dropped, or drained by an
\* operation that starts, nor a handler that holds the operation back blocks it
\* for ever.
ShutdownCompletes == SearchEnds => (closing = "signalled" ~> closing = "closed")

\* As long as the pool holds transactions enough for a block, a block is stored,
\* and then another, cancelled operations and failed writes included, until the
\* node is shut down.  The pool need not become smaller: a transaction the accounts
\* refuse stays in it, and is mined again.  (Each length of the file is outgrown
\* on which a block is left to find: that of a block with a child.)
TransactionsMined ==
  SearchSucceeds /\ WritesSucceed =>
    \A n \in {Number(Parent(b)) : b \in Block \ {Zero}} :
      Submitted /\ Cardinality(pool) >= TransPerBlock /\ Len(file) = n
        ~> \/ Len(file) > n
           \/ Cardinality(pool) < TransPerBlock
           \/ closing # "idle"

-----------------------------------------------------------------------------
(* What the comments of the code say and the code does not do. *)

\* storage/block.go:11 calls Header.ParentHash the "Hash of the previous block in
\* the chain": each block follows, in the file, the block whose hash it holds.
\* (It does on a node that receives no block: see WorkerProofs.)
Linked(f) ==
  \A i \in DOMAIN f :
    f[i] # Zero => Parent(f[i]) = IF i = 1 THEN Zero ELSE f[i - 1]
ChainLinked == Linked(file)
=============================================================================
