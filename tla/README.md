# A verification of the blockchain node

The repository is a small proof-of-work blockchain written in Go
(`github.com/ardanlabs/blockchain`): a node with two HTTP services, a command
line wallet and a browser wallet. This directory holds TLA+ modules that model
the logic of the node and of the browser wallet, TLC configurations that check them on small instances,
and proofs of the properties that matter most, for every value of the
constants. Paths below are relative to `src/`; those without a directory are in
`foundation/blockchain/`.

## 1. Inventory

### Components

| Component | Where | State it keeps | Operations that change it |
|---|---|---|---|
| accounts | `accounts/accounts.go` | `info`: balance and nonce of each account | `New`, `ApplyTransaction`, `ApplyMiningReward`, `Reset`, `Remove` |
| storage | `storage/storage.go`, `storage/block.go` | the database file, one JSON line per block | `Write`, `Close` (`ReadAllBlocks` reads) |
| mempool | `mempool/mempool.go` | transactions by account and nonce | `Upsert`, `Delete` |
| state | `state/state.go` | `latestBlock`, and the three above | `New`, `SubmitWalletTransaction`, `SubmitNodeTransaction`, `MineNewBlock`, `MinePeerBlock`, `updateLocalState`, `Truncate`, `Shutdown` |
| mining worker | `state/worker.go` | channels `startMining`, `cancelMining`, `txSharing`, `shut`; a ticker; three long-lived G's and two per mining operation | `runMiningOperation`, `signalStartMining`, `signalCancelMining`, `shutdown`, `sync`, sharing, peer discovery |
| proof of work | `state/pow.go` | none | `performPOW`, `isHashSolved` |
| peer set | `peer/peer.go` | the known peers | `Add` |
| signature | `signature/signature.go` | none | conversions and checks of `[R|S|V]` |
| genesis | `genesis/genesis.go` | none | `Load` |
| private API | `app/services/node/handlers/v1/private` | none of its own | `MinePeerBlock` (and the answer to a fork), `SubmitNodeTransaction`, `Status`, `BlocksByNumber`, `Mempool` |
| public API | `app/services/node/handlers/v1/public` | none of its own | `SubmitWalletTransaction`, `Accounts`, `BlocksByAccount`, `Events` |
| node main | `app/services/node/main.go` | the shutdown channel, two servers | start and stop |
| web framework, middleware | `foundation/web`, `business/web/v1/mid` | the shutdown channel | `SignalShutdown`, `Handle`, errors, panics |
| events | `foundation/events` | a map of channels | `Acquire`, `Release`, `Send`, `Shutdown` |
| browser wallet | `app/wallet/chrome/scripts/popup.js` | the page, the variable `nonce`, the requests under way, a web socket | every handler: the socket's, the menus' and buttons', the answers', the amount field's |
| the rest | name service, metrics, validation, logger, command line wallet, log formatter | nothing of the chain | |

### How they interact

    wallets --HTTP--> public API --+                 +--> accounts
    nodes  --HTTP--> private API --+--> state -------+--> mempool
                                   |   ^             +--> storage (file)
                                   v   |
                               mining worker --HTTP--> other nodes

A submission puts a transaction in the mempool, and when the pool is large
enough sends a signal on `startMining` (capacity 1). The mining G receives it
and runs an operation with two G's: one waits for a cancel signal, the other
mines a block, stores it and sends it to the peers. A block that a peer sends is
handled by `MinePeerBlock` on the G of its HTTP request: it puts a *wait
channel* in `cancelMining` (capacity 1), validates the block against
`latestBlock`, stores it, and closes the wait channel, which the cancelled
operation waits for before it returns. `Shutdown` cancels the same way, closes
`shut`, joins the G's and closes the file. A restart reads the whole file and
applies all its transactions to the genesis balances.

The browser wallet opens a web socket, on which the node reports its mining
(`events.Send`), and keeps a label with what it heard last. When the socket
opens, a mining operation completes, a menu changes or a transaction was
submitted, `load` resets the nonce and sends four requests; each answer writes
its part of the page. A submission is checked against the page, confirmed in a
dialog, and then signed from what the page holds by then.

`state.mu` protects `latestBlock` and each call of `updateLocalState`. It does
*not* span the validation of a block and its storing.

### What is hard

* Handlers and the miner race for the next block; the validation of a block is
  stale when it is stored.
* Signals are dropped when their channel is full, and drained when an operation
  starts: lost wakeups, leftover cancels, two cancellers and one wait channel.
* A crash between the line on disk and the changes in memory; a write cut short;
  lines the scanner cannot read.
* Unsigned arithmetic, and a transaction two of whose three parties are one
  account.
* Shutdown against a running search, a running handler, a new operation.
* Peers that do not answer; forks; the order of the peers.
* Answers that reach the wallet late, out of order, for the account it showed
  before, or never; a page that changes between the check and the confirmation;
  an event dropped by the node; a caret in a text whose commas move.

`PROJECT.json` lists each hazard at its line, with the properties that cover it
or why none does.

### What makes each component correct

* accounts: nonces never fall; transfers conserve money; uints stay uints.
* storage with state: a restart gives the account table the node had; the file
  grows parents first; a node starts again unless a line of its file was torn or is
  the blank block.
* mempool: a transaction leaves it only for a stored block; a pool that is large
  enough makes the chain grow.
* worker: no stale cancel binds an operation; a cancelled operation ends; every
  peer block is answered; shutdown ends, with no miner left to use the file.
* browser wallet: the order of the answers does not matter, a late one loses no
  nonce; only what was checked is sent; a wallet without a socket is silent; it
  comes to rest; formatting an amount does not change it.
* peers, signature, events, queries, start and stop: see section 6.

## 2. Modules

| Module | Models | Extends or instantiates |
|---|---|---|
| `Accounts` | the account table | |
| `AccountsProofs` | its theorems | `Accounts`, `Recursion` |
| `BlockLog` | abstract: what the database file promises | |
| `Worker` | the goroutines of one node and the channels between them | `BlockLog` (refinement) |
| `WorkerProofs` | its theorems | `Worker` |
| `Ledger` | memory and disk of one node, crashes and restarts | `Accounts` (composition and refinement) |
| `LedgerProofs` | its types, its refinement of `Accounts`, that a node restarts | `Ledger` |
| `ReplayProofs` | that the table is what the file says | `LedgerProofs`, `Recursion` |
| `SupplyProofs` | that the balances are what genesis and rewards account for | `ReplayProofs` |
| `Wallet` | the browser wallet, and the node as it sees it | `Accounts` (its operators, for the node's table) |
| `WalletProofs` | its theorems | `Wallet`, `Recursion` |
| `AmountField` | the text and the caret of the wallet's amount field | |
| `AmountFieldProofs` | its theorems | `AmountField` |
| `Recursion` | lemmas: induction, recursion, sums and remainders | |
| `MCAccounts`, `MCWorker`, `MCLedger`, `MCWallet` | the values of the constants TLC checks | one each |

### Accounts

`info` is the Go map: a function on the keys present, and `Lookup` gives the
zero `Info` for the others as Go does. All sums and differences `Wrap` around at
`UintSize`. Each operation runs under `act.mu` and is one step. `Rejects` is the
list of the checks of `ApplyTransaction` in its order, `Transferred` its three
writes in their order: all three entries are read before the first is written
(`accounts.go:119-143`), so the order tells when two parties are one account.
The signature is abstracted to the account it recovers to, or `NoAccount`.
`Reset` and `Remove` have no caller in the repository and are actions
nevertheless.

### Worker

Each goroutine has a program counter and each action is the code between two
points at which another goroutine can be noticed: a lock, a channel, the mempool,
the context.

* `submit[s]`: a call of `SubmitWalletTransaction` or `SubmitNodeTransaction`.
  `Upsert` returns the size of the pool; the signal is a step of its own, since
  the pool may change between.
* `stage[h]`, `block[h]`: a call of `MinePeerBlock`: `idle`, `validate`,
  `update` (validated, `state.mu` released), `apply` (inside `updateLocalState`,
  the line written), `close`, `done`.
* `mining`: the mining G: `select`, `woken`, `drain`, `mining` (both G's run),
  `waiting` (in the deferred `<-wait`), `again`, `exited`.
* `listener`: the G of `worker.go:407`; `stage[Miner]`: the G of `worker.go:421`
  (`count`, `pick`, `parent`, `pow`, `update`, `apply`, `send`).
* `closing`: `Shutdown`.
* `heard` is history: who signalled a cancel during the current operation.

A block is opaque; `Parent`, `Number`, `Txs` and `Mined` are what is known of it.
The zero value of the Go type has number 0 and hashes to `ZeroHash`: it is both
the latest block of an empty chain and what `performPOW` returns without a
random number. `Apply` is one iteration of the loop of `updateLocalState`,
because the miner and the submissions see the mempool between iterations; the
order of the transactions in a block is not kept, since here only the set that
leaves the pool matters. Whether the accounts refuse a transaction is a choice
for the transactions in `Refusable`: module `Ledger` has the real table.

The worker starts after `sync`, from the file that `New` read and `sync` added to
(`InitFile`, any sequence of blocks; `latest` is its last), with whatever `sync` left
in the mempool (`InitPool`) and in the cancel channel (`Boot`: the first block `sync`
asked for has left its wait channel there, closed, whether it was stored or refused).
`WriteFails` may come at any write, an I/O error of the open file included; after
`closed` it is the only outcome. What a failed write may leave in the file is
`Ledger`'s subject: here `file` lists the blocks whose `Write` succeeded. The request
to share a transaction never blocks and is left out.

### Ledger

`lines` is the file, `open` whether its last line lacks the newline. What is
written behind a line that lacks its newline joins it (`Joined`): the two make one
line, which is too long for the scanner if either part is. Two or more blocks of
ordinary length that share a line, which only failed writes bring about, are taken to
fit the scanner's buffer: they do not decode and the node does not start, where with
longer ones the scanner would stop before that line. `Store`
appends the line and starts to apply the block; `ApplyStored` and
`RewardStored` are the rest of `updateLocalState`. `Crash` may come between any
two of them and empties the memory. `Restart`, `NextUnread`, `ApplyRead`,
`RewardRead` and `Ready` are `New`: the second loop over transactions, which
ignores what `ApplyTransaction` answers (`state.go:99`) where the first keeps a
refused one in the mempool (`state.go:287`). `StoreFails` is a write that fails
and may leave part of its line, `Garbled` a line that does not decode. `Blank` is the
zero block that `performPOW` returns without a random number (`state/pow.go:28`): it is
written whole, but the hash in its line is not the one of its block, so that
`ReadAllBlocks` refuses it (`storage/storage.go:86-88`, `Decodes`). `Reads`
is the scanner, which takes a line beyond its buffer for the end of the file. A
process stop is modelled, a machine that loses what the process wrote is not.
Who stores blocks and whether they are valid is `Worker`'s subject, so any block
of `Block` may be stored.

### BlockLog

A log that only grows from what it held at the start (`Start`), in which a block that
is added comes after the block it was mined on.
Siblings may both be in it: the code does not exclude it (see the findings).

### Wallet

A browser runs one handler at a time, so each handler of `popup.js` is one step;
interleaving happens between them. Paths here are in `app/wallet/chrome/`.

* `page`: the texts and menus of the document that handlers read or that a user
  acts on, and the variable `nonce`. `label` is the text of the element
  `connected`, by which `load` and `submitTran` decide whether there is a node;
  `frombal` and `tobal` are numbers or `NaN` (what `Number` makes of the text
  before the first answer); `confirm` and `message` say which dialog is shown.
* `calls`: the requests under way. `LoadCalls` are the four of `load`; a read
  carries the account it was made for and `since`, how many states the node had
  been in when it was made. `ReadDone` answers any one of them from any state the
  node has been in since. `Unanswered` is a request or answer that is lost:
  `handleAjaxError`, whose cases all fall through to `JSON.parse`, then throws
  and shows nothing. `beforeSend` closes the dialogs: it is part of `Load` and
  `CreateTransaction`.
* `FromBalance`, `ToBalance`, `Transactions`, `Mempool`: the success handlers. For
  an account the node does not know the list of accounts is empty and the handler
  throws before it writes; for an account without blocks the answer has no body.
* `socket`, `inbox`: `Open`, `Close`, `Error`, `Message`. The wallet connects
  once. An error is followed by the closing in the same task.
* The user: `Refresh`, `ChangeFrom`, `ChangeTo`, `ShowTab`, `EnterAmount`,
  `EnterTip`, `SubmitTran`, `Dismiss`, `CreateTransaction`. A dialog covers the
  page (`styles/popup.css`), and the user is taken to act with the mouse, so nothing
  beneath one is clicked. `CreateTransaction` includes `sendTran`, which runs as a
  microtask when the signature of the bundled library resolves, before any other
  handler.
* The node: `past` is the list of its states, the last one present. A state is the
  account table, the mempool, and how many blocks of the chain involve each account.
  The table changes by the operators of `Accounts` (`Table`): fees, rewards and
  refusals are the code's. `NodeSubmit` is the public handler with the mempool's
  `Upsert`; `NodeReceive` a transaction that a peer passes on. `NodeStore` is a block
  of any miner with transactions of the pool or of peers (`PeerTx`): what the table
  accepts leaves the pool, what it refuses stays there and counts among the blocks of
  its parties all the same (`Stored`). It is one step: a read between two of the
  transactions of a block is not modelled. `NodeMine` is the two events of a mining
  operation, `Notify` the `Send` of package events, which drops what no G is
  waiting for.
* `quiet` is history: the last load found no request under way and nothing has
  disturbed what it reads. `Fraction` stands for an amount such as `.5`, which the
  amount field lets pass and the node refuses. `Account` are the accounts of the menus,
  `Address` those of the network.

### AmountField

`text` is a sequence of characters, `caret` the number of them to its left.
`Format` is `formatCurrency`, which both events of the field call. `GroupDigits`
gives the text the regular expression of `formatNumber` makes, by its places
counted from the right. `Clamped` is the browser's `setSelectionRange`, which
takes a negative position for a very large one. `edits` counts what happens
between two formattings: a paste, or a key that comes down before another is up.
`Pattern` is the pattern that `popup.html:64` gives the field, for whole amounts;
`formatCurrency` leaves an empty text, `$` alone and a text that begins with a point
as they are (`LeftAlone`), and makes `$` of a text without a digit.

## 3. Runs

Constants not mentioned are as small as the property allows. With `-workers 2`
all runs end within three minutes; the largest, `wallet`, has 1.9 million states.

| Run | Checks | Instance and why it is enough |
|---|---|---|
| `accounts` | `TypeOK`, `NonceNeverFalls`, `TransferConserves` | three accounts, so that sender, recipient and miner may all differ or coincide; `UintSize` 8, so that sums and fees wrap (conservation is modulo it, and of transfers a third party mines) |
| `worker_race` | `ParentOnDisk`, `StaleCancelIgnored`, `MinerGoneBeforeClose`, `ImplementsBlockLog` | an empty file, two handlers, the miner, one submission, shutdown; a first block of a peer and one built on it, the node's own block as their rival; blocks of one transaction |
| `worker_pool` | `NoLostWakeup`, `OnlyStoredLeave` | three transactions of which one may be refused, blocks of two, one handler, two submissions, an invalid hash, an invalid signature, one failure of the random source |
| `worker_live` | `TypeOK`, `PeerBlockAnswered`, `CancelStopsOperation`, `ShutdownCompletes`, `TransactionsMined` | a file of one block, one handler, one submission of a transaction that may be refused, writes that may fail, one shutdown: two cancellers for a channel of one |
| `ledger` | `TypeOK`, `RestartExact`, `AlwaysRestarts`, `SupplyAccounted`, `ImplementsAccounts` | files of two lines, seven blocks (refused transactions, a miner who is a party, an empty block, the blank one), writes that fail half-way; `UintSize` 32 so that no balance wraps |
| `wallet` | `TypeOK`, `NonceZeroWhileAsked`, `QuietLoadSettles`, `SubmittedWasChecked`, `ReadsNeedConnection`, `NonceOnlyReset` | two accounts and a third that mines; a node that has never heard of one of them, or knows both and has a payment in its pool that the table will refuse; two clicks, with an amount and a tip that is no number typed in between at will; five requests; one transaction or block of a peer besides what is submitted: enough for a load that starts before the last answer to another (before any number of them, when an accepted submission starts it), and for check, answer and confirmation in any order |
| `wallet_live` | `CallsDrain`, `MiningLabelClears` | two clicks: a submission and its confirmation, whose answer loads again (a fraction is refused instead), or loads one after the other; four requests, one mining operation, one lost answer or event |
| `amount_field` | `TypeOK`, `MatchesPattern`, `WholeAmountKept`, `CaretKeepsPlace` | two digits and the point, texts of up to nine characters (two commas), two edits between formattings |

Bounds: `MaxLines` (length of the file in `Ledger`), `MaxNumber` (height a
search may reach in `MCWorker`; one beyond it finds no block: `SearchEnds` excludes
that it goes on for ever, and `TransactionsMined` speaks of the heights at which there
is a block to find),
`RandFails` (the random source fails only while the file is shorter), and the
number of handlers and submissions, each of which makes one call. In `Wallet`
`MaxCalls` bounds the requests under way (a handler of the user or the socket that
would make more waits; the answer to a submission loads whatever it is),
`MaxClicks` what the user clicks on (typing is free), `MaxNode` the states in which
peers and blocks change the node (submissions always arrive), `MaxTrans` the
transactions of a block, `MaxMining` the node's
mining operations and `MaxMisses` what is lost: `wallet` loses nothing, since
`NonceZeroWhileAsked` and `QuietLoadSettles` are about what the answers say, and
`wallet_live` has the losses. In `AmountField`, `MaxLength` bounds the text,
`MaxAlone` one that begins with a point, which is never formatted, and `MaxEdits`
the edits. Races need two
writers; a stale cancel needs one signal, and a dropped one two.

The worker stops when every call has been made and the miner waits for a
signal, so its runs say `CHECK_DEADLOCK FALSE`, and the liveness properties say
what must not stay behind. The ledger stops in `failed`, and when the file is
full, the wallet when the user has done all the bounds allow.

### Fairness

`Fairness` assumes that Go schedules its goroutines (`WF`), that a mutex is
granted to who waits for it long enough (`SF` on what takes `state.mu`:
`sync.Mutex` has a starvation mode) and that a `select` does not pass over a
ready channel for ever (`SF` on `ExitOnShut`: Go chooses at random). No call has
to arrive. `sendBlockToPeers` is assumed to return: the HTTP client has no
timeout, so a peer that accepts a connection and never answers would hold the
mining G. Nothing is assumed of the puzzle or the disk in `PeerBlockAnswered` and
`CancelStopsOperation`: they hold of a search that goes on for ever and of writes that
all fail. `ShutdownCompletes` has the premise `SearchEnds`, that no search goes on for
ever uncancelled: the cancel of shutdown may be drained by a new operation
(`worker.go:393`), and then only the end of the search lets the join return.
`TransactionsMined` has two: `SearchSucceeds`, that a search with a block to find finds
one if it is not cancelled for ever, and `WritesSucceed`, that the miner does not meet
an I/O error each time. What it promises is that the file grows, not that the pool
becomes smaller: a transaction that the accounts refuse stays in the pool and is mined
again (`state/state.go:287-290`), with the pool as full as before.

The fairness of `Wallet` is about the node and the network only: the oldest
request is answered in the end (`WF` on `Answer(1)`; jQuery sets no timeout, and a
request that is lost ends in `Unanswered`), a message on the socket arrives, a
mining operation ends (`Worker`). The user need not do anything. `CallsDrain` then
says that no chain of answers, each of which may start a load, goes on for ever;
`MiningLabelClears` excuses the runs in which an event was lost, since the node
drops events (`foundation/events/events.go:72-77`) and the wallet has no other way
to learn that mining is over.

### Disagreements between the code and what it says

Each is a run that TLC ends with a counterexample, and an entry of `findings`.

| Run | What it shows |
|---|---|
| `accounts_settle` | the miner's entry, written last, overwrites the credit of a recipient or the debit of a sender who is also the miner |
| `worker_fork_in_file` | two siblings are stored: the file is no longer a chain |
| `ledger_long` | a block of more than 64 KB, and all after it, vanish at the next restart |
| `amount_decimal` | `$1.1` becomes `$11`: the point is no digit, although the comment and the pattern of the field speak of decimals |

Others the models contain but no run is spent on: a text without a digit, such as one
whose digits were deleted, becomes `$`, which the pattern of the field refuses
(`popup.html:64`); an equal nonce is accepted again
(`accounts.go:120`), where `storage/tran.go:15` calls it unique; a mining operation
that was already signalled starts while `MinePeerBlock` changes the state
(`state/worker.go:393`, `state/state.go:245`); a fork is reported from three blocks
ahead on (`Verdict`), not two (`state/state.go:22`); without a random number the
zero block is stored (`SolveNothing`, `Blank`), which a restart refuses
(`state/pow.go:28`, `storage/storage.go:86-88`: the exception in `AlwaysRestarts`);
the sum of value and fee may wrap around and pass the comparison with the balance
(`accounts.go:126`). In the wallet the balance shown depends on the order of the
answers (`QuietLoadSettles` allows both), and with overlapping loads an answer for
the account chosen before is shown as the present one's.

## 4. Proofs

Proved with TLAPS, for all values of the constants that satisfy the named
assumptions of the modules.

* `AccountsProofs`. `TypeCorrect` is inductive as it stands. `NoncesNeverFall`
  follows from it and a case analysis on which of the three parties coincide.
  `TransfersConserve` needs modular arithmetic: `WrapShift` (adding a multiple
  of the size changes nothing) is proved from the quotient and remainder of the
  standard modules, and `TransferSum` applies it to the three entries.
* `WorkerProofs`. `ParentOnDisk` is not inductive: the chain invariant adds that
  the latest block and the parent being mined on are in the file, and that a
  validated block's parent was the latest at the time; the file only grows, so
  staleness does no harm *here*. From it `ImplementsLog` maps `Write` to `Extend`
  and all else to stuttering. `NoWakeupLost` strengthens with what each point of
  a submission and of the mining G owes. `OperationInv` ties the three G's of an
  operation together (no G runs outside `mining = "mining"`, the wait channel
  received was signalled while it ran); `StaleCancelsIgnored` and
  `MinersGoneBeforeClose` follow. `SoloChainLinked` is proved for nodes that
  start from a chain, have no handlers and a random source that never fails (`Solo`):
  the single writer's parent is still the latest block when it writes.
  `OnlyStoredTransactionsLeave` needs that what is left to apply is in a block of
  the file (`TodoStored`): a write puts it there before the first deletion.
* `Recursion` holds no theorem about the code, but what the proofs about folds
  need. Induction is stated with a set: a set that holds 0 and the successor of each
  number in it holds all numbers; a set that holds `{}`, and a subset of a finite set
  whenever it holds it without any one element, holds all subsets. So no fact has an
  operator among its parameters, which no prover here could instantiate. From these
  follow that functions may be defined by recursion on the naturals and on finite
  sets, that a finite set of integers has a greatest element, and that a sum over a
  finite set does not depend on the order (`SumsAdd`) and changes by what one of its
  values changes (`SumChanged`).
* `LedgerProofs`. `TableImplemented`: the ledger implements `Accounts`, with
  `Restart` mapped to `Reset`, each transaction to `ApplyTransaction` or a
  stutter, each reward to `ApplyMiningReward`. The invariant `Applying` says that
  what is left to apply is well typed and has a miner. `LedgerTypes` adds to it
  that every operation of the table keeps its shape (from `TableAssumption`,
  which repeats what `Accounts` assumes, and adds that the genesis names finitely many
  accounts, being a Go map), and that each transaction of the mempool
  is under its own key. `NodeRestarts` needs `Whole`: while no write has failed
  half-way, the lines are the blocks of the chain, the last with its newline; so that a
  line that is refused convicts a torn write or is the blank block.
* `ReplayProofs`. `RestartsExactly` is `RestartExact` for files whose lines all fit
  the scanner (`ShortLines`): of the others it is false, as run `ledger_long` shows.
  Its inductive invariant has two halves. `DiskExact` relates the file to the chain
  stored: they decode to the same blocks, but for a last line that was cut short or
  was whole but for its newline, which the node that wrote it never applied and which
  the next start reads as a block. `TableExact` relates the table to the chain: when
  the node is up it is the fold of all blocks; while it stores or replays it is the
  fold of the finished ones, and of the transactions of the block at hand but for the
  rest. A fold over a sequence is handled through the table of its prefixes (`After`,
  `TableOf`), which is computed step by step.
* `SupplyProofs`. `SupplyIsAccounted` is `SupplyAccounted`, again for `ShortLines`.
  The sum of the balances is taken over a finite table, in any order. All sums are
  congruent modulo `UintSize` (`Same`), since each `Wrap` forgets a multiple of it.
  A transaction mined by a third party leaves the sum alone (`AppliedAdds`): the
  sender, the recipient and the miner are three entries, and what one loses the
  others gain. A reward adds `MiningReward`; by induction over its transactions a
  block adds one reward, and by induction over its blocks a chain one for each
  (`Owed`), which with the invariant of `ReplayProofs` gives the property, also while
  a block is half applied or the file is being replayed.
* `WalletProofs`. One inductive invariant, `IInv`, for all of it: the types, that
  every read under way was made at a state the node has been in and for an account
  of the menus (a block keeps the node's types because each table between two of its
  transactions has its type, `TablesBetween`, by induction on the transactions), and what the dialogs owe: while the confirmation is shown, the
  amount and the tip on the page are acceptable (no handler but the user's own
  changes them, and the user cannot reach them), so that `OnlyCheckedIsSent`
  follows. The label says CONNECTED only while the socket is open, from which
  `OfflineWalletIsSilent`. `NonceNeverLost` (the nonce falls only to zero, and only in
  a step that runs `load`, which `LoadStarts` recognises by the four requests it makes)
  follows from the types by a case analysis on the answers, and `NonceZeroOnlyWhileAsked` is an invariant of its
  own: the answer that takes the last outstanding request away sets the nonce.
  `QuietLoadsSettle` has an invariant that says, of every set of requests that are
  still outstanding, what the page already owes to the node (`Right`): the nonce is
  zero only while the balance is asked for, it is that of the account plus one as long
  as the pool has not been answered, and above every one of the pool afterwards; the
  value of the pool is taken once and from the balance of the node. Each of the
  four answers keeps `Right` for one request less (`FromBalanceRight`,
  `MempoolRight` ...), whatever is left, and that is why their order does not matter.
  `Settling` adds that each read was made at the present state for the account in the
  menu, and that the pool is asked for once: the one request whose answer is not
  idempotent.
* `AmountFieldProofs`. `DigitsAreGrouped` and `DigitsAreKept` are about
  `GroupDigits` for digits of any number: the place of each digit and of each
  comma, by the arithmetic of quotients and remainders of three and four.
  `AmountKept` and `CaretKept` follow from what `Only` keeps of a concatenation, of a
  prefix and of a grouped text, and `PatternMatched` from the groups, the
  first of which begins with a digit, and the dollar sign. `FieldTypes` bounds the caret by the text.

Every safety invariant and every action property that a run checks is the statement of
a theorem. Only model-checked: the liveness properties of `worker_live` and
`wallet_live`, since fairness and `ENABLED` are beyond the prover, and the runs that end
in a counterexample. The library's induction theorems take an operator as a parameter,
which the provers cannot instantiate; the forms of `Recursion` take their place, and
the modules that are proved about declare no `RECURSIVE` operator.

## 5. Not modelled, and why

Hashes (injective, but for number 0), signatures, JSON and HTTP are abstracted.
Logging, metrics and the name service keep nothing of the chain. Of the worker,
the G's that share transactions and look for peers are left out of `wg.Wait`, and
`sync` is only its result. Of the public API, the events and the submission only
what the browser wallet sees of them is modelled. The command line wallet runs one
command and exits. `ether.js` is a bundled library: signing is opaque. In the
wallet, the texts of the transaction lists are left out (their counts are not),
and so is the keyboard, which could reach the page beneath a dialog.

## 6. What could follow

1. `Network`: several nodes with their chains and peer sets: `sendBlockToPeers`
   (which returns at the first error), the private handlers `MinePeerBlock` with
   its fork branch, `Status` and `BlocksByNumber`, `Truncate`, `sync` with
   `retrievePeerBlocks` at restart, `addNewPeers` (which stops at the first host
   that is the node itself) and `runFindNewPeersOperation`; calls are lost or
   answered late. Properties: two nodes agree up to the first block in which they
   differ, and from there on never again; a node that restarts behind its peers,
   on the same branch, catches up. Theorem: a chain that was on disk stays a prefix.
2. `Service`: the shutdown channel, the two servers, the errors and panics
   middleware, `SignalShutdown`, the deferred `Shutdown`, and the map of event
   channels with the sockets that hold them. Properties: no send on a closed
   channel and none closed twice, the storage closed last; a stop ends.
3. `Sharing`: the bounded queue of transactions to share, and shutdown, as a
   second view of the worker's goroutines in which mining is abstract.
4. `Signature`: the conversion to bytes and back over small widths; `Query`:
   `QueryBlocksByNumber`, `QueryBlocksByAccount` and the public `Accounts`, on the
   file and table of `Ledger`.
