------------------------------- MODULE Wallet -------------------------------
(***************************************************************************)
(* The browser wallet (app/wallet/chrome/scripts/popup.js): one page, the  *)
(* requests it has under way, the web socket on which the node reports its *)
(* mining, and as much of the node as the wallet can see.                  *)
(*                                                                         *)
(* A browser runs one handler to its end before it starts another, so each *)
(* handler is one step.  Between two handlers anything may happen: answers *)
(* arrive in any order, late, or never, and describe the node as it was at *)
(* some moment after the request was made.                                 *)
(*                                                                         *)
(* The definitions named Fault... are plausible slips in the definition    *)
(* that follows them: nothing uses them, and the checks detect them.       *)
(***************************************************************************)
EXTENDS Integers, Sequences, FiniteSets, FiniteSetsExt, SequencesExt

CONSTANTS
  Address,       \* the accounts of the network
  NoAccount,     \* what FromAccount gives for a signature it cannot recover
  Account,       \* the accounts both menus offer
  FirstFrom,     \* the account popup.html selects in the menu "from"
  FirstTo,       \* and in the menu "to"
  Miner,         \* the accounts that nodes mine for
  MiningReward, GasPrice, UintSize,    \* as in module Accounts
  PeerTx,        \* the transactions that reach the node by its peers
  NaN,           \* JavaScript's NaN: the number of a text that is none
  Fraction,      \* a number between 0 and 1: the node takes whole numbers only
  AmountEntry,   \* what the user may enter as the amount
  TipEntry,      \* and as the tip
  InitialNode,   \* what the node may hold when the wallet is opened
  MaxCalls,      \* bound: requests under way at once
  MaxClicks,     \* bound: what the user clicks on, in all
  MaxNode,       \* bound: states of the node in which peers or a block change it
  MaxTrans,      \* bound: transactions in a block
  MaxMining,     \* bound: mining operations of the node
  MaxMisses      \* bound: requests without an answer, and socket messages lost

ASSUME NumberAssumption == NaN \notin Int /\ Fraction \notin Int /\ NaN # Fraction
ASSUME MenuAssumption ==
  FirstFrom \in Account /\ FirstTo \in Account /\ Account \subseteq Address
ASSUME EntryAssumption == AmountEntry \cup TipEntry \subseteq Int \cup {NaN, Fraction}

\* The account table of the node, the transactions in its pool, and how many blocks
\* of its chain involve each account.
Info == [balance : Int, nonce : Nat]
BlockTx == [from : Address \cup {NoAccount}, to : Address, nonce : Nat,
            value : Int, tip : Int, gas : Int]
PoolTx == {t \in BlockTx : t.from # NoAccount}
IsNode(n) ==
  /\ n \in [info : {n.info}, pool : SUBSET PoolTx, mined : [Account -> Nat]]
  /\ DOMAIN n.info \subseteq Address /\ n.info \in [DOMAIN n.info -> Info]
  /\ IsFiniteSet(n.pool)

ASSUME NodeAssumption ==
  /\ NoAccount \notin Address
  /\ Miner \subseteq Address
  /\ UintSize \in Nat \ {0} /\ MiningReward \in Nat /\ GasPrice \in Nat
  /\ MaxTrans \in Nat
  /\ PeerTx \subseteq BlockTx
  /\ \A n \in InitialNode : IsNode(n)

VARIABLES
  page,     \* the document, and the global variable nonce
  calls,    \* the requests under way, in the order they were made
  socket,   \* the state of the web socket
  inbox,    \* the messages on their way to it
  past,     \* the states the node has been in; the last one is the present
  mining,   \* whether the node is in a mining operation
  quiet,    \* history: the last load found no request under way and was the
            \* last thing to disturb what it reads
  clicks, operations, misses    \* what the bounds count

vars == <<page, calls, socket, inbox, past, mining, quiet, clicks, operations, misses>>

-----------------------------------------------------------------------------
(* The node, as the public API shows it.                                   *)

node == past[Len(past)]

\* What a transaction does to the account table.
Table == INSTANCE Accounts WITH
  Account <- Address, GenesisBalances <- <<>>, Tx <- PeerTx, info <- node.info

Known(n) == DOMAIN n.info
OwnPool(n, a) == {t \in n.pool : t.from = a}
Involving(n, a) == {t \in n.pool : a \in {t.from, t.to}}

SameKey(t, tx) == t.from = tx.from /\ t.nonce = tx.nonce
Upsert(n, tx) == [n EXCEPT !.pool = {t \in @ : ~SameKey(t, tx)} \cup {tx}]

\* The table after each of the transactions of a block, from before the first.
Applied(m, miner, txs) ==
  LET table[k \in 0 .. Len(txs)] ==
        IF k = 0 THEN m ELSE Table!Applied(table[k - 1], miner, txs[k])
  IN  table

\* What the table accepts leaves the pool; what it refuses stays, and is in the
\* block all the same.
Stored(n, miner, txs) ==
  LET tables == Applied(n.info, miner, txs)
      Accepted == {txs[k] : k \in {j \in DOMAIN txs : ~Table!Rejects(tables[j - 1], txs[j])}}
      Parties == UNION {{tx.from, tx.to} : tx \in {t \in Range(txs) : t.from # NoAccount}}
  IN  [info  |-> Table!Rewarded(tables[Len(txs)], miner),
       pool  |-> {t \in n.pool : ~\E tx \in Accepted : SameKey(t, tx)},
       mined |-> [a \in Account |-> n.mined[a] + IF a \in Parties THEN 1 ELSE 0]]

-----------------------------------------------------------------------------
(* Functions of the page: what the functions of the same name in popup.js   *)
(* make of it.                                                             *)

ShowMessage(p) == [p EXCEPT !.message = TRUE]
ShowConfirmation(p) == [p EXCEPT !.confirm = TRUE]
CloseModal(p) == [p EXCEPT !.confirm = FALSE, !.message = FALSE]
ShowInfoTab(p, which) == [p EXCEPT !.tab = which]

\* handleAjaxError: every case falls through to the last, which parses the body
\* of the answer; without a body that throws and no message is shown.
HandleAjaxError(p, body) == IF body THEN ShowMessage(p) ELSE p

\* One request; beforeSend closes the dialogs first.
Ask(op, a) == [op |-> op, account |-> a, since |-> Len(past)]
Post(tx) == [op |-> "submit", tx |-> tx, status |-> "sent"]

FaultNonceKept(p) ==
  IF p.label # "CONNECTED" THEN ShowMessage(p) ELSE [CloseModal(p) EXCEPT !.trans = 0]

Load(p) ==
  IF p.label # "CONNECTED" THEN ShowMessage(p)
  ELSE [CloseModal(p) EXCEPT !.nonce = 0, !.trans = 0]

FaultLoadOffline(p) ==
  <<Ask("fromBalance", p.from), Ask("toBalance", p.to),
    Ask("transactions", p.from), Ask("mempool", p.from)>>

LoadCalls(p) ==
  IF p.label # "CONNECTED" THEN <<>>
  ELSE <<Ask("fromBalance", p.from), Ask("toBalance", p.to),
         Ask("transactions", p.from), Ask("mempool", p.from)>>

\* load() as the last thing a handler does, with rest the requests under way.
Reload(p, rest) ==
  /\ Len(rest \o LoadCalls(p)) <= MaxCalls
  /\ page' = Load(p)
  /\ calls' = rest \o LoadCalls(p)
  /\ quiet' = (p.label = "CONNECTED" /\ rest = <<>>)

-----------------------------------------------------------------------------
(* The success handlers, given the request c and the state n of the node it *)
(* was answered from.                                                      *)

\* The node lists no account it does not know: resp.accounts[0] is undefined and
\* the handler throws before it has written anything.
FaultUnknownAnswered(p, c, n) ==
  IF c.account \in Known(n) THEN p
  ELSE [p EXCEPT !.frombal = NaN, !.fromnonce = NaN, !.nonce = NaN, !.nextnonce = NaN]

FaultNonceNotNext(p, c, n) ==
  IF c.account \notin Known(n) THEN p
  ELSE LET i == n.info[c.account]
           next == IF p.nonce = 0 THEN i.nonce ELSE p.nonce
       IN  [p EXCEPT !.frombal = i.balance, !.fromnonce = i.nonce,
                     !.nonce = next, !.nextnonce = next]

FaultNonceOverwritten(p, c, n) ==
  IF c.account \notin Known(n) THEN p
  ELSE LET i == n.info[c.account]
       IN  [p EXCEPT !.frombal = i.balance, !.fromnonce = i.nonce,
                     !.nonce = i.nonce + 1, !.nextnonce = i.nonce + 1]

FromBalance(p, c, n) ==
  IF c.account \notin Known(n) THEN p
  ELSE LET i == n.info[c.account]
           next == IF p.nonce = 0 THEN i.nonce + 1 ELSE p.nonce
       IN  [p EXCEPT !.frombal = i.balance, !.fromnonce = i.nonce,
                     !.nonce = next, !.nextnonce = next]

ToBalance(p, c, n) ==
  IF c.account \notin Known(n) THEN p ELSE [p EXCEPT !.tobal = n.info[c.account].balance]

\* Without a block of the account the answer has no content, and the handler
\* throws.
Transactions(p, c, n) ==
  IF n.mined[c.account] = 0 THEN p ELSE [p EXCEPT !.trans = n.mined[c.account]]

Highest(S) == {x \in S : \A y \in S : y <= x}
Minus(number, amount) ==
  IF number = NaN \/ amount \notin Int THEN NaN ELSE number - amount
ValueOf(tx) == tx.value
Pending(n, a) == MapThenSumSet(ValueOf, OwnPool(n, a))

\* The loop over the pool raises the nonce above that of each transaction of the
\* account, and takes the value of each from the balance the page shows.
Mempool(p, c, n, next) ==
  LET own == OwnPool(n, c.account)
  IN  [p EXCEPT !.nonce = next,
                !.nextnonce = IF next = p.nonce THEN @ ELSE next,
                !.frombal = IF own = {} THEN @ ELSE Minus(@, Pending(n, c.account)),
                !.memp = Cardinality(Involving(n, c.account))]

\* What the page becomes: a set of one page.
Shown(p, c, n) ==
  CASE c.op = "fromBalance"  -> {FromBalance(p, c, n)}
    [] c.op = "toBalance"    -> {ToBalance(p, c, n)}
    [] c.op = "transactions" -> {Transactions(p, c, n)}
    [] c.op = "mempool"      ->
         {Mempool(p, c, n, next) : next \in
            Highest({p.nonce} \cup {t.nonce + 1 : t \in OwnPool(n, c.account)})}

-----------------------------------------------------------------------------
(* The window opens: onload shows the tab and connects.                     *)

Init ==
  /\ page = [label |-> "NOT CONNECTED", nonce |-> 0, tab |-> "send",
             from |-> FirstFrom, to |-> FirstTo, amount |-> 0, tip |-> 0,
             frombal |-> NaN, fromnonce |-> NaN, nextnonce |-> NaN, tobal |-> NaN,
             trans |-> 0, memp |-> 0, confirm |-> FALSE, message |-> FALSE]
  /\ calls = <<>>
  /\ socket = "connecting"
  /\ inbox = <<>>
  /\ past \in {<<n>> : n \in InitialNode}
  /\ mining = FALSE
  /\ quiet = FALSE
  /\ clicks = 0 /\ operations = 0 /\ misses = 0

-----------------------------------------------------------------------------
(* The web socket.                                                         *)

Open ==
  /\ socket = "connecting"
  /\ socket' = "open"
  /\ Reload([page EXCEPT !.label = "CONNECTED"], calls)
  /\ UNCHANGED <<inbox, past, mining, clicks, operations, misses>>

Disconnected(p) ==
  /\ socket # "closed"
  /\ socket' = "closed"
  /\ inbox' = <<>>
  /\ page' = p
  /\ UNCHANGED <<calls, past, mining, quiet, clicks, operations, misses>>

\* The wallet does not connect again.
Close == Disconnected([page EXCEPT !.label = "NOT CONNECTED"])

\* The browser reports the error and closes the socket in one task.
Error == Disconnected(ShowMessage([page EXCEPT !.label = "NOT CONNECTED"]))

FaultMiningFirst ==
  /\ inbox # <<>>
  /\ inbox' = Tail(inbox)
  /\ page' = [page EXCEPT !.label = "MINING..."]
  /\ UNCHANGED <<calls, quiet, socket, past, mining, clicks, operations, misses>>

\* Of the events of the node those of mining concern the wallet: the last of an
\* operation, "MINING: completed", and the others.
Message ==
  /\ inbox # <<>>
  /\ inbox' = Tail(inbox)
  /\ IF Head(inbox) = "completed"
     THEN Reload([page EXCEPT !.label = "CONNECTED"], calls)
     ELSE page' = [page EXCEPT !.label = "MINING..."] /\ UNCHANGED <<calls, quiet>>
  /\ UNCHANGED <<socket, past, mining, clicks, operations, misses>>

-----------------------------------------------------------------------------
(* The user.  An open dialog covers the page; of two, the message covers    *)
(* the confirmation.                                                       *)

Clicked == clicks < MaxClicks /\ clicks' = clicks + 1
Uncovered == ~page.confirm /\ ~page.message

Refresh == Uncovered /\ Reload(page, calls)

ChangeFrom ==
  \E a \in Account \ {page.from} :
    Uncovered /\ Reload([page EXCEPT !.from = a], calls)

ChangeTo ==
  \E a \in Account \ {page.to} :
    Uncovered /\ page.tab = "send" /\ Reload([page EXCEPT !.to = a], calls)

\* Showing a box hides the two others.
ShowTab ==
  \E which \in {"send", "tran", "memp"} \ {page.tab} :
    Uncovered /\ page' = ShowInfoTab(page, which) /\ UNCHANGED <<calls, quiet>>

EnterAmount ==
  \E x \in AmountEntry \ {page.amount} :
    /\ Uncovered /\ page.tab = "send"
    /\ page' = [page EXCEPT !.amount = x]
    /\ UNCHANGED <<calls, quiet>>

EnterTip ==
  \E x \in TipEntry \ {page.tip} :
    /\ Uncovered /\ page.tab = "send"
    /\ page' = [page EXCEPT !.tip = x]
    /\ UNCHANGED <<calls, quiet>>

IsPositive(x) == x = Fraction \/ (x # NaN /\ x > 0)

\* A comparison with NaN is false.
Exceeds(x, balance) ==
  balance # NaN /\ IF x = Fraction THEN balance <= 0 ELSE x > balance

FaultAmountUnchecked(p) == (p.tip = 0 \/ IsPositive(p.tip)) /\ ~Exceeds(p.amount, p.frombal)

Acceptable(p) ==
  /\ IsPositive(p.amount)
  /\ p.tip = 0 \/ IsPositive(p.tip)
  /\ ~Exceeds(p.amount, p.frombal)

\* The balance is asked for, and the one the page already shows is compared.
SubmitTran ==
  /\ Uncovered /\ page.tab = "send"
  /\ IF page.label # "CONNECTED"
     THEN page' = ShowMessage(page) /\ UNCHANGED <<calls, quiet>>
     ELSE /\ Len(calls) < MaxCalls
          /\ calls' = Append(calls, Ask("fromBalance", page.from))
          /\ page' = IF Acceptable(page) THEN ShowConfirmation(page) ELSE ShowMessage(page)
          /\ UNCHANGED quiet

\* The close buttons, and No.
Dismiss ==
  /\ page.confirm \/ page.message
  /\ page' = CloseModal(page)
  /\ UNCHANGED <<calls, quiet>>

\* Yes: createTransaction signs what the page holds now, and sendTran, which runs
\* as soon as that handler has ended, sends it.
CreateTransaction ==
  /\ page.confirm /\ ~page.message
  /\ Len(calls) < MaxCalls
  /\ page' = CloseModal(page)
  /\ calls' = Append(calls, Post([from |-> page.from, to |-> page.to, nonce |-> page.nonce,
                                  value |-> page.amount, tip |-> page.tip]))
  /\ UNCHANGED quiet

User ==
  /\ \/ /\ Refresh \/ ChangeFrom \/ ChangeTo \/ ShowTab \/ SubmitTran \/ Dismiss
           \/ CreateTransaction
        /\ Clicked
     \/ (EnterAmount \/ EnterTip) /\ UNCHANGED clicks
  /\ UNCHANGED <<socket, inbox, past, mining, operations, misses>>

-----------------------------------------------------------------------------
(* Answers.                                                                *)

FaultAskedAgain(i) ==
  /\ calls[i].op # "submit"
  /\ page' = page
  /\ calls' = Append(RemoveAt(calls, i), calls[i])
  /\ UNCHANGED <<socket, inbox, past, mining, quiet, clicks, operations, misses>>

\* A read is answered from one of the states the node has been in meanwhile.
ReadDone(i) ==
  /\ calls[i].op # "submit"
  /\ \E k \in calls[i].since .. Len(past) : page' \in Shown(page, calls[i], past[k])
  /\ calls' = RemoveAt(calls, i)
  /\ UNCHANGED <<socket, inbox, past, mining, quiet, clicks, operations, misses>>

\* sendTran's request is answered: the page loads again before it shows the
\* answer, or shows the error.
SubmitDone(i) ==
  /\ calls[i].op = "submit"
  /\ \/ /\ calls[i].status = "accepted"
        /\ LET p == [page EXCEPT !.nextnonce = page.nonce]
           IN  /\ page' = ShowMessage(Load(p))
               /\ calls' = RemoveAt(calls, i) \o LoadCalls(p)
               /\ quiet' = (p.label = "CONNECTED" /\ Len(calls) = 1)
     \/ /\ calls[i].status = "refused"
        /\ page' = HandleAjaxError(page, TRUE)
        /\ calls' = RemoveAt(calls, i)
        /\ UNCHANGED quiet
  /\ UNCHANGED <<socket, inbox, past, mining, clicks, operations, misses>>

\* The request or its answer is lost: the error handler has no body to show.
Unanswered(i) ==
  /\ misses < MaxMisses /\ misses' = misses + 1
  /\ page' = HandleAjaxError(page, FALSE)
  /\ calls' = RemoveAt(calls, i)
  /\ quiet' = FALSE
  /\ UNCHANGED <<socket, inbox, past, mining, clicks, operations>>

-----------------------------------------------------------------------------
(* The node.                                                               *)

Moves(n) ==
  /\ past' = Append(past, n)
  /\ quiet' = FALSE
  /\ UNCHANGED <<page, socket, inbox, mining, clicks, operations, misses>>

\* It decodes the value and the tip as whole numbers, checks the signature, and
\* no more.
NodeSubmit(i) ==
  /\ calls[i].op = "submit" /\ calls[i].status = "sent"
  /\ LET tx == calls[i].tx
         blockTx == [from |-> tx.from, to |-> tx.to, nonce |-> tx.nonce,
                     value |-> tx.value, tip |-> tx.tip, gas |-> GasPrice]
     IN  IF {tx.value, tx.tip} \subseteq Table!Uint
         THEN /\ calls' = [calls EXCEPT ![i].status = "accepted"]
              /\ Moves(Upsert(node, blockTx))
         ELSE /\ calls' = [calls EXCEPT ![i].status = "refused"]
              /\ UNCHANGED <<page, socket, inbox, past, mining, quiet, clicks,
                             operations, misses>>

\* A transaction of somebody else, from a peer.
NodeReceive ==
  /\ Len(past) < MaxNode
  /\ \E tx \in PeerTx \cap PoolTx : Moves(Upsert(node, tx))
  /\ UNCHANGED calls

\* A block, of its own or of a peer, with transactions of the pool and others.  It is
\* stored in one step: no read sees the table between two of its transactions.
NodeStore ==
  /\ Len(past) < MaxNode
  /\ \E miner \in Miner, txs \in BoundedSeq(node.pool \cup PeerTx, MaxTrans) :
       Moves(Stored(node, miner, txs))
  /\ UNCHANGED calls

\* Events.Send drops what the goroutine of the socket is not waiting for.
Notify(event) ==
  \/ /\ socket = "open"
     /\ inbox' = Append(inbox, event)
     /\ UNCHANGED misses
  \/ /\ socket = "open" => misses < MaxMisses
     /\ misses' = misses + IF socket = "open" THEN 1 ELSE 0
     /\ UNCHANGED inbox

NodeMine ==
  /\ \/ /\ ~mining /\ operations < MaxMining
        /\ mining' = TRUE /\ operations' = operations + 1
        /\ Notify("MINING")
     \/ /\ mining
        /\ mining' = FALSE /\ UNCHANGED operations
        /\ Notify("completed")
  /\ UNCHANGED <<page, calls, socket, past, quiet, clicks>>

-----------------------------------------------------------------------------
Answer(i) == i \in DOMAIN calls /\ (ReadDone(i) \/ SubmitDone(i) \/ NodeSubmit(i))

Next ==
  \/ Open \/ Close \/ Error \/ Message
  \/ User
  \/ \E i \in DOMAIN calls : Answer(i) \/ Unanswered(i)
  \/ NodeReceive \/ NodeStore
  \/ NodeMine

Spec == Init /\ [][Next]_vars

\* The node and the network answer every request in the end, and the oldest of
\* those under way does not wait for ever; the messages on the socket arrive; a
\* mining operation ends (module Worker: the search finds a block or is
\* cancelled).  Nothing is assumed of the user.
Fairness ==
  /\ WF_vars(Answer(1))
  /\ WF_vars(Message)
  /\ WF_vars(mining /\ NodeMine)

LiveSpec == Spec /\ Fairness

-----------------------------------------------------------------------------
Number == Int \cup {NaN}
Entry == Int \cup {NaN, Fraction}

Page ==
  [label : {"NOT CONNECTED", "CONNECTED", "MINING..."}, nonce : Nat,
   tab : {"send", "tran", "memp"}, from : Account, to : Account,
   amount : Entry, tip : Entry, frombal : Number, fromnonce : Number,
   nextnonce : Number, tobal : Number, trans : Nat, memp : Nat,
   confirm : BOOLEAN, message : BOOLEAN]

Read == [op : {"fromBalance", "toBalance", "transactions", "mempool"},
         account : Account, since : Nat \ {0}]
Submission ==
  [op : {"submit"}, status : {"sent", "accepted", "refused"},
   tx : [from : Account, to : Account, nonce : Nat, value : Entry, tip : Entry]]

\* Every variable has its type, and a read a state of the node to be answered from.
TypeOK ==
  /\ page \in Page
  /\ calls \in Seq(Read \cup Submission)
  /\ \A i \in DOMAIN calls : calls[i] \in Read => calls[i].since <= Len(past)
  /\ socket \in {"connecting", "open", "closed"}
  /\ inbox \in Seq({"MINING", "completed"})
  /\ past # <<>> /\ \A k \in 1 .. Len(past) : IsNode(past[k])
  /\ mining \in BOOLEAN /\ quiet \in BOOLEAN

-----------------------------------------------------------------------------
(* Safety.                                                                 *)

\* A wallet whose socket is not open asks the node for nothing: neither the menus
\* and buttons, nor an answer that arrives late, start a read (load and
\* submitTran look at the label, which the socket's handlers keep).
ReadsNeedConnection ==
  [][\A i \in DOMAIN calls' :
       calls'[i].op # "submit" /\ socket' # "open" =>
         \E j \in DOMAIN calls : calls'[i] = calls[j]]_vars

\* The step runs load(): it asks anew for all that the page shows.
LoadStarts ==
  /\ page'.label = "CONNECTED"
  /\ \E rest \in {calls} \cup {RemoveAt(calls, i) : i \in DOMAIN calls} :
       calls' = rest \o LoadCalls(page')

\* The next nonce falls only to zero, and only in a step that runs load: no answer to
\* a read, however late, takes back what another one has learnt (fromBalance leaves
\* a nonce alone, mempool only raises it).
NonceOnlyReset ==
  [][page'.nonce < page.nonce => page'.nonce = 0 /\ LoadStarts]_vars

\* Once a node that knows every account has been asked, the wallet signs with
\* nonce zero only while a balance it asked for, or lost, has not arrived.
NonceZeroWhileAsked ==
  socket = "open" /\ page.nonce = 0 /\ misses = 0
    /\ (\A k \in DOMAIN past : Account \subseteq Known(past[k]))
  => \E i \in DOMAIN calls : calls[i].op = "fromBalance"

\* The next nonce is right: above all those the node knows of the account.
NextNonce(n, a) == 1 + Max({n.info[a].nonce} \cup {t.nonce : t \in OwnPool(n, a)})

\* The answers to one load, undisturbed, give the same page in every order they
\* can arrive in: the next nonce follows those of the account and of the pool
\* (unless the pool holds what the account table would refuse), the texts show
\* what the node has.  Only the balance depends on the order: the value of the
\* pool is taken from it or, if the pool was answered first, is not.
QuietLoadSettles ==
  quiet /\ calls = <<>> =>
    LET own == OwnPool(node, page.from)
        info == node.info[page.from]
    IN  /\ page.from \in Known(node) =>
             /\ page.fromnonce = info.nonce
             /\ page.nextnonce = page.nonce
             /\ (\A t \in own : t.nonce > info.nonce) =>
                  page.nonce = NextNonce(node, page.from)
             /\ page.frombal \in
                  {info.balance, info.balance - Pending(node, page.from)}
        /\ page.to \in Known(node) => page.tobal = node.info[page.to].balance
        /\ page.trans = node.mined[page.from]
        /\ page.memp = Cardinality(Involving(node, page.from))

\* What reaches the node was checked: a positive amount, a tip that is a number
\* and not negative, although the page may have changed between the check and
\* the click on Yes.
SubmittedWasChecked ==
  \A i \in DOMAIN calls :
    calls[i].op = "submit" =>
      IsPositive(calls[i].tx.value) /\ (calls[i].tx.tip = 0 \/ IsPositive(calls[i].tx.tip))

-----------------------------------------------------------------------------
(* Liveness.                                                               *)

\* The wallet comes to rest: no answer makes it ask for ever.
CallsDrain == (calls # <<>>) ~> (calls = <<>>)

\* The wallet leaves MINING..., in which it lets nobody send, unless the event
\* that says the operation is over was lost.
MiningLabelClears ==
  (page.label = "MINING...") ~> (page.label # "MINING..." \/ misses > 0)
=============================================================================
