------------------------------ MODULE Accounts ------------------------------
(***************************************************************************)
(* The account table of a node (foundation/blockchain/accounts): what each *)
(* account owns and the last nonce it used.  Every operation runs under    *)
(* act.mu, so each of them is one step.                                    *)
(*                                                                         *)
(* The Go map is a function on the keys present in it; reading a missing   *)
(* key gives the zero Info, as it does in Go.  Balances, nonces and fees   *)
(* are Go uints: UintSize is the number of values of that type (2^64 in    *)
(* the program), and every sum and difference wraps around.                *)
(***************************************************************************)
EXTENDS Integers

CONSTANTS
  Account,          \* the accounts of the network
  NoAccount,        \* what FromAccount gives for a signature it cannot recover
  GenesisBalances,  \* genesis.Balances: a function on some of the accounts
  MiningReward,     \* genesis.MiningReward
  UintSize,         \* how many values a uint has
  Tx                \* the transactions considered

Uint == 0 .. UintSize - 1

ASSUME UintAssumption == UintSize \in Nat \ {0}
ASSUME AccountAssumption == NoAccount \notin Account
ASSUME GenesisAssumption ==
  /\ DOMAIN GenesisBalances \subseteq Account
  /\ GenesisBalances \in [DOMAIN GenesisBalances -> Uint]
  /\ MiningReward \in Uint
ASSUME TxAssumption ==
  Tx \subseteq [from : Account \cup {NoAccount}, to : Account, nonce : Uint,
                value : Uint, tip : Uint, gas : Uint]

VARIABLE info       \* act.info

-----------------------------------------------------------------------------
Info == [balance : Uint, nonce : Uint]
NoInfo == [balance |-> 0, nonce |-> 0]

\* Arithmetic of the Go type uint.
Wrap(n) == n % UintSize

\* m[a] and m[a] = i of a Go map.
Lookup(m, a) == IF a \in DOMAIN m THEN m[a] ELSE NoInfo
Assign(m, a, i) == [x \in DOMAIN m \cup {a} |-> IF x = a THEN i ELSE m[x]]

\* The table New and Reset build.
Founded ==
  [a \in DOMAIN GenesisBalances |-> [balance |-> GenesisBalances[a], nonce |-> 0]]

Fee(tx) == Wrap(tx.gas + tx.tip)

\* The definitions named Fault... are plausible slips in the operator that follows
\* them: no operator uses them, and the checks of the project detect them.
FaultAnySender(m, tx) ==
  \/ tx.from = tx.to
  \/ tx.nonce < Lookup(m, tx.from).nonce
  \/ Wrap(tx.value + Fee(tx)) > Lookup(m, tx.from).balance

FaultAnyNonce(m, tx) ==
  \/ tx.from \in {NoAccount, tx.to}
  \/ Wrap(tx.value + Fee(tx)) > Lookup(m, tx.from).balance

\* The checks of ApplyTransaction: it refuses the transaction when one holds.
Rejects(m, tx) ==
  \/ tx.from = NoAccount
  \/ tx.from = tx.to
  \/ tx.nonce < Lookup(m, tx.from).nonce
  \/ Wrap(tx.value + Fee(tx)) > Lookup(m, tx.from).balance

\* The three entries ApplyTransaction writes.  All three were read before the
\* first is written, so that when the miner is a party to the transaction the
\* entry of the miner, written last, replaces the one of the party.
Debited(m, tx) ==
  [balance |-> Wrap(Lookup(m, tx.from).balance - tx.value - Fee(tx)),
   nonce   |-> tx.nonce]
Credited(m, a, amount) ==
  [balance |-> Wrap(Lookup(m, a).balance + amount), nonce |-> Lookup(m, a).nonce]

FaultTipLost(m, miner, tx) ==
  Assign(Assign(Assign(m, tx.from, Debited(m, tx)),
                tx.to, Credited(m, tx.to, tx.value)),
         miner, Credited(m, miner, tx.gas))

Transferred(m, miner, tx) ==
  Assign(Assign(Assign(m, tx.from, Debited(m, tx)),
                tx.to, Credited(m, tx.to, tx.value)),
         miner, Credited(m, miner, Fee(tx)))

Rewarded(m, miner) == Assign(m, miner, Credited(m, miner, MiningReward))

\* ApplyTransaction as its caller sees it: a refused transaction changes nothing.
Applied(m, miner, tx) == IF Rejects(m, tx) THEN m ELSE Transferred(m, miner, tx)

\* ValidateNonce, which no code of the repository calls.
ValidNonce(m, tx) == tx.from # NoAccount /\ tx.nonce > Lookup(m, tx.from).nonce

-----------------------------------------------------------------------------
Init == info = Founded

ApplyTransaction(miner, tx) ==
  /\ ~Rejects(info, tx)
  /\ info' = Transferred(info, miner, tx)

ApplyMiningReward(miner) == info' = Rewarded(info, miner)

Reset == info' = Founded

Remove(a) == info' = [x \in DOMAIN info \ {a} |-> info[x]]

\* The state package calls the first two; no code calls Reset and Remove.
Next ==
  \/ \E miner \in Account, tx \in Tx : ApplyTransaction(miner, tx)
  \/ \E miner \in Account : ApplyMiningReward(miner)
  \/ Reset
  \/ \E a \in Account : Remove(a)

Spec == Init /\ [][Next]_info

-----------------------------------------------------------------------------
\* Each account has at most one entry, whose fields are uints.
TypeOK ==
  /\ DOMAIN info \subseteq Account
  /\ info \in [DOMAIN info -> Info]

BalanceOf(m, a) == Lookup(m, a).balance
NonceOf(m, a) == Lookup(m, a).nonce

\* The nonce of an account never falls except where the table is reset or the
\* account removed, whoever mines and whoever is credited: the entries of the
\* recipient and of the miner, read before the sender's is written and written
\* after it, do not bring an older nonce back.
NonceNeverFalls ==
  [][\/ Reset
     \/ \E a \in Account : Remove(a)
     \/ \A a \in Account : NonceOf(info, a) <= NonceOf(info', a)]_info

\* A transaction mined by a third party moves money between its three parties
\* and neither creates nor destroys any, in the arithmetic of uints; and it
\* touches no other account.
TransferConserves ==
  [][\A miner \in Account, tx \in Tx :
       ApplyTransaction(miner, tx) /\ miner \notin {tx.from, tx.to} =>
         /\ Wrap(BalanceOf(info', tx.from) + BalanceOf(info', tx.to)
                   + BalanceOf(info', miner)) =
              Wrap(BalanceOf(info, tx.from) + BalanceOf(info, tx.to)
                   + BalanceOf(info, miner))
         /\ \A a \in Account \ {tx.from, tx.to, miner} :
              Lookup(info', a) = Lookup(info, a)]_info

-----------------------------------------------------------------------------
(* What the comments of the code say of a transaction, and its code does not. *)

\* storage/tran.go:17 calls Value the "Monetary value received from this
\* transaction", and :113 calls Gas a fee "paid by the sender": once
\* ApplyTransaction has applied it the recipient has the value and the sender has
\* paid value and fee.  The miner earns the fee, whichever of them it is.
PartiesSettle ==
  [][\A miner \in Account, tx \in Tx :
       ApplyTransaction(miner, tx) =>
         LET Earned(a) == IF miner = a THEN Fee(tx) ELSE 0
         IN  /\ BalanceOf(info', tx.to) =
                  Wrap(BalanceOf(info, tx.to) + tx.value + Earned(tx.to))
             /\ BalanceOf(info', tx.from) =
                  Wrap(BalanceOf(info, tx.from) - tx.value - Fee(tx)
                         + Earned(tx.from))]_info
=============================================================================
