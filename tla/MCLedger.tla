------------------------------- MODULE MCLedger -------------------------------
(* Three users and a miner; blocks of up to two transactions, some of which   *)
(* the accounts refuse, one mined by the sender of its transaction, the blank *)
(* one, and one too long for the scanner.                                     *)
EXTENDS Ledger

CONSTANTS alice, bob, miner1, noname, nobody

MCAccount == {alice, bob, miner1, noname}
MCGenesisBalances == [a \in {alice, bob} |-> IF a = alice THEN 9 ELSE 4]

Payment(from, to, nonce, value, tip) ==
  [from |-> from, to |-> to, nonce |-> nonce, value |-> value, tip |-> tip,
   gas |-> 1]

p1 == Payment(alice, bob, 1, 3, 1)
p2 == Payment(alice, bob, 2, 2, 0)
p2bis == Payment(alice, bob, 2, 1, 2)
q1 == Payment(bob, alice, 1, 5, 0)
self == Payment(bob, bob, 2, 1, 0)
MCTx == {p1, p2, p2bis, q1, self}

Mined(m, txs) == [miner |-> m, txs |-> txs]
MCLongBlock == Mined(miner1, <<p1>>)
MCBlank == Mined(noname, <<>>)
MCBlock ==
  {MCBlank,
   Mined(miner1, <<p1, q1>>), Mined(miner1, <<q1, p2>>), Mined(miner1, <<p2bis>>),
   Mined(miner1, <<self, p1>>), Mined(miner1, <<>>), Mined(alice, <<p1>>)}
MCBlockWithLong == MCBlock \cup {MCLongBlock}
MCLong == {MCLongBlock}
NoLong == {}
=============================================================================
