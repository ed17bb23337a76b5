----------------------------- MODULE MCAccounts -----------------------------
(* Three accounts, one of which has no genesis balance, and uints of eight  *)
(* values, so that sums of fees, values and rewards do wrap around.         *)
EXTENDS Accounts

CONSTANTS alice, bob, carol, nobody

MCAccount == {alice, bob, carol}
MCGenesisBalances == [a \in {alice, bob} |-> IF a = alice THEN 5 ELSE 3]

Payment(from, to, nonce, value, tip, gas) ==
  [from |-> from, to |-> to, nonce |-> nonce, value |-> value, tip |-> tip,
   gas |-> gas]

\* Ordinary payments, one to oneself, a free one nobody signed, and one whose
\* value and fee together exceed a uint.
MCTx ==
  {Payment(alice, bob, 1, 2, 1, 1), Payment(alice, carol, 2, 1, 0, 1),
   Payment(bob, alice, 1, 1, 1, 0), Payment(bob, carol, 0, 3, 0, 0),
   Payment(carol, alice, 3, 2, 1, 0), Payment(alice, alice, 3, 1, 0, 0),
   Payment(nobody, bob, 1, 0, 0, 0), Payment(bob, carol, 2, 6, 2, 1)}
=============================================================================
