------------------------------ MODULE MCWallet ------------------------------
(* Up to two accounts the wallet can sign for, and one that only mines.     *)
EXTENDS Wallet

CONSTANTS kennedy, ed, miner1

MCAddress == {kennedy, ed, miner1}

Payment(nonce, value) ==
  [from |-> kennedy, to |-> ed, nonce |-> nonce, value |-> value, tip |-> 0, gas |-> 1]

NodeThatKnows(known, pool) ==
  [info  |-> [a \in known |-> [balance |-> 3, nonce |-> 0]],
   pool  |-> pool,
   mined |-> [a \in Account |-> 0]]

\* The node has heard of kennedy only; or it knows both and has a payment of his in
\* its pool that is more than he owns.
MCOneKnown == {NodeThatKnows({kennedy}, {})}
MCInitialNode == MCOneKnown \cup {NodeThatKnows({kennedy, ed}, {Payment(1, 3)})}
MCPeerTx == {Payment(1, 1)}
=============================================================================
