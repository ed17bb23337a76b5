------------------------------ MODULE MCWorker ------------------------------
(* A block is the path that leads to it from genesis: a sequence of labels,  *)
(* each of which tells who made the block of that height and what is in it.  *)
EXTENDS Worker

CONSTANTS t1, t2, t3, MaxNumber

Label == [by : {"me", "peer"}, txs : SUBSET Tx]
MCBlock == UNION {[1 .. n -> Label] : n \in 0 .. MaxNumber}
MCParent(b) == IF b = <<>> THEN <<>> ELSE SubSeq(b, 1, Len(b) - 1)
MCNumber(b) == Len(b)
MCTxs(b) == IF b = <<>> THEN {} ELSE b[Len(b)].txs
MCZero == <<>>
NoFile == <<>>

\* The puzzle for a block beyond MaxNumber is never solved.
MCMined(p, T) ==
  IF Len(p) < MaxNumber THEN {Append(p, [by |-> "me", txs |-> T])} ELSE {}

Peer(T) == [by |-> "peer", txs |-> T]
Own(T) == [by |-> "me", txs |-> T]

\* Two rival first blocks, and a second one on a peer's.
MCPeerBlock == {<<Peer({t1})>>, <<Peer({t1, t2})>>, <<Peer({t1}), Peer({t2})>>}

\* A first block and one on it.
MCFewBlocks == {<<Peer({t1})>>, <<Peer({t1}), Peer({})>>}

\* The rival blocks, one on our own first block, one with a bad hash and one with
\* a bad signature.
MCBadHash == <<Peer({t3})>>
MCBadSignature == <<Peer({t2, t3})>>
MCManyBlocks ==
  MCPeerBlock \cup {<<Own({t1, t2}), Peer({t3})>>, MCBadHash, MCBadSignature}
MCSolved == MCBlock \ {MCBadHash}
MCSigned == MCBlock \ {MCBadSignature}

\* A file with one block, a block on that one, and one on it.
MCFirst == <<Peer({})>>
MCOneBlock == <<MCFirst>>
MCOnFirst == {MCFirst \o b : b \in MCFewBlocks}
=============================================================================
