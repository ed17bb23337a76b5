------------------------------- MODULE BlockLog -------------------------------
(* What a node promises of its database file (foundation/blockchain/storage): *)
(* it only grows, one block at a time, and a block enters it after the block  *)
(* it was mined on.  Which of two blocks on the same parent comes first, or   *)
(* whether both enter, is left open: the file is a tree listed in an order    *)
(* that puts parents first.  Start is what the file held at the beginning.     *)
EXTENDS Sequences

CONSTANTS Block, Zero, Parent(_), Start

VARIABLE log

Entries == {log[i] : i \in DOMAIN log}

Init == log = Start

Extend(b) ==
  /\ b = Zero \/ Parent(b) \in {Zero} \cup Entries
  /\ log' = Append(log, b)

Next == \E b \in Block : Extend(b)

Spec == Init /\ [][Next]_log
=============================================================================
