---------------------------- MODULE WorkerProofs ----------------------------
(* Proofs about the goroutines of a node, for any number of calls, any       *)
(* transactions and any universe of blocks.                                  *)
EXTENDS Worker, FiniteSetTheorems, SequenceTheorems, TLAPS

-----------------------------------------------------------------------------
LEMMA WriterType ==
  ASSUME TypeOK, NEW p \in Writer
  PROVE  stage[p] \in WriterStage /\ block[p] \in Block
BY DEF TypeOK

\* Every variable keeps its type.
LEMMA TypeStep ==
  ASSUME TypeOK, [Next]_vars
  PROVE  TypeOK'
<1> USE DEF TypeOK, WriterStage, MiningStage, ClosingStage, SubmitStage, At, Goto,
            chain, pend, operation, proof, Writer, Caller
<1> USE BlockAssumption, TxAssumption
<1>1. ASSUME NEW s \in Submitter, Upsert(s) PROVE TypeOK'
  BY <1>1 DEF Upsert
<1>2. ASSUME NEW s \in Submitter, SignalStartMining(s) PROVE TypeOK'
  BY <1>2 DEF SignalStartMining
<1>3. ASSUME NEW h \in Handler, PeerBlockArrives(h) PROVE TypeOK'
  BY <1>3 DEF PeerBlockArrives, SendWait
<1>4. ASSUME NEW h \in Handler, ValidateBlock(h) PROVE TypeOK'
  BY <1>4 DEF ValidateBlock
<1>5. ASSUME NEW h \in Handler, Done(h) PROVE TypeOK'
  BY <1>5 DEF Done, Forget
<1>6. ASSUME NEW p \in Writer, Write(p) PROVE TypeOK'
  BY <1>6 DEF Write
<1>7. ASSUME NEW p \in Writer, WriteFails(p) PROVE TypeOK'
  BY <1>7 DEF WriteFails
<1>8. ASSUME NEW p \in Writer, Apply(p) PROVE TypeOK'
  BY <1>8 DEF Apply
<1>9. ASSUME NEW p \in Writer, Release(p) PROVE TypeOK'
  BY <1>9 DEF Release
<1>10. CASE ReceiveStart  BY ZenonT(30), <1>10 DEF ReceiveStart
<1>11. CASE CheckLength  BY <1>11 DEF CheckLength
<1>12. CASE DrainCancel  BY <1>12 DEF DrainCancel
<1>13. CASE Join  BY <1>13 DEF Join
<1>14. CASE AwaitDone  BY <1>14 DEF AwaitDone
<1>15. CASE SignalAgain  BY <1>15 DEF SignalAgain
<1>16. CASE ExitOnShut  BY <1>16 DEF ExitOnShut
<1>17. CASE ReceiveCancel  BY <1>17 DEF ReceiveCancel
<1>18. CASE CancelContext  BY <1>18 DEF CancelContext
<1>19. CASE ContextDone  BY <1>19 DEF ContextDone
<1>20. CASE CountPool  BY <1>20 DEF CountPool
<1>21. CASE NotEnough  BY <1>21 DEF NotEnough, Return, Forget
<1>22. CASE PickBest  BY <1>22 DEF PickBest
<1>23. CASE NewBlock  BY <1>23 DEF NewBlock
<1>24. CASE Solve  BY <1>24, MinedAssumption DEF Solve
<1>25. CASE SolveNothing  BY <1>25 DEF SolveNothing
<1>26. CASE PowCancelled  BY <1>26 DEF PowCancelled, Return, Forget
<1>27. CASE BlockSent  BY <1>27 DEF BlockSent, Return, Forget
<1>28. CASE SignalShutdown  BY <1>28 DEF SignalShutdown, SendWait
<1>29. CASE ShutdownDone  BY <1>29 DEF ShutdownDone
<1>30. CASE CloseShut  BY <1>30 DEF CloseShut
<1>31. CASE CloseStorage  BY <1>31 DEF CloseStorage
<1>32. CASE UNCHANGED vars  BY <1>32 DEF vars
<1> QED
  BY <1>1, <1>2, <1>3, <1>4, <1>5, <1>6, <1>7, <1>8, <1>9, <1>10, <1>11, <1>12,
     <1>13, <1>14, <1>15, <1>16, <1>17, <1>18, <1>19, <1>20, <1>21, <1>22, <1>23,
     <1>24, <1>25, <1>26, <1>27, <1>28, <1>29, <1>30, <1>31, <1>32
  DEF Next, MiningG, ListenerG, ProofG, Search, Store, Update, Closer

THEOREM TypeCorrect == Spec => []TypeOK
<1>1. ASSUME Init PROVE TypeOK
  <2> USE <1>1 DEF Init
  <2>1. file \in Seq(Block) /\ latest \in Block /\ parent \in Block
    BY BlockAssumption DEF LastOf
  <2>2. stage \in [Writer -> WriterStage]
    BY DEF WriterStage
  <2>3. block \in [Writer -> Block]
    BY BlockAssumption
  <2>4. submit \in [Submitter -> SubmitStage]
    BY DEF SubmitStage
  <2>5. mining \in MiningStage /\ closing \in ClosingStage
    BY DEF MiningStage, ClosingStage
  <2>6. pool \subseteq Tx /\ picked \subseteq Tx /\ todo \subseteq Tx
    BY TxAssumption
  <2> QED  BY <2>1, <2>2, <2>3, <2>4, <2>5, <2>6 DEF TypeOK, Caller
<1> QED  BY <1>1, TypeStep, PTL DEF Spec

-----------------------------------------------------------------------------
(* The chain on disk. *)

\* What is known to be on disk stays known: the file only grows.
LEMMA KnownStays ==
  ASSUME TypeOK, [Next]_vars, NEW b, Known(b)
  PROVE  Known(b)'
<1>1. file' = file \/ \E c \in Block : file' = Append(file, c)
  BY WriterType
  DEF Next, vars, chain, pend, operation, proof, MiningG, ListenerG, ProofG, Search,
      Store, Update, Closer, Upsert, SignalStartMining, PeerBlockArrives,
      ValidateBlock, Done, Write, WriteFails, Apply, Release, ReceiveStart,
      CheckLength, DrainCancel, Join, AwaitDone, SignalAgain, ExitOnShut,
      ReceiveCancel, CancelContext, ContextDone, CountPool, NotEnough, Return,
      PickBest, NewBlock, Solve, SolveNothing, PowCancelled, BlockSent,
      SignalShutdown, ShutdownDone, CloseShut, CloseStorage
<1>2. file \in Seq(Block)  BY DEF TypeOK
<1> QED  BY <1>1, <1>2 DEF Known

\* validateBlock accepts only a child of the latest block.
LEMMA AcceptedIsChild ==
  ASSUME NEW b, Verdict(b) = "ok"
  PROVE  Parent(b) = latest
BY DEF Verdict

\* How a goroutine comes to hold a block it will store: it held it already, or
\* it validated it, or it found its hash.
LEMMA UpdateReached ==
  ASSUME TypeOK, [Next]_vars, NEW p \in Writer, At(p, "update")'
  PROVE  \/ At(p, "update") /\ block'[p] = block[p]
         \/ block'[p] = block[p] /\ Verdict(block[p]) = "ok"
         \/ block'[p] = Zero
         \/ Parent(block'[p]) = parent
<1> USE DEF TypeOK, At, Goto, Writer
<1>1. ASSUME NEW h \in Handler, ValidateBlock(h)
      PROVE  At(p, "update") \/ Verdict(block[p]) = "ok"
  BY <1>1 DEF ValidateBlock
<1>2. ASSUME NEW h \in Handler, PeerBlockArrives(h) \/ Done(h)
      PROVE  At(p, "update") /\ block'[p] = block[p]
  BY <1>2 DEF PeerBlockArrives, Done, Forget
<1>3. ASSUME NEW q \in Writer, Store(q) \/ Update(q)
      PROVE  At(p, "update") /\ block'[p] = block[p]
  BY <1>3 DEF Store, Update, Write, WriteFails, Apply, Release
<1>4. ASSUME NEW s \in Submitter, Upsert(s) \/ SignalStartMining(s)
      PROVE  At(p, "update") /\ block'[p] = block[p]
  BY <1>4 DEF Upsert, SignalStartMining
<1>5. CASE MiningG \/ ExitOnShut \/ ListenerG
  BY <1>5, NameAssumption
  DEF MiningG, ListenerG, ReceiveStart, CheckLength, DrainCancel, Join, AwaitDone,
      SignalAgain, ExitOnShut, ReceiveCancel, CancelContext, ContextDone
<1>6. CASE ProofG \/ NewBlock
  BY <1>6, NameAssumption
  DEF ProofG, CountPool, NotEnough, PickBest, PowCancelled, BlockSent, Return,
      Forget, NewBlock
<1>7. CASE Solve
  <2>1. PICK b \in Mined(parent, picked) :
          block' = [block EXCEPT ![Miner] = b] /\ Goto(Miner, "update")
    BY <1>7 DEF Solve
  <2>2. Parent(b) = parent  BY MinedAssumption
  <2> QED  BY <2>1, <2>2
<1>8. CASE SolveNothing
  BY <1>8 DEF SolveNothing
<1>9. CASE SignalShutdown \/ Closer
  BY <1>9 DEF SignalShutdown, Closer, ShutdownDone, CloseShut, CloseStorage
<1>10. CASE UNCHANGED vars
  BY <1>10 DEF vars
<1>11. ASSUME NEW h \in Handler, ValidateBlock(h) PROVE block'[p] = block[p]
  BY <1>11 DEF ValidateBlock
<1> QED
  BY <1>1, <1>2, <1>3, <1>4, <1>5, <1>6, <1>7, <1>8, <1>9, <1>10, <1>11
  DEF Next, Search

\* The latest block changes with the file only, the parent of the block being
\* mined only to the latest block or, at the end, to nothing.
LEMMA LatestStep ==
  ASSUME [Next]_vars
  PROVE  /\ \/ UNCHANGED <<file, latest>>
            \/ \E p \in Writer : Write(p)
         /\ parent' \in {parent, latest, Zero}
BY DEF Next, vars, chain, pend, operation, proof, MiningG, ListenerG, ProofG, Search,
       Store, Update, Closer, Upsert, SignalStartMining, PeerBlockArrives,
       ValidateBlock, Done, Write, WriteFails, Apply, Release, ReceiveStart,
       CheckLength, DrainCancel, Join, AwaitDone, SignalAgain, ExitOnShut,
       ReceiveCancel, CancelContext, ContextDone, CountPool, NotEnough, Return,
       PickBest, NewBlock, Solve, SolveNothing, PowCancelled, BlockSent,
       SignalShutdown, ShutdownDone, CloseShut, CloseStorage

\* A block that is written is on disk.
LEMMA WrittenIsKnown ==
  ASSUME TypeOK, NEW p \in Writer, Write(p)
  PROVE  Known(latest)'
<1>1. file' = Append(file, block[p]) /\ latest' = block[p]  BY DEF Write
<1>2. file \in Seq(Block) /\ block[p] \in Block  BY WriterType DEF TypeOK
<1>3. Len(file') \in DOMAIN file' /\ file'[Len(file')] = block[p]
  BY <1>1, <1>2
<1> QED  BY <1>1, <1>3 DEF Known

LEMMA ParentStep ==
  ASSUME TypeOK, ParentOnDisk, [Next]_vars
  PROVE  ParentOnDisk'
<1>1. Known(latest)'
  <2>1. CASE UNCHANGED <<file, latest>>  BY <2>1 DEF ParentOnDisk, Known
  <2>2. CASE \E p \in Writer : Write(p)  BY <2>2, WrittenIsKnown
  <2> QED  BY <2>1, <2>2, LatestStep
<1>2. Known(parent)'
  <2>1. ASSUME NEW b, Known(b), parent' = b PROVE Known(parent)'
    <3>1. Known(b)'  BY <2>1, KnownStays
    <3> QED  BY <2>1, <3>1 DEF Known
  <2>2. Known(Zero)  BY DEF Known
  <2> QED  BY <2>1, <2>2, LatestStep DEF ParentOnDisk
<1>3. ASSUME NEW p \in Writer, At(p, "update")'
      PROVE  block'[p] = Zero \/ Known(Parent(block[p]))'
  <2>1. ASSUME NEW b, Known(b), Parent(block'[p]) = b
        PROVE  Known(Parent(block[p]))'
    <3>1. Known(b)'  BY <2>1, KnownStays
    <3> QED  BY <2>1, <3>1 DEF Known
  <2>2. Verdict(block[p]) = "ok" => Known(Parent(block[p]))
    BY AcceptedIsChild DEF ParentOnDisk
  <2> QED  BY <1>3, <2>1, <2>2, UpdateReached DEF ParentOnDisk
<1> QED  BY <1>1, <1>2, <1>3 DEF ParentOnDisk

\* The parent of every block a goroutine is about to store is on disk.
THEOREM ParentsOnDisk == Spec => []ParentOnDisk
<1>1. Init => ParentOnDisk
  BY BlockAssumption DEF Init, LastOf, ParentOnDisk, Known, At
<1> QED  BY <1>1, TypeCorrect, TypeStep, ParentStep, PTL DEF Spec

\* Every step of the goroutines is a step of the abstract log, or leaves it alone.
THEOREM ImplementsLog == Spec => ImplementsBlockLog
<1>1. Init => Log!Init
  BY DEF Init, Log!Init
<1>2. TypeOK /\ ParentOnDisk /\ [Next]_vars => [Log!Next]_file
  <2> SUFFICES ASSUME TypeOK, ParentOnDisk, NEW p \in Writer, Write(p)
               PROVE  Log!Next
    BY LatestStep
  <2>1. file' = Append(file, block[p]) /\ block[p] \in Block
    BY WriterType DEF Write
  <2>2. block[p] = Zero \/ Known(Parent(block[p]))
    BY DEF ParentOnDisk, Write
  <2>3. Log!Extend(block[p])
    BY <2>1, <2>2 DEF Log!Extend, Log!Entries, Known
  <2> QED  BY <2>1, <2>3 DEF Log!Next
<1> QED
  BY <1>1, <1>2, TypeCorrect, ParentsOnDisk, PTL DEF Spec, Log!Spec, ImplementsBlockLog

-----------------------------------------------------------------------------
(* Wakeups. *)

LEMMA PoolFinite ==
  ASSUME TypeOK
  PROVE  IsFiniteSet(pool) /\ Cardinality(pool) \in Nat
BY TxAssumption, FS_Subset, FS_CardinalityType DEF TypeOK

\* A pool that shrinks does not grow in number.
LEMMA PoolShrinks ==
  ASSUME TypeOK, pool' \subseteq pool
  PROVE  Cardinality(pool') <= Cardinality(pool) /\ Cardinality(pool') \in Nat
BY PoolFinite, FS_Subset, FS_CardinalityType

\* Only a submission adds to the pool.
LEMMA PoolStep ==
  ASSUME [Next]_vars, ~ \E s \in Submitter : Upsert(s)
  PROVE  pool' \subseteq pool
BY DEF Next, vars, chain, pend, operation, proof, MiningG, ListenerG, ProofG, Search,
       Store, Update, Closer, SignalStartMining, PeerBlockArrives,
       ValidateBlock, Done, Write, WriteFails, Apply, Release, ReceiveStart,
       CheckLength, DrainCancel, Join, AwaitDone, SignalAgain, ExitOnShut,
       ReceiveCancel, CancelContext, ContextDone, CountPool, NotEnough, Return,
       PickBest, NewBlock, Solve, SolveNothing, PowCancelled, BlockSent,
       SignalShutdown, ShutdownDone, CloseShut, CloseStorage

\* A signal that is due stays due until the pool was found too small.
LEMMA WakeupStep ==
  ASSUME TypeOK, NoLostWakeup, [Next]_vars
  PROVE  NoLostWakeup'
<1> SUFFICES ASSUME Submitted', Cardinality(pool') >= TransPerBlock
             PROVE  MiningPending'
  BY DEF NoLostWakeup
<1> USE DEF MiningPending, ShutClosed, pend, operation
<1>1. ASSUME NEW s \in Submitter, Upsert(s) PROVE MiningPending'
  BY <1>1 DEF Upsert, TypeOK
<1>2. CASE ~ \E s \in Submitter : Upsert(s)
  <2>1. pool' \subseteq pool  BY <1>2, PoolStep
  <2>2. Cardinality(pool) >= TransPerBlock
    BY <2>1, PoolShrinks, PoolFinite, TransPerBlockAssumption
  <2>3. CASE ~Submitted
    <3>1. ASSUME NEW s \in Submitter, SignalStartMining(s) PROVE FALSE
      BY <2>3, <3>1 DEF SignalStartMining, Submitted
    <3>2. UNCHANGED submit
      BY <1>2, <3>1
      DEF Next, vars, chain, pend, operation, proof, MiningG, ListenerG, ProofG, Search,
      Store, Update, Closer, SignalStartMining, PeerBlockArrives,
      ValidateBlock, Done, Write, WriteFails, Apply, Release, ReceiveStart,
      CheckLength, DrainCancel, Join, AwaitDone, SignalAgain, ExitOnShut,
      ReceiveCancel, CancelContext, ContextDone, CountPool, NotEnough, Return,
      PickBest, NewBlock, Solve, SolveNothing, PowCancelled, BlockSent,
      SignalShutdown, ShutdownDone, CloseShut, CloseStorage
    <3> QED  BY <2>3, <3>2 DEF Submitted
  <2>4. CASE MiningPending
    <3>1. ASSUME NEW s \in Submitter, SignalStartMining(s) PROVE MiningPending'
      BY <3>1 DEF SignalStartMining
    <3>2. ASSUME NEW h \in Handler,
                 PeerBlockArrives(h) \/ ValidateBlock(h) \/ Done(h)
          PROVE  MiningPending'
      BY <2>4, <3>2 DEF PeerBlockArrives, ValidateBlock, Done
    <3>3. ASSUME NEW p \in Writer, Store(p) \/ Update(p) PROVE MiningPending'
      BY <2>4, <3>3 DEF Store, Update, Write, WriteFails, Apply, Release
    <3>4. CASE MiningG
      <4>1. CASE CheckLength
        BY <2>2, <2>4, <4>1, PoolFinite, TransPerBlockAssumption DEF CheckLength
      <4>2. CASE SignalAgain
        BY <2>2, <4>2 DEF SignalAgain
      <4> QED
        BY <2>4, <3>4, <4>1, <4>2
        DEF MiningG, ReceiveStart, DrainCancel, Join, AwaitDone
    <3>5. CASE ExitOnShut  BY <3>5 DEF ExitOnShut
    <3>6. CASE ListenerG
      BY <2>4, <3>6 DEF ListenerG, ReceiveCancel, CancelContext, ContextDone
    <3>7. CASE ProofG \/ NewBlock \/ Search
      BY <2>4, <3>7
      DEF ProofG, CountPool, NotEnough, PickBest, PowCancelled, BlockSent, Return,
          NewBlock, Search, Solve, SolveNothing
    <3>8. CASE SignalShutdown \/ Closer
      BY <2>4, <3>8
      DEF SignalShutdown, Closer, ShutdownDone, CloseShut, CloseStorage
    <3>9. CASE UNCHANGED vars  BY <2>4, <3>9 DEF vars
    <3> QED
      BY <1>2, <3>1, <3>2, <3>3, <3>4, <3>5, <3>6, <3>7, <3>8, <3>9 DEF Next
  <2> QED  BY <2>2, <2>3, <2>4 DEF NoLostWakeup
<1> QED  BY <1>1, <1>2

\* After a submission, a pool large enough for a block is being dealt with.
THEOREM NoWakeupLost == Spec => []NoLostWakeup
<1>1. Init => NoLostWakeup
  BY DEF Init, NoLostWakeup, Submitted
<1> QED  BY <1>1, TypeCorrect, TypeStep, WakeupStep, PTL DEF Spec

-----------------------------------------------------------------------------
(* The operation and its two goroutines. *)

\* Outside an operation its two goroutines are over; during one, what waits in
\* the channel or was received was signalled during it; the lock is held by
\* whoever applies a block; the file is closed once the mining G has exited.
OperationInv ==
  /\ mining # "mining" => At(Miner, "done") /\ listener = "done"
  /\ mining = "mining" /\ cancelMining # NoWait => cancelMining \in heard
  /\ wait # NoWait => wait \in heard
  /\ mu = Miner => At(Miner, "apply")
  /\ closing = "closed" => mining = "exited"

LEMMA OperationStep ==
  ASSUME TypeOK, OperationInv, [Next]_vars
  PROVE  OperationInv'
<1> USE DEF OperationInv, TypeOK, At, Goto, Writer, Caller
<1> USE NameAssumption
<1>1. ASSUME NEW s \in Submitter, Upsert(s) \/ SignalStartMining(s)
      PROVE  OperationInv'
  BY <1>1 DEF Upsert, SignalStartMining, chain, pend, operation
<1>2. ASSUME NEW h \in Handler, PeerBlockArrives(h) PROVE OperationInv'
  BY <1>2 DEF PeerBlockArrives, SendWait, chain
<1>3. ASSUME NEW h \in Handler, ValidateBlock(h) \/ Done(h)
      PROVE  OperationInv'
  BY <1>3 DEF ValidateBlock, Done, chain, pend, operation
<1>4. ASSUME NEW p \in Writer, Write(p) PROVE OperationInv'
  BY <1>4 DEF Write, pend, operation
<1>5. ASSUME NEW p \in Writer, WriteFails(p) PROVE OperationInv'
  BY <1>5 DEF WriteFails, chain, pend
<1>6. ASSUME NEW p \in Writer, Apply(p) PROVE OperationInv'
  BY <1>6 DEF Apply, pend, operation
<1>7. ASSUME NEW p \in Writer, Release(p) PROVE OperationInv'
  BY <1>7 DEF Release, pend, operation
<1>8. CASE MiningG
  BY <1>8
  DEF MiningG, ReceiveStart, CheckLength, DrainCancel, Join, AwaitDone, SignalAgain,
      ShutClosed, chain, pend
<1>9. CASE ExitOnShut
  BY <1>9 DEF ExitOnShut, chain, pend
<1>10. CASE ListenerG
  BY <1>10 DEF ListenerG, ReceiveCancel, CancelContext, ContextDone, chain, pend
<1>11. CASE ProofG
  BY <1>11
  DEF ProofG, CountPool, NotEnough, PickBest, PowCancelled, BlockSent, Return, chain,
      pend, operation
<1>12. CASE NewBlock \/ Search
  BY <1>12 DEF NewBlock, Search, Solve, SolveNothing, chain, pend, operation
<1>13. CASE SignalShutdown
  BY <1>13 DEF SignalShutdown, SendWait, chain
<1>14. CASE Closer
  BY <1>14
  DEF Closer, ShutdownDone, CloseShut, CloseStorage, chain, pend, operation
<1>15. CASE UNCHANGED vars
  BY <1>15 DEF vars, chain, pend, operation
<1> QED
  BY <1>1, <1>2, <1>3, <1>4, <1>5, <1>6, <1>7, <1>8, <1>9, <1>10, <1>11, <1>12,
     <1>13, <1>14, <1>15
  DEF Next, Store, Update

THEOREM OperationSound == Spec => []OperationInv
<1>1. Init => OperationInv
  BY NameAssumption DEF Init, OperationInv, At, Writer
<1> QED  BY <1>1, TypeCorrect, TypeStep, OperationStep, PTL DEF Spec

\* An operation is cancelled, and held back, only by a signal sent during it.
THEOREM StaleCancelsIgnored == Spec => []StaleCancelIgnored
<1>1. OperationInv => StaleCancelIgnored
  BY DEF OperationInv, StaleCancelIgnored
<1> QED  BY <1>1, OperationSound, PTL

\* The database file is closed after the last goroutine that mines is over.
THEOREM MinersGoneBeforeClose == Spec => []MinerGoneBeforeClose
<1>1. OperationInv => MinerGoneBeforeClose
  BY DEF OperationInv, MinerGoneBeforeClose, At
<1> QED  BY <1>1, OperationSound, PTL

-----------------------------------------------------------------------------
(* A node that starts from a chain, receives no block, and whose source of    *)
(* randomness never fails.                                                   *)

Solo == Linked(InitFile) /\ Handler = {} /\ RandFails = 0

\* The operation mines on the last block of the file.
SoloInv ==
  /\ LatestIsLast
  /\ At(Miner, "pow") => parent = latest
  /\ At(Miner, "update") => Parent(block[Miner]) = latest

LEMMA LinkedStep ==
  ASSUME Solo, TypeOK, SoloInv, ChainLinked, Write(Miner)
  PROVE  ChainLinked' /\ LatestIsLast'
<1> DEFINE b == block[Miner]
<1>1. b \in Block /\ file \in Seq(Block)  BY DEF TypeOK, Writer
<1>2. file' = Append(file, b) /\ latest' = b /\ Parent(b) = latest
  BY DEF Write, SoloInv
<1> HIDE DEF b
<1>3. /\ Len(file') = Len(file) + 1
      /\ DOMAIN file' = 1 .. Len(file) + 1
      /\ file'[Len(file) + 1] = b
      /\ \A i \in 1 .. Len(file) : file'[i] = file[i]
      /\ DOMAIN file = 1 .. Len(file) /\ Len(file) \in Nat
  BY <1>1, <1>2
<1>4. Parent(b) = IF Len(file) = 0 THEN Zero ELSE file[Len(file)]
  BY <1>1, <1>2 DEF SoloInv, LatestIsLast, LastOf
<1>5. ChainLinked'
  BY <1>3, <1>4 DEF ChainLinked, Linked
<1>6. LatestIsLast'
  BY <1>1, <1>2, <1>3 DEF LatestIsLast, LastOf
<1> QED  BY <1>5, <1>6

LEMMA SoloStep ==
  ASSUME Solo, TypeOK, SoloInv, ChainLinked, [Next]_vars
  PROVE  SoloInv' /\ ChainLinked'
<1> USE DEF Solo, At, Goto, Writer, TypeOK
<1>1. ASSUME NEW p \in Writer, Write(p) PROVE SoloInv' /\ ChainLinked'
  <2>1. p = Miner  OBVIOUS
  <2>2. ChainLinked' /\ LatestIsLast'  BY <1>1, <2>1, LinkedStep
  <2>3. stage'[Miner] = "apply"  BY <1>1, <2>1 DEF Write
  <2> QED  BY <2>2, <2>3 DEF SoloInv
<1>2. CASE UNCHANGED <<file, latest>>
  <2>1. LatestIsLast' /\ ChainLinked'
    BY <1>2 DEF SoloInv, LatestIsLast, LastOf, ChainLinked, Linked
  <2>2. ASSUME At(Miner, "pow")' PROVE parent' = latest'
    BY <1>2, <2>2
    DEF SoloInv, Next, vars, chain, pend, operation, proof, MiningG, ListenerG,
        ProofG, Search, Store, Update, Closer, Upsert, SignalStartMining, WriteFails,
        Write, Apply, Release, ReceiveStart, CheckLength, DrainCancel, Join,
        AwaitDone, SignalAgain, ExitOnShut, ReceiveCancel, CancelContext,
        ContextDone, CountPool, NotEnough, Return, PickBest, NewBlock, Solve,
        SolveNothing, PowCancelled, BlockSent, SignalShutdown, ShutdownDone,
        CloseShut, CloseStorage
  <2>3. ASSUME At(Miner, "update")' PROVE Parent(block[Miner])' = latest'
    <3>1. CASE Solve
      <4>1. PICK b \in Mined(parent, picked) : block' = [block EXCEPT ![Miner] = b]
        BY <3>1 DEF Solve
      <4>2. Parent(b) = parent  BY MinedAssumption
      <4> QED  BY <1>2, <3>1, <4>1, <4>2 DEF Solve, SoloInv
    <3>2. ~SolveNothing
      BY DEF SolveNothing
    <3>3. CASE ~Solve
      BY <1>2, <2>3, <3>2, <3>3
      DEF SoloInv, Next, vars, chain, pend, operation, proof, MiningG, ListenerG,
          ProofG, Search, Store, Update, Closer, Upsert, SignalStartMining,
          WriteFails, Write, Apply, Release, ReceiveStart, CheckLength, DrainCancel,
          Join, AwaitDone, SignalAgain, ExitOnShut, ReceiveCancel, CancelContext,
          ContextDone, CountPool, NotEnough, Return, PickBest, NewBlock,
          PowCancelled, BlockSent, SignalShutdown, ShutdownDone, CloseShut,
          CloseStorage, Forget
    <3> QED  BY <3>1, <3>3
  <2> QED  BY <2>1, <2>2, <2>3 DEF SoloInv
<1> QED  BY <1>1, <1>2, LatestStep

\* A node on its own writes a chain: if its file was one at the start, no peer sends it a
\* block and its random source never fails, each block holds the hash of the one before.
THEOREM SoloChainLinked == Solo => (Spec => []ChainLinked)
<1> SUFFICES ASSUME Solo PROVE Spec => []ChainLinked
  OBVIOUS
<1>1. Init => SoloInv /\ ChainLinked
  BY DEF Solo, Init, SoloInv, LatestIsLast, ChainLinked, At, Writer
<1>2. TypeOK /\ SoloInv /\ ChainLinked /\ [Next]_vars => SoloInv' /\ ChainLinked'
  BY SoloStep
<1> QED  BY <1>1, <1>2, TypeCorrect, PTL DEF Spec

-----------------------------------------------------------------------------
(* The pool. *)

\* The transactions still to be applied are in a block of the file.
TodoStored == \A tx \in todo : \E i \in DOMAIN file : tx \in Txs(file[i])

\* Only a write changes the file, and between two writes the transactions to apply
\* become fewer.
LEMMA TodoStep ==
  ASSUME [Next]_vars, ~ \E p \in Writer : Write(p)
  PROVE  file' = file /\ todo' \subseteq todo
BY DEF Next, vars, chain, pend, operation, proof, MiningG, ListenerG, ProofG, Search,
       Store, Update, Closer, Upsert, SignalStartMining, PeerBlockArrives,
       ValidateBlock, Done, WriteFails, Apply, Release, ReceiveStart,
       CheckLength, DrainCancel, Join, AwaitDone, SignalAgain, ExitOnShut,
       ReceiveCancel, CancelContext, ContextDone, CountPool, NotEnough, Return,
       PickBest, NewBlock, Solve, SolveNothing, PowCancelled, BlockSent,
       SignalShutdown, ShutdownDone, CloseShut, CloseStorage

LEMMA TodoStays == TypeOK /\ TodoStored /\ [Next]_vars => TodoStored'
<1> SUFFICES ASSUME TypeOK, TodoStored, [Next]_vars PROVE TodoStored'
  OBVIOUS
<1>1. ASSUME NEW p \in Writer, Write(p) PROVE TodoStored'
  <2>1. file' = Append(file, block[p]) /\ todo' = Txs(block[p])  BY <1>1 DEF Write
  <2>2. file \in Seq(Block) /\ block[p] \in Block  BY WriterType DEF TypeOK
  <2>3. Len(file') \in DOMAIN file' /\ file'[Len(file')] = block[p]
    BY <2>1, <2>2
  <2> QED  BY <2>1, <2>3 DEF TodoStored
<1>2. CASE ~ \E p \in Writer : Write(p)
  BY <1>2, TodoStep DEF TodoStored
<1> QED  BY <1>1, <1>2

\* Who takes a transaction out of the pool is applying it.
LEMMA LeaverIsApplied ==
  ASSUME [Next]_vars, NEW tx \in pool, tx \notin pool'
  PROVE  tx \in todo
BY DEF Next, vars, chain, pend, operation, proof, MiningG, ListenerG, ProofG, Search,
       Store, Update, Closer, Upsert, SignalStartMining, PeerBlockArrives, Write,
       ValidateBlock, Done, WriteFails, Apply, Release, ReceiveStart,
       CheckLength, DrainCancel, Join, AwaitDone, SignalAgain, ExitOnShut,
       ReceiveCancel, CancelContext, ContextDone, CountPool, NotEnough, Return,
       PickBest, NewBlock, Solve, SolveNothing, PowCancelled, BlockSent,
       SignalShutdown, ShutdownDone, CloseShut, CloseStorage

\* No race between writers, submissions, cancels and shutdown makes the pool lose a
\* transaction: one that leaves it is in a block that is on disk, because
\* updateLocalState deletes only after Write has returned.
THEOREM OnlyStoredTransactionsLeave == Spec => OnlyStoredLeave
<1>1. Init => TodoStored  BY DEF Init, TodoStored
<1>2. TodoStored /\ [Next]_vars =>
        [\A tx \in pool : tx \notin pool' =>
           \E i \in DOMAIN file : tx \in Txs(file[i])]_vars
  BY LeaverIsApplied DEF TodoStored
<1> QED  BY <1>1, <1>2, TypeCorrect, TodoStays, PTL DEF Spec, OnlyStoredLeave
=============================================================================
