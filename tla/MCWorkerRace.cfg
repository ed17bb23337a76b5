SPECIFICATION Spec
CONSTANTS
  t1 = t1
  t2 = t2
  t3 = t3
  Tx = {t1}
  Refusable = {}
  TransPerBlock = 1
  Block <- MCBlock
  Zero <- MCZero
  Parent <- MCParent
  Number <- MCNumber
  Txs <- MCTxs
  Mined <- MCMined
  Solved <- MCSolved
  Signed <- MCSigned
  PeerBlock <- MCFewBlocks
  InitFile <- NoFile
  InitPool = {}
  Handler = {h1, h2}
  Submitter = {s1}
  Miner = miner
  Main = main
  Boot = boot
  NoWait = nowait
  Free = free
  RandFails = 0
  MaxNumber = 2
CHECK_DEADLOCK FALSE
INVARIANTS ParentOnDisk StaleCancelIgnored MinerGoneBeforeClose
PROPERTY ImplementsBlockLog
