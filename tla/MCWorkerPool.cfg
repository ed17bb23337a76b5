SPECIFICATION Spec
CONSTANTS
  t1 = t1
  t2 = t2
  t3 = t3
  Tx = {t1, t2, t3}
  Refusable = {t2}
  TransPerBlock = 2
  Block <- MCBlock
  Zero <- MCZero
  Parent <- MCParent
  Number <- MCNumber
  Txs <- MCTxs
  Mined <- MCMined
  Solved <- MCSolved
  Signed <- MCSigned
  PeerBlock <- MCManyBlocks
  InitFile <- NoFile
  InitPool = {t1}
  Handler = {h1}
  Submitter = {s1, s2}
  Miner = miner
  Main = main
  Boot = boot
  NoWait = nowait
  Free = free
  RandFails = 1
  MaxNumber = 2
CHECK_DEADLOCK FALSE
INVARIANT NoLostWakeup
PROPERTY OnlyStoredLeave
