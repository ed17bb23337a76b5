SPECIFICATION Spec
CONSTANTS
  t1 = t1
  t2 = t2
  t3 = t3
  Tx = {t1, t2, t3}
  Refusable = {}
  TransPerBlock = 2
  Block <- MCBlock
  Zero <- MCZero
  Parent <- MCParent
  Number <- MCNumber
  Txs <- MCTxs
  Mined <- MCMined
  Solved <- MCSolved
  Signed <- MCSigned
  PeerBlock <- MCPeerBlock
  InitFile <- NoFile
  InitPool = {}
  Handler = {h1, h2}
  Submitter = {}
  Miner = miner
  Main = main
  Boot = boot
  NoWait = nowait
  Free = free
  RandFails = 0
  MaxNumber = 2
CHECK_DEADLOCK FALSE
INVARIANT ChainLinked
