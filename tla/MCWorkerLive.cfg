SPECIFICATION FairSpec
CONSTANTS
  t1 = t1
  t2 = t2
  t3 = t3
  Tx = {t1}
  Refusable = {t1}
  TransPerBlock = 1
  Block <- MCBlock
  Zero <- MCZero
  Parent <- MCParent
  Number <- MCNumber
  Txs <- MCTxs
  Mined <- MCMined
  Solved <- MCSolved
  Signed <- MCSigned
  PeerBlock <- MCOnFirst
  InitFile <- MCOneBlock
  InitPool = {}
  Handler = {h1}
  Submitter = {s1}
  Miner = miner
  Main = main
  Boot = boot
  NoWait = nowait
  Free = free
  RandFails = 0
  MaxNumber = 3
CHECK_DEADLOCK FALSE
INVARIANT TypeOK
PROPERTIES PeerBlockAnswered CancelStopsOperation ShutdownCompletes TransactionsMined
