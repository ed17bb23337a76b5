SPECIFICATION Spec
CONSTANTS
  kennedy = kennedy
  ed = ed
  miner1 = miner1
  Address <- MCAddress
  NoAccount = NoAccount
  Account = {kennedy, ed}
  FirstFrom = kennedy
  FirstTo = ed
  Miner = {miner1}
  MiningReward = 1
  GasPrice = 1
  UintSize = 16
  PeerTx <- MCPeerTx
  NaN = NaN
  Fraction = Fraction
  AmountEntry = {2}
  TipEntry = {NaN}
  InitialNode <- MCInitialNode
  MaxCalls = 5
  MaxClicks = 2
  MaxNode = 2
  MaxTrans = 1
  MaxMining = 0
  MaxMisses = 0
INVARIANTS TypeOK NonceZeroWhileAsked QuietLoadSettles SubmittedWasChecked
PROPERTIES ReadsNeedConnection NonceOnlyReset
CHECK_DEADLOCK FALSE
