SPECIFICATION LiveSpec
CONSTANTS
  kennedy = kennedy
  ed = ed
  miner1 = miner1
  Address <- MCAddress
  NoAccount = NoAccount
  Account = {kennedy, ed}
  FirstFrom = kennedy
  FirstTo = ed
  Miner = {miner1}
  MiningReward = 1
  GasPrice = 1
  UintSize = 16
  PeerTx = {}
  NaN = NaN
  Fraction = Fraction
  AmountEntry = {2, Fraction}
  TipEntry = {}
  InitialNode <- MCOneKnown
  MaxCalls = 4
  MaxClicks = 2
  MaxNode = 1
  MaxTrans = 1
  MaxMining = 1
  MaxMisses = 1
PROPERTIES CallsDrain MiningLabelClears
CHECK_DEADLOCK FALSE
