SPECIFICATION Spec
CONSTANTS
  alice = alice
  bob = bob
  miner1 = miner1
  noname = noname
  nobody = nobody
  Account <- MCAccount
  NoAccount = nobody
  GenesisBalances <- MCGenesisBalances
  MiningReward = 7
  UintSize = 32
  Tx <- MCTx
  Block <- MCBlock
  Long <- NoLong
  Blank <- MCBlank
  Garbled = garbled
  MaxLines = 2
CHECK_DEADLOCK FALSE
INVARIANTS TypeOK RestartExact AlwaysRestarts SupplyAccounted
PROPERTY ImplementsAccounts
