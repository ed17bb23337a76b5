SPECIFICATION Spec
CONSTANTS
  alice = alice
  bob = bob
  carol = carol
  nobody = nobody
  Account <- MCAccount
  NoAccount = nobody
  GenesisBalances <- MCGenesisBalances
  MiningReward = 3
  UintSize = 8
  Tx <- MCTx
PROPERTY PartiesSettle
