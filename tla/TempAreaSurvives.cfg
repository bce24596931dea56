CONSTANTS
  Addresses = {"alice", "bob"}
  Nobody = "bitcoin_move"
  TxOutputs <- MCTxOutputs
  CoinbaseOutputs <- MCCoinbaseOutputs
  Scripts <- MCScripts
  Networks <- MCNetworks
  OrdinalGenesisHeight = 1
  Bip34Height = 2
  CoinValue = 4
  HalvingInterval = 1
  FirstPostSubsidyEpoch = 2
  UnknownValue = 3
  MaxTxs = 3
  MaxInscriptions = 2
  MaxTemp = 1
  MaxHeight = 2
SPECIFICATION Spec
PROPERTY TempStateCleared
CHECK_DEADLOCK FALSE
