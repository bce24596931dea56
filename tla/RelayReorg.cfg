CONSTANTS
  a = a
  b = b
  None = None
  Branch = {a, b}
  MaxHeight = 5
  MaxReorg = 4
  reorg_block_count = 2
  batch_size = 1
  EndHeight = 4
  TxCount = 2
  MaxFaults = 1
  MaxRestarts = 1
SPECIFICATION SpecRelay
SYMMETRY Branches
CHECK_DEADLOCK FALSE
INVARIANTS RelayInv PendingChain ProcessedIsFinal DeepReorgStops
PROPERTIES AbortsOnlyOnRepeat
