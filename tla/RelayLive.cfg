CONSTANTS
  a = a
  b = b
  None = None
  Branch = {a, b}
  MaxHeight = 5
  MaxReorg = 1
  reorg_block_count = 1
  batch_size = 1
  EndHeight = 0
  TxCount = 2
  MaxFaults = 0
  MaxRestarts = 1
SPECIFICATION FairRelay
CHECK_DEADLOCK FALSE
INVARIANTS SystemCallsSucceed
PROPERTIES RelayCatchesUp
