CONSTANTS
  blk = blk
  l1 = l1
  l2 = l2
  own = own
  Genesis = Genesis
  None = None
  Tx = {l1, l2, own}
  L1Block <- MCL1Block
  L1Tx <- MCL1Tx
  SequencerTx <- MCSequencerTx
  Modes = {"Active", "Maintenance", "ReadOnlyMode", "DateImportMode"}
  MaxOrder = 2
  MaxFaults = 1
  MaxCrashes = 2
  MaxLeaves = 5
  Resubmit = TRUE
SPECIFICATION SpecPipeline
CHECK_DEADLOCK FALSE
INVARIANTS NoDoubleExecution PipelineInv SeenIsKept PromiseKept AccumulatorFlushed
PROPERTIES SpecSequencer ImplementsLedger
