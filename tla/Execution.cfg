CONSTANTS
  q = q
  u = u
  c1 = c1
  c2 = c2
  None = None
  Accounts = {q, u}
  Sequencer = q
  Packages = {u}
  Codes = {c1, c2}
  LocalOrDev = FALSE
  InitialCoins = 9
  Funded = {q, u}
  Amounts = {3}
  FaucetCoins = 1
  MaxGasAmounts = {6}
  GasLimit = 6
  Sizes = {0, 4}
  MaxVersion = 2
  MaxSeq = 1
  MaxTx = 2
  MaxOps = 2
  MaxRestarts = 1
  MaxDryRuns = 1
SPECIFICATION SpecExecution
SYMMETRY CodeSymmetry
CHECK_DEADLOCK FALSE
INVARIANTS ExecutionInv CachesAreCurrent
PROPERTIES NativesFollow TransactionsSettle
