CONSTANTS
  Keys = {a, b}
  FieldNames = {f}
  ChildNames = {}
  Plain = {v1, v2}
  Users = {u1}
  SystemOwner = System
  Nothing = Nothing
  MaxTx = 2
  MaxOps = 4
  RemovesAgain = FALSE
  TakesAgain = FALSE
  EmbedsShared = FALSE
SPECIFICATION SpecRuntime
INVARIANTS RuntimeInv OneHandle
PROPERTIES FrozenForEver ImplementsObjectStore
SYMMETRY KeysAndValues
CHECK_DEADLOCK FALSE
