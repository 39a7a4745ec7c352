SPECIFICATION Spec
CONSTANTS
  d1 = d1
  d2 = d2
  d3 = d3
  g1 = g1
  v1 = v1
  v2 = v2
  None = None
  Tx <- MCTx
  Device <- MCDevice
  Product <- MCProduct
  ProductOf <- MCProductOf
  Version <- MCVersion
  VersionOf <- MCVersionOf
CHECK_DEADLOCK FALSE
INVARIANTS
  ListingsAreMatchedOnce
  NoUnitLosesARace
  NoDeadlock
