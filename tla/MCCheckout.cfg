CONSTANTS
  r1 = r1
  r2 = r2
  r3 = r3
  ann = ann
  bob = bob
  k1 = k1
  k2 = k2
  h1 = h1
  h2 = h2
  NoKey = NoKey
  NoHash = NoHash
  EmptyHash = EmptyHash
  NoOne = NoOne
  Requests <- Requests3
  Products <- MCProducts
  Users <- MCUsers
  Keys = {k1, k2}
  Hashes = {h1, h2}
  Inputs <- AllInputs
  Active <- MCActive
  Price <- MCPrice
  InitialStock <- MCStock
  InitialBalance <- MCBalance
  PgIntMax = 8
  MaxAttempts = 2
  MaxFaults = 2
SPECIFICATION Spec
SYMMETRY Symm
INVARIANTS
  TypeOK
  Conserved
  OneOrderPerCall
  OutboxMatchesOrders
  LocksInOrder
  NoWaitCycle
  OneOrderPerKey
  ReplayNamesFirstOrder
PROPERTIES ActsAtOneInstant
