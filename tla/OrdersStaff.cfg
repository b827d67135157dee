\* staff handlers working on different orders at once, and calls that keep
\* running unless they crash
SPECIFICATION FairSerialSpec
CONSTANTS
  a = a
  b = b
  ann = ann
  bob = bob
  k = k
  Sku = {a, b}
  Owner = {ann, bob}
  Key = {k}
  NoKey = NoKey
  InitialPolicy <- AllCounted
  Request = {r1, r2}
  Handler = {h1, h2}
  Form <- StaffForms
  InitialStock <- ThreeAndOne
  Backorderable = {b}
  MaxItems = 2
  MaxQuantity = 2
  MaxEdits = 1
  MaxFaults = 1
  MaxStaffOps = 3
INVARIANT NoOversell
INVARIANT StockIsConserved
INVARIANT ReleasedFlagIsTruthful
PROPERTY ImplementsLedger
PROPERTY EveryHoldResolves
CHECK_DEADLOCK FALSE
