\* a confirmation and a cancellation of one order overlap
SPECIFICATION Spec
CONSTANTS
  a = a
  b = b
  ann = ann
  bob = bob
  k = k
  Sku = {a, b}
  Owner = {ann, bob}
  Key = {k}
  NoKey = NoKey
  InitialPolicy <- AllCounted
  Request = {r1}
  Handler = {h1, h2}
  Form <- OneForm
  InitialStock <- TwoAndOne
  Backorderable = {}
  MaxItems = 2
  MaxQuantity = 2
  MaxEdits = 0
  MaxFaults = 0
  MaxStaffOps = 2
PROPERTY EndedStaysEnded
CHECK_DEADLOCK FALSE
