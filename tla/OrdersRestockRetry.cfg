\* a handler fails half way through the restock and the operation is retried
SPECIFICATION Spec
CONSTANTS
  a = a
  b = b
  ann = ann
  bob = bob
  k = k
  Sku = {a, b}
  Owner = {ann, bob}
  Key = {k}
  NoKey = NoKey
  InitialPolicy <- AllCounted
  Request = {r1}
  Handler = {h1}
  Form <- OneForm
  InitialStock <- TwoAndOne
  Backorderable = {}
  MaxItems = 2
  MaxQuantity = 2
  MaxEdits = 0
  MaxFaults = 1
  MaxStaffOps = 2
INVARIANT NoInventedStock
CHECK_DEADLOCK FALSE
