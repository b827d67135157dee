\* one submission sent twice, the second time while the first is under way
SPECIFICATION Spec
CONSTANTS
  a = a
  b = b
  ann = ann
  bob = bob
  k = k
  Sku = {a, b}
  Owner = {ann, bob}
  Key = {k}
  NoKey = NoKey
  InitialPolicy <- AllCounted
  Request = {r1, r2}
  Handler = {h1}
  Form <- KeyedForm
  InitialStock <- TwoOfEach
  Backorderable = {}
  MaxItems = 2
  MaxQuantity = 2
  MaxEdits = 0
  MaxFaults = 0
  MaxStaffOps = 0
PROPERTY RetriesGetTheOrder
CHECK_DEADLOCK FALSE
