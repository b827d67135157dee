\* placeOrder calls racing each other and crashing, and staff handlers that
\* overlap and fail
SPECIFICATION Spec
CONSTANTS
  a = a
  b = b
  ann = ann
  bob = bob
  k = k
  Sku = {a, b}
  Owner = {ann, bob}
  Key = {k}
  NoKey = NoKey
  InitialPolicy <- AllCounted
  Request = {r1, r2, r3}
  Handler = {h1, h2}
  Form <- PlacementForms
  InitialStock <- TwoAndOne
  Backorderable = {b}
  MaxItems = 2
  MaxQuantity = 2
  MaxEdits = 0
  MaxFaults = 1
  MaxStaffOps = 2
SYMMETRY Symmetry
INVARIANT TypeOK
INVARIANT KeysAreHonoured
INVARIANT FailedCheckoutHoldsNothing
INVARIANT EndedOrderHoldsNothing
CHECK_DEADLOCK FALSE
