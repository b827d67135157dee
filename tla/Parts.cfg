\* Each component by itself; its interesting races take two or three requests.
SPECIFICATION PartsSpec
CONSTANTS
  Category = {c1, c2, c3}
  Existing = {c1, c2}
  Root = Root
  Editor = {e1, e2}
  MaxEdits = 3
  MaxMoves = 2
  MaxNodes = 4
  MaxDepth = 1
  Panel = {p1}
  Mutation = {m1, m2}
  MaxMutations = 2
  Uploader = {u1, u2}
  MaxFiles = 2
  Product = {q1, q2, q3, q4}
  Client = {k1, k2}
  MaxItems = 1
  MaxBatch = 2
  MaxRequests = 3
  Variation = {w1}
  Staff = {s1, s2}
  MaxPrice = 2
  MaxSaves = 3
  Combination = {b1, b2}
  Job = {j1, j2}
  MaxWork = 2
  MaxSyncs = 2
INVARIANT TypesOK
INVARIANT TreeStands
PROPERTY WalksEnd
INVARIANT DropsLandAsShown
INVARIANT NoBrokenRow
INVARIANT NoStrayAsset
INVARIANT WishlistBounded
INVARIANT CatalogCoherent
INVARIANT FilledInStays
CHECK_DEADLOCK FALSE
