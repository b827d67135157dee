\* Each component by itself.  Three calls of every kind on one cart, one change
\* of availability; two tabs, three moves of an entry; two writes or page
\* requests on their way; two submissions of the checkout form.
SPECIFICATION StorefrontSpec
CONSTANTS
  a = a
  b = b
  d = d
  Sku = {a, b, d}
  Earlier = Earlier
  NoSku = NoSku
  Call = {c1, c2, c3}
  Form <- AllForms
  InitialCart <- EmptyOrTwoLines
  InitialLimit <- Limits322
  MaxPerLine = 3
  MaxLines = 2
  MaxAttempts = 2
  MaxEdits = 1
  Tab = {t1, t2}
  BatchSize = 1
  MaxEntries = 2
  MaxPosts = 3
  Tap = {w1, w2}
  MaxChanges = 3
  MaxTaps = 3
  Page = {p1, p2}
  MaxTokens = 3
  MaxPages = 3
  Network = {home, road}
  MaxErrands = 3
  MaxSubmissions = 2
SYMMETRY StorefrontSymmetry
INVARIANT TypesOK
INVARIANT LinesDistinct
INVARIANT CartWithinLimit
INVARIANT ConflictMeansContention
PROPERTY SavesAreAtomic
INVARIANT EntriesMoveOnce
INVARIANT QuietViewIsTrue
INVARIANT AlarmsHaveACause
INVARIANT LinesOrderedOnce
CHECK_DEADLOCK FALSE
