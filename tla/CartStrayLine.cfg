\* A quantity changed while a line before it is removed.
SPECIFICATION Spec
CONSTANTS
  a = a
  b = b
  d = d
  Sku = {a, b, d}
  Earlier = Earlier
  NoSku = NoSku
  Call = {c1, c2}
  Form <- RaiseAndRemove
  InitialCart <- TwoLines
  InitialLimit <- Limits322
  MaxPerLine = 3
  MaxLines = 2
  MaxAttempts = 2
  MaxEdits = 0
INVARIANT EveryLineNamesAProduct
CHECK_DEADLOCK FALSE
