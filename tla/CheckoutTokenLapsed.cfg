\* A shopper's access token runs out while the checkout form is open.
SPECIFICATION CheckoutSpec
CONSTANTS
  Network = {"home"}
  MaxErrands = 2
  MaxSubmissions = 1
INVARIANT SignedInOrdersAreLinked
CHECK_DEADLOCK FALSE
