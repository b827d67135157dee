\* Four requests of every kind to one account, three in flight at a time, at most
\* two sessions; two visitors and three visits of one address.
SPECIFICATION AccountsSpec
CONSTANTS
  Request = {r1, r2, r3}
  MaxSessions = 2
  MaxCalls = 4
  Visitor = {v1, v2}
  GuestOrder = {o1, o2}
  MaxResends = 1
  MaxVisits = 3
SYMMETRY Symmetry
INVARIANT AccountsTypeOK
INVARIANT TokenUsedOnce
INVARIANT ListBounded
INVARIANT SignedOutStaysOut
INVARIANT OneSessionPerLogin
INVARIANT RevocationIsFinal
INVARIANT NewPasswordEndsOldSessions
INVARIANT NoSessionLost
INVARIANT ResetLinkWorksOnce
INVARIANT OneAccountPerAddress
INVARIANT PastOrdersAreClaimed
INVARIANT SignupCanGoOn
PROPERTY SignupsEvaporate
CHECK_DEADLOCK FALSE
