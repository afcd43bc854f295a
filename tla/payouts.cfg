CONSTANTS
  Booking = {b1, b2}
  Payout = {p1, p2}
  Request = {r1, r2}
  Handler = {h1, h2}
  MaxAttempts = 2
  NULL = NULL
SPECIFICATION Spec
INVARIANTS TypeOK BatchesMatchClaims
PROPERTIES ClaimedWhenEarned SettledOnce
SYMMETRY Symmetry
CHECK_DEADLOCK FALSE
