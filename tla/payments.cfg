CONSTANTS
  Room = {room}
  Day <- MCDay
  MaxNights = 2
  Asked <- MCOneStay
  Booking = {b1}
  Payment = {p1, p2}
  Request = {r1, r2}
  Cron = {cron}
  RefundPercent = {0, 50, 100}
  ManualTarget <- BookingStatus
  CanCrash = TRUE
  NULL = NULL
SPECIFICATION Spec
INVARIANTS SuccessIsCaptured RefundIsBacked EntryIsPaidFor LedgerInv
SYMMETRY Symmetry
CHECK_DEADLOCK FALSE
