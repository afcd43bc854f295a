CONSTANTS
  Room = {room}
  Day <- MCDay
  MaxNights = 2
  Asked <- MCOneStay
  Booking = {b1}
  Payment = {p1}
  Request = {r1, r2}
  Cron = {}
  RefundPercent = {0, 50}
  ManualTarget = {}
  CanCrash = FALSE
  NULL = NULL
SPECIFICATION Spec
INVARIANTS RefundRecordedInFull
CHECK_DEADLOCK FALSE
