CONSTANTS
  Room = {room}
  Day <- MCDay
  MaxNights = 2
  Asked <- MCStays
  Booking = {b1, b2}
  Payment = {p1}
  Request = {r1}
  Cron = {cron}
  RefundPercent = {0}
  ManualTarget = {"CHECKED_IN", "CHECKED_OUT"}
  CanCrash = TRUE
  NULL = NULL
SPECIFICATION FairSpec
INVARIANTS TypeOK NoDoubleBooking
PROPERTIES CalendarSpec HoldsAreSwept
CHECK_DEADLOCK FALSE
