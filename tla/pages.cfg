CONSTANTS
  Room = {room}
  Day <- MCDay
  MaxNights = 1
  Asked <- MCOneStay
  Booking = {b1}
  Payment = {p1}
  Request = {r1, r2}
  Cron = {}
  RefundPercent = {0, 50, 100}
  ManualTarget <- BookingStatus
  CanCrash = TRUE
  Mine = b1
  Hours <- MCHours
  NULL = NULL
SPECIFICATION PagesSpec
INVARIANTS PagesTypeOK SuccessIsPaid AnnouncedRefundIsPaid
SYMMETRY Symmetry
CHECK_DEADLOCK FALSE
VIEW View
