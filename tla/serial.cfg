CONSTANTS
  Room = {room}
  Day <- MCDay
  MaxNights = 2
  Asked <- MCStays
  Booking = {b1}
  Payment = {p1, p2}
  Request = {r1}
  Cron = {}
  RefundPercent = {0, 50, 100}
  ManualTarget <- BookingStatus
  CanCrash = TRUE
  Reviewed = b1
  Reporter = {g1, g2}
  MaxReports = 3
  NULL = NULL
SPECIFICATION ReviewsSpec
INVARIANTS OnePaymentPerBooking PaidHasPayment TablesAgree ReviewsArePaidStays HiddenForReason
PROPERTIES LegalTransitions
SYMMETRY Symmetry
CHECK_DEADLOCK FALSE
