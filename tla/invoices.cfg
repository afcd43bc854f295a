CONSTANTS
  Booking = {b1, b2}
  Price <- MCPrice
  Nights = {1}
  Delivery = {d1, d2}
  Year <- MCYear
  NULL = NULL
SPECIFICATION Spec
INVARIANTS TypeOK NumbersNeverClash InvoiceAddsUp DearerIsTaxedMore
SYMMETRY Symmetry
CHECK_DEADLOCK FALSE
