--------------------------- MODULE MCBookingPages ---------------------------
(* An instance of the booking pages for TLC. *)
EXTENDS BookingPages, TLC

MCDay == 0..1
MCOneStay == [room : Room, checkIn : {0}, checkOut : {1}]
MCHours == {168, 24, 0}
\* No step reads what was announced or how often a payment was notified.
View == <<status, hold, stay, byHand, pay, payFor, refunded, charge, refunds,
          req, sends, tab, overwritten>>

Symmetry == Permutations(Request)
=============================================================================
