--------------------------- MODULE MCReservations ---------------------------
(* Instances of the reservation core for TLC. *)
EXTENDS Reservations, TLC

MCDay == 0..2

\* Stays that are equal, adjacent or overlap, and one that ends on the date it
\* begins; and, for the runs that are about money, one stay.
MCStays == [room : Room, checkIn : {0}, checkOut : {1, 2}]
             \cup [room : Room, checkIn : {1}, checkOut : {1, 2}]
MCOneStay == [room : Room, checkIn : {0}, checkOut : {1}]

\* Bookings, payments and request slots are interchangeable.  (Only for the
\* runs without liveness properties.)
Symmetry == Permutations(Booking) \cup Permutations(Payment)
              \cup Permutations(Request)
=============================================================================
