----------------------------- MODULE MCReviews ------------------------------
(* An instance of the reviews over the reservation core for TLC. *)
EXTENDS Reviews, TLC

MCDay == 0..2
MCStays == [room : Room, checkIn : {0}, checkOut : {1, 2}]
             \cup [room : Room, checkIn : {1}, checkOut : {1, 2}]
Symmetry == Permutations(Payment) \cup Permutations(Reporter)
=============================================================================
