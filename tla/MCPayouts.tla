----------------------------- MODULE MCPayouts ------------------------------
(* Instances of the payouts for TLC. *)
EXTENDS Payouts, TLC

\* For runs without liveness properties.
Symmetry == Permutations(Booking) \cup Permutations(Payout)
              \cup Permutations(Request) \cup Permutations(Handler)
=============================================================================
