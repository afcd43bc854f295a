---------------------------- MODULE BookingState ----------------------------
(***************************************************************************)
(* The booking state machine of apps/api/src/common/booking-state.ts: the  *)
(* table of allowed status changes and the predicates every service asks   *)
(* before it writes a status.  Nothing here has state; the services keep   *)
(* the statuses in the bookings table.                                     *)
(***************************************************************************)

BookingStatus == {"PENDING", "CONFIRMED", "PAID", "CHECKED_IN",
                  "CHECKED_OUT", "CANCELLED", "EXPIRED"}

\* The status column of a row that has not been inserted yet.
NoRow == "NONE"

\* A mutant: a confirmed booking may be confirmed again, to retry a payment.
TRANSITIONSWithRetry ==
  [from \in BookingStatus |->
     CASE from = "PENDING"    -> {"CONFIRMED", "CANCELLED", "EXPIRED"}
       [] from = "CONFIRMED"  -> {"CONFIRMED", "PAID", "CANCELLED"}
       [] from = "PAID"       -> {"CHECKED_IN", "CANCELLED"}
       [] from = "CHECKED_IN" -> {"CHECKED_OUT", "CANCELLED"}
       [] OTHER               -> {}]

\* A mutant: the desk may let a guest in who has not paid yet.
TRANSITIONSSkippingPayment ==
  [TRANSITIONSWithRetry EXCEPT !["CONFIRMED"] =
     {"PAID", "CHECKED_IN", "CANCELLED"}]

TRANSITIONS ==
  [from \in BookingStatus |->
     CASE from = "PENDING"    -> {"CONFIRMED", "CANCELLED", "EXPIRED"}
       [] from = "CONFIRMED"  -> {"PAID", "CANCELLED"}
       [] from = "PAID"       -> {"CHECKED_IN", "CANCELLED"}
       [] from = "CHECKED_IN" -> {"CHECKED_OUT", "CANCELLED"}
       [] OTHER               -> {}]

\* A mutant: only terminal statuses are protected, the target is not looked at.
canTransitionFromLive(from, to) ==
  from \in BookingStatus /\ TRANSITIONS[from] # {}

\* assertCanTransition throws when this is false.
canTransition(from, to) == from \in BookingStatus /\ to \in TRANSITIONS[from]

isTerminal(st) == st \in BookingStatus /\ TRANSITIONS[st] = {}

\* Bookings in these statuses hold their room nights.
ACTIVE_STATES == {"PENDING", "CONFIRMED", "PAID", "CHECKED_IN"}
=============================================================================
