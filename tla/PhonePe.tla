------------------------------- MODULE PhonePe ------------------------------
(***************************************************************************)
(* The payment provider, as phonepe.service.ts uses it.  A transaction is  *)
(* "none" until the provider opens it, "open" while it may be paid, and    *)
(* then either "captured" or "declined" for good.  The provider keeps to   *)
(* what it has captured: it never pays back more than that.                *)
(***************************************************************************)
EXTENDS ReservationData

ChargeState == {"none", "open", "captured", "declined"}

\* POST /pg/v1/pay carried out, whether or not its answer arrives.
OpenCharge(p) == charge' = [charge EXCEPT ![p] = "open"] /\ UNCHANGED refunds

\* The guest pays on the provider's page.
GuestPays(p) ==
  /\ charge[p] = "open"
  /\ charge' = [charge EXCEPT ![p] = "captured"]
  /\ UNCHANGED <<bookingVars, paymentVars, refunds, req, announced, notified>>

\* The guest gives up or the bank declines.
GuestDeclines(p) ==
  /\ charge[p] = "open"
  /\ charge' = [charge EXCEPT ![p] = "declined"]
  /\ UNCHANGED <<bookingVars, paymentVars, refunds, req, announced, notified>>

\* POST /pg/v1/refund carried out: each call of initiateRefund has a refund
\* transaction id of its own, so the provider sees no call as a repetition.
PayBack(p, pct) ==
  /\ charge[p] = "captured"
  /\ refunds[p] + pct <= 100
  /\ refunds' = [refunds EXCEPT ![p] = @ + pct]
  /\ UNCHANGED charge

=============================================================================
