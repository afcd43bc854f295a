--------------------------- MODULE BookingsService --------------------------
(***************************************************************************)
(* apps/api/src/bookings/bookings.service.ts: creating a booking with a    *)
(* ten-minute hold, confirming it, cancelling it with a refund, and the    *)
(* scheduled cleanup of holds nobody paid for.                             *)
(***************************************************************************)
EXTENDS PaymentsService

\* create: one INSERT, which the exclusion constraint lets through or not.
\* (A refused insert changes nothing.)
Create(b, s) ==
  /\ status[b] = NoRow
  /\ SlotFree(b, s)
  /\ status' = [status EXCEPT ![b] = "PENDING"]
  /\ hold' = [hold EXCEPT ![b] = "running"]
  /\ stay' = [stay EXCEPT ![b] = s]
  /\ announced' = [announced EXCEPT ![b] = @ \cup {"held"}]
  /\ UNCHANGED <<byHand, paymentVars, providerVars, req, notified>>

\* Ten minutes pass without anybody clearing holdExpiresAt.
HoldLapses(b) ==
  /\ hold[b] = "running"
  /\ hold' = [hold EXCEPT ![b] = "lapsed"]
  /\ UNCHANGED <<status, stay, byHand, paymentVars, providerVars, req,
                 announced, notified>>

-----------------------------------------------------------------------------
(* confirm                                                                 *)

ConfirmRead(r, b) ==
  /\ canTransition(status[b], "CONFIRMED")
  /\ Begin(r, AboutBooking(IF hold[b] = "lapsed" THEN "confirmExpire"
                                                 ELSE "confirm", b))
  /\ UNCHANGED <<bookingVars, paymentVars, providerVars, announced, notified>>

ConfirmExpire(r) ==
  /\ req[r].at = "confirmExpire"
  /\ WriteBooking(req[r].b, "EXPIRED", hold[req[r].b])
  /\ Finish(r)
  /\ UNCHANGED <<paymentVars, providerVars, announced, notified>>

ConfirmWrite(r) ==
  /\ req[r].at = "confirm"
  /\ \/ WriteBooking(req[r].b, "CONFIRMED", "none")
     \/ ~Accepts(req[r].b, "CONFIRMED") /\ UNCHANGED bookingVars
  /\ Finish(r)
  /\ UNCHANGED <<paymentVars, providerVars, announced, notified>>

-----------------------------------------------------------------------------
(* cancel                                                                  *)

\* Read the booking with its successful payment, if any, and compute what
\* the policy gives back.  Without such a payment nothing will be refunded.
CancelRead(r, b, percent) ==
  /\ canTransition(status[b], "CANCELLED")
  /\ LET paid == \E p \in Payment : payFor[p] = b /\ pay[p] = "SUCCESS"
     IN Begin(r, [AboutBooking("cancel", b) EXCEPT
                    !.pct = IF paid THEN percent ELSE 0])
  /\ UNCHANGED <<bookingVars, paymentVars, providerVars, announced, notified>>

CancelWrite(r) ==
  /\ req[r].at = "cancel"
  /\ WriteBooking(req[r].b, "CANCELLED", "none")
  /\ IF req[r].pct > 0 THEN Continue(r, "refundFind")
                       ELSE GoRelease(r, {req[r].b})
  /\ UNCHANGED <<paymentVars, providerVars, announced, notified>>

-----------------------------------------------------------------------------
(* cleanupExpiredHolds, every minute and on demand                         *)

\* (First a mutant: the comparison with the clock the wrong way round.)
SweepReadRunning(r) ==
  /\ LET expired == {b \in Booking : status[b] = "PENDING"
                                     /\ hold[b] = "running"}
     IN expired # {} /\ Begin(r, AboutBookings("sweep", expired))
  /\ UNCHANGED <<bookingVars, paymentVars, providerVars, announced, notified>>

SweepRead(r) ==
  /\ LET expired == {b \in Booking : status[b] = "PENDING"
                                     /\ hold[b] = "lapsed"}
     IN expired # {} /\ Begin(r, AboutBookings("sweep", expired))
  /\ UNCHANGED <<bookingVars, paymentVars, providerVars, announced, notified>>

\* updateMany({where: {id: {in: ids}}}): by id alone.
SweepWrite(r) ==
  /\ req[r].at = "sweep"
  /\ status' = [b \in Booking |->
                  IF b \in req[r].bs THEN "EXPIRED" ELSE status[b]]
  /\ Continue(r, "release")
  /\ UNCHANGED <<hold, stay, byHand, paymentVars, providerVars, announced,
                 notified>>

=============================================================================
