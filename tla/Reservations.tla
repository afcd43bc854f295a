---------------------------- MODULE Reservations ----------------------------
(***************************************************************************)
(* The reservation core of StayEase: bookings and payments served          *)
(* concurrently over one database, with the payment provider, the guests   *)
(* and the hold-cleanup schedulers of the API replicas.                    *)
(***************************************************************************)
EXTENDS BookingsService

Init ==
  /\ status = [b \in Booking |-> NoRow]
  /\ hold = [b \in Booking |-> "none"]
  /\ stay = [b \in Booking |-> NULL]
  /\ byHand = {}
  /\ pay = [p \in Payment |-> NoRow]
  /\ payFor = [p \in Payment |-> NULL]
  /\ refunded = [p \in Payment |-> 0]
  /\ charge = [p \in Payment |-> "none"]
  /\ refunds = [p \in Payment |-> 0]
  /\ req = [r \in Proc |-> Idle]
  /\ announced = [b \in Booking |-> {}]
  /\ notified = [p \in Payment |-> 0]

\* The API process dies, or the database connection does, between two steps
\* of a handler.  Nothing of it survives but what it has committed.
Crash(r) ==
  /\ CanCrash
  /\ req[r].at # "idle"
  /\ Finish(r)
  /\ UNCHANGED <<bookingVars, paymentVars, providerVars, announced, notified>>

\* An HTTP request arrives.
Arrive(r) ==
  \/ \E b \in Booking : \/ InitiateRead(r, b)
                        \/ ConfirmRead(r, b)
                        \/ \E percent \in RefundPercent :
                             CancelRead(r, b, percent)
                        \/ \E target \in ManualTarget :
                             TransitionRead(r, b, target)
  \/ \E p \in Payment : \/ WebhookSuccess(r, p)
                        \/ WebhookFailure(r, p)
                        \/ VerifyRead(r, p)

\* The next step of the handler process r is in.
HandlerStep(r) ==
  \/ InitiateExpire(r) \/ InitiateConfirm(r)
  \/ \E p \in Payment : InitiateCreate(r, p)
  \/ InitiateCall(r) \/ InitiateFail(r)
  \/ VerifyCall(r) \/ PaidTx(r) \/ PaidCommit(r) \/ FailTx(r) \/ FailCommit(r)
  \/ RefundFind(r) \/ RefundCall(r) \/ RefundLedger(r)
  \/ TransitionWrite(r)
  \/ ConfirmExpire(r) \/ ConfirmWrite(r) \/ CancelWrite(r)
  \/ SweepWrite(r) \/ PublishReleased(r)

\* Guests and time.
Environment ==
  \/ \E b \in Booking : HoldLapses(b) \/ \E s \in Asked : Create(b, s)
  \/ \E p \in Payment : GuestPays(p) \/ GuestDeclines(p)

Next ==
  \/ Environment
  \/ \E r \in Request : Arrive(r)
  \/ \E r \in Proc : SweepRead(r) \/ HandlerStep(r) \/ Crash(r)

Spec == Init /\ [][Next]_vars

\* The cron job of every replica is run again and again, the runtime keeps it
\* going, and it does not crash every single time.  Requests, guests, staff and
\* the provider need never do anything.
Fairness ==
  \A c \in Cron :
    WF_vars(HandlerStep(c)) /\ WF_vars(SweepRead(c)) /\ SF_vars(SweepWrite(c))

FairSpec == Spec /\ Fairness

-----------------------------------------------------------------------------

\* Every variable keeps to its type, in particular the rows of both tables.
TypeOK ==
  /\ status \in [Booking -> BookingStatus \cup {NoRow}]
  /\ hold \in [Booking -> {"none", "running", "lapsed"}]
  /\ stay \in [Booking -> Stay \cup {NULL}]
  /\ byHand \subseteq Booking
  /\ pay \in [Payment -> {NoRow, "INITIATED", "SUCCESS", "FAILED", "REFUNDED"}]
  /\ payFor \in [Payment -> Booking \cup {NULL}]
  /\ refunded \in [Payment -> 0..100]
  /\ charge \in [Payment -> ChargeState]
  /\ refunds \in [Payment -> 0..100]
  /\ req \in [Proc -> Locals]
  /\ announced \in [Booking -> SUBSET {"held", "released"}]
  /\ notified \in [Payment -> Nat]

\* No two bookings hold the same room for the same night, although every
\* status write overwrites a row that may have changed since it was read.
NoDoubleBooking ==
  \A a, b \in Booking :
    /\ a # b
    /\ status[a] \in ACTIVE_STATES /\ status[b] \in ACTIVE_STATES
    => ~Overlaps(stay[a], stay[b])

\* No payment is recorded as successful, or as refunded, whose money the
\* provider has not captured, whatever webhooks and verifications overlap.
SuccessIsCaptured ==
  \A p \in Payment : pay[p] \in {"SUCCESS", "REFUNDED"} => charge[p] = "captured"

\* The money for booking b has been captured, or staff have said that it is
\* paid for.
PaidFor(b) ==
  b \in byHand \/ \E p \in Payment : payFor[p] = b /\ charge[p] = "captured"

\* A guest who may enter, is in, or was, has paid, whatever stale status the
\* handlers overwrite: no sequence of retries, notifications, verifications
\* and staff requests leads past the payment.
EntryIsPaidFor ==
  \A b \in Booking :
    status[b] \in {"PAID", "CHECKED_IN", "CHECKED_OUT"} => PaidFor(b)

\* The ledger never claims to have paid back more than the provider has.
RefundIsBacked == \A p \in Payment : refunded[p] <= refunds[p]

\* Statuses change only along the table of booking-state.ts.
LegalTransitions ==
  [][\A b \in Booking :
       status[b] # NoRow /\ status'[b] # status[b]
         => status'[b] \in TRANSITIONS[status[b]]]_vars

\* A booking is charged through one payment at most.
OnePaymentPerBooking ==
  \A p, q \in Payment : p # q /\ payFor[p] # NULL => payFor[p] # payFor[q]

\* A guest who is let in, or was, has a payment on record that succeeded, or
\* was marked as paid by staff.
PaidHasPayment ==
  \A b \in Booking :
    status[b] \in {"PAID", "CHECKED_IN", "CHECKED_OUT"} =>
      b \in byHand \/ \E p \in Payment : payFor[p] = b /\ pay[p] = "SUCCESS"

\* The two tables tell one story of a booking, wherever a handler stopped: a
\* payment that failed or was refunded is of a cancelled booking, and one that
\* succeeded is not of a booking still waiting to be paid.
TablesAgree ==
  \A p \in Payment :
    /\ pay[p] \in {"FAILED", "REFUNDED"} => status[payFor[p]] = "CANCELLED"
    /\ pay[p] = "SUCCESS" =>
         status[payFor[p]] \in {"PAID", "CHECKED_IN", "CHECKED_OUT", "CANCELLED"}

\* No handler is at work on booking b, or has anything to publish about it.
Quiet(b) == \A r \in Proc : req[r].b # b /\ b \notin req[r].bs

\* What the ledger says of a refunded payment is what the provider paid back,
\* once no handler is at work on the booking.
RefundRecordedInFull ==
  \A p \in Payment :
    pay[p] = "REFUNDED" /\ Quiet(payFor[p]) => refunded[p] = refunds[p]

-----------------------------------------------------------------------------
(* What makes the ledger properties inductive.                             *)

\* The steps of a handler that is about a booking, or about a payment.
BookingSteps == {"confirm", "confirmExpire", "initConfirm", "initExpire",
                 "initCreate", "cancel", "refundFind", "transition"}
PaymentSteps == {"initCall", "initFail", "verifyCall", "paidTx", "paidCommit",
                 "failTx", "failCommit", "refundCall", "refundLedger"}

\* References are sound: of payments to bookings, and of handlers to both.
Linked ==
  /\ \A p \in Payment : pay[p] # NoRow => payFor[p] \in Booking
  /\ \A r \in Proc : req[r].at \in BookingSteps => req[r].b \in Booking
  /\ \A r \in Proc : req[r].at \in PaymentSteps =>
       /\ req[r].p \in Payment
       /\ req[r].b = payFor[req[r].p]
       /\ pay[req[r].p] # NoRow

\* What a handler has learnt about a charge, or about a guest who may enter,
\* stays true until it acts on it.
HandlersKnow ==
  \A r \in Proc :
    LET p == req[r].p IN
      /\ req[r].at \in {"paidTx", "paidCommit"} => charge[p] = "captured"
      /\ req[r].at = "initCall" =>
           /\ charge[p] = "none"
           /\ \A q \in Proc \ {r} : req[q].at = "initCall" => req[q].p # p
      /\ req[r].at = "transition" /\ req[r].st \in {"CHECKED_IN", "CHECKED_OUT"}
           => PaidFor(req[r].b)
      /\ req[r].at = "refundLedger" => req[r].pct <= refunds[p]

\* No charge exists before its row.
ChargesFollowRows == \A p \in Payment : pay[p] = NoRow => charge[p] = "none"

\* Together: the ledger agrees with the provider, also halfway through the
\* handlers that keep it so.
LedgerInv ==
  /\ Linked /\ HandlersKnow /\ ChargesFollowRows
  /\ SuccessIsCaptured /\ RefundIsBacked /\ EntryIsPaidFor

-----------------------------------------------------------------------------

\* The cleanup gets to every hold that has run out: the booking expires, or
\* something else has happened to it first.
HoldsAreSwept ==
  \A b \in Booking :
    (status[b] = "PENDING" /\ hold[b] = "lapsed") ~> (status[b] # "PENDING")

-----------------------------------------------------------------------------
(* The reservations implement the room calendar.                           *)

RoomNight == Room \X Day

Nights(s) == {n \in RoomNight : n[1] = s.room /\ s.checkIn <= n[2]
                                /\ n[2] < s.checkOut}

booked == [b \in Booking |-> IF stay[b] = NULL THEN {} ELSE Nights(stay[b])]

claim == [b \in Booking |->
            IF status[b] \in ACTIVE_STATES THEN booked[b] ELSE {}]

Calendar == INSTANCE RoomCalendar

\* The room nights held by the bookings in the table behave as the calendar
\* does: claimed when free, given back whole, never shared.
CalendarSpec == Calendar!CalSpec
=============================================================================
