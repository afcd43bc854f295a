------------------------- MODULE ReservationsProofs --------------------------
(***************************************************************************)
(* The theorems of the reservation core, for any number of rooms,          *)
(* bookings, payments, requests and replicas: types and references, the    *)
(* agreement of the payments table with the payment provider, no room sold *)
(* twice, the room calendar implemented, and what handlers that run one at *)
(* a time guarantee on top.                                                *)
(***************************************************************************)
EXTENDS Reservations, TLAPS


-----------------------------------------------------------------------------
(***************************************************************************)
(* Types: statuses, stays and the locals of handlers.                      *)
(***************************************************************************)

\* The statuses the handlers write are statuses of the enum, NoRow is none of
\* them, and the table of booking-state.ts relates statuses to statuses.
LEMMA StatusTypes ==
  /\ NoRow \notin BookingStatus
  /\ ACTIVE_STATES \subseteq BookingStatus
  /\ {"PENDING", "CONFIRMED", "PAID", "CANCELLED", "EXPIRED"}
       \subseteq BookingStatus
  /\ \A from, to : canTransition(from, to) =>
                     from \in BookingStatus /\ to \in BookingStatus
BY DEF NoRow, BookingStatus, ACTIVE_STATES, canTransition, TRANSITIONS

\* What a handler remembers is a record of the type Locals, and so is what
\* any of its steps makes of it.
LEMMA LocalsTypes ==
  /\ \A at \in Steps, b \in Booking \cup {NULL} : AboutBooking(at, b) \in Locals
  /\ \A at \in Steps, bs \in SUBSET Booking : AboutBookings(at, bs) \in Locals
  /\ \A l \in Locals, at \in Steps : [l EXCEPT !.at = at] \in Locals
  /\ \A l \in Locals, p \in Payment : [l EXCEPT !.p = p] \in Locals
  /\ \A l \in Locals, st \in BookingStatus \cup {NoRow} :
       [l EXCEPT !.st = st] \in Locals
  /\ \A l \in Locals, pct \in 0..100 : [l EXCEPT !.pct = pct] \in Locals
<1>1. \A at \in Steps, b \in Booking \cup {NULL} : AboutBooking(at, b) \in Locals
  BY DEF Locals, AboutBooking
<1>2. \A at \in Steps, bs \in SUBSET Booking : AboutBookings(at, bs) \in Locals
  BY DEF Locals, AboutBookings
<1>3. \A l \in Locals, at \in Steps : [l EXCEPT !.at = at] \in Locals
  BY DEF Locals
<1>4. \A l \in Locals, p \in Payment : [l EXCEPT !.p = p] \in Locals
  BY DEF Locals
<1>5. \A l \in Locals, st \in BookingStatus \cup {NoRow} :
        [l EXCEPT !.st = st] \in Locals
  BY DEF Locals
<1>6. \A l \in Locals, pct \in 0..100 : [l EXCEPT !.pct = pct] \in Locals
  BY DEF Locals
<1>7. QED
  BY <1>1, <1>2, <1>3, <1>4, <1>5, <1>6

\* The same of a handler about a payment, whose booking is in the table.
LEMMA PaymentLocals ==
  ASSUME NEW p \in Payment, payFor \in [Payment -> Booking \cup {NULL}],
         NEW at \in Steps
  PROVE  AboutPayment(at, p) \in Locals
BY DEF AboutPayment, Locals

\* However a handler goes on, every process still runs a well-typed handler.
LEMMA ReqTypes ==
  ASSUME req \in [Proc -> Locals], NEW r \in Proc
  PROVE  /\ \A l \in Locals : Become(r, l) => req' \in [Proc -> Locals]
         /\ \A l \in Locals : Begin(r, l) => req' \in [Proc -> Locals]
         /\ \A to \in Steps : Continue(r, to) => req' \in [Proc -> Locals]
         /\ Finish(r) => req' \in [Proc -> Locals]
         /\ \A bs \in SUBSET Booking :
              GoRelease(r, bs) => req' \in [Proc -> Locals]
<1>1. \A l \in Locals : Become(r, l) => req' \in [Proc -> Locals]
  BY DEF Become
<1>2. Idle \in Locals /\ req[r] \in Locals
  BY LocalsTypes DEF Idle, Steps
<1>3. QED
  BY <1>1, <1>2, LocalsTypes DEF Begin, Continue, Finish, GoRelease, Steps

\* The fields of a handler that works on a booking or a payment.
LEMMA LocalsFields ==
  ASSUME TypeOK, NEW r \in Proc
  PROVE  /\ req[r].at \in Steps
         /\ req[r].b \in Booking \cup {NULL}
         /\ req[r].p \in Payment \cup {NULL}
         /\ req[r].st \in BookingStatus \cup {NoRow}
         /\ req[r].pct \in 0..100
         /\ req[r].bs \in SUBSET Booking
BY DEF TypeOK, Locals

\* A refund that fits is a percentage again.
LEMMA PercentSum ==
  \A m, n \in 0..100 : m + n <= 100 => m + n \in 0..100
OBVIOUS

\* A status write keeps the types of the bookings table.
LEMMA WriteBookingTypes ==
  ASSUME TypeOK, NEW b, NEW st \in BookingStatus, NEW h,
         h \in {"none", "running", "lapsed"} \/ h = hold[b],
         WriteBooking(b, st, h)
  PROVE  /\ status' \in [Booking -> BookingStatus \cup {NoRow}]
         /\ hold' \in [Booking -> {"none", "running", "lapsed"}]
         /\ stay' \in [Booking -> Stay \cup {NULL}]
         /\ byHand' \subseteq Booking
BY DEF TypeOK, WriteBooking, WriteRow

\* A step that only moves a handler along keeps every type.
LEMMA ReadTypes ==
  ASSUME TypeOK, req' \in [Proc -> Locals],
         UNCHANGED <<bookingVars, paymentVars, providerVars, announced, notified>>
  PROVE  TypeOK'
BY DEF TypeOK, bookingVars, paymentVars, providerVars

\* Every step of the system keeps the types of all tables and handlers; that
\* payments refer to bookings is what makes it so.
LEMMA TypeStep == TypeOK /\ Linked /\ [Next]_vars => TypeOK'
<1> SUFFICES ASSUME TypeOK, Linked, [Next]_vars PROVE TypeOK'
  OBVIOUS
<1>req. req \in [Proc -> Locals] /\ payFor \in [Payment -> Booking \cup {NULL}]
  BY DEF TypeOK
<1>steps. {"confirm", "confirmExpire", "initConfirm", "initExpire",
           "initCreate", "initCall", "initFail", "cancel", "refundFind",
           "refundCall", "refundLedger", "verifyCall", "paidTx", "paidCommit",
           "failTx", "failCommit", "transition", "sweep", "release"} \subseteq Steps
  BY DEF Steps
<1>1. ASSUME NEW r \in Proc, NEW b \in Booking, InitiateRead(r, b) PROVE TypeOK'
  <2>1. req' \in [Proc -> Locals]
    BY <1>1, <1>req, ReqTypes, LocalsTypes, <1>steps DEF InitiateRead
  <2>2. QED
    BY <1>1, <2>1, ReadTypes DEF InitiateRead
<1>2. ASSUME NEW r \in Proc, NEW b \in Booking, ConfirmRead(r, b) PROVE TypeOK'
  <2>1. req' \in [Proc -> Locals]
    BY <1>2, <1>req, ReqTypes, LocalsTypes, <1>steps DEF ConfirmRead
  <2>2. QED
    BY <1>2, <2>1, ReadTypes DEF ConfirmRead
<1>3. ASSUME NEW r \in Proc, NEW b \in Booking, NEW percent \in RefundPercent,
             CancelRead(r, b, percent)
      PROVE  TypeOK'
  <2>1. AboutBooking("cancel", b) \in Locals /\ percent \in 0..100 /\ 0 \in 0..100
    BY <1>steps, LocalsTypes, RefundAssumption
  <2>2. req' \in [Proc -> Locals]
    BY <1>3, <2>1, <1>req, ReqTypes, LocalsTypes DEF CancelRead
  <2>3. QED
    BY <1>3, <2>2, ReadTypes DEF CancelRead
<1>4. ASSUME NEW r \in Proc, NEW b \in Booking, NEW target \in ManualTarget,
             TransitionRead(r, b, target)
      PROVE  TypeOK'
  <2>1. AboutBooking("transition", b) \in Locals
    BY <1>steps, LocalsTypes
  <2>2. target \in BookingStatus
    BY TargetAssumption
  <2>3. req' \in [Proc -> Locals]
    BY <1>4, <2>1, <2>2, <1>req, ReqTypes, LocalsTypes DEF TransitionRead
  <2>4. QED
    BY <1>4, <2>3, ReadTypes DEF TransitionRead
<1>5. ASSUME NEW r \in Proc, NEW p \in Payment, WebhookSuccess(r, p) PROVE TypeOK'
  <2>1. req' \in [Proc -> Locals]
    BY <1>5, <1>req, ReqTypes, LocalsTypes, <1>steps, PaymentLocals
       DEF WebhookSuccess
  <2>2. QED
    BY <1>5, <2>1, ReadTypes DEF WebhookSuccess
<1>6. ASSUME NEW r \in Proc, NEW p \in Payment, WebhookFailure(r, p) PROVE TypeOK'
  <2>1. req' \in [Proc -> Locals]
    BY <1>6, <1>req, ReqTypes, LocalsTypes, <1>steps, PaymentLocals
       DEF WebhookFailure
  <2>2. QED
    BY <1>6, <2>1, ReadTypes DEF WebhookFailure
<1>7. ASSUME NEW r \in Proc, NEW p \in Payment, VerifyRead(r, p) PROVE TypeOK'
  <2>1. AboutPayment("verifyCall", p) \in Locals
    BY <1>req, ReqTypes, LocalsTypes, <1>steps, PaymentLocals
  <2>2. status[payFor[p]] \in BookingStatus \cup {NoRow}
    BY <1>7 DEF Linked, TypeOK, VerifyRead, NoRow
  <2>3. req' \in [Proc -> Locals]
    BY <1>7, <2>1, <2>2, <1>req, ReqTypes, LocalsTypes DEF VerifyRead
  <2>4. QED
    BY <1>7, <2>3, ReadTypes DEF VerifyRead
<1>8. ASSUME NEW r \in Proc, VerifyCall(r) PROVE TypeOK'
  <2>1. CASE Finish(r)
    BY <1>8, <2>1, <1>req, ReqTypes, LocalsTypes, ReadTypes DEF VerifyCall
  <2>2. CASE Become(r, AboutPayment("paidTx", req[r].p))
    <3>1. req[r].p \in Payment
      BY <1>8 DEF Linked, VerifyCall, PaymentSteps
    <3>2. req' \in [Proc -> Locals]
      BY <2>2, <3>1, <1>req, ReqTypes, LocalsTypes, <1>steps, PaymentLocals
    <3>3. QED
      BY <1>8, <3>2, ReadTypes DEF VerifyCall
  <2>3. QED
    BY <1>8, <2>1, <2>2 DEF VerifyCall
<1>9. ASSUME NEW r \in Proc, PaidTx(r) PROVE TypeOK'
  <2>1. req' \in [Proc -> Locals]
    BY <1>9, <1>req, ReqTypes, LocalsTypes, <1>steps DEF PaidTx
  <2>2. QED
    BY <1>9, <2>1, ReadTypes DEF PaidTx
<1>10. ASSUME NEW r \in Proc, FailTx(r) PROVE TypeOK'
  <2>1. req' \in [Proc -> Locals]
    BY <1>10, <1>req, ReqTypes, LocalsTypes, <1>steps DEF FailTx
  <2>2. QED
    BY <1>10, <2>1, ReadTypes DEF FailTx
<1>11. ASSUME NEW r \in Proc, RefundFind(r) PROVE TypeOK'
  <2>1. CASE Finish(r)
    BY <1>11, <2>1, <1>req, ReqTypes, LocalsTypes, ReadTypes DEF RefundFind
  <2>2. CASE GoRelease(r, {req[r].b})
    <3>1. req[r].b \in Booking
      BY <1>11 DEF Linked, RefundFind, BookingSteps
    <3>2. QED
      BY <1>11, <2>2, <3>1, <1>req, ReqTypes, LocalsTypes, ReadTypes
         DEF RefundFind
  <2>3. ASSUME NEW p \in Payment,
               Become(r, [AboutPayment("refundCall", p) EXCEPT !.pct = req[r].pct])
        PROVE  TypeOK'
    <3>1. AboutPayment("refundCall", p) \in Locals /\ req[r].pct \in 0..100
      BY <1>req, ReqTypes, LocalsTypes, <1>steps, PaymentLocals, LocalsFields
    <3>2. QED
      BY <1>11, <2>3, <3>1, <1>req, ReqTypes, LocalsTypes, ReadTypes
         DEF RefundFind
  <2>4. QED
    BY <1>11, <2>1, <2>2, <2>3 DEF RefundFind
<1>12. ASSUME NEW r \in Proc, InitiateExpire(r) PROVE TypeOK'
  <2>1. req' \in [Proc -> Locals]
    BY <1>12, <1>req, ReqTypes, LocalsTypes DEF InitiateExpire
  <2>2. QED
    BY <1>12, <2>1, WriteBookingTypes, StatusTypes
       DEF InitiateExpire, TypeOK, paymentVars, providerVars
<1>13. ASSUME NEW r \in Proc, InitiateConfirm(r) PROVE TypeOK'
  <2>1. req' \in [Proc -> Locals]
    BY <1>13, <1>req, ReqTypes, LocalsTypes, <1>steps DEF InitiateConfirm
  <2>2. CASE WriteBooking(req[r].b, "CONFIRMED", "none")
    BY <1>13, <2>1, <2>2, WriteBookingTypes, StatusTypes
       DEF InitiateConfirm, TypeOK, paymentVars, providerVars
  <2>3. CASE UNCHANGED bookingVars
    BY <1>13, <2>1, <2>3, ReadTypes DEF InitiateConfirm
  <2>4. QED
    BY <1>13, <2>2, <2>3 DEF InitiateConfirm
<1>14. ASSUME NEW r \in Proc, NEW p \in Payment, InitiateCreate(r, p)
       PROVE  TypeOK'
  <2>1. req[r].b \in Booking
    BY <1>14 DEF Linked, InitiateCreate, BookingSteps
  <2>2. AboutBooking("initCall", req[r].b) \in Locals
    BY <2>1, <1>steps, LocalsTypes
  <2>3. req' \in [Proc -> Locals]
    BY <1>14, <2>2, <1>req, ReqTypes, LocalsTypes DEF InitiateCreate
  <2>4. QED
    BY <1>14, <2>1, <2>3 DEF InitiateCreate, TypeOK, bookingVars, providerVars
<1>15. ASSUME NEW r \in Proc, InitiateCall(r) PROVE TypeOK'
  <2>1. req' \in [Proc -> Locals]
    BY <1>15, <1>req, ReqTypes, LocalsTypes, <1>steps DEF InitiateCall
  <2>2. charge' \in [Payment -> ChargeState] /\ UNCHANGED refunds
    BY <1>15 DEF InitiateCall, OpenCharge, TypeOK, ChargeState, providerVars
  <2>3. QED
    BY <1>15, <2>1, <2>2 DEF InitiateCall, TypeOK, bookingVars, paymentVars
<1>16. ASSUME NEW r \in Proc, InitiateFail(r) PROVE TypeOK'
  <2>1. req' \in [Proc -> Locals]
    BY <1>16, <1>req, ReqTypes, LocalsTypes DEF InitiateFail
  <2>2. /\ status' \in [Booking -> BookingStatus \cup {NoRow}]
        /\ hold' \in [Booking -> {"none", "running", "lapsed"}]
        /\ stay' \in [Booking -> Stay \cup {NULL}] /\ byHand' \subseteq Booking
    BY <1>16, WriteBookingTypes, StatusTypes DEF InitiateFail
  <2>3. QED
    BY <1>16, <2>1, <2>2 DEF InitiateFail, TypeOK, providerVars
<1>17. ASSUME NEW r \in Proc, PaidCommit(r) PROVE TypeOK'
  <2>1. req' \in [Proc -> Locals]
    BY <1>17, <1>req, ReqTypes, LocalsTypes DEF PaidCommit
  <2>2. CASE /\ pay' = [pay EXCEPT ![req[r].p] = "SUCCESS"]
             /\ WriteBooking(req[r].b, "PAID", hold[req[r].b])
             /\ notified' = [notified EXCEPT ![req[r].p] = @ + 1]
    <3>1. /\ status' \in [Booking -> BookingStatus \cup {NoRow}]
          /\ hold' \in [Booking -> {"none", "running", "lapsed"}]
          /\ stay' \in [Booking -> Stay \cup {NULL}]
          /\ byHand' \subseteq Booking
      BY <2>2, WriteBookingTypes, StatusTypes
    <3>2. notified' \in [Payment -> Nat]
      <4>1. req[r].p \in Payment
        BY <1>17 DEF Linked, PaidCommit, PaymentSteps
      <4>2. QED
        BY <2>2, <4>1 DEF TypeOK
    <3>3. QED
      BY <1>17, <2>1, <2>2, <3>1, <3>2 DEF PaidCommit, TypeOK, providerVars
  <2>3. CASE UNCHANGED <<bookingVars, pay, notified>>
    BY <1>17, <2>1, <2>3, ReadTypes DEF PaidCommit, paymentVars
  <2>4. QED
    BY <1>17, <2>2, <2>3 DEF PaidCommit
<1>18. ASSUME NEW r \in Proc, FailCommit(r) PROVE TypeOK'
  <2>1. req[r].b \in Booking
    BY <1>18 DEF Linked, FailCommit, PaymentSteps
  <2>2. req' \in [Proc -> Locals]
    BY <1>18, <2>1, <1>req, ReqTypes, LocalsTypes DEF FailCommit
  <2>3. /\ status' \in [Booking -> BookingStatus \cup {NoRow}]
        /\ hold' \in [Booking -> {"none", "running", "lapsed"}]
        /\ stay' \in [Booking -> Stay \cup {NULL}] /\ byHand' \subseteq Booking
    BY <1>18, WriteBookingTypes, StatusTypes DEF FailCommit
  <2>4. QED
    BY <1>18, <2>2, <2>3 DEF FailCommit, TypeOK, providerVars
<1>19. ASSUME NEW r \in Proc, RefundCall(r) PROVE TypeOK'
  <2>1. req' \in [Proc -> Locals]
    BY <1>19, <1>req, ReqTypes, LocalsTypes, <1>steps DEF RefundCall
  <2>2. req[r].p \in Payment
    BY <1>19 DEF Linked, RefundCall, PaymentSteps
  <2>3. CASE PayBack(req[r].p, req[r].pct)
    <3>1. refunds' \in [Payment -> 0..100] /\ UNCHANGED charge
      <4>1. req[r].pct \in 0..100 /\ refunds[req[r].p] \in 0..100
        BY <2>2, LocalsFields DEF TypeOK
      <4>2. refunds[req[r].p] + req[r].pct \in 0..100
        BY <2>3, <4>1, PercentSum DEF PayBack
      <4>3. QED
        BY <2>2, <2>3, <4>2 DEF PayBack, TypeOK
    <3>2. QED
      BY <1>19, <2>1, <3>1 DEF RefundCall, TypeOK, bookingVars, paymentVars
  <2>4. CASE UNCHANGED providerVars
    BY <1>19, <2>1, <2>4, ReadTypes DEF RefundCall
  <2>5. QED
    BY <1>19, <2>3, <2>4 DEF RefundCall
<1>20. ASSUME NEW r \in Proc, RefundLedger(r) PROVE TypeOK'
  <2>1. req[r].b \in Booking
    BY <1>20 DEF Linked, RefundLedger, PaymentSteps
  <2>2. req' \in [Proc -> Locals]
    BY <1>20, <2>1, <1>req, ReqTypes, LocalsTypes DEF RefundLedger
  <2>3. CASE /\ pay' = [pay EXCEPT ![req[r].p] = "REFUNDED"]
             /\ refunded' = [refunded EXCEPT ![req[r].p] = req[r].pct]
    <3>1. refunded' \in [Payment -> 0..100]
      BY <2>3, LocalsFields DEF TypeOK
    <3>2. QED
      BY <1>20, <2>2, <2>3, <3>1
         DEF RefundLedger, TypeOK, bookingVars, providerVars
  <2>4. CASE UNCHANGED <<pay, refunded>>
    BY <1>20, <2>2, <2>4, ReadTypes DEF RefundLedger, paymentVars
  <2>5. QED
    BY <1>20, <2>3, <2>4 DEF RefundLedger
<1>21. ASSUME NEW r \in Proc, TransitionWrite(r) PROVE TypeOK'
  <2>1. req' \in [Proc -> Locals]
    BY <1>21, <1>req, ReqTypes, LocalsTypes DEF TransitionWrite
  <2>2. CASE WriteByHand(req[r].b, req[r].st, hold[req[r].b])
    <3>1. status' \in [Booking -> BookingStatus \cup {NoRow}]
      BY <2>2, LocalsFields DEF WriteByHand, WriteRow, TypeOK
    <3>2. hold' \in [Booking -> {"none", "running", "lapsed"}] /\ UNCHANGED stay
      BY <2>2 DEF WriteByHand, WriteRow, TypeOK
    <3>3. byHand' \subseteq Booking
      <4>1. req[r].b \in Booking
        BY <1>21 DEF Linked, TransitionWrite, BookingSteps
      <4>2. QED
        BY <2>2, <4>1 DEF WriteByHand, TypeOK
    <3>4. QED
      BY <1>21, <2>1, <3>1, <3>2, <3>3
         DEF TransitionWrite, TypeOK, paymentVars, providerVars
  <2>3. CASE UNCHANGED bookingVars
    BY <1>21, <2>1, <2>3, ReadTypes DEF TransitionWrite
  <2>4. QED
    BY <1>21, <2>2, <2>3 DEF TransitionWrite
<1>22. ASSUME NEW r \in Proc, ConfirmExpire(r) PROVE TypeOK'
  <2>1. req' \in [Proc -> Locals]
    BY <1>22, <1>req, ReqTypes, LocalsTypes DEF ConfirmExpire
  <2>2. QED
    BY <1>22, <2>1, WriteBookingTypes, StatusTypes
       DEF ConfirmExpire, TypeOK, paymentVars, providerVars
<1>23. ASSUME NEW r \in Proc, ConfirmWrite(r) PROVE TypeOK'
  <2>1. req' \in [Proc -> Locals]
    BY <1>23, <1>req, ReqTypes, LocalsTypes DEF ConfirmWrite
  <2>2. CASE WriteBooking(req[r].b, "CONFIRMED", "none")
    BY <1>23, <2>1, <2>2, WriteBookingTypes, StatusTypes
       DEF ConfirmWrite, TypeOK, paymentVars, providerVars
  <2>3. CASE UNCHANGED bookingVars
    BY <1>23, <2>1, <2>3, ReadTypes DEF ConfirmWrite
  <2>4. QED
    BY <1>23, <2>2, <2>3 DEF ConfirmWrite
<1>24. ASSUME NEW r \in Proc, CancelWrite(r) PROVE TypeOK'
  <2>1. req[r].b \in Booking
    BY <1>24 DEF Linked, CancelWrite, BookingSteps
  <2>2. req' \in [Proc -> Locals]
    BY <1>24, <2>1, <1>req, ReqTypes, LocalsTypes, <1>steps DEF CancelWrite
  <2>3. QED
    BY <1>24, <2>2, WriteBookingTypes, StatusTypes
       DEF CancelWrite, TypeOK, paymentVars, providerVars
<1>25. ASSUME NEW r \in Proc, SweepRead(r) PROVE TypeOK'
  <2>1. req' \in [Proc -> Locals]
    BY <1>25, <1>req, ReqTypes, LocalsTypes, <1>steps DEF SweepRead
  <2>2. QED
    BY <1>25, <2>1, ReadTypes DEF SweepRead
<1>26. ASSUME NEW r \in Proc, SweepWrite(r) PROVE TypeOK'
  <2>1. req' \in [Proc -> Locals]
    BY <1>26, <1>req, ReqTypes, LocalsTypes, <1>steps DEF SweepWrite
  <2>2. QED
    BY <1>26, <2>1, StatusTypes DEF SweepWrite, TypeOK, paymentVars, providerVars
<1>27. ASSUME NEW r \in Proc, PublishReleased(r) PROVE TypeOK'
  <2>1. req' \in [Proc -> Locals]
    BY <1>27, <1>req, ReqTypes, LocalsTypes DEF PublishReleased
  <2>2. announced' \in [Booking -> SUBSET {"held", "released"}]
    BY <1>27 DEF PublishReleased, TypeOK
  <2>3. QED
    BY <1>27, <2>1, <2>2
       DEF PublishReleased, TypeOK, bookingVars, paymentVars, providerVars
<1>28. ASSUME NEW r \in Proc, Crash(r) PROVE TypeOK'
  BY <1>28, <1>req, ReqTypes, LocalsTypes, ReadTypes DEF Crash
<1>29. ASSUME NEW b \in Booking, NEW s \in Asked, Create(b, s) PROVE TypeOK'
  BY <1>29, StatusTypes, AskedAssumption DEF Create, TypeOK, paymentVars, providerVars
<1>30. ASSUME NEW b \in Booking, HoldLapses(b) PROVE TypeOK'
  BY <1>30 DEF HoldLapses, TypeOK, paymentVars, providerVars
<1>31. ASSUME NEW p \in Payment, GuestPays(p) \/ GuestDeclines(p) PROVE TypeOK'
  BY <1>31 DEF GuestPays, GuestDeclines, TypeOK, ChargeState, bookingVars,
               paymentVars
<1>32. CASE UNCHANGED vars
  BY <1>32 DEF vars, TypeOK
<1>33. QED
  <2>1. \A r \in Request : r \in Proc
    BY DEF Proc
  <2>2. CASE Environment
    BY <2>2, <1>29, <1>30, <1>31 DEF Environment
  <2>3. ASSUME NEW r \in Request, Arrive(r) PROVE TypeOK'
    BY <2>1, <2>3, <1>1, <1>2, <1>3, <1>4, <1>5, <1>6, <1>7 DEF Arrive
  <2>4. ASSUME NEW r \in Proc, HandlerStep(r) PROVE TypeOK'
    BY <2>4, <1>8, <1>9, <1>10, <1>11, <1>12, <1>13, <1>14, <1>15, <1>16,
       <1>17,
       <1>18, <1>19, <1>20, <1>21, <1>22, <1>23, <1>24, <1>26, <1>27
       DEF HandlerStep
  <2>5. QED
    BY <2>2, <2>3, <2>4, <1>25, <1>28, <1>32 DEF Next

-----------------------------------------------------------------------------
(***************************************************************************)
(* References, and the ledger.                                             *)
(***************************************************************************)

\* A step of one handler leaves the others alone.
LEMMA OtherHandlers ==
  ASSUME req \in [Proc -> Locals], NEW r \in Proc, NEW l, Become(r, l)
  PROVE  /\ req'[r] = l
         /\ \A q \in Proc \ {r} : req'[q] = req[q]
BY DEF Become

-----------------------------------------------------------------------------
(* References stay sound.                                                  *)

\* What Linked asks of one handler.
SoundLocals(l) ==
  /\ l.at \in BookingSteps => l.b \in Booking
  /\ l.at \in PaymentSteps =>
       l.p \in Payment /\ l.b = payFor[l.p] /\ pay[l.p] # NoRow

\* A step that inserts no payment keeps Linked if the handler it moves
\* along has sound references.
LEMMA LinkedFrame ==
  ASSUME TypeOK, Linked, NEW r \in Proc, NEW l, Become(r, l), SoundLocals(l),
         payFor' = payFor,
         \A p \in Payment : pay'[p] = NoRow <=> pay[p] = NoRow
  PROVE  Linked'
BY OtherHandlers DEF TypeOK, Linked, SoundLocals

\* A handler that is through refers to nothing.
LEMMA LinkedDone ==
  ASSUME TypeOK, Linked, NEW r \in Proc,
         Finish(r) \/ \E bs : GoRelease(r, bs) \/ Become(r, AboutBookings("sweep", bs)),
         payFor' = payFor,
         \A p \in Payment : pay'[p] = NoRow <=> pay[p] = NoRow
  PROVE  Linked'
<1>1. SoundLocals(Idle) /\ \A bs : /\ SoundLocals(AboutBookings("release", bs))
                                   /\ SoundLocals(AboutBookings("sweep", bs))
  BY DEF SoundLocals, Idle, AboutBooking, AboutBookings, BookingSteps, PaymentSteps
<1>2. QED
  BY <1>1, LinkedFrame DEF Finish, GoRelease

\* Overwriting the status of an existing payment makes no row and removes none.
LEMMA SameRows ==
  ASSUME TypeOK, NEW p \in Payment, pay[p] # NoRow,
         NEW st \in {"SUCCESS", "FAILED", "REFUNDED"},
         pay' = [pay EXCEPT ![p] = st]
  PROVE  \A q \in Payment : pay'[q] = NoRow <=> pay[q] = NoRow
BY DEF TypeOK, NoRow

\* Every step of the system keeps references sound.
LEMMA LinkedStep == TypeOK /\ Linked /\ [Next]_vars => Linked'
<1> SUFFICES ASSUME TypeOK, Linked, [Next]_vars PROVE Linked'
  OBVIOUS
<1> USE DEF paymentVars
<1>1. ASSUME NEW r \in Proc, NEW b \in Booking, NEW at \in BookingSteps, NEW l,
             l = AboutBooking(at, b) \/ (\E st : l = [AboutBooking(at, b) EXCEPT !.st = st])
               \/ (\E pct : l = [AboutBooking(at, b) EXCEPT !.pct = pct])
      PROVE  SoundLocals(l)
  BY <1>1 DEF SoundLocals, AboutBooking, BookingSteps, PaymentSteps
<1>2. ASSUME NEW p \in Payment, pay[p] # NoRow, NEW at \in PaymentSteps, NEW l,
             l = AboutPayment(at, p) \/ (\E st : l = [AboutPayment(at, p) EXCEPT !.st = st])
               \/ (\E pct : l = [AboutPayment(at, p) EXCEPT !.pct = pct])
      PROVE  SoundLocals(l)
  BY <1>2 DEF SoundLocals, AboutPayment, BookingSteps, PaymentSteps
<1>3. ASSUME NEW r \in Proc, NEW b \in Booking,
             \/ InitiateRead(r, b) \/ ConfirmRead(r, b)
             \/ \E percent \in RefundPercent : CancelRead(r, b, percent)
             \/ \E target \in ManualTarget : TransitionRead(r, b, target)
      PROVE  Linked'
  <2>1. CASE InitiateRead(r, b) \/ ConfirmRead(r, b)
    <3>1. PICK at \in BookingSteps : Become(r, AboutBooking(at, b))
      BY <2>1 DEF InitiateRead, ConfirmRead, Begin, BookingSteps
    <3>2. SoundLocals(AboutBooking(at, b))
      BY <1>1
    <3>3. QED
      BY <2>1, <3>1, <3>2, LinkedFrame DEF InitiateRead, ConfirmRead
  <2>2. CASE \E percent \in RefundPercent : CancelRead(r, b, percent)
    <3>1. PICK pct : Become(r, [AboutBooking("cancel", b) EXCEPT !.pct = pct])
      BY <2>2 DEF CancelRead, Begin
    <3>2. SoundLocals([AboutBooking("cancel", b) EXCEPT !.pct = pct])
      BY <1>1 DEF BookingSteps
    <3>3. QED
      BY <2>2, <3>1, <3>2, LinkedFrame DEF CancelRead
  <2>3. CASE \E target \in ManualTarget : TransitionRead(r, b, target)
    <3>1. PICK st : Become(r, [AboutBooking("transition", b) EXCEPT !.st = st])
      BY <2>3 DEF TransitionRead, Begin
    <3>2. SoundLocals([AboutBooking("transition", b) EXCEPT !.st = st])
      BY <1>1 DEF BookingSteps
    <3>3. QED
      BY <2>3, <3>1, <3>2, LinkedFrame DEF TransitionRead
  <2>4. QED
    BY <1>3, <2>1, <2>2, <2>3
<1>4. ASSUME NEW r \in Proc, NEW p \in Payment,
             WebhookSuccess(r, p) \/ WebhookFailure(r, p) \/ VerifyRead(r, p)
      PROVE  Linked'
  <2>1. pay[p] # NoRow
    BY <1>4 DEF WebhookSuccess, WebhookFailure, VerifyRead, NoRow
  <2>2. CASE WebhookSuccess(r, p) \/ WebhookFailure(r, p)
    <3>1. PICK at \in PaymentSteps : Become(r, AboutPayment(at, p))
      BY <2>2 DEF WebhookSuccess, WebhookFailure, Begin, PaymentSteps
    <3>2. SoundLocals(AboutPayment(at, p))
      BY <1>2, <2>1
    <3>3. QED
      BY <2>2, <3>1, <3>2, LinkedFrame DEF WebhookSuccess, WebhookFailure
  <2>3. CASE VerifyRead(r, p)
    <3>1. PICK st : Become(r, [AboutPayment("verifyCall", p) EXCEPT !.st = st])
      BY <2>3 DEF VerifyRead, Begin
    <3>2. SoundLocals([AboutPayment("verifyCall", p) EXCEPT !.st = st])
      BY <1>2, <2>1 DEF PaymentSteps
    <3>3. QED
      BY <2>3, <3>1, <3>2, LinkedFrame DEF VerifyRead
  <2>4. QED
    BY <1>4, <2>2, <2>3
<1>5. ASSUME NEW r \in Proc, NEW to \in Steps, Continue(r, to),
             \/ to \in BookingSteps /\ req[r].at \in BookingSteps
             \/ to \in PaymentSteps /\ req[r].at \in PaymentSteps
             \/ to \notin BookingSteps \cup PaymentSteps
      PROVE  Become(r, [req[r] EXCEPT !.at = to])
             /\ SoundLocals([req[r] EXCEPT !.at = to])
  <2>1. SoundLocals(req[r])
    BY DEF Linked, SoundLocals
  <2>2. req[r] \in Locals
    BY DEF TypeOK
  <2>3. BookingSteps \cap PaymentSteps = {}
    BY DEF BookingSteps, PaymentSteps
  <2>4. QED
    BY <1>5, <2>1, <2>2, <2>3 DEF Continue, SoundLocals, Locals
<1>6. ASSUME NEW r \in Proc, VerifyCall(r) \/ PaidTx(r) \/ FailTx(r)
      PROVE  Linked'
  <2>1. req[r].at \in PaymentSteps /\ req[r].p \in Payment /\ pay[req[r].p] # NoRow
    BY <1>6 DEF Linked, VerifyCall, PaidTx, FailTx, PaymentSteps
  <2>2. CASE Finish(r)
    BY <1>6, <2>2, LinkedDone DEF VerifyCall, PaidTx, FailTx
  <2>3. CASE Become(r, AboutPayment("paidTx", req[r].p))
    <3>1. SoundLocals(AboutPayment("paidTx", req[r].p))
      BY <1>2, <2>1 DEF PaymentSteps
    <3>2. QED
      BY <1>6, <2>3, <3>1, LinkedFrame DEF VerifyCall, PaidTx, FailTx
  <2>4. CASE Continue(r, "paidCommit") \/ Continue(r, "failCommit")
    <3>1. PICK to \in PaymentSteps : Continue(r, to)
      BY <2>4 DEF PaymentSteps
    <3>2. QED
      BY <1>6, <1>5, <2>1, <3>1, LinkedFrame
         DEF VerifyCall, PaidTx, FailTx, PaymentSteps, Steps
  <2>5. QED
    BY <1>6, <2>2, <2>3, <2>4 DEF VerifyCall, PaidTx, FailTx
<1>7. ASSUME NEW r \in Proc, RefundFind(r) PROVE Linked'
  <2>1. CASE Finish(r) \/ GoRelease(r, {req[r].b})
    BY <1>7, <2>1, LinkedDone DEF RefundFind
  <2>2. ASSUME NEW p \in Payment, pay[p] = "SUCCESS",
               Become(r, [AboutPayment("refundCall", p) EXCEPT !.pct = req[r].pct])
        PROVE  Linked'
    <3>1. pay[p] # NoRow
      BY <2>2 DEF NoRow
    <3>2. SoundLocals([AboutPayment("refundCall", p) EXCEPT !.pct = req[r].pct])
      BY <1>2, <3>1 DEF PaymentSteps
    <3>3. QED
      BY <1>7, <2>2, <3>2, LinkedFrame DEF RefundFind
  <2>3. QED
    BY <1>7, <2>1, <2>2 DEF RefundFind
<1>8. ASSUME NEW r \in Proc, InitiateConfirm(r) PROVE Linked'
  <2>1. CASE Continue(r, "initCreate")
    BY <1>5, <1>8, <2>1, LinkedFrame DEF InitiateConfirm, BookingSteps, Steps
  <2>2. CASE Finish(r)
    BY <1>8, <2>2, LinkedDone DEF InitiateConfirm
  <2>3. QED
    BY <1>8, <2>1, <2>2 DEF InitiateConfirm
<1>9. ASSUME NEW r \in Proc, NEW p \in Payment, InitiateCreate(r, p)
      PROVE  Linked'
  <2> DEFINE l == [AboutBooking("initCall", req[r].b) EXCEPT !.p = p]
  <2>1. req[r].b \in Booking /\ "INITIATED" # NoRow
    BY <1>9 DEF Linked, InitiateCreate, BookingSteps, NoRow
  <2>2. /\ l.at = "initCall" /\ l.p = p /\ l.b = req[r].b
    BY DEF AboutBooking
  <2>3. /\ req'[r] = l
        /\ \A q \in Proc \ {r} : req'[q] = req[q]
    BY <1>9, OtherHandlers DEF InitiateCreate, TypeOK
  <2>4. /\ pay'[p] = "INITIATED" /\ payFor'[p] = req[r].b
        /\ \A q \in Payment \ {p} : pay'[q] = pay[q] /\ payFor'[q] = payFor[q]
    BY <1>9 DEF InitiateCreate, TypeOK
  <2>5. \A q \in Payment : pay'[q] # NoRow => payFor'[q] \in Booking
    BY <2>1, <2>4 DEF Linked
  <2>6. \A q \in Proc : req'[q].at \in BookingSteps => req'[q].b \in Booking
    BY <2>1, <2>2, <2>3 DEF Linked
  <2>7. ASSUME NEW q \in Proc, req'[q].at \in PaymentSteps
        PROVE  /\ req'[q].p \in Payment
               /\ req'[q].b = payFor'[req'[q].p]
               /\ pay'[req'[q].p] # NoRow
    <3>1. CASE q = r
      BY <2>1, <2>2, <2>3, <2>4, <3>1
    <3>2. CASE q # r
      <4>1. pay[p] = NoRow
        BY <1>9 DEF InitiateCreate
      <4>2. req'[q] = req[q] /\ req[q].p \in Payment \ {p}
        BY <2>3, <2>7, <3>2, <4>1 DEF Linked
      <4>3. QED
        BY <2>4, <2>7, <4>2 DEF Linked
    <3>3. QED
      BY <3>1, <3>2
  <2>8. QED
    BY <2>5, <2>6, <2>7 DEF Linked
<1>10. ASSUME NEW r \in Proc, InitiateCall(r) PROVE Linked'
  <2>1. CASE Continue(r, "initFail")
    BY <1>5, <1>10, <2>1, LinkedFrame DEF InitiateCall, PaymentSteps, Steps
  <2>2. CASE Finish(r)
    BY <1>10, <2>2, LinkedDone DEF InitiateCall
  <2>3. QED
    BY <1>10, <2>1, <2>2 DEF InitiateCall
<1>11. ASSUME NEW r \in Proc,
              InitiateFail(r) \/ PaidCommit(r) \/ FailCommit(r) \/ RefundLedger(r)
       PROVE  Linked'
  <2>1. req[r].p \in Payment /\ pay[req[r].p] # NoRow
    BY <1>11 DEF Linked, InitiateFail, PaidCommit, FailCommit, RefundLedger,
                 PaymentSteps
  <2>2. \A p \in Payment : pay'[p] = NoRow <=> pay[p] = NoRow
    BY <1>11, <2>1, SameRows DEF InitiateFail, PaidCommit, FailCommit, RefundLedger
  <2>3. QED
    BY <1>11, <2>2, LinkedDone DEF InitiateFail, PaidCommit, FailCommit, RefundLedger
<1>12. ASSUME NEW r \in Proc, RefundCall(r) PROVE Linked'
  <2>1. CASE Continue(r, "refundLedger")
    BY <1>5, <1>12, <2>1, LinkedFrame DEF RefundCall, PaymentSteps, Steps
  <2>2. CASE Finish(r)
    BY <1>12, <2>2, LinkedDone DEF RefundCall
  <2>3. QED
    BY <1>12, <2>1, <2>2 DEF RefundCall
<1>13. ASSUME NEW r \in Proc, CancelWrite(r) PROVE Linked'
  <2>1. CASE Continue(r, "refundFind")
    BY <1>5, <1>13, <2>1, LinkedFrame DEF CancelWrite, BookingSteps, Steps
  <2>2. CASE GoRelease(r, {req[r].b})
    BY <1>13, <2>2, LinkedDone DEF CancelWrite
  <2>3. QED
    BY <1>13, <2>1, <2>2 DEF CancelWrite
<1>14. ASSUME NEW r \in Proc, SweepWrite(r) PROVE Linked'
  BY <1>5, <1>14, LinkedFrame DEF SweepWrite, BookingSteps, PaymentSteps, Steps
<1>15. ASSUME NEW r \in Proc, SweepRead(r) PROVE Linked'
  BY <1>15, LinkedDone DEF SweepRead, Begin
<1>16. ASSUME NEW r \in Proc,
              \/ InitiateExpire(r) \/ TransitionWrite(r) \/ ConfirmExpire(r)
              \/ ConfirmWrite(r) \/ PublishReleased(r) \/ Crash(r)
       PROVE  Linked'
  BY <1>16, LinkedDone DEF InitiateExpire, TransitionWrite, ConfirmExpire,
                           ConfirmWrite, PublishReleased, Crash
<1>17. CASE Environment \/ UNCHANGED vars
  <2>1. UNCHANGED <<pay, payFor, req>>
    BY <1>17 DEF Environment, HoldLapses, Create, GuestPays, GuestDeclines, vars
  <2>2. QED
    BY <2>1 DEF Linked
<1>18. QED
  <2>1. \A r \in Request : r \in Proc
    BY DEF Proc
  <2>2. ASSUME NEW r \in Request, Arrive(r) PROVE Linked'
    BY <2>1, <2>2, <1>3, <1>4 DEF Arrive
  <2>3. ASSUME NEW r \in Proc, HandlerStep(r) PROVE Linked'
    BY <2>3, <1>6, <1>7, <1>8, <1>9, <1>10, <1>11, <1>12, <1>13, <1>14, <1>16
       DEF HandlerStep
  <2>4. QED
    BY <2>2, <2>3, <1>15, <1>16, <1>17 DEF Next

\* The empty tables and idle processes are well typed and refer to nothing.
LEMMA InitTypes == Init => TypeOK /\ Linked
<1> SUFFICES ASSUME Init PROVE TypeOK /\ Linked
  OBVIOUS
<1>1. Idle \in Locals /\ Idle.at = "idle"
  BY LocalsTypes DEF Idle, Steps, AboutBooking
<1>2. TypeOK
  BY <1>1 DEF Init, TypeOK, ChargeState
<1>3. Linked
  BY <1>1 DEF Init, Linked, BookingSteps, PaymentSteps
<1>4. QED
  BY <1>2, <1>3

\* The tables and the handlers keep their types, and payments and handlers
\* never refer to a booking or a payment that is not there.
THEOREM TypeCorrect == Spec => [](TypeOK /\ Linked)
<1>1. TypeOK /\ Linked /\ [Next]_vars => (TypeOK /\ Linked)'
  BY TypeStep, LinkedStep
<1>2. QED
  BY <1>1, InitTypes, PTL DEF Spec

-----------------------------------------------------------------------------
(* The ledger agrees with the provider.                                    *)

\* What HandlersKnow asks of one handler about a charge.
Knows(l) ==
  /\ l.at \in {"paidTx", "paidCommit"} => charge[l.p] = "captured"
  /\ l.at = "initCall" => charge[l.p] = "none"
  /\ l.at = "refundLedger" => l.pct <= refunds[l.p]

\* No two requests are opening the same payment.
OpenersApart ==
  \A r \in Proc : \A q \in Proc \ {r} :
    req[r].at = "initCall" /\ req[q].at = "initCall" => req[q].p # req[r].p

ChargesKnown == (\A r \in Proc : Knows(req[r])) /\ OpenersApart

\* What it asks of one that is about to let a guest in or out.
EntryKnown ==
  \A r \in Proc :
    req[r].at = "transition" /\ req[r].st \in {"CHECKED_IN", "CHECKED_OUT"}
      => PaidFor(req[r].b)

\* The two halves of LedgerInv: the money, and the guests.
MoneyInv ==
  Linked /\ ChargesKnown /\ ChargesFollowRows /\ SuccessIsCaptured /\ RefundIsBacked
GuestInv == EntryKnown /\ EntryIsPaidFor

LEMMA LedgerParts == LedgerInv <=> MoneyInv /\ GuestInv
BY DEF LedgerInv, HandlersKnow, MoneyInv, GuestInv, ChargesKnown, EntryKnown, Knows,
       OpenersApart

\* A handler that writes neither table nor asks the provider for anything
\* may go on with what it knows.
LEMMA KnowsFrame ==
  ASSUME TypeOK, ChargesKnown, NEW r \in Proc, NEW l, Become(r, l), Knows(l),
         l.at # "initCall", UNCHANGED <<charge, refunds>>
  PROVE  ChargesKnown'
<1>1. req'[r] = l /\ \A q \in Proc \ {r} : req'[q] = req[q]
  BY OtherHandlers DEF TypeOK
<1>2. \A q \in Proc : Knows(req[q])'
  BY <1>1 DEF ChargesKnown, Knows
<1>3. OpenersApart'
  BY <1>1 DEF ChargesKnown, OpenersApart
<1>4. QED
  BY <1>2, <1>3 DEF ChargesKnown, Knows, OpenersApart

\* A handler that has written or asked, and is through: what the others know
\* must still hold.
LEMMA KnowsDone ==
  ASSUME TypeOK, ChargesKnown, NEW r \in Proc,
         Finish(r) \/ \E bs : GoRelease(r, bs),
         \A q \in Proc \ {r} : \A l : l = req[q] => Knows(l)'
  PROVE  ChargesKnown'
<1>1. PICK l : Become(r, l) /\ l.at \in {"idle", "release"}
  <2>1. Idle.at = "idle" /\ \A bs : AboutBookings("release", bs).at = "release"
    BY DEF Idle, AboutBooking, AboutBookings
  <2>2. QED
    BY <2>1 DEF Finish, GoRelease
<1>2. req'[r] = l /\ \A q \in Proc \ {r} : req'[q] = req[q]
  BY <1>1, OtherHandlers DEF TypeOK
<1>3. \A q \in Proc \ {r} : Knows(req[q])'
  BY <1>2 DEF Knows
<1>4. Knows(req[r])'
  BY <1>1, <1>2 DEF Knows
<1>5. OpenersApart'
  BY <1>1, <1>2 DEF ChargesKnown, OpenersApart
<1>6. QED
  BY <1>3, <1>4, <1>5 DEF ChargesKnown, Knows, OpenersApart

\* Every step keeps the ledger in agreement with the provider: a handler that
\* writes acts on what it knows, and disturbs nothing another handler knows.
LEMMA MoneyStep ==
  TypeOK /\ TypeOK' /\ MoneyInv /\ Linked' /\ [Next]_vars => MoneyInv'
<1> SUFFICES ASSUME TypeOK, TypeOK', MoneyInv, Linked', [Next]_vars
             PROVE  MoneyInv'
  OBVIOUS
<1> DEFINE Rows == ChargesFollowRows /\ SuccessIsCaptured /\ RefundIsBacked
<1>1. /\ Linked /\ ChargesKnown /\ Rows
      /\ \A q \in Proc : Knows(req[q])
  BY DEF MoneyInv, ChargesKnown
<1>2. UNCHANGED <<pay, refunded, charge, refunds>> => Rows'
  BY <1>1 DEF ChargesFollowRows, SuccessIsCaptured, RefundIsBacked
<1>3. ChargesKnown' /\ Rows' => MoneyInv'
  BY DEF MoneyInv
<1> HIDE DEF Rows
<1> USE DEF paymentVars, providerVars
<1>4. ASSUME NEW r \in Proc, NEW b \in Booking,
             \/ InitiateRead(r, b) \/ ConfirmRead(r, b)
             \/ \E percent \in RefundPercent : CancelRead(r, b, percent)
             \/ \E target \in ManualTarget : TransitionRead(r, b, target)
      PROVE  MoneyInv'
  <2>1. UNCHANGED <<pay, refunded, charge, refunds>>
    BY <1>4 DEF InitiateRead, ConfirmRead, CancelRead, TransitionRead
  <2>2. \A l : Become(r, l) /\ l.at \in BookingSteps => ChargesKnown'
    BY <1>1, <2>1, KnowsFrame DEF Knows, BookingSteps
  <2>3. \A at, x : /\ AboutBooking(at, b).at = at
                   /\ [AboutBooking(at, b) EXCEPT !.pct = x].at = at
                   /\ [AboutBooking(at, b) EXCEPT !.st = x].at = at
    BY DEF AboutBooking
  <2>4. CASE InitiateRead(r, b) \/ ConfirmRead(r, b)
    <3>1. PICK at \in BookingSteps : Become(r, AboutBooking(at, b))
      BY <2>4 DEF InitiateRead, ConfirmRead, Begin, BookingSteps
    <3>2. QED
      BY <1>2, <1>3, <2>1, <2>2, <2>3, <3>1
  <2>5. CASE \E percent \in RefundPercent : CancelRead(r, b, percent)
    <3>1. PICK x : Become(r, [AboutBooking("cancel", b) EXCEPT !.pct = x])
      BY <2>5 DEF CancelRead, Begin
    <3>2. [AboutBooking("cancel", b) EXCEPT !.pct = x].at \in BookingSteps
      BY <2>3 DEF BookingSteps
    <3>3. QED
      BY <1>2, <1>3, <2>1, <2>2, <3>1, <3>2
  <2>6. CASE \E target \in ManualTarget : TransitionRead(r, b, target)
    <3>1. PICK x : Become(r, [AboutBooking("transition", b) EXCEPT !.st = x])
      BY <2>6 DEF TransitionRead, Begin
    <3>2. [AboutBooking("transition", b) EXCEPT !.st = x].at \in BookingSteps
      BY <2>3 DEF BookingSteps
    <3>3. QED
      BY <1>2, <1>3, <2>1, <2>2, <3>1, <3>2
  <2>7. QED
    BY <1>4, <2>4, <2>5, <2>6
<1>5. ASSUME NEW r \in Proc, NEW p \in Payment,
             WebhookSuccess(r, p) \/ WebhookFailure(r, p) \/ VerifyRead(r, p)
      PROVE  MoneyInv'
  <2>1. UNCHANGED <<pay, refunded, charge, refunds>>
    BY <1>5 DEF WebhookSuccess, WebhookFailure, VerifyRead
  <2>2. PICK l : /\ Become(r, l)
                 /\ \/ l.at = "verifyCall"
                    \/ l.at = "paidTx" /\ charge[l.p] = "captured"
                    \/ l.at = "failTx"
    BY <1>5 DEF WebhookSuccess, WebhookFailure, VerifyRead, Begin, AboutPayment
  <2>3. ChargesKnown'
    BY <1>1, <2>1, <2>2, KnowsFrame DEF Knows
  <2>4. QED
    BY <1>2, <1>3, <2>1, <2>3
<1>6. ASSUME NEW r \in Proc,
             \/ VerifyCall(r) \/ PaidTx(r) \/ FailTx(r) \/ RefundFind(r)
             \/ InitiateExpire(r) \/ InitiateConfirm(r) \/ TransitionWrite(r)
             \/ ConfirmExpire(r) \/ ConfirmWrite(r) \/ CancelWrite(r)
             \/ SweepRead(r) \/ SweepWrite(r) \/ PublishReleased(r) \/ Crash(r)
      PROVE  MoneyInv'
  <2>1. UNCHANGED <<pay, refunded, charge, refunds>>
    BY <1>6 DEF VerifyCall, PaidTx, FailTx, RefundFind, InitiateExpire,
                InitiateConfirm, TransitionWrite, ConfirmExpire, ConfirmWrite,
                CancelWrite, SweepRead, SweepWrite, PublishReleased, Crash
  <2>2. ASSUME NEW l, Become(r, l),
               \/ l.at \in {"idle", "release", "sweep", "refundFind",
                           "initCreate", "refundCall", "failCommit"}
               \/ l.at \in {"paidTx", "paidCommit"} /\ charge[l.p] = "captured"
        PROVE  MoneyInv'
    <3>1. ChargesKnown'
      BY <1>1, <2>1, <2>2, KnowsFrame DEF Knows
    <3>2. QED
      BY <1>2, <1>3, <2>1, <3>1
  <2>3. ASSUME Finish(r) \/ \E bs : \/ GoRelease(r, bs)
                                    \/ Become(r, AboutBookings("sweep", bs))
        PROVE  MoneyInv'
    <3>1. /\ Idle.at = "idle"
          /\ \A bs : /\ AboutBookings("release", bs).at = "release"
                     /\ AboutBookings("sweep", bs).at = "sweep"
      BY DEF Idle, AboutBooking, AboutBookings
    <3>2. QED
      BY <2>2, <2>3, <3>1 DEF Finish, GoRelease
  <2>4. ASSUME NEW to, Continue(r, to),
               \/ to \in {"release", "refundFind", "initCreate", "failCommit"}
               \/ to = "paidCommit" /\ req[r].at = "paidTx"
        PROVE  MoneyInv'
    <3>1. PICK l : Become(r, l) /\ l.at = to /\ l.p = req[r].p
      BY <2>4 DEF Continue, TypeOK, Locals
    <3>2. QED
      BY <1>1, <2>2, <2>4, <3>1 DEF Knows
  <2>5. CASE VerifyCall(r)
    <3>1. /\ AboutPayment("paidTx", req[r].p).at = "paidTx"
          /\ AboutPayment("paidTx", req[r].p).p = req[r].p
      BY DEF AboutPayment
    <3>2. QED
      BY <2>2, <2>3, <2>5, <3>1 DEF VerifyCall
  <2>6. CASE RefundFind(r)
    <3>1. ASSUME NEW p, NEW x,
                 Become(r, [AboutPayment("refundCall", p) EXCEPT !.pct = x])
          PROVE  MoneyInv'
      <4>1. [AboutPayment("refundCall", p) EXCEPT !.pct = x].at = "refundCall"
        BY DEF AboutPayment
      <4>2. QED
        BY <2>2, <3>1, <4>1
    <3>2. QED
      BY <2>3, <2>6, <3>1 DEF RefundFind
  <2>7. CASE \/ PaidTx(r) \/ FailTx(r) \/ InitiateConfirm(r) \/ CancelWrite(r)
             \/ SweepWrite(r)
    BY <2>3, <2>4, <2>7
       DEF PaidTx, FailTx, InitiateConfirm, CancelWrite, SweepWrite
  <2>8. CASE \/ InitiateExpire(r) \/ TransitionWrite(r) \/ ConfirmExpire(r)
             \/ ConfirmWrite(r) \/ SweepRead(r) \/ PublishReleased(r)
             \/ Crash(r)
    BY <2>3, <2>8 DEF InitiateExpire, TransitionWrite, ConfirmExpire,
                      ConfirmWrite, SweepRead, PublishReleased, Crash, Begin
  <2>9. QED
    BY <1>6, <2>5, <2>6, <2>7, <2>8
<1>7. ASSUME NEW r \in Proc, NEW p \in Payment, InitiateCreate(r, p)
      PROVE  MoneyInv'
  <2> DEFINE l == [AboutBooking("initCall", req[r].b) EXCEPT !.p = p]
  <2>1. /\ pay[p] = NoRow /\ pay'[p] = "INITIATED" /\ charge[p] = "none"
        /\ \A q \in Payment \ {p} : pay'[q] = pay[q]
        /\ UNCHANGED <<refunded, charge, refunds>>
    BY <1>1, <1>7 DEF Rows, ChargesFollowRows, InitiateCreate, TypeOK
  <2>2. l.at = "initCall" /\ l.p = p
    BY DEF AboutBooking
  <2>3. req'[r] = l /\ \A q \in Proc \ {r} : req'[q] = req[q]
    BY <1>7, OtherHandlers DEF InitiateCreate, TypeOK
  <2>4. \A q \in Proc : req[q].at \in PaymentSteps => req[q].p \in Payment \ {p}
    BY <1>1, <2>1 DEF Linked
  <2>5. \A q \in Proc \ {r} :
          req'[q].at \in PaymentSteps => req'[q].p \in Payment \ {p}
    BY <2>3, <2>4
  <2>6. \A q \in Proc : Knows(req[q])'
    <3>1. Knows(req[r])'
      BY <2>1, <2>2, <2>3 DEF Knows
    <3>2. \A q \in Proc \ {r} : Knows(req[q])'
      BY <1>1, <2>1, <2>3, <2>4 DEF Knows, PaymentSteps
    <3>3. QED
      BY <3>1, <3>2
  <2>7. OpenersApart'
    BY <1>1, <2>2, <2>3, <2>5 DEF ChargesKnown, OpenersApart, PaymentSteps
  <2>8. ChargesKnown'
    BY <2>6, <2>7 DEF ChargesKnown, Knows, OpenersApart
  <2>9. Rows'
    BY <1>1, <2>1 DEF Rows, ChargesFollowRows, SuccessIsCaptured, RefundIsBacked,
                      NoRow
  <2>10. QED
    BY <1>3, <2>8, <2>9
<1>8. ASSUME NEW r \in Proc, InitiateCall(r) PROVE MoneyInv'
  <2>1. /\ req[r].at = "initCall" /\ req[r].p \in Payment
        /\ pay[req[r].p] # NoRow /\ charge[req[r].p] = "none"
    BY <1>1, <1>8 DEF InitiateCall, Linked, PaymentSteps, Knows
  <2>2. PICK l : Become(r, l) /\ l.at \in {"idle", "initFail"}
    <3>1. Idle.at = "idle"
      BY DEF Idle, AboutBooking
    <3>2. Continue(r, "initFail") => Become(r, [req[r] EXCEPT !.at = "initFail"])
                                     /\ [req[r] EXCEPT !.at = "initFail"].at = "initFail"
      BY DEF Continue, TypeOK, Locals
    <3>3. QED
      BY <1>8, <3>1, <3>2 DEF InitiateCall, Finish
  <2>3. CASE UNCHANGED providerVars
    <3>1. ChargesKnown'
      BY <1>1, <2>2, <2>3, KnowsFrame DEF Knows
    <3>2. QED
      BY <1>2, <1>3, <1>8, <2>3, <3>1 DEF InitiateCall
  <2>4. CASE OpenCharge(req[r].p)
    <3>1. /\ UNCHANGED <<pay, refunded, refunds>>
          /\ charge'[req[r].p] = "open"
          /\ \A q \in Payment \ {req[r].p} : charge'[q] = charge[q]
      BY <1>8, <2>1, <2>4 DEF InitiateCall, OpenCharge, TypeOK
    <3>2. req'[r] = l /\ \A q \in Proc \ {r} : req'[q] = req[q]
      BY <2>2, OtherHandlers DEF TypeOK
    <3>3. Knows(req[r])'
      BY <2>2, <3>2 DEF Knows
    <3>4. ASSUME NEW q \in Proc \ {r} PROVE Knows(req[q])'
      <4>1. /\ Knows(req[q])
            /\ req[q].at \in PaymentSteps => req[q].p \in Payment
            /\ req[q].at = "initCall" => req[q].p # req[r].p
        BY <1>1, <2>1 DEF ChargesKnown, OpenersApart, Linked
      <4>2. QED
        BY <2>1, <3>1, <3>2, <4>1 DEF Knows, PaymentSteps
    <3>5. OpenersApart'
      BY <1>1, <2>2, <3>2 DEF ChargesKnown, OpenersApart
    <3>6. Rows'
      BY <1>1, <2>1, <3>1 DEF Rows, ChargesFollowRows, SuccessIsCaptured,
                              RefundIsBacked, NoRow
    <3>7. QED
      BY <1>3, <3>3, <3>4, <3>5, <3>6 DEF ChargesKnown
  <2>5. QED
    BY <1>8, <2>3, <2>4 DEF InitiateCall
<1>9. ASSUME NEW r \in Proc, Finish(r) \/ (\E bs : GoRelease(r, bs)),
             UNCHANGED <<charge, refunds>>
      PROVE  ChargesKnown'
  <2>1. \A q \in Proc \ {r} : \A l : l = req[q] => Knows(l)'
    BY <1>1, <1>9 DEF Knows
  <2>2. QED
    BY <1>1, <1>9, <2>1, KnowsDone
<1>10. ASSUME NEW r \in Proc, InitiateFail(r) \/ FailCommit(r) PROVE MoneyInv'
  <2>1. req[r].p \in Payment /\ pay[req[r].p] # NoRow
    BY <1>1, <1>10 DEF InitiateFail, FailCommit, Linked, PaymentSteps
  <2>2. ChargesKnown'
    BY <1>9, <1>10 DEF InitiateFail, FailCommit
  <2>3. /\ pay'[req[r].p] = "FAILED"
        /\ \A q \in Payment \ {req[r].p} : pay'[q] = pay[q]
        /\ UNCHANGED <<refunded, charge, refunds>>
    BY <1>10, <2>1 DEF InitiateFail, FailCommit, TypeOK
  <2>4. Rows'
    BY <1>1, <2>1, <2>3 DEF Rows, ChargesFollowRows, SuccessIsCaptured,
                            RefundIsBacked, NoRow
  <2>5. QED
    BY <1>3, <2>2, <2>4
<1>11. ASSUME NEW r \in Proc, PaidCommit(r) PROVE MoneyInv'
  <2>1. /\ req[r].p \in Payment /\ charge[req[r].p] = "captured"
        /\ pay[req[r].p] # NoRow
    BY <1>1, <1>11 DEF PaidCommit, Linked, PaymentSteps, Knows
  <2>2. ChargesKnown'
    BY <1>9, <1>11 DEF PaidCommit
  <2>3. CASE UNCHANGED <<bookingVars, pay, notified>>
    BY <1>2, <1>3, <1>11, <2>2, <2>3 DEF PaidCommit
  <2>4. CASE pay' = [pay EXCEPT ![req[r].p] = "SUCCESS"]
    <3>1. Rows'
      BY <1>1, <1>11, <2>1, <2>4 DEF Rows, PaidCommit, TypeOK, ChargesFollowRows,
                                     SuccessIsCaptured, RefundIsBacked, NoRow
    <3>2. QED
      BY <1>3, <2>2, <3>1
  <2>5. QED
    BY <1>11, <2>3, <2>4 DEF PaidCommit
<1>13. ASSUME NEW r \in Proc, RefundLedger(r) PROVE MoneyInv'
  <2>1. /\ req[r].p \in Payment /\ req[r].pct <= refunds[req[r].p]
        /\ pay[req[r].p] # NoRow
    BY <1>1, <1>13 DEF RefundLedger, Linked, PaymentSteps, Knows
  <2>2. ChargesKnown'
    BY <1>9, <1>13 DEF RefundLedger
  <2>3. CASE UNCHANGED <<pay, refunded>>
    BY <1>2, <1>3, <1>13, <2>2, <2>3 DEF RefundLedger
  <2>4. CASE /\ pay[req[r].p] = "SUCCESS"
             /\ pay' = [pay EXCEPT ![req[r].p] = "REFUNDED"]
             /\ refunded' = [refunded EXCEPT ![req[r].p] = req[r].pct]
    <3>1. ChargesFollowRows' /\ SuccessIsCaptured'
      BY <1>1, <1>13, <2>1, <2>4 DEF Rows, RefundLedger, TypeOK,
         ChargesFollowRows, SuccessIsCaptured, NoRow
    <3>2. RefundIsBacked'
      BY <1>1, <1>13, <2>1, <2>4 DEF Rows, RefundLedger, TypeOK, RefundIsBacked
    <3>3. QED
      BY <1>3, <2>2, <3>1, <3>2 DEF Rows
  <2>5. QED
    BY <1>13, <2>3, <2>4 DEF RefundLedger
<1>14. ASSUME NEW r \in Proc, RefundCall(r) PROVE MoneyInv'
  <2>1. req[r].p \in Payment /\ req[r].pct \in 0..100
    BY <1>1, <1>14, LocalsFields DEF RefundCall, Linked, PaymentSteps
  <2>2. \A q \in Payment : refunds[q] \in 0..100 /\ refunded[q] \in 0..100
    BY DEF TypeOK
  <2>3. /\ UNCHANGED <<pay, refunded, charge>>
        /\ \A q \in Payment : refunds[q] <= refunds'[q] /\ refunds'[q] \in 0..100
        /\ \/ req[r].pct <= refunds'[req[r].p] /\ Continue(r, "refundLedger")
           \/ Finish(r)
    <3>1. CASE PayBack(req[r].p, req[r].pct)
      <4>1. \A m, n \in 0..100 : m <= m + n /\ n <= m + n
        OBVIOUS
      <4>2. refunds'[req[r].p] = refunds[req[r].p] + req[r].pct
            /\ \A q \in Payment \ {req[r].p} : refunds'[q] = refunds[q]
        BY <2>1, <3>1 DEF PayBack, TypeOK
      <4>3. \A q \in Payment : refunds[q] <= refunds[q]
        BY <2>2
      <4>4. \A q \in Payment : refunds[q] <= refunds'[q]
        BY <2>1, <2>2, <4>1, <4>2, <4>3
      <4>5. req[r].pct <= refunds'[req[r].p]
        BY <2>1, <2>2, <4>1, <4>2
      <4>6. QED
        BY <1>14, <3>1, <4>4, <4>5 DEF RefundCall, PayBack, TypeOK
    <3>2. CASE Finish(r) /\ UNCHANGED providerVars
      BY <1>14, <2>2, <3>2 DEF RefundCall, TypeOK
    <3>3. QED
      BY <1>14, <3>1, <3>2 DEF RefundCall
  <2>4. \A q \in Payment, n \in 0..100 : n <= refunds[q] => n <= refunds'[q]
    <3>1. \A k, m, n \in 0..100 : k <= m /\ m <= n => k <= n
      OBVIOUS
    <3>2. QED
      BY <2>2, <2>3, <3>1
  <2>5. Rows'
    <3>1. RefundIsBacked'
      BY <1>1, <2>2, <2>3, <2>4 DEF Rows, RefundIsBacked
    <3>2. QED
      BY <1>1, <2>3, <3>1 DEF Rows, ChargesFollowRows, SuccessIsCaptured
  <2>6. \A q \in Proc \ {r} : \A l : l = req[q] => Knows(l)'
    <3>1. SUFFICES ASSUME NEW q \in Proc \ {r} PROVE
            /\ Knows(req[q]) /\ req[q].pct \in 0..100
            /\ req[q].at \in PaymentSteps => req[q].p \in Payment
      BY <2>3, <2>4 DEF Knows, PaymentSteps
    <3>2. QED
      BY <1>1, LocalsFields DEF Linked
  <2>7. ChargesKnown'
    <3>1. CASE Finish(r)
      BY <1>1, <2>6, <3>1, KnowsDone
    <3>2. CASE req[r].pct <= refunds'[req[r].p] /\ Continue(r, "refundLedger")
      <4>a. req[r] \in Locals
        BY <1>14 DEF TypeOK
      <4>b. LET m == [req[r] EXCEPT !.at = "refundLedger"]
            IN m.at = "refundLedger" /\ m.p = req[r].p /\ m.pct = req[r].pct
        BY <4>a DEF Locals
      <4>c. Become(r, [req[r] EXCEPT !.at = "refundLedger"])
        BY <3>2 DEF Continue
      <4>1. PICK l : /\ Become(r, l) /\ l.at = "refundLedger"
                     /\ l.p = req[r].p /\ l.pct = req[r].pct
        BY <4>b, <4>c
      <4>2. req'[r] = l /\ \A q \in Proc \ {r} : req'[q] = req[q]
        BY <4>1, OtherHandlers DEF TypeOK
      <4>3. Knows(req[r])' /\ \A q \in Proc \ {r} : Knows(req[q])'
        BY <2>6, <3>2, <4>1, <4>2 DEF Knows
      <4>4. OpenersApart'
        BY <1>1, <4>1, <4>2 DEF ChargesKnown, OpenersApart
      <4>5. QED
        BY <4>3, <4>4 DEF ChargesKnown, Knows, OpenersApart
    <3>3. QED
      BY <2>3, <3>1, <3>2
  <2>8. QED
    BY <1>3, <2>5, <2>7
<1>15. ASSUME NEW p \in Payment, GuestPays(p) \/ GuestDeclines(p)
       PROVE  MoneyInv'
  <2>1. /\ charge[p] = "open" /\ charge'[p] \in {"captured", "declined"}
        /\ \A q \in Payment \ {p} : charge'[q] = charge[q]
        /\ UNCHANGED <<pay, refunded, refunds, req>>
    BY <1>15 DEF GuestPays, GuestDeclines, TypeOK
  <2>2. Rows'
    BY <1>1, <2>1 DEF Rows, ChargesFollowRows, SuccessIsCaptured, RefundIsBacked
  <2>3. \A q \in Proc : req[q].at \in PaymentSteps => req[q].p \in Payment
    BY <1>1 DEF Linked
  <2>4. ChargesKnown'
    BY <1>1, <2>1, <2>3 DEF ChargesKnown, Knows, OpenersApart, PaymentSteps
  <2>5. QED
    BY <1>3, <2>2, <2>4
<1>16. ASSUME UNCHANGED <<pay, refunded, charge, refunds, req>>
       PROVE  MoneyInv'
  BY <1>1, <1>2, <1>3, <1>16 DEF ChargesKnown, Knows, OpenersApart
<1>17. QED
  <2>1. \A r \in Request : r \in Proc
    BY DEF Proc
  <2>2. CASE Environment
    BY <2>2, <1>15, <1>16 DEF Environment, HoldLapses, Create
  <2>3. ASSUME NEW r \in Request, Arrive(r) PROVE MoneyInv'
    BY <2>1, <2>3, <1>4, <1>5 DEF Arrive
  <2>4. ASSUME NEW r \in Proc, HandlerStep(r) PROVE MoneyInv'
    BY <2>4, <1>6, <1>7, <1>8, <1>10, <1>11, <1>13, <1>14 DEF HandlerStep
  <2>5. CASE UNCHANGED vars
    BY <2>5, <1>16 DEF vars
  <2>6. QED
    BY <2>2, <2>3, <2>4, <2>5, <1>6 DEF Next

-----------------------------------------------------------------------------
(* Who may enter has paid.                                                 *)

\* A booking that is paid for stays so: staff's word is not taken back, a
\* captured charge stays captured, and a payment stays with its booking.
LEMMA PaidForStays ==
  ASSUME TypeOK, MoneyInv, [Next]_vars, NEW b \in Booking, PaidFor(b)
  PROVE  PaidFor(b)'
<1> USE DEF bookingVars, paymentVars, providerVars
<1>1. \A r \in Request : r \in Proc
  BY DEF Proc
<1>2. byHand \subseteq byHand'
  <2>1. \A r \in Proc : HandlerStep(r) => byHand \subseteq byHand'
    BY DEF HandlerStep, InitiateExpire, InitiateConfirm, InitiateCreate,
       InitiateCall, InitiateFail, VerifyCall, PaidTx, PaidCommit, FailTx,
       FailCommit, RefundFind, RefundCall, RefundLedger, TransitionWrite,
       ConfirmExpire, ConfirmWrite, CancelWrite, SweepWrite, PublishReleased,
       WriteBooking, WriteByHand
  <2>2. \A r \in Proc : Arrive(r) \/ SweepRead(r) \/ Crash(r) => UNCHANGED byHand
    BY DEF Arrive, InitiateRead, ConfirmRead, CancelRead, TransitionRead,
       WebhookSuccess, WebhookFailure, VerifyRead, SweepRead, Crash
  <2>3. Environment \/ UNCHANGED vars => UNCHANGED byHand
    BY DEF Environment, HoldLapses, Create, GuestPays, GuestDeclines, vars
  <2>4. QED
    BY <1>1, <2>1, <2>2, <2>3 DEF Next
<1>3. ASSUME NEW p \in Payment, payFor[p] = b, charge[p] = "captured"
      PROVE  payFor'[p] = b /\ charge'[p] = "captured"
  <2>1. pay[p] # NoRow
    BY <1>3 DEF MoneyInv, ChargesFollowRows
  <2>2. ASSUME NEW r \in Proc, InitiateCall(r)
        PROVE  payFor'[p] = b /\ charge'[p] = "captured"
    <3>1. req[r].p # p
      BY <1>3, <2>2 DEF MoneyInv, ChargesKnown, Knows, InitiateCall
    <3>2. QED
      BY <1>3, <2>2, <3>1 DEF InitiateCall, OpenCharge, TypeOK
  <2>3. ASSUME NEW r \in Proc, HandlerStep(r), ~InitiateCall(r)
        PROVE  payFor'[p] = b /\ charge'[p] = "captured"
    <3>1. UNCHANGED charge
      BY <2>3 DEF HandlerStep, InitiateExpire, InitiateConfirm, InitiateCreate,
         InitiateFail, VerifyCall, PaidTx, PaidCommit, FailTx,
         FailCommit, RefundFind, RefundCall, RefundLedger, TransitionWrite,
         ConfirmExpire, ConfirmWrite, CancelWrite, SweepWrite, PublishReleased,
         PayBack
    <3>2. ASSUME NEW q \in Payment, InitiateCreate(r, q) PROVE payFor'[p] = b
      BY <1>3, <2>1, <3>2 DEF InitiateCreate, TypeOK
    <3>3. CASE UNCHANGED payFor
      BY <1>3, <3>1, <3>3
    <3>4. (\E q \in Payment : InitiateCreate(r, q)) \/ UNCHANGED payFor
      BY <2>3 DEF HandlerStep, InitiateExpire, InitiateConfirm,
         InitiateFail, VerifyCall, PaidTx, PaidCommit, FailTx,
         FailCommit, RefundFind, RefundCall, RefundLedger, TransitionWrite,
         ConfirmExpire, ConfirmWrite, CancelWrite, SweepWrite, PublishReleased
    <3>5. QED
      BY <1>3, <3>1, <3>2, <3>3, <3>4
  <2>4. ASSUME NEW r \in Proc, Arrive(r) \/ SweepRead(r) \/ Crash(r)
        PROVE  UNCHANGED <<payFor, charge>>
    BY <2>4 DEF Arrive, InitiateRead, ConfirmRead, CancelRead, TransitionRead,
       WebhookSuccess, WebhookFailure, VerifyRead, SweepRead, Crash
  <2>5. Environment \/ UNCHANGED vars =>
          payFor' = payFor /\ charge'[p] = "captured"
    BY <1>3 DEF Environment, HoldLapses, Create, GuestPays, GuestDeclines, vars,
                TypeOK
  <2>6. QED
    BY <1>1, <1>3, <2>2, <2>3, <2>4, <2>5 DEF Next
<1>4. QED
  BY <1>2, <1>3 DEF PaidFor

\* A status that lets the guest in is written by a payment that succeeded, or
\* by staff.
LEMMA EntryWrites ==
  ASSUME TypeOK, [Next]_vars, NEW b \in Booking,
         status'[b] \in {"PAID", "CHECKED_IN", "CHECKED_OUT"},
         status[b] \notin {"PAID", "CHECKED_IN", "CHECKED_OUT"}
  PROVE  \E r \in Proc :
           /\ req[r].b = b
           /\ \/ PaidCommit(r)
              \/ /\ TransitionWrite(r)
                 /\ WriteByHand(b, req[r].st, hold[b])
                 /\ status'[b] = req[r].st
<1> USE DEF bookingVars
<1> DEFINE Entry == {"PAID", "CHECKED_IN", "CHECKED_OUT"}
<1>1. \A r \in Request : r \in Proc
  BY DEF Proc
<1>2. ASSUME NEW c, NEW st, NEW h, WriteRow(c, st, h), st \notin Entry
      PROVE  FALSE
  BY <1>2 DEF WriteRow, TypeOK
<1>3. ASSUME NEW r \in Proc, HandlerStep(r)
      PROVE  \/ PaidCommit(r) /\ req[r].b = b
             \/ /\ TransitionWrite(r) /\ req[r].b = b
                /\ WriteByHand(b, req[r].st, hold[b])
                /\ status'[b] = req[r].st
  <2>1. CASE PaidCommit(r)
    BY <2>1 DEF PaidCommit, WriteBooking, WriteRow, TypeOK
  <2>2. CASE TransitionWrite(r)
    BY <2>2 DEF TransitionWrite, WriteByHand, WriteRow, TypeOK
  <2>3. CASE \/ InitiateExpire(r) \/ InitiateConfirm(r) \/ InitiateFail(r)
             \/ FailCommit(r) \/ ConfirmExpire(r) \/ ConfirmWrite(r)
             \/ CancelWrite(r)
    BY <1>2, <2>3 DEF InitiateExpire, InitiateConfirm, InitiateFail, FailCommit,
       ConfirmExpire, ConfirmWrite, CancelWrite, WriteBooking
  <2>4. CASE SweepWrite(r)
    BY <2>4 DEF SweepWrite, TypeOK
  <2>5. CASE \/ \E p \in Payment : InitiateCreate(r, p)
             \/ InitiateCall(r) \/ VerifyCall(r) \/ PaidTx(r) \/ FailTx(r)
             \/ RefundFind(r) \/ RefundCall(r) \/ RefundLedger(r)
             \/ PublishReleased(r)
    BY <2>5 DEF InitiateCreate, InitiateCall, VerifyCall, PaidTx, FailTx,
                RefundFind, RefundCall, RefundLedger, PublishReleased
  <2>6. QED
    BY <1>3, <2>1, <2>2, <2>3, <2>4, <2>5 DEF HandlerStep
<1>4. ASSUME NEW r \in Proc, Arrive(r) \/ SweepRead(r) \/ Crash(r) PROVE FALSE
  BY <1>4 DEF Arrive, InitiateRead, ConfirmRead, CancelRead, TransitionRead,
     WebhookSuccess, WebhookFailure, VerifyRead, SweepRead, Crash
<1>5. CASE Environment \/ UNCHANGED vars
  BY <1>5 DEF Environment, HoldLapses, Create, GuestPays, GuestDeclines, vars,
              TypeOK
<1>6. QED
  BY <1>1, <1>3, <1>4, <1>5 DEF Next

\* A request that staff begin is about a status the booking may go on to; all
\* other steps begin or continue no such request.
LEMMA TransitionsBegin ==
  ASSUME TypeOK, [Next]_vars, NEW r \in Proc, req'[r].at = "transition"
  PROVE  \/ req'[r] = req[r]
         \/ \E b \in Booking : /\ canTransition(status[b], req'[r].st)
                               /\ req'[r].b = b
<1>1. \A q \in Request : q \in Proc
  BY DEF Proc
<1>2. ASSUME NEW q \in Proc, NEW l, Become(q, l), l.at # "transition"
      PROVE  req'[r] = req[r]
  BY <1>2, OtherHandlers DEF TypeOK
<1>a. ASSUME NEW q \in Proc, NEW to, to # "transition"
      PROVE  /\ Continue(q, to) => req'[r] = req[r]
             /\ Finish(q) => req'[r] = req[r]
             /\ \A bs : GoRelease(q, bs) => req'[r] = req[r]
  <2>1. [req[q] EXCEPT !.at = to].at = to /\ Idle.at = "idle"
        /\ \A bs : AboutBookings("release", bs).at = "release"
    BY DEF TypeOK, Locals, Idle, AboutBooking, AboutBookings
  <2>2. QED
    BY <1>2, <1>a, <2>1 DEF Continue, Finish, GoRelease
<1>3. ASSUME NEW q \in Proc, HandlerStep(q) PROVE req'[r] = req[r]
  <2>1. ASSUME NEW p \in Payment, InitiateCreate(q, p) PROVE req'[r] = req[r]
    <3>1. [AboutBooking("initCall", req[q].b) EXCEPT !.p = p].at = "initCall"
      BY DEF AboutBooking
    <3>2. QED
      BY <1>2, <2>1, <3>1 DEF InitiateCreate
  <2>2. CASE VerifyCall(q)
    <3>1. AboutPayment("paidTx", req[q].p).at = "paidTx"
      BY DEF AboutPayment
    <3>2. QED
      BY <1>2, <1>a, <2>2, <3>1 DEF VerifyCall
  <2>3. CASE RefundFind(q)
    <3>1. \A p, x : [AboutPayment("refundCall", p) EXCEPT !.pct = x].at = "refundCall"
      BY DEF AboutPayment
    <3>2. QED
      BY <1>2, <1>a, <2>3, <3>1 DEF RefundFind
  <2>4. CASE \/ InitiateExpire(q) \/ InitiateConfirm(q) \/ InitiateCall(q)
             \/ InitiateFail(q) \/ PaidTx(q) \/ PaidCommit(q) \/ FailTx(q)
             \/ FailCommit(q) \/ RefundCall(q) \/ RefundLedger(q)
    BY <1>a, <2>4 DEF InitiateExpire, InitiateConfirm, InitiateCall,
       InitiateFail, PaidTx, PaidCommit, FailTx, FailCommit, RefundCall,
       RefundLedger
  <2>5. CASE \/ TransitionWrite(q) \/ ConfirmExpire(q) \/ ConfirmWrite(q)
             \/ CancelWrite(q) \/ SweepWrite(q) \/ PublishReleased(q)
    BY <1>a, <2>5 DEF TransitionWrite, ConfirmExpire, ConfirmWrite, CancelWrite,
       SweepWrite, PublishReleased
  <2>6. QED
    BY <1>3, <2>1, <2>2, <2>3, <2>4, <2>5 DEF HandlerStep
<1>4. ASSUME NEW q \in Proc, NEW b \in Booking, NEW target \in ManualTarget,
             TransitionRead(q, b, target)
      PROVE  \/ req'[r] = req[r]
             \/ canTransition(status[b], req'[r].st) /\ req'[r].b = b
  <2> DEFINE l == [AboutBooking("transition", b) EXCEPT !.st = target]
  <2>1. l.st = target /\ l.b = b /\ Become(q, l)
    BY <1>4 DEF TransitionRead, Begin, AboutBooking
  <2>2. req'[q] = l /\ \A i \in Proc \ {q} : req'[i] = req[i]
    BY <2>1, OtherHandlers DEF TypeOK
  <2>3. QED
    BY <1>4, <2>1, <2>2 DEF TransitionRead
<1>5. ASSUME NEW q \in Proc, NEW b \in Booking,
             \/ InitiateRead(q, b) \/ ConfirmRead(q, b)
             \/ \E percent \in RefundPercent : CancelRead(q, b, percent)
      PROVE  req'[r] = req[r]
  <2>1. \A at : AboutBooking(at, b).at = at
    BY DEF AboutBooking
  <2>2. CASE InitiateRead(q, b) \/ ConfirmRead(q, b)
    <3>1. PICK at \in {"confirm", "confirmExpire", "initConfirm", "initExpire"} :
            Become(q, AboutBooking(at, b))
      BY <2>2 DEF InitiateRead, ConfirmRead, Begin
    <3>2. QED
      BY <1>2, <2>1, <3>1
  <2>3. CASE \E percent \in RefundPercent : CancelRead(q, b, percent)
    <3>1. PICK x : Become(q, [AboutBooking("cancel", b) EXCEPT !.pct = x])
      BY <2>3 DEF CancelRead, Begin
    <3>2. [AboutBooking("cancel", b) EXCEPT !.pct = x].at = "cancel"
      BY DEF AboutBooking
    <3>3. QED
      BY <1>2, <3>1, <3>2
  <2>4. QED
    BY <1>5, <2>2, <2>3
<1>6. ASSUME NEW q \in Proc, NEW p \in Payment,
             WebhookSuccess(q, p) \/ WebhookFailure(q, p) \/ VerifyRead(q, p)
      PROVE  req'[r] = req[r]
  <2>1. \A at : AboutPayment(at, p).at = at
    BY DEF AboutPayment
  <2>2. CASE WebhookSuccess(q, p) \/ WebhookFailure(q, p)
    <3>1. PICK at \in {"paidTx", "failTx"} : Become(q, AboutPayment(at, p))
      BY <2>2 DEF WebhookSuccess, WebhookFailure, Begin
    <3>2. QED
      BY <1>2, <2>1, <3>1
  <2>3. CASE VerifyRead(q, p)
    <3>1. PICK x : Become(q, [AboutPayment("verifyCall", p) EXCEPT !.st = x])
      BY <2>3 DEF VerifyRead, Begin
    <3>2. [AboutPayment("verifyCall", p) EXCEPT !.st = x].at = "verifyCall"
      BY DEF AboutPayment
    <3>3. QED
      BY <1>2, <3>1, <3>2
  <2>4. QED
    BY <1>6, <2>2, <2>3
<1>7. ASSUME NEW q \in Proc, SweepRead(q) \/ Crash(q) PROVE req'[r] = req[r]
  <2>1. \A bs : AboutBookings("sweep", bs).at = "sweep"
    BY DEF AboutBookings
  <2>2. QED
    BY <1>2, <1>a, <1>7, <2>1 DEF SweepRead, Crash, Begin
<1>8. CASE Environment \/ UNCHANGED vars
  BY <1>8 DEF Environment, HoldLapses, Create, GuestPays, GuestDeclines, vars
<1>9. QED
  BY <1>1, <1>3, <1>4, <1>5, <1>6, <1>7, <1>8 DEF Next, Arrive

\* What the table of booking-state.ts says of entering and leaving.
LEMMA EntryTransitions ==
  \A from : /\ canTransition(from, "CHECKED_IN") => from = "PAID"
            /\ canTransition(from, "CHECKED_OUT") => from = "CHECKED_IN"
BY DEF canTransition, TRANSITIONS, BookingStatus

\* Every step keeps the guests of the house among those who have paid.
LEMMA GuestStep ==
  TypeOK /\ TypeOK' /\ MoneyInv /\ GuestInv /\ [Next]_vars => GuestInv'
<1> SUFFICES ASSUME TypeOK, TypeOK', MoneyInv, GuestInv, [Next]_vars
             PROVE  GuestInv'
  OBVIOUS
<1>1. \A b \in Booking : PaidFor(b) => PaidFor(b)'
  BY PaidForStays
<1>2. Linked
  BY DEF MoneyInv
<1>3. ASSUME NEW r \in Proc, req'[r].at = "transition",
             req'[r].st \in {"CHECKED_IN", "CHECKED_OUT"}
      PROVE  req'[r].b \in Booking /\ PaidFor(req'[r].b)
  <2>1. CASE req'[r] = req[r]
    BY <1>2, <1>3, <2>1 DEF GuestInv, EntryKnown, Linked, BookingSteps
  <2>2. ASSUME NEW b \in Booking, canTransition(status[b], req'[r].st),
               req'[r].b = b
        PROVE  req'[r].b \in Booking /\ PaidFor(req'[r].b)
    BY <1>3, <2>2, EntryTransitions DEF GuestInv, EntryIsPaidFor
  <2>3. QED
    BY <1>3, <2>1, <2>2, TransitionsBegin
<1>4. EntryKnown'
  BY <1>1, <1>3 DEF EntryKnown, PaidFor
<1>5. ASSUME NEW b \in Booking,
             status'[b] \in {"PAID", "CHECKED_IN", "CHECKED_OUT"}
      PROVE  PaidFor(b)'
  <2>1. CASE status[b] \in {"PAID", "CHECKED_IN", "CHECKED_OUT"}
    BY <1>1, <2>1 DEF GuestInv, EntryIsPaidFor
  <2>2. CASE status[b] \notin {"PAID", "CHECKED_IN", "CHECKED_OUT"}
    <3>1. PICK r \in Proc : /\ req[r].b = b
                            /\ \/ PaidCommit(r)
                               \/ /\ TransitionWrite(r)
                                  /\ WriteByHand(b, req[r].st, hold[b])
                                  /\ status'[b] = req[r].st
      BY <1>5, <2>2, EntryWrites
    <3>2. CASE PaidCommit(r)
      BY <1>1, <1>2, <3>1, <3>2 DEF MoneyInv, ChargesKnown, Knows, Linked,
         PaidCommit, PaymentSteps, PaidFor
    <3>3. CASE TransitionWrite(r) /\ WriteByHand(b, req[r].st, hold[b])
               /\ status'[b] = req[r].st
      <4>1. CASE req[r].st = "PAID"
        BY <3>3, <4>1 DEF WriteByHand, PaidFor
      <4>2. CASE req[r].st \in {"CHECKED_IN", "CHECKED_OUT"}
        BY <1>1, <3>1, <3>3, <4>2 DEF GuestInv, EntryKnown, TransitionWrite
      <4>3. QED
        BY <1>5, <3>3, <4>1, <4>2
    <3>4. QED
      BY <3>1, <3>2, <3>3
  <2>3. QED
    BY <2>1, <2>2
<1>6. EntryIsPaidFor'
  BY <1>5 DEF EntryIsPaidFor, PaidFor
<1>7. QED
  BY <1>4, <1>6 DEF GuestInv

\* With no bookings, payments and charges there is nothing to disagree on.
LEMMA LedgerInit == Init => LedgerInv
BY InitTypes DEF Init, LedgerInv, HandlersKnow, ChargesFollowRows,
                 SuccessIsCaptured, RefundIsBacked, EntryIsPaidFor, NoRow, Idle,
                 AboutBooking

\* Every step keeps the types and the ledger.
LEMMA LedgerStep == TypeOK /\ LedgerInv /\ [Next]_vars => TypeOK' /\ LedgerInv'
<1> SUFFICES ASSUME TypeOK, LedgerInv, [Next]_vars
             PROVE  TypeOK' /\ LedgerInv'
  OBVIOUS
<1>1. MoneyInv /\ GuestInv /\ Linked
  BY LedgerParts DEF MoneyInv
<1>2. TypeOK' /\ Linked'
  BY <1>1, TypeStep, LinkedStep
<1>3. MoneyInv' /\ GuestInv'
  BY <1>1, <1>2, MoneyStep, GuestStep
<1>4. LedgerInv'
  BY <1>3 DEF LedgerInv, HandlersKnow, MoneyInv, GuestInv, ChargesKnown,
     EntryKnown, Knows, OpenersApart
<1>5. QED
  BY <1>2, <1>4

\* The tables and the provider agree in every state, halfway through any
\* handler too: the inductive invariant behind the next three theorems.
THEOREM LedgerCorrect == Spec => [](TypeOK /\ LedgerInv)
BY LedgerStep, InitTypes, LedgerInit, PTL DEF Spec

\* A payment recorded as successful or refunded has been captured, whatever
\* webhooks and verifications were served at the same time.
THEOREM CapturedBeforeSuccess == Spec => []SuccessIsCaptured
BY LedgerCorrect, PTL DEF LedgerInv

\* No sequence of handlers lets in a guest who has not paid, unless staff said
\* the booking was paid.
THEOREM EntryNeedsPayment == Spec => []EntryIsPaidFor
BY LedgerCorrect, PTL DEF LedgerInv

\* The ledger never records a refund the provider has not carried out.
THEOREM RefundsAreBacked == Spec => []RefundIsBacked
BY LedgerCorrect, PTL DEF LedgerInv

-----------------------------------------------------------------------------
(***************************************************************************)
(* No room is sold twice for a night, and the bookings table implements    *)
(* the room calendar.                                                      *)
(***************************************************************************)

\* What one step may do to the statuses and the stays of all bookings.
WritesOne(b, st) ==
  /\ Accepts(b, st)
  /\ status' = [status EXCEPT ![b] = st]
  /\ UNCHANGED stay
ExpiresMany(bs) ==
  /\ status' = [b \in Booking |-> IF b \in bs THEN "EXPIRED" ELSE status[b]]
  /\ UNCHANGED stay
Inserts(b, s) ==
  /\ status[b] = NoRow /\ SlotFree(b, s)
  /\ status' = [status EXCEPT ![b] = "PENDING"]
  /\ stay' = [stay EXCEPT ![b] = s]

\* The statuses the handlers write as literals.
LEMMA ConstantStatuses ==
  {"CONFIRMED", "PAID", "CANCELLED", "EXPIRED"} \subseteq BookingStatus
BY DEF BookingStatus

\* Every step writes one row within the constraint, expires rows, inserts
\* one row within the constraint, or leaves statuses and stays alone.
LEMMA StatusSteps ==
  ASSUME [Next]_vars
  PROVE  \/ UNCHANGED <<status, stay>>
         \/ \E r \in Proc : /\ req[r].at \in BookingSteps \cup PaymentSteps
                            /\ \E st : /\ WritesOne(req[r].b, st)
                                       /\ \/ st \in BookingStatus
                                          \/ st = req[r].st /\ req[r].at = "transition"
         \/ \E r \in Proc : req[r].at = "sweep" /\ ExpiresMany(req[r].bs)
         \/ \E b \in Booking, s \in Stay : Inserts(b, s)
<1> USE DEF bookingVars
<1>1. ASSUME NEW r \in Proc, NEW st \in BookingStatus, NEW h,
             req[r].at \in BookingSteps \cup PaymentSteps,
             WriteBooking(req[r].b, st, h)
      PROVE  \E t : WritesOne(req[r].b, t) /\ t \in BookingStatus
  BY <1>1 DEF WriteBooking, WriteRow, WritesOne
<1>2. CASE Environment
  BY <1>2, AskedAssumption
     DEF Environment, HoldLapses, Create, GuestPays, GuestDeclines, Inserts
<1>3. ASSUME NEW r \in Request, Arrive(r) PROVE UNCHANGED <<status, stay>>
  BY <1>3 DEF Arrive, InitiateRead, ConfirmRead, CancelRead, TransitionRead,
              WebhookSuccess, WebhookFailure, VerifyRead
<1>4. ASSUME NEW r \in Proc, SweepRead(r) \/ Crash(r)
      PROVE  UNCHANGED <<status, stay>>
  BY <1>4 DEF SweepRead, Crash
<1>5. ASSUME NEW r \in Proc, HandlerStep(r)
      PROVE  \/ UNCHANGED <<status, stay>>
             \/ /\ req[r].at \in BookingSteps \cup PaymentSteps
                /\ \E st : /\ WritesOne(req[r].b, st)
                           /\ \/ st \in BookingStatus
                              \/ st = req[r].st /\ req[r].at = "transition"
             \/ req[r].at = "sweep" /\ ExpiresMany(req[r].bs)
  <2>1. CASE \/ InitiateExpire(r) \/ InitiateConfirm(r) \/ InitiateFail(r)
             \/ ConfirmExpire(r) \/ ConfirmWrite(r) \/ CancelWrite(r)
    <3>1. req[r].at \in BookingSteps \cup PaymentSteps
      BY <2>1 DEF InitiateExpire, InitiateConfirm, InitiateFail, ConfirmExpire,
                  ConfirmWrite, CancelWrite, BookingSteps, PaymentSteps
    <3>2. \/ UNCHANGED <<status, stay>>
          \/ \E st \in BookingStatus : \E h : WriteBooking(req[r].b, st, h)
      BY <2>1, ConstantStatuses DEF InitiateExpire, InitiateConfirm,
              InitiateFail, ConfirmExpire, ConfirmWrite, CancelWrite
    <3>3. QED
      BY <1>1, <3>1, <3>2
  <2>2. CASE PaidCommit(r) \/ FailCommit(r)
    <3>1. req[r].at \in BookingSteps \cup PaymentSteps
      BY <2>2 DEF PaidCommit, FailCommit, PaymentSteps
    <3>2. \/ UNCHANGED <<status, stay>>
          \/ \E st \in BookingStatus : \E h : WriteBooking(req[r].b, st, h)
      BY <2>2, ConstantStatuses DEF PaidCommit, FailCommit
    <3>3. QED
      BY <1>1, <3>1, <3>2
  <2>3. CASE TransitionWrite(r)
    BY <2>3 DEF TransitionWrite, WriteByHand, WriteRow, WritesOne, BookingSteps
  <2>4. CASE SweepWrite(r)
    BY <2>4 DEF SweepWrite, ExpiresMany
  <2>5. CASE \/ \E p \in Payment : InitiateCreate(r, p)
             \/ InitiateCall(r) \/ VerifyCall(r) \/ PaidTx(r) \/ FailTx(r)
             \/ RefundFind(r) \/ RefundCall(r) \/ RefundLedger(r)
             \/ PublishReleased(r)
    BY <2>5 DEF InitiateCreate, InitiateCall, VerifyCall, PaidTx, FailTx,
                RefundFind, RefundCall, RefundLedger, PublishReleased
  <2>6. QED
    BY <1>5, <2>1, <2>2, <2>3, <2>4, <2>5 DEF HandlerStep
<1>6. CASE UNCHANGED vars
  BY <1>6 DEF vars
<1>7. QED
  BY <1>2, <1>3, <1>4, <1>5, <1>6 DEF Next

\* It does not matter which of two bookings the constraint looks at.
LEMMA OverlapsSymmetric == \A s, t : Overlaps(s, t) => Overlaps(t, s)
BY DEF Overlaps

\* Every status write and every insert passes the constraint, so two active
\* bookings that overlap cannot come about.
LEMMA NoDoubleBookingStep ==
  TypeOK /\ NoDoubleBooking /\ [Next]_vars => NoDoubleBooking'
<1> SUFFICES ASSUME TypeOK, NoDoubleBooking, [Next]_vars,
                    NEW a \in Booking, NEW c \in Booking, a # c,
                    status'[a] \in ACTIVE_STATES, status'[c] \in ACTIVE_STATES
             PROVE  ~Overlaps(stay'[a], stay'[c])
  BY DEF NoDoubleBooking
<1>1. CASE UNCHANGED <<status, stay>>
  BY <1>1 DEF NoDoubleBooking
<1>2. ASSUME NEW b, NEW st, WritesOne(b, st)
      PROVE  ~Overlaps(stay'[a], stay'[c])
  <2>1. CASE a = b
    <3>1. status[c] \in ACTIVE_STATES /\ st \in ACTIVE_STATES
      BY <1>2, <2>1 DEF WritesOne, TypeOK
    <3>2. ~Overlaps(stay[c], stay[a])
      BY <1>2, <2>1, <3>1 DEF WritesOne, Accepts, SlotFree
    <3>3. QED
      BY <1>2, <3>2, OverlapsSymmetric DEF WritesOne
  <2>2. CASE c = b
    <3>1. status[a] \in ACTIVE_STATES /\ st \in ACTIVE_STATES
      BY <1>2, <2>2 DEF WritesOne, TypeOK
    <3>2. ~Overlaps(stay[a], stay[c])
      BY <1>2, <2>2, <3>1 DEF WritesOne, Accepts, SlotFree
    <3>3. QED
      BY <1>2, <3>2 DEF WritesOne
  <2>3. CASE a # b /\ c # b
    BY <1>2, <2>3 DEF WritesOne, NoDoubleBooking, TypeOK
  <2>4. QED
    BY <2>1, <2>2, <2>3
<1>3. ASSUME NEW bs, ExpiresMany(bs)
      PROVE  ~Overlaps(stay'[a], stay'[c])
  BY <1>3 DEF ExpiresMany, NoDoubleBooking, ACTIVE_STATES
<1>4. ASSUME NEW b \in Booking, NEW s \in Stay, Inserts(b, s)
      PROVE  ~Overlaps(stay'[a], stay'[c])
  <2>1. CASE a = b
    <3>1. status[c] \in ACTIVE_STATES /\ stay'[a] = s /\ stay'[c] = stay[c]
      BY <1>4, <2>1 DEF Inserts, TypeOK
    <3>2. QED
      BY <1>4, <2>1, <3>1, OverlapsSymmetric DEF Inserts, SlotFree
  <2>2. CASE c = b
    <3>1. status[a] \in ACTIVE_STATES /\ stay'[c] = s /\ stay'[a] = stay[a]
      BY <1>4, <2>2 DEF Inserts, TypeOK
    <3>2. QED
      BY <1>4, <2>2, <3>1 DEF Inserts, SlotFree
  <2>3. CASE a # b /\ c # b
    BY <1>4, <2>3 DEF Inserts, NoDoubleBooking, TypeOK
  <2>4. QED
    BY <2>1, <2>2, <2>3
<1>5. QED
  BY <1>1, <1>2, <1>3, <1>4, StatusSteps

\* No two bookings ever hold the same room for the same night, although the
\* handlers overwrite each other's statuses.
THEOREM NoRoomSoldTwice == Spec => []NoDoubleBooking
<1>1. Init => NoDoubleBooking
  BY DEF Init, NoDoubleBooking, ACTIVE_STATES, NoRow
<1>2. TypeOK /\ NoDoubleBooking /\ [Next]_vars => NoDoubleBooking'
  BY NoDoubleBookingStep
<1>3. QED
  BY <1>1, <1>2, TypeCorrect, PTL DEF Spec

-----------------------------------------------------------------------------
(* The bookings table implements the room calendar.                        *)

\* What else the refinement rests on: a booking has its stay from the insert
\* on, and staff never ask for the absence of a row.
RowsFilled ==
  /\ \A b \in Booking : status[b] = NoRow => stay[b] = NULL
  /\ \A r \in Proc : req[r].at = "transition" => req[r].st \in BookingStatus

\* A staff request under way asks for a status of the enum.
LEMMA TargetsStep ==
  ASSUME TypeOK, RowsFilled, [Next]_vars
  PROVE  \A r \in Proc : req'[r].at = "transition" => req'[r].st \in BookingStatus
<1> DEFINE Fine(l) == l.at = "transition" => l.st \in BookingStatus
<1>1. ASSUME NEW r \in Proc, NEW l, Become(r, l), Fine(l)
      PROVE  \A q \in Proc : Fine(req'[q])
  BY <1>1, OtherHandlers DEF TypeOK, RowsFilled
<1>2. ASSUME UNCHANGED req PROVE \A q \in Proc : Fine(req'[q])
  BY <1>2 DEF RowsFilled
<1>3. /\ \A at \in Steps \ {"transition"} : \A b, p, x :
           /\ Fine(AboutBooking(at, b))
           /\ Fine([AboutBooking(at, b) EXCEPT !.pct = x])
           /\ Fine([AboutBooking(at, b) EXCEPT !.p = p])
           /\ Fine(AboutPayment(at, p))
           /\ Fine([AboutPayment(at, p) EXCEPT !.pct = x])
           /\ Fine([AboutPayment(at, p) EXCEPT !.st = x])
           /\ Fine(AboutBookings(at, x))
      /\ \A b : \A st \in BookingStatus :
           Fine([AboutBooking("transition", b) EXCEPT !.st = st])
  BY DEF AboutBooking, AboutPayment, AboutBookings
<1>4. ASSUME NEW r \in Proc, NEW to, Continue(r, to), to # "transition"
      PROVE  \A q \in Proc : Fine(req'[q])
  <2>1. PICK l : Become(r, l) /\ l.at = to
    BY <1>4 DEF Continue, TypeOK, Locals
  <2>2. QED
    BY <1>1, <1>4, <2>1
<1>5. ASSUME NEW r \in Proc, Finish(r) \/ \E bs : GoRelease(r, bs)
      PROVE  \A q \in Proc : Fine(req'[q])
  BY <1>1, <1>3, <1>5 DEF Finish, GoRelease, Idle, Steps
<1> HIDE DEF Fine
<1>6. ASSUME NEW r \in Proc, HandlerStep(r)
      PROVE  \A q \in Proc : Fine(req'[q])
  <2>1. CASE \/ InitiateExpire(r) \/ InitiateConfirm(r) \/ InitiateCall(r)
             \/ InitiateFail(r) \/ PaidTx(r) \/ PaidCommit(r) \/ FailTx(r)
             \/ FailCommit(r)
    BY <1>4, <1>5, <2>1 DEF InitiateExpire, InitiateConfirm, InitiateCall,
            InitiateFail, PaidTx, PaidCommit, FailTx, FailCommit
  <2>2. CASE \/ RefundCall(r) \/ RefundLedger(r) \/ TransitionWrite(r)
             \/ ConfirmExpire(r) \/ ConfirmWrite(r) \/ CancelWrite(r)
             \/ SweepWrite(r) \/ PublishReleased(r)
    BY <1>4, <1>5, <2>2 DEF RefundCall, RefundLedger, TransitionWrite,
            ConfirmExpire, ConfirmWrite, CancelWrite, SweepWrite, PublishReleased
  <2>3. CASE \E p \in Payment : InitiateCreate(r, p)
    <3>1. PICK p, b : Become(r, [AboutBooking("initCall", b) EXCEPT !.p = p])
      BY <2>3 DEF InitiateCreate
    <3>2. QED
      BY <1>1, <1>3, <3>1 DEF Steps
  <2>4. CASE VerifyCall(r)
    BY <1>1, <1>3, <1>5, <2>4 DEF VerifyCall, Steps
  <2>5. CASE RefundFind(r)
    <3>1. ASSUME NEW p, NEW x,
                 Become(r, [AboutPayment("refundCall", p) EXCEPT !.pct = x])
          PROVE  \A q \in Proc : Fine(req'[q])
      BY <1>1, <1>3, <3>1 DEF Steps
    <3>2. QED
      BY <1>5, <2>5, <3>1 DEF RefundFind
  <2>6. QED
    BY <1>6, <2>1, <2>2, <2>3, <2>4, <2>5 DEF HandlerStep
<1>7. ASSUME NEW r \in Proc, Arrive(r)
      PROVE  \A q \in Proc : Fine(req'[q])
  <2>1. ASSUME NEW b \in Booking, InitiateRead(r, b) \/ ConfirmRead(r, b)
        PROVE  \A q \in Proc : Fine(req'[q])
    BY <1>1, <1>3, <2>1 DEF InitiateRead, ConfirmRead, Begin, Steps
  <2>2. ASSUME NEW b \in Booking, NEW percent \in RefundPercent,
               CancelRead(r, b, percent)
        PROVE  \A q \in Proc : Fine(req'[q])
    <3>1. PICK x : Become(r, [AboutBooking("cancel", b) EXCEPT !.pct = x])
      BY <2>2 DEF CancelRead, Begin
    <3>2. QED
      BY <1>1, <1>3, <3>1 DEF Steps
  <2>3. ASSUME NEW b \in Booking, NEW target \in ManualTarget,
               TransitionRead(r, b, target)
        PROVE  \A q \in Proc : Fine(req'[q])
    <3>1. Become(r, [AboutBooking("transition", b) EXCEPT !.st = target])
      BY <2>3 DEF TransitionRead, Begin
    <3>2. target \in BookingStatus
      BY TargetAssumption
    <3>3. QED
      BY <1>1, <1>3, <3>1, <3>2
  <2>4. ASSUME NEW p \in Payment, WebhookSuccess(r, p) \/ WebhookFailure(r, p)
        PROVE  \A q \in Proc : Fine(req'[q])
    BY <1>1, <1>3, <2>4 DEF WebhookSuccess, WebhookFailure, Begin, Steps
  <2>5. ASSUME NEW p \in Payment, VerifyRead(r, p)
        PROVE  \A q \in Proc : Fine(req'[q])
    BY <1>1, <1>3, <2>5 DEF VerifyRead, Begin, Steps
  <2>6. QED
    BY <1>7, <2>1, <2>2, <2>3, <2>4, <2>5 DEF Arrive
<1>8. ASSUME NEW r \in Proc, SweepRead(r) \/ Crash(r)
      PROVE  \A q \in Proc : Fine(req'[q])
  BY <1>1, <1>3, <1>5, <1>8 DEF SweepRead, Crash, Begin, Steps
<1>9. ASSUME Environment \/ UNCHANGED vars
      PROVE  \A q \in Proc : Fine(req'[q])
  BY <1>2, <1>9 DEF Environment, HoldLapses, Create, GuestPays, GuestDeclines, vars
<1>10. \A q \in Proc : Fine(req'[q])
  <2>1. \A r \in Request : r \in Proc
    BY DEF Proc
  <2>2. QED
    BY <1>6, <1>7, <1>8, <1>9, <2>1 DEF Next
<1>11. QED
  BY <1>10 DEF Fine

\* No step writes a stay without a status, or takes a status back.
LEMMA FilledStep == TypeOK /\ RowsFilled /\ [Next]_vars => RowsFilled'
<1> SUFFICES ASSUME TypeOK, RowsFilled, [Next]_vars,
                    NEW b \in Booking, status'[b] = NoRow
             PROVE  stay'[b] = NULL
  BY TargetsStep DEF RowsFilled
<1>1. CASE UNCHANGED <<status, stay>>
  BY <1>1 DEF RowsFilled
<1>2. ASSUME NEW c, NEW st \in BookingStatus, WritesOne(c, st)
      PROVE  stay'[b] = NULL
  BY <1>2, StatusTypes DEF WritesOne, RowsFilled, TypeOK
<1>3. ASSUME NEW bs, ExpiresMany(bs) PROVE stay'[b] = NULL
  BY <1>3 DEF ExpiresMany, RowsFilled, NoRow
<1>4. ASSUME NEW c \in Booking, NEW s \in Stay, Inserts(c, s)
      PROVE  stay'[b] = NULL
  BY <1>4 DEF Inserts, RowsFilled, TypeOK, NoRow
<1>5. QED
  BY <1>1, <1>2, <1>3, <1>4, StatusSteps DEF RowsFilled

\* Stays the constraint lets coexist share no room night.
LEMMA ApartSharesNoNight ==
  ASSUME NEW s \in Stay, NEW t \in Stay
  PROVE  ~Overlaps(s, t) => Nights(s) \cap Nights(t) = {}
<1>1. /\ s.checkIn \in Int /\ s.checkOut \in Int
      /\ t.checkIn \in Int /\ t.checkOut \in Int
  BY DayAssumption DEF Stay
<1>2. ASSUME NEW n \in Nights(s), n \in Nights(t) PROVE Overlaps(s, t)
  <2>1. /\ n[1] = s.room /\ s.checkIn <= n[2] /\ n[2] < s.checkOut
        /\ n[1] = t.room /\ t.checkIn <= n[2] /\ n[2] < t.checkOut
        /\ n[2] \in Int
    BY <1>2, DayAssumption DEF Nights, RoomNight
  <2>2. \A i, j, k \in Int : i <= j /\ j < k => i < k /\ i # k
    OBVIOUS
  <2>3. s.checkIn < t.checkOut /\ t.checkIn < s.checkOut
    BY <1>1, <2>1, <2>2
  <2>4. ~Empty(s) /\ ~Empty(t)
    BY <1>1, <2>1, <2>2 DEF Empty
  <2>5. QED
    BY <2>1, <2>3, <2>4 DEF Overlaps
<1>3. QED
  BY <1>2

\* The empty table is the empty calendar.
LEMMA CalendarInit == Init => Calendar!CalInit
<1> SUFFICES ASSUME Init PROVE Calendar!CalInit
  OBVIOUS
<1>1. \A b \in Booking : status[b] \notin ACTIVE_STATES /\ stay[b] = NULL
  BY DEF Init, ACTIVE_STATES, NoRow
<1>2. QED
  BY <1>1 DEF Calendar!CalInit, claim, booked

\* Every step on the bookings table claims, reclaims or releases room nights
\* of the calendar, or leaves it alone.
LEMMA CalendarStep ==
  TypeOK /\ RowsFilled /\ [Next]_vars => [Calendar!CalNext]_<<claim, booked>>
<1> SUFFICES ASSUME TypeOK, RowsFilled, [Next]_vars
             PROVE  [Calendar!CalNext]_<<claim, booked>>
  OBVIOUS
<1>1. CASE UNCHANGED <<status, stay>>
  BY <1>1 DEF claim, booked
<1>2. ASSUME NEW b \in Booking, NEW s \in Stay, SlotFree(b, s)
      PROVE  Calendar!Free(b, Nights(s))
  <2>1. SUFFICES ASSUME NEW c \in Booking \ {b}
                 PROVE  claim[c] \cap Nights(s) = {}
    BY DEF Calendar!Free
  <2>2. CASE status[c] \notin ACTIVE_STATES \/ stay[c] = NULL
    BY <2>2 DEF claim, booked
  <2>3. CASE status[c] \in ACTIVE_STATES /\ stay[c] # NULL
    <3>1. stay[c] \in Stay /\ ~Overlaps(stay[c], s)
      BY <1>2, <2>3 DEF TypeOK, SlotFree
    <3>2. claim[c] = Nights(stay[c])
      BY <2>3 DEF claim, booked
    <3>3. QED
      BY <3>1, <3>2, ApartSharesNoNight
  <2>4. QED
    BY <2>2, <2>3
<1>3. ASSUME NEW b, NEW st, WritesOne(b, st)
      PROVE  [Calendar!CalNext]_<<claim, booked>>
  <2>1. UNCHANGED booked
    BY <1>3 DEF WritesOne, booked
  <2>2. /\ \A c \in Booking \ {b} : claim'[c] = claim[c]
        /\ b \in Booking => claim'[b] = IF st \in ACTIVE_STATES THEN booked[b] ELSE {}
    BY <1>3, <2>1 DEF WritesOne, claim, TypeOK
  <2>3. /\ claim = [c \in Booking |-> claim[c]]
        /\ claim' = [c \in Booking |-> claim'[c]]
    BY DEF claim
  <2>4. CASE b \notin Booking \/ (b \in Booking /\ claim'[b] = claim[b])
    <3>1. claim' = claim
      BY <2>2, <2>3, <2>4
    <3>2. QED
      BY <2>1, <3>1
  <2>5. CASE b \in Booking /\ st \notin ACTIVE_STATES
    <3>1. claim' = [c \in Booking |-> IF c \in {b} THEN {} ELSE claim[c]]
      BY <2>2, <2>3, <2>5
    <3>2. QED
      BY <2>1, <3>1, <2>5 DEF Calendar!CalNext, Calendar!Release
  <2>6. CASE b \in Booking /\ st \in ACTIVE_STATES /\ claim'[b] # claim[b]
    <3>1. claim'[b] = booked[b] /\ claim[b] = {} /\ booked[b] # {}
      BY <2>2, <2>6 DEF claim
    <3>2. stay[b] \in Stay /\ booked[b] = Nights(stay[b])
      BY <2>6, <3>1 DEF booked, TypeOK
    <3>3. Calendar!Free(b, booked[b])
      BY <1>2, <1>3, <2>6, <3>2 DEF WritesOne, Accepts
    <3>4. claim' = [claim EXCEPT ![b] = booked[b]]
      BY <2>2, <2>3, <2>6, <3>1
    <3>5. QED
      BY <2>1, <2>6, <3>1, <3>3, <3>4 DEF Calendar!CalNext, Calendar!Reclaim
  <2>7. QED
    BY <2>4, <2>5, <2>6
<1>4. ASSUME NEW bs, ExpiresMany(bs)
      PROVE  [Calendar!CalNext]_<<claim, booked>>
  <2>1. UNCHANGED booked
    BY <1>4 DEF ExpiresMany, booked
  <2>2. claim' = [b \in Booking |-> IF b \in bs \cap Booking THEN {} ELSE claim[b]]
    BY <1>4, <2>1 DEF ExpiresMany, claim, ACTIVE_STATES
  <2>3. bs \cap Booking \in SUBSET Booking
    OBVIOUS
  <2>4. Calendar!Release(bs \cap Booking)
    BY <2>1, <2>2 DEF Calendar!Release
  <2>5. QED
    BY <2>3, <2>4 DEF Calendar!CalNext
<1>5. ASSUME NEW b \in Booking, NEW s \in Stay, Inserts(b, s)
      PROVE  [Calendar!CalNext]_<<claim, booked>>
  <2>1. stay[b] = NULL /\ s # NULL
    BY <1>5, NullAssumption DEF Inserts, RowsFilled
  <2>2. booked[b] = {} /\ booked' = [booked EXCEPT ![b] = Nights(s)]
    BY <1>5, <2>1 DEF Inserts, booked, TypeOK
  <2>3. claim[b] = {} /\ claim' = [claim EXCEPT ![b] = Nights(s)]
    <3>1. booked'[b] = Nights(s)
          /\ \A c \in Booking \ {b} : booked'[c] = booked[c]
      BY <2>2 DEF booked
    <3>2. status'[b] \in ACTIVE_STATES
          /\ \A c \in Booking \ {b} : status'[c] = status[c]
      BY <1>5 DEF Inserts, TypeOK, ACTIVE_STATES
    <3>3. QED
      BY <2>2, <3>1, <3>2 DEF claim
  <2>4. Nights(s) \in SUBSET RoomNight
    BY DEF Nights
  <2>5. CASE Nights(s) # {}
    <3>1. Calendar!Claim(b, Nights(s))
      BY <1>2, <1>5, <2>2, <2>3, <2>5 DEF Calendar!Claim, Inserts
    <3>2. QED
      BY <2>4, <3>1 DEF Calendar!CalNext
  <2>6. CASE Nights(s) = {}
    <3>1. booked' = booked
      BY <2>2, <2>6 DEF booked
    <3>2. claim' = claim
      BY <2>3, <2>6 DEF claim
    <3>3. QED
      BY <3>1, <3>2
  <2>7. QED
    BY <2>5, <2>6
<1>6. QED
  BY <1>1, <1>3, <1>4, <1>5, StatusSteps

\* The bookings table implements the room calendar: whatever requests, crons
\* and webhooks do to it, nights are claimed when free and given back whole.
THEOREM BookingsImplementCalendar == Spec => CalendarSpec
<1>1. Init => RowsFilled
  BY DEF Init, RowsFilled, Idle, AboutBooking
<1>2. TypeOK /\ RowsFilled /\ [Next]_vars => RowsFilled'
  BY FilledStep
<1>3. Spec => []RowsFilled
  BY <1>1, <1>2, TypeCorrect, PTL DEF Spec
<1>4. QED
  BY <1>3, CalendarInit, CalendarStep, TypeCorrect, PTL
     DEF Spec, CalendarSpec, Calendar!CalSpec

-----------------------------------------------------------------------------
(***************************************************************************)
(* Handlers that run one at a time.                                        *)
(***************************************************************************)

\* What the table of booking-state.ts says, as the handlers rely on it.
LEMMA Moves ==
  /\ \A st : canTransition(st, "CONFIRMED") <=> st = "PENDING"
  /\ \A st : canTransition(st, "EXPIRED") <=> st = "PENDING"
  /\ \A st : canTransition(st, "PAID") <=> st = "CONFIRMED"
  /\ \A st : canTransition(st, "CHECKED_IN") <=> st = "PAID"
  /\ \A st : canTransition(st, "CHECKED_OUT") <=> st = "CHECKED_IN"
  /\ canTransition("CONFIRMED", "CANCELLED")
  /\ \A from, to : canTransition(from, to) =>
       to \notin {NoRow, "PENDING"} /\ to \in TRANSITIONS[from]
BY DEF canTransition, TRANSITIONS, BookingStatus, NoRow

\* What a handler has read of its booking still holds when it acts on it.
ReadsHold(l) ==
  /\ l.at \in {"confirm", "confirmExpire", "initConfirm", "initExpire"} =>
       status[l.b] = "PENDING"
  /\ l.at \in {"initCreate", "initCall", "initFail", "paidTx", "paidCommit"} =>
       status[l.b] = "CONFIRMED"
  /\ l.at = "initCreate" => \A p \in Payment : payFor[p] # l.b
  /\ l.at \in {"cancel", "failTx", "failCommit"} =>
       canTransition(status[l.b], "CANCELLED")
  /\ l.at \in {"refundFind", "refundCall", "refundLedger"} =>
       status[l.b] = "CANCELLED"
  /\ l.at = "verifyCall" => l.st = status[l.b]
  /\ l.at = "transition" =>
       l.st \in ManualTarget /\ canTransition(status[l.b], l.st)
  /\ l.at = "sweep" => \A b \in l.bs : status[b] = "PENDING"

\* Only a booking that was confirmed has a payment.
PaymentsFollowConfirmation ==
  \A p \in Payment : payFor[p] # NULL =>
    pay[p] # NoRow /\ status[payFor[p]] \notin {NoRow, "PENDING", "EXPIRED"}

SerialInv ==
  /\ \A r \in Proc : ReadsHold(req[r])
  /\ PaymentsFollowConfirmation
  /\ OnePaymentPerBooking

\* A step of LegalTransitions.
LegalStep ==
  \A b \in Booking : status[b] # NoRow /\ status'[b] # status[b]
                       => status'[b] \in TRANSITIONS[status[b]]

\* A step of the only handler that writes no status and inserts no payment.
LEMMA SerialFrame ==
  ASSUME TypeOK, SerialInv, NEW solo, Proc = {solo},
         NEW l, Become(solo, l), ReadsHold(l), UNCHANGED <<status, payFor>>,
         \A p \in Payment : pay'[p] = NoRow <=> pay[p] = NoRow
  PROVE  SerialInv' /\ LegalStep
<1>1. req'[solo] = l
  BY OtherHandlers DEF TypeOK
<1>2. \A r \in Proc : ReadsHold(req[r])'
  BY <1>1 DEF ReadsHold
<1>3. QED
  BY <1>2 DEF SerialInv, PaymentsFollowConfirmation, OnePaymentPerBooking,
              LegalStep

\* A handler that is through holds no reading.
LEMMA NothingHeld ==
  ReadsHold(Idle) /\ \A bs : ReadsHold(AboutBookings("release", bs))
BY DEF ReadsHold, Idle, AboutBooking, AboutBookings

\* A step of the only handler that moves its booking along the table.
LEMMA SerialWrite ==
  ASSUME TypeOK, Linked, SerialInv, NEW solo, Proc = {solo},
         NEW b \in Booking, NEW st, canTransition(status[b], st),
         status' = [status EXCEPT ![b] = st], UNCHANGED payFor,
         \A p \in Payment : pay'[p] = NoRow <=> pay[p] = NoRow,
         NEW l, Become(solo, l), \A k : k = l => ReadsHold(k)'
  PROVE  SerialInv' /\ LegalStep
<1>1. req'[solo] = l
  BY OtherHandlers DEF TypeOK
<1>2. \A r \in Proc : ReadsHold(req[r])'
  BY <1>1
<1>3. status'[b] = st /\ \A c \in Booking \ {b} : status'[c] = status[c]
  BY DEF TypeOK
<1>4. LegalStep
  BY <1>3, Moves DEF LegalStep
<1>5. PaymentsFollowConfirmation'
  <2> SUFFICES ASSUME NEW p \in Payment, payFor[p] # NULL
               PROVE  pay'[p] # NoRow
                      /\ status'[payFor[p]] \notin {NoRow, "PENDING", "EXPIRED"}
    BY DEF PaymentsFollowConfirmation
  <2>1. pay[p] # NoRow /\ status[payFor[p]] \notin {NoRow, "PENDING", "EXPIRED"}
        /\ payFor[p] \in Booking
    BY DEF SerialInv, PaymentsFollowConfirmation, Linked
  <2>2. CASE payFor[p] = b
    BY <1>3, <2>1, <2>2, Moves
  <2>3. CASE payFor[p] # b
    BY <1>3, <2>1, <2>3
  <2>4. QED
    BY <2>2, <2>3
<1>6. OnePaymentPerBooking'
  BY DEF SerialInv, OnePaymentPerBooking
<1>7. QED
  BY <1>2, <1>4, <1>5, <1>6 DEF SerialInv

\* While one handler runs at a time, every step keeps what it has read and
\* moves bookings along the table only.
LEMMA SerialStep ==
  ASSUME TypeOK, Linked, SerialInv, [Next]_vars, NEW solo, Proc = {solo}
  PROVE  SerialInv' /\ LegalStep
<1> USE DEF paymentVars, bookingVars
<1>1. ReadsHold(req[solo]) /\ req[solo] \in Locals
  BY DEF SerialInv, TypeOK
<1>done. ASSUME NEW b \in Booking, NEW st, canTransition(status[b], st),
                status' = [status EXCEPT ![b] = st], UNCHANGED payFor,
                \A p \in Payment : pay'[p] = NoRow <=> pay[p] = NoRow,
                Finish(solo) \/ \E bs : GoRelease(solo, bs)
         PROVE  SerialInv' /\ LegalStep
  <2>1. \A k : (k = Idle \/ \E bs : k = AboutBookings("release", bs))
                 => ReadsHold(k)'
    BY DEF ReadsHold, Idle, AboutBooking, AboutBookings
  <2>2. QED
    BY <1>done, <2>1, SerialWrite DEF Finish, GoRelease
<1>idle. ASSUME Finish(solo) \/ (\E bs : GoRelease(solo, bs)),
                UNCHANGED <<status, payFor>>,
                \A p \in Payment : pay'[p] = NoRow <=> pay[p] = NoRow
         PROVE  SerialInv' /\ LegalStep
  BY <1>idle, NothingHeld, SerialFrame DEF Finish, GoRelease
<1>2. ASSUME NEW b \in Booking,
             \/ InitiateRead(solo, b) \/ ConfirmRead(solo, b)
             \/ \E percent \in RefundPercent : CancelRead(solo, b, percent)
             \/ \E target \in ManualTarget : TransitionRead(solo, b, target)
      PROVE  SerialInv' /\ LegalStep
  <2>1. PICK l : /\ Become(solo, l) /\ ReadsHold(l)
                 /\ UNCHANGED <<status, pay, payFor>>
    <3>1. CASE InitiateRead(solo, b) \/ ConfirmRead(solo, b)
      <4>1. status[b] = "PENDING"
        BY <3>1, Moves DEF InitiateRead, ConfirmRead
      <4>2. \A at \in {"confirm", "confirmExpire", "initConfirm", "initExpire"} :
              ReadsHold(AboutBooking(at, b))
        BY <4>1 DEF ReadsHold, AboutBooking
      <4>3. QED
        BY <3>1, <4>2 DEF InitiateRead, ConfirmRead, Begin
    <3>2. ASSUME NEW percent \in RefundPercent, CancelRead(solo, b, percent)
          PROVE  \E l : /\ Become(solo, l) /\ ReadsHold(l)
                        /\ UNCHANGED <<status, pay, payFor>>
      <4>1. \A pct : ReadsHold([AboutBooking("cancel", b) EXCEPT !.pct = pct])
        BY <3>2 DEF CancelRead, ReadsHold, AboutBooking
      <4>2. QED
        BY <3>2, <4>1 DEF CancelRead, Begin
    <3>3. ASSUME NEW target \in ManualTarget, TransitionRead(solo, b, target)
          PROVE  \E l : /\ Become(solo, l) /\ ReadsHold(l)
                        /\ UNCHANGED <<status, pay, payFor>>
      <4>1. ReadsHold([AboutBooking("transition", b) EXCEPT !.st = target])
        BY <3>3 DEF TransitionRead, ReadsHold, AboutBooking
      <4>2. QED
        BY <3>3, <4>1 DEF TransitionRead, Begin
    <3>4. QED
      BY <1>2, <3>1, <3>2, <3>3
  <2>2. QED
    BY <2>1, SerialFrame
<1>3. ASSUME NEW p \in Payment,
             WebhookSuccess(solo, p) \/ WebhookFailure(solo, p) \/ VerifyRead(solo, p)
      PROVE  SerialInv' /\ LegalStep
  <2>1. PICK l : /\ Become(solo, l) /\ ReadsHold(l)
                 /\ UNCHANGED <<status, pay, payFor>>
    <3>1. CASE WebhookSuccess(solo, p)
      <4>1. ReadsHold(AboutPayment("paidTx", p))
        BY <3>1, Moves DEF WebhookSuccess, ReadsHold, AboutPayment
      <4>2. QED
        BY <3>1, <4>1 DEF WebhookSuccess, Begin
    <3>2. CASE WebhookFailure(solo, p)
      <4>1. ReadsHold(AboutPayment("failTx", p))
        BY <3>2 DEF WebhookFailure, ReadsHold, AboutPayment
      <4>2. QED
        BY <3>2, <4>1 DEF WebhookFailure, Begin
    <3>3. CASE VerifyRead(solo, p)
      <4>1. ReadsHold([AboutPayment("verifyCall", p) EXCEPT
                         !.st = status[payFor[p]]])
        BY <3>3 DEF VerifyRead, ReadsHold, AboutPayment
      <4>2. QED
        BY <3>3, <4>1 DEF VerifyRead, Begin
    <3>4. QED
      BY <1>3, <3>1, <3>2, <3>3
  <2>2. QED
    BY <2>1, SerialFrame
<1>4. ASSUME VerifyCall(solo) \/ PaidTx(solo) \/ FailTx(solo)
      PROVE  SerialInv' /\ LegalStep
  <2>1. CASE Finish(solo)
    BY <1>4, <1>idle, <2>1 DEF VerifyCall, PaidTx, FailTx
  <2>2. CASE VerifyCall(solo) /\ canTransition(req[solo].st, "PAID")
             /\ Become(solo, AboutPayment("paidTx", req[solo].p))
    <3>1. req[solo].b = payFor[req[solo].p]
      BY <2>2 DEF Linked, VerifyCall, PaymentSteps
    <3>2. ReadsHold(AboutPayment("paidTx", req[solo].p))
      BY <1>1, <2>2, <3>1, Moves DEF VerifyCall, ReadsHold, AboutPayment
    <3>3. QED
      BY <2>2, <3>2, SerialFrame DEF VerifyCall
  <2>3. CASE \/ PaidTx(solo) /\ Continue(solo, "paidCommit")
             \/ FailTx(solo) /\ Continue(solo, "failCommit")
    <3>1. PICK to : /\ Become(solo, [req[solo] EXCEPT !.at = to])
                    /\ \/ to = "paidCommit" /\ req[solo].at = "paidTx"
                       \/ to = "failCommit" /\ req[solo].at = "failTx"
      BY <2>3 DEF Continue, PaidTx, FailTx
    <3>2. ReadsHold([req[solo] EXCEPT !.at = to])
      BY <1>1, <3>1 DEF ReadsHold, Locals
    <3>3. QED
      BY <1>4, <3>1, <3>2, SerialFrame DEF VerifyCall, PaidTx, FailTx
  <2>4. QED
    BY <1>4, <2>1, <2>2, <2>3 DEF VerifyCall, PaidTx, FailTx
<1>5. ASSUME RefundFind(solo) PROVE SerialInv' /\ LegalStep
  <2>1. CASE Finish(solo) \/ GoRelease(solo, {req[solo].b})
    BY <1>5, <1>idle, <2>1 DEF RefundFind
  <2>2. ASSUME NEW p \in Payment, payFor[p] = req[solo].b,
               Become(solo, [AboutPayment("refundCall", p) EXCEPT
                               !.pct = req[solo].pct])
        PROVE  SerialInv' /\ LegalStep
    <3>1. ReadsHold([AboutPayment("refundCall", p) EXCEPT !.pct = req[solo].pct])
      BY <1>1, <1>5, <2>2 DEF RefundFind, ReadsHold, AboutPayment
    <3>2. QED
      BY <1>5, <2>2, <3>1, SerialFrame DEF RefundFind
  <2>3. QED
    BY <1>5, <2>1, <2>2 DEF RefundFind
<1>6. ASSUME \/ InitiateExpire(solo) \/ ConfirmExpire(solo) \/ ConfirmWrite(solo)
             \/ TransitionWrite(solo)
      PROVE  SerialInv' /\ LegalStep
  <2>1. UNCHANGED <<pay, payFor>> /\ Finish(solo) /\ req[solo].b \in Booking
    BY <1>6 DEF InitiateExpire, ConfirmExpire, ConfirmWrite, TransitionWrite,
                Linked, BookingSteps
  <2>2. CASE UNCHANGED status
    BY <1>idle, <2>1, <2>2
  <2>3. ASSUME NEW st, canTransition(status[req[solo].b], st),
               status' = [status EXCEPT ![req[solo].b] = st]
        PROVE  SerialInv' /\ LegalStep
    BY <1>done, <2>1, <2>3
  <2>4. CASE InitiateExpire(solo) \/ ConfirmExpire(solo)
    BY <1>1, <2>3, <2>4, Moves
       DEF InitiateExpire, ConfirmExpire, WriteBooking, WriteRow, ReadsHold
  <2>5. CASE ConfirmWrite(solo)
    BY <1>1, <2>2, <2>3, <2>5, Moves DEF ConfirmWrite, WriteBooking, WriteRow, ReadsHold
  <2>6. CASE TransitionWrite(solo)
    BY <1>1, <2>2, <2>3, <2>6, Moves
       DEF TransitionWrite, WriteByHand, WriteRow, ReadsHold
  <2>7. QED
    BY <1>6, <2>4, <2>5, <2>6
<1>7. ASSUME InitiateFail(solo) \/ PaidCommit(solo) \/ FailCommit(solo)
      PROVE  SerialInv' /\ LegalStep
  <2>1. /\ req[solo].p \in Payment /\ pay[req[solo].p] # NoRow
        /\ req[solo].b \in Booking /\ UNCHANGED payFor
        /\ Finish(solo) \/ GoRelease(solo, {req[solo].b})
    BY <1>7 DEF Linked, InitiateFail, PaidCommit, FailCommit, PaymentSteps
  <2>2. \A p \in Payment : pay'[p] = NoRow <=> pay[p] = NoRow
    BY <1>7, <2>1, SameRows DEF InitiateFail, PaidCommit, FailCommit
  <2>3. CASE UNCHANGED status
    BY <1>idle, <2>1, <2>2, <2>3
  <2>4. ASSUME NEW st, canTransition(status[req[solo].b], st),
               status' = [status EXCEPT ![req[solo].b] = st]
        PROVE  SerialInv' /\ LegalStep
    BY <1>done, <2>1, <2>2, <2>4
  <2>5. CASE InitiateFail(solo) \/ FailCommit(solo)
    BY <1>1, <2>4, <2>5, Moves
       DEF InitiateFail, FailCommit, WriteBooking, WriteRow, ReadsHold
  <2>6. CASE PaidCommit(solo)
    BY <1>1, <2>3, <2>4, <2>6, Moves DEF PaidCommit, WriteBooking, WriteRow, ReadsHold
  <2>7. QED
    BY <1>7, <2>5, <2>6
<1>8. ASSUME InitiateConfirm(solo) PROVE SerialInv' /\ LegalStep
  <2>1. /\ UNCHANGED <<pay, payFor>> /\ req[solo].b \in Booking
        /\ status[req[solo].b] = "PENDING"
    BY <1>1, <1>8 DEF InitiateConfirm, Linked, BookingSteps, ReadsHold
  <2>2. CASE Finish(solo) /\ UNCHANGED bookingVars
    BY <1>idle, <2>1, <2>2
  <2>3. CASE /\ status' = [status EXCEPT ![req[solo].b] = "CONFIRMED"]
             /\ Continue(solo, "initCreate")
    <3>1. PICK l : Become(solo, l) /\ l.at = "initCreate" /\ l.b = req[solo].b
      BY <1>1, <2>3 DEF Continue, Locals
    <3>2. status'[l.b] = "CONFIRMED"
      BY <2>1, <2>3, <3>1 DEF TypeOK
    <3>3. \A p \in Payment : payFor[p] # l.b
      BY <2>1, <3>1, NullAssumption DEF SerialInv, PaymentsFollowConfirmation
    <3>4. \A k : k = l => ReadsHold(k)'
      BY <2>1, <3>1, <3>2, <3>3 DEF ReadsHold
    <3>5. QED
      BY <2>1, <2>3, <3>1, <3>4, Moves, SerialWrite
  <2>4. QED
    BY <1>8, <2>2, <2>3 DEF InitiateConfirm, WriteBooking, WriteRow
<1>9. ASSUME CancelWrite(solo) PROVE SerialInv' /\ LegalStep
  <2>1. /\ UNCHANGED <<pay, payFor>> /\ req[solo].b \in Booking
        /\ canTransition(status[req[solo].b], "CANCELLED")
        /\ status' = [status EXCEPT ![req[solo].b] = "CANCELLED"]
    BY <1>1, <1>9 DEF CancelWrite, WriteBooking, WriteRow, Linked, BookingSteps, ReadsHold
  <2>2. CASE GoRelease(solo, {req[solo].b})
    BY <1>done, <2>1, <2>2
  <2>3. CASE Continue(solo, "refundFind")
    <3>1. PICK l : Become(solo, l) /\ l.at = "refundFind" /\ l.b = req[solo].b
      BY <1>1, <2>3 DEF Continue, Locals
    <3>2. status'[l.b] = "CANCELLED"
      BY <2>1, <3>1 DEF TypeOK
    <3>3. \A k : k = l => ReadsHold(k)'
      BY <3>1, <3>2 DEF ReadsHold
    <3>4. QED
      BY <2>1, <3>1, <3>3, SerialWrite
  <2>4. QED
    BY <1>9, <2>2, <2>3 DEF CancelWrite
<1>10. ASSUME NEW p \in Payment, InitiateCreate(solo, p)
       PROVE  SerialInv' /\ LegalStep
  <2>1. /\ req[solo].b \in Booking /\ status[req[solo].b] = "CONFIRMED"
        /\ \A q \in Payment : payFor[q] # req[solo].b
        /\ UNCHANGED status
    BY <1>1, <1>10 DEF InitiateCreate, Linked, BookingSteps, ReadsHold
  <2>2. /\ pay'[p] = "INITIATED" /\ payFor'[p] = req[solo].b
        /\ \A q \in Payment \ {p} : pay'[q] = pay[q] /\ payFor'[q] = payFor[q]
    BY <1>10 DEF InitiateCreate, TypeOK
  <2>3. PICK l : Become(solo, l) /\ l.at = "initCall" /\ l.b = req[solo].b
    BY <1>10 DEF InitiateCreate, AboutBooking
  <2>4. req'[solo] = l
    BY <2>3, OtherHandlers DEF TypeOK
  <2>5. ReadsHold(req[solo])'
    BY <2>1, <2>3, <2>4 DEF ReadsHold
  <2>6. PaymentsFollowConfirmation'
    BY <2>1, <2>2 DEF SerialInv, PaymentsFollowConfirmation, NoRow
  <2>7. OnePaymentPerBooking'
    BY <2>1, <2>2 DEF SerialInv, OnePaymentPerBooking
  <2>8. QED
    BY <2>1, <2>5, <2>6, <2>7 DEF SerialInv, LegalStep
<1>11. ASSUME InitiateCall(solo) \/ RefundCall(solo)
       PROVE  SerialInv' /\ LegalStep
  <2>1. UNCHANGED <<status, pay, payFor>>
    BY <1>11 DEF InitiateCall, RefundCall
  <2>2. CASE Finish(solo)
    BY <1>idle, <2>1, <2>2
  <2>3. CASE \/ InitiateCall(solo) /\ Continue(solo, "initFail")
             \/ RefundCall(solo) /\ Continue(solo, "refundLedger")
    <3>1. PICK to : /\ Become(solo, [req[solo] EXCEPT !.at = to])
                    /\ \/ to = "initFail" /\ req[solo].at = "initCall"
                       \/ to = "refundLedger" /\ req[solo].at = "refundCall"
      BY <2>3 DEF Continue, InitiateCall, RefundCall
    <3>2. ReadsHold([req[solo] EXCEPT !.at = to])
      BY <1>1, <3>1 DEF ReadsHold, Locals
    <3>3. QED
      BY <2>1, <3>1, <3>2, SerialFrame
  <2>4. QED
    BY <1>11, <2>2, <2>3 DEF InitiateCall, RefundCall
<1>12. ASSUME RefundLedger(solo) PROVE SerialInv' /\ LegalStep
  <2>1. /\ req[solo].p \in Payment /\ pay[req[solo].p] # NoRow
        /\ UNCHANGED <<status, payFor>>
        /\ Finish(solo) \/ GoRelease(solo, {req[solo].b})
    BY <1>12 DEF Linked, RefundLedger, PaymentSteps
  <2>2. \A p \in Payment : pay'[p] = NoRow <=> pay[p] = NoRow
    BY <1>12, <2>1, SameRows DEF RefundLedger
  <2>3. QED
    BY <1>idle, <2>1, <2>2
<1>13. ASSUME SweepRead(solo) PROVE SerialInv' /\ LegalStep
  <2>1. PICK bs : /\ Become(solo, AboutBookings("sweep", bs))
                  /\ \A b \in bs : status[b] = "PENDING"
    BY <1>13 DEF SweepRead, Begin
  <2>2. ReadsHold(AboutBookings("sweep", bs))
    BY <2>1 DEF ReadsHold, AboutBookings
  <2>3. QED
    BY <1>13, <2>1, <2>2, SerialFrame DEF SweepRead
<1>14. ASSUME SweepWrite(solo) PROVE SerialInv' /\ LegalStep
  <2>1. /\ UNCHANGED <<pay, payFor>>
        /\ \A b \in req[solo].bs : status[b] = "PENDING"
        /\ \A b \in Booking : status'[b] =
             IF b \in req[solo].bs THEN "EXPIRED" ELSE status[b]
    BY <1>1, <1>14 DEF SweepWrite, ReadsHold
  <2>2. PICK l : Become(solo, l) /\ l.at = "release"
    BY <1>1, <1>14 DEF SweepWrite, Continue, Locals
  <2>3. req'[solo] = l
    BY <2>2, OtherHandlers DEF TypeOK
  <2>4. ReadsHold(req[solo])'
    BY <2>2, <2>3 DEF ReadsHold
  <2>5. LegalStep
    BY <2>1, Moves DEF LegalStep
  <2>6. PaymentsFollowConfirmation' /\ OnePaymentPerBooking'
    BY <2>1 DEF SerialInv, PaymentsFollowConfirmation, OnePaymentPerBooking, Linked
  <2>7. QED
    BY <2>4, <2>5, <2>6 DEF SerialInv
<1>15. ASSUME PublishReleased(solo) \/ Crash(solo)
       PROVE  SerialInv' /\ LegalStep
  BY <1>idle, <1>15 DEF PublishReleased, Crash
<1>16. ASSUME NEW b \in Booking, NEW s \in Asked, Create(b, s)
       PROVE  SerialInv' /\ LegalStep
  <2>1. /\ status[b] = NoRow /\ UNCHANGED <<pay, payFor, req>>
        /\ \A c \in Booking \ {b} : status'[c] = status[c]
    BY <1>16 DEF Create, TypeOK
  <2>2. \A p \in Payment : payFor[p] # NULL => payFor[p] \in Booking \ {b}
    BY <2>1 DEF SerialInv, PaymentsFollowConfirmation, Linked
  <2>3. ASSUME req[solo].at \in BookingSteps \cup PaymentSteps
        PROVE  req[solo].b \in Booking \ {b}
    <3>1. CASE req[solo].at \in PaymentSteps
      BY <2>2, <3>1, NullAssumption DEF Linked
    <3>2. CASE req[solo].at \in BookingSteps
      BY <1>1, <2>1, <3>2, StatusTypes DEF Linked, ReadsHold, BookingSteps, NoRow
    <3>3. QED
      BY <2>3, <3>1, <3>2
  <2>4. ReadsHold(req[solo])'
    <3>1. req[solo].at = "sweep" => \A c \in req[solo].bs : c \in Booking \ {b}
      BY <1>1, <2>1 DEF ReadsHold, Locals, NoRow
    <3>2. QED
      BY <1>1, <2>1, <2>3, <3>1 DEF ReadsHold, BookingSteps, PaymentSteps
  <2>5. PaymentsFollowConfirmation' /\ OnePaymentPerBooking'
    BY <2>1, <2>2 DEF SerialInv, PaymentsFollowConfirmation, OnePaymentPerBooking
  <2>6. QED
    BY <2>1, <2>4, <2>5 DEF SerialInv, LegalStep
<1>17. ASSUME UNCHANGED <<status, pay, payFor, req>>
       PROVE  SerialInv' /\ LegalStep
  BY <1>17 DEF SerialInv, ReadsHold, PaymentsFollowConfirmation,
               OnePaymentPerBooking, LegalStep
<1>18. QED
  <2>1. \A r \in Request : r = solo
    BY DEF Proc
  <2>2. CASE Environment \/ UNCHANGED vars
    BY <2>2, <1>16, <1>17
       DEF Environment, HoldLapses, GuestPays, GuestDeclines, vars
  <2>3. ASSUME NEW r \in Request, Arrive(r) PROVE SerialInv' /\ LegalStep
    BY <2>1, <2>3, <1>2, <1>3 DEF Arrive
  <2>4. CASE HandlerStep(solo)
    BY <2>4, <1>4, <1>5, <1>6, <1>7, <1>8, <1>9, <1>10, <1>11, <1>12, <1>14,
       <1>15
       DEF HandlerStep
  <2>5. QED
    BY <2>2, <2>3, <2>4, <1>13, <1>15 DEF Next

\* The statuses of a guest who was let in, or may be.
Entitled == {"PAID", "CHECKED_IN", "CHECKED_OUT"}

\* A step that leaves the payments of other bookings as they are only has to
\* answer for its own booking.
LEMMA PaidFrame ==
  ASSUME PaidHasPayment, NEW b, byHand \subseteq byHand',
         \A c \in Booking \ {b} : status'[c] \in Entitled => status'[c] = status[c],
         \A p \in Payment : payFor[p] # b /\ pay[p] = "SUCCESS"
                               => pay'[p] = "SUCCESS" /\ payFor'[p] = payFor[p],
         status'[b] \in Entitled =>
           b \in byHand' \/ \E p \in Payment : payFor'[p] = b /\ pay'[p] = "SUCCESS"
  PROVE  PaidHasPayment'
BY DEF PaidHasPayment, Entitled

\* While one handler runs at a time, every step leaves the guests let in with a
\* payment that succeeded, or marked as paid by staff.
LEMMA PaidStep ==
  ASSUME TypeOK, Linked, SerialInv, PaidHasPayment, [Next]_vars,
         NEW solo, Proc = {solo}
  PROVE  PaidHasPayment'
<1> USE DEF paymentVars, bookingVars
<1>1. ReadsHold(req[solo])
  BY DEF SerialInv
<1>2. ASSUME UNCHANGED <<status, byHand, pay, payFor>>
      PROVE  PaidHasPayment'
  BY <1>2 DEF PaidHasPayment
<1>3. ASSUME NEW b \in Booking, NEW st, st \notin Entitled,
             status' = [status EXCEPT ![b] = st], byHand \subseteq byHand',
             payFor' = payFor, \A p \in Payment : payFor[p] # b => pay'[p] = pay[p]
      PROVE  PaidHasPayment'
  <2>1. status'[b] \notin Entitled
        /\ \A c \in Booking \ {b} : status'[c] = status[c]
    BY <1>3 DEF TypeOK
  <2>2. \A p \in Payment : payFor[p] # b /\ pay[p] = "SUCCESS"
                             => pay'[p] = "SUCCESS" /\ payFor'[p] = payFor[p]
    BY <1>3
  <2>3. QED
    BY <1>3, <2>1, <2>2, PaidFrame
<1>4. CASE InitiateExpire(solo) \/ ConfirmExpire(solo) \/ ConfirmWrite(solo)
           \/ InitiateConfirm(solo) \/ CancelWrite(solo)
  <2>1. UNCHANGED <<pay, payFor, byHand>> /\ req[solo].b \in Booking
    BY <1>4 DEF InitiateExpire, ConfirmExpire, ConfirmWrite, InitiateConfirm,
                CancelWrite, WriteBooking, Linked, BookingSteps
  <2>2. UNCHANGED status \/ \E st \in {"EXPIRED", "CONFIRMED", "CANCELLED"} :
                              status' = [status EXCEPT ![req[solo].b] = st]
    BY <1>4 DEF InitiateExpire, ConfirmExpire, ConfirmWrite, InitiateConfirm,
                CancelWrite, WriteBooking, WriteRow
  <2>3. QED
    BY <1>2, <1>3, <2>1, <2>2 DEF Entitled
<1>5. CASE TransitionWrite(solo)
  <2>1. /\ UNCHANGED <<pay, payFor>> /\ req[solo].b \in Booking
        /\ canTransition(status[req[solo].b], req[solo].st)
    BY <1>1, <1>5 DEF TransitionWrite, Linked, BookingSteps, ReadsHold
  <2>2. CASE UNCHANGED bookingVars
    BY <1>2, <2>1, <2>2
  <2>3. CASE WriteByHand(req[solo].b, req[solo].st, hold[req[solo].b])
    <3>1. /\ status' = [status EXCEPT ![req[solo].b] = req[solo].st]
          /\ byHand \subseteq byHand'
          /\ req[solo].st = "PAID" => req[solo].b \in byHand'
      BY <2>3 DEF WriteByHand, WriteRow
    <3>2. CASE req[solo].st \notin Entitled
      BY <1>3, <2>1, <3>1, <3>2
    <3>3. CASE req[solo].st \in {"CHECKED_IN", "CHECKED_OUT"}
      <4>1. status[req[solo].b] \in Entitled
        BY <2>1, <3>3, Moves DEF Entitled
      <4>2. \/ req[solo].b \in byHand
            \/ \E p \in Payment : payFor[p] = req[solo].b /\ pay[p] = "SUCCESS"
        BY <2>1, <4>1 DEF PaidHasPayment, Entitled
      <4>3. \A c \in Booking \ {req[solo].b} : status'[c] = status[c]
        BY <3>1 DEF TypeOK
      <4>4. QED
        BY <2>1, <3>1, <4>2, <4>3, PaidFrame
    <3>4. CASE req[solo].st = "PAID"
      <4>1. \A c \in Booking \ {req[solo].b} : status'[c] = status[c]
        BY <3>1 DEF TypeOK
      <4>2. QED
        BY <2>1, <3>1, <3>4, <4>1, PaidFrame
    <3>5. QED
      BY <3>2, <3>3, <3>4 DEF Entitled
  <2>4. QED
    BY <1>5, <2>2, <2>3 DEF TransitionWrite
<1>6. CASE InitiateFail(solo) \/ FailCommit(solo)
  <2>1. /\ req[solo].p \in Payment /\ req[solo].b \in Booking
        /\ req[solo].b = payFor[req[solo].p] /\ UNCHANGED <<payFor, byHand>>
        /\ pay' = [pay EXCEPT ![req[solo].p] = "FAILED"]
        /\ status' = [status EXCEPT ![req[solo].b] = "CANCELLED"]
    BY <1>6 DEF InitiateFail, FailCommit, WriteBooking, WriteRow, Linked, PaymentSteps
  <2>2. \A p \in Payment : payFor[p] # req[solo].b => pay'[p] = pay[p]
    BY <2>1 DEF TypeOK
  <2>3. "CANCELLED" \notin Entitled
    BY DEF Entitled
  <2>4. QED
    BY <1>3, <2>1, <2>2, <2>3
<1>7. CASE PaidCommit(solo)
  <2>1. /\ req[solo].p \in Payment /\ req[solo].b \in Booking
        /\ req[solo].b = payFor[req[solo].p] /\ UNCHANGED <<payFor, byHand>>
    BY <1>7 DEF PaidCommit, WriteBooking, Linked, PaymentSteps
  <2>2. CASE UNCHANGED <<status, pay>>
    BY <1>2, <2>1, <2>2
  <2>3. CASE /\ pay' = [pay EXCEPT ![req[solo].p] = "SUCCESS"]
             /\ status' = [status EXCEPT ![req[solo].b] = "PAID"]
    <3>1. /\ pay'[req[solo].p] = "SUCCESS"
          /\ \A p \in Payment \ {req[solo].p} : pay'[p] = pay[p]
          /\ \A c \in Booking \ {req[solo].b} : status'[c] = status[c]
      BY <2>1, <2>3 DEF TypeOK
    <3>2. QED
      BY <2>1, <3>1, PaidFrame
  <2>4. QED
    BY <1>7, <2>2, <2>3 DEF PaidCommit, WriteBooking, WriteRow
<1>8. CASE RefundLedger(solo)
  <2>1. /\ req[solo].p \in Payment /\ req[solo].b = payFor[req[solo].p]
        /\ status[req[solo].b] = "CANCELLED"
        /\ UNCHANGED <<status, byHand, payFor>>
    BY <1>1, <1>8 DEF RefundLedger, Linked, PaymentSteps, ReadsHold
  <2>2. \A p \in Payment : payFor[p] # req[solo].b => pay'[p] = pay[p]
    BY <1>8, <2>1 DEF RefundLedger, TypeOK
  <2>3. QED
    BY <2>1, <2>2, PaidFrame DEF Entitled
<1>9. ASSUME NEW p \in Payment, InitiateCreate(solo, p) PROVE PaidHasPayment'
  <2>1. /\ pay[p] # "SUCCESS" /\ UNCHANGED <<status, byHand>>
        /\ \A q \in Payment \ {p} : pay'[q] = pay[q] /\ payFor'[q] = payFor[q]
    BY <1>9 DEF InitiateCreate, TypeOK, NoRow
  <2>2. QED
    BY <2>1 DEF PaidHasPayment
<1>10. CASE SweepWrite(solo)
  <2>1. /\ UNCHANGED <<pay, payFor, byHand>>
        /\ \A b \in Booking : status'[b] = status[b] \/ status'[b] = "EXPIRED"
    BY <1>10 DEF SweepWrite
  <2>2. QED
    BY <2>1 DEF PaidHasPayment
<1>11. ASSUME NEW b \in Booking, NEW s \in Asked, Create(b, s)
       PROVE  PaidHasPayment'
  <2>1. UNCHANGED <<pay, payFor, byHand>>
        /\ status' = [status EXCEPT ![b] = "PENDING"]
    BY <1>11 DEF Create
  <2>2. QED
    BY <1>3, <2>1 DEF Entitled
<1>12. ASSUME NEW r \in Proc, Arrive(r) \/ SweepRead(r) \/ Crash(r)
       PROVE  PaidHasPayment'
  BY <1>2, <1>12
     DEF Arrive, InitiateRead, ConfirmRead, CancelRead, TransitionRead,
         WebhookSuccess, WebhookFailure, VerifyRead, SweepRead, Crash
<1>13. CASE VerifyCall(solo) \/ PaidTx(solo) \/ FailTx(solo) \/ RefundFind(solo)
            \/ InitiateCall(solo) \/ RefundCall(solo) \/ PublishReleased(solo)
  BY <1>2, <1>13 DEF VerifyCall, PaidTx, FailTx, RefundFind, InitiateCall,
                     RefundCall, PublishReleased
<1>14. QED
  <2>1. CASE Environment \/ UNCHANGED vars
    BY <2>1, <1>2, <1>11
       DEF Environment, HoldLapses, GuestPays, GuestDeclines, vars
  <2>2. CASE HandlerStep(solo)
    BY <2>2, <1>4, <1>5, <1>6, <1>7, <1>8, <1>9, <1>10, <1>13 DEF HandlerStep
  <2>3. \A r \in Request : r \in Proc
    BY DEF Proc
  <2>4. QED
    BY <2>1, <2>2, <2>3, <1>12 DEF Next

\* While one handler runs at a time, every step leaves both tables telling one
\* story: bookings move on along the table only, and a payment's status is
\* written together with that of its booking.
LEMMA TablesStep ==
  ASSUME TypeOK, Linked, SerialInv, TablesAgree, [Next]_vars,
         NEW solo, Proc = {solo}
  PROVE  TablesAgree'
<1> USE DEF paymentVars
<1>1. LegalStep
  BY SerialStep
<1>2. ASSUME NEW p \in Payment, pay'[p] = pay[p], payFor'[p] = payFor[p]
      PROVE  /\ pay'[p] \in {"FAILED", "REFUNDED"} => status'[payFor'[p]] = "CANCELLED"
             /\ pay'[p] = "SUCCESS" => status'[payFor'[p]] \in
                  {"PAID", "CHECKED_IN", "CHECKED_OUT", "CANCELLED"}
  <2>1. pay[p] # NoRow => payFor[p] \in Booking
    BY DEF Linked
  <2>2. /\ \A to : to \notin TRANSITIONS["CANCELLED"]
        /\ \A to : to \notin TRANSITIONS["CHECKED_OUT"]
        /\ \A to \in TRANSITIONS["CHECKED_IN"] : to \in {"CHECKED_OUT", "CANCELLED"}
        /\ \A to \in TRANSITIONS["PAID"] : to \in {"CHECKED_IN", "CANCELLED"}
    BY DEF TRANSITIONS, BookingStatus
  <2>3. QED
    BY <1>1, <1>2, <2>1, <2>2 DEF TablesAgree, LegalStep, NoRow
<1>3. ASSUME NEW p \in Payment, \A q \in Payment \ {p} : /\ pay'[q] = pay[q]
                                                        /\ payFor'[q] = payFor[q],
             /\ pay'[p] \in {"FAILED", "REFUNDED"} => status'[payFor'[p]] = "CANCELLED"
             /\ pay'[p] = "SUCCESS" => status'[payFor'[p]] \in
                  {"PAID", "CHECKED_IN", "CHECKED_OUT", "CANCELLED"}
      PROVE  TablesAgree'
  BY <1>2, <1>3 DEF TablesAgree
<1>4. ASSUME UNCHANGED <<pay, payFor>> PROVE TablesAgree'
  BY <1>2, <1>4 DEF TablesAgree
<1>5. CASE InitiateFail(solo) \/ FailCommit(solo) \/ PaidCommit(solo)
  <2>1. /\ req[solo].p \in Payment /\ req[solo].b \in Booking
        /\ req[solo].b = payFor[req[solo].p] /\ UNCHANGED payFor
    BY <1>5 DEF InitiateFail, FailCommit, PaidCommit, Linked, PaymentSteps
  <2>2. CASE UNCHANGED pay
    BY <1>4, <2>1, <2>2
  <2>3. ASSUME NEW st, NEW ps,
               <<ps, st>> \in {<<"FAILED", "CANCELLED">>, <<"SUCCESS", "PAID">>},
               pay' = [pay EXCEPT ![req[solo].p] = ps],
               status' = [status EXCEPT ![req[solo].b] = st]
        PROVE  TablesAgree'
    <3>1. /\ pay'[req[solo].p] = ps /\ status'[payFor'[req[solo].p]] = st
          /\ \A q \in Payment \ {req[solo].p} : pay'[q] = pay[q]
      BY <2>1, <2>3 DEF TypeOK
    <3>2. QED
      BY <1>3, <2>1, <2>3, <3>1
  <2>4. QED
    BY <1>5, <2>2, <2>3 DEF InitiateFail, FailCommit, PaidCommit, WriteBooking,
                            WriteRow
<1>6. CASE RefundLedger(solo)
  <2>1. /\ req[solo].p \in Payment /\ req[solo].b = payFor[req[solo].p]
        /\ status[req[solo].b] = "CANCELLED" /\ UNCHANGED <<status, payFor>>
    BY <1>6 DEF RefundLedger, Linked, PaymentSteps, SerialInv, ReadsHold,
                bookingVars
  <2>2. \A q \in Payment \ {req[solo].p} : pay'[q] = pay[q]
    BY <1>6 DEF RefundLedger, TypeOK
  <2>3. QED
    BY <1>3, <2>1, <2>2
<1>7. ASSUME NEW p \in Payment, InitiateCreate(solo, p) PROVE TablesAgree'
  <2>1. /\ pay'[p] = "INITIATED"
        /\ \A q \in Payment \ {p} : pay'[q] = pay[q] /\ payFor'[q] = payFor[q]
    BY <1>7 DEF InitiateCreate, TypeOK
  <2>2. QED
    BY <1>3, <2>1
<1>8. CASE \/ InitiateExpire(solo) \/ InitiateConfirm(solo) \/ InitiateCall(solo)
           \/ VerifyCall(solo) \/ PaidTx(solo) \/ FailTx(solo) \/ RefundFind(solo)
           \/ RefundCall(solo) \/ TransitionWrite(solo) \/ ConfirmExpire(solo)
           \/ ConfirmWrite(solo) \/ CancelWrite(solo) \/ SweepWrite(solo)
           \/ PublishReleased(solo)
  BY <1>4, <1>8 DEF InitiateExpire, InitiateConfirm, InitiateCall, VerifyCall,
     PaidTx, FailTx, RefundFind, RefundCall, TransitionWrite, ConfirmExpire,
     ConfirmWrite, CancelWrite, SweepWrite, PublishReleased
<1>9. ASSUME NEW r \in Proc, Arrive(r) \/ SweepRead(r) \/ Crash(r)
      PROVE  TablesAgree'
  BY <1>4, <1>9 DEF Arrive, InitiateRead, ConfirmRead, CancelRead, TransitionRead,
     WebhookSuccess, WebhookFailure, VerifyRead, SweepRead, Crash
<1>10. CASE Environment \/ UNCHANGED vars
  BY <1>4, <1>10
     DEF Environment, HoldLapses, Create, GuestPays, GuestDeclines, vars
<1>11. QED
  <2>1. \A r \in Request : r \in Proc
    BY DEF Proc
  <2>2. HandlerStep(solo) => TablesAgree'
    BY <1>5, <1>6, <1>7, <1>8 DEF HandlerStep
  <2>3. QED
    BY <2>1, <2>2, <1>9, <1>10 DEF Next

\* Empty tables and an idle handler: nothing read, no payment, nobody let in.
LEMMA SerialInit == Init => SerialInv /\ PaidHasPayment /\ TablesAgree
BY DEF Init, SerialInv, ReadsHold, PaymentsFollowConfirmation, TablesAgree,
       OnePaymentPerBooking, PaidHasPayment, NoRow, Idle, AboutBooking

\* What the handlers have read still holds when they write, as long as one
\* runs at a time: the inductive invariant behind the next four theorems.
THEOREM SerialCorrect ==
  ASSUME NEW solo, Proc = {solo}
  PROVE  Spec => [](TypeOK /\ Linked /\ SerialInv)
<1>1. TypeOK /\ Linked /\ SerialInv /\ [Next]_vars
        => (TypeOK /\ Linked /\ SerialInv)'
  BY TypeStep, LinkedStep, SerialStep
<1>2. QED
  BY <1>1, InitTypes, SerialInit, PTL DEF Spec

\* Handlers that run one at a time change statuses only along the table of
\* booking-state.ts, whatever crashes leave behind.
THEOREM SerialTransitionsAreLegal ==
  ASSUME NEW solo, Proc = {solo}
  PROVE  Spec => LegalTransitions
<1>1. TypeOK /\ Linked /\ SerialInv /\ [Next]_vars => [LegalStep]_vars
  BY SerialStep
<1>2. Spec => [](TypeOK /\ Linked /\ SerialInv)
  BY SerialCorrect
<1>3. QED
  BY <1>1, <1>2, PTL DEF Spec, LegalTransitions, LegalStep

\* Handlers that run one at a time charge a booking through one payment.
THEOREM SerialChargesOnce ==
  ASSUME NEW solo, Proc = {solo}
  PROVE  Spec => []OnePaymentPerBooking
<1>1. SerialInv => OnePaymentPerBooking
  BY DEF SerialInv
<1>2. QED
  BY <1>1, SerialCorrect, PTL

\* Handlers that run one at a time let nobody in without a payment on record,
\* unless staff marked that booking as paid.
THEOREM SerialEntryIsPaid ==
  ASSUME NEW solo, Proc = {solo}
  PROVE  Spec => []PaidHasPayment
<1>1. TypeOK /\ Linked /\ SerialInv /\ PaidHasPayment /\ [Next]_vars
        => PaidHasPayment'
  BY PaidStep
<1>2. Spec => [](TypeOK /\ Linked /\ SerialInv)
  BY SerialCorrect
<1>3. QED
  BY <1>1, <1>2, SerialInit, PTL DEF Spec

\* Handlers that run one at a time leave the payments and the bookings table
\* agreed, wherever they crash.
THEOREM SerialTablesAgree ==
  ASSUME NEW solo, Proc = {solo}
  PROVE  Spec => []TablesAgree
<1>1. TypeOK /\ Linked /\ SerialInv /\ TablesAgree /\ [Next]_vars
        => TablesAgree'
  BY TablesStep
<1>2. Spec => [](TypeOK /\ Linked /\ SerialInv)
  BY SerialCorrect
<1>3. QED
  BY <1>1, <1>2, SerialInit, PTL DEF Spec

=============================================================================
