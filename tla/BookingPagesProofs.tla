-------------------------- MODULE BookingPagesProofs -------------------------
(***************************************************************************)
(* The theorems of the pages around a booking and of its review.  Every    *)
(* step of a page is a step of the reservation core or leaves it alone, so *)
(* the pages implement the core and all its theorems hold under them; what *)
(* the pages tell the guest then follows from what the handler they wait   *)
(* for has read, however many other handlers run meanwhile.                *)
(***************************************************************************)
EXTENDS BookingPages, Reviews, ReservationsProofs

-----------------------------------------------------------------------------
(* The invariant.                                                          *)

\* The steps of the three handlers a page waits for.
CancelSteps == {"cancel", "refundFind", "refundCall", "refundLedger"}
CallSteps == {"initConfirm", "initExpire", "initCreate", "initCall", "initFail",
              "verifyCall", "paidTx", "paidCommit", "release"} \cup CancelSteps

\* A handler goes on to a refund only when there is one to pay.
RefundsPositive ==
  \A r \in Proc : req[r].at \in {"refundFind", "refundCall", "refundLedger"}
                    => req[r].pct > 0

\* A payment has its booking from the start.
FreshIsFree == \A p \in Payment : pay[p] = NoRow => payFor[p] = NULL

\* The provider has paid the guest back, or the success of the guest's payment
\* was overwritten; and what a cancellation that owes a refund rests on.
PaidOut ==
  \E p \in Payment : payFor[p] = Mine /\ (refunds[p] > 0 \/ p \in overwritten)
Backed ==
  PaidOut \/ \E p \in Payment : payFor[p] = Mine /\ pay[p] = "SUCCESS"

\* What holds of the handler with locals l while the page waits for it.
Sound(l) ==
  /\ l.at \in CallSteps
  /\ l.at # "release" => l.b = Mine
  /\ tab.at = "callback" /\ l.st = "PAID" => PaidFor(Mine)
  /\ l.at \in CancelSteps => l.pct = tab.owed
  /\ l.at = "release" /\ tab.owed > 0 => PaidOut

TabInv ==
  /\ tab.call # NULL => Sound(req[tab.call])
  /\ tab.at = "provider" =>
       tab.call = NULL /\ tab.p \in Payment /\ payFor[tab.p] = Mine
  /\ tab.owed > 0 => Backed
  /\ tab.told => tab.shown = "CANCELLED" /\ ~tab.panel

PagesInv ==
  /\ LedgerInv /\ RefundsPositive /\ FreshIsFree
  /\ TabInv /\ SuccessIsPaid /\ AnnouncedRefundIsPaid

-----------------------------------------------------------------------------
(* What the steps of the core do, as far as the pages care.                *)

\* Where a handler is after it went on, ended or let its bookings go.
LEMMA Moved ==
  ASSUME TypeOK, NEW r \in Proc
  PROVE  /\ \A l : Become(r, l) => /\ req'[r] = l
                                   /\ \A q \in Proc \ {r} : req'[q] = req[q]
         /\ \A to : Continue(r, to) =>
              /\ req'[r].at = to /\ req'[r].b = req[r].b
              /\ req'[r].p = req[r].p /\ req'[r].st = req[r].st
              /\ req'[r].pct = req[r].pct
         /\ Finish(r) => req'[r].at = "idle"
         /\ \A bs : GoRelease(r, bs) =>
              req'[r].at = "release" /\ req'[r].st = NoRow
<1>1. ASSUME NEW l, Become(r, l)
      PROVE  req'[r] = l /\ \A q \in Proc \ {r} : req'[q] = req[q]
  BY <1>1, OtherHandlers DEF TypeOK
<1>2. req[r] \in Locals
  BY DEF TypeOK
<1>3. Idle.at = "idle"
  BY DEF Idle, AboutBooking
<1>4. \A bs : LET l == AboutBookings("release", bs)
             IN  l.at = "release" /\ l.st = NoRow
  BY DEF AboutBookings
<1>5. ASSUME NEW to, Continue(r, to)
      PROVE  /\ req'[r].at = to /\ req'[r].b = req[r].b
             /\ req'[r].p = req[r].p /\ req'[r].st = req[r].st
             /\ req'[r].pct = req[r].pct
  <2>1. Become(r, [req[r] EXCEPT !.at = to])
    BY <1>5 DEF Continue
  <2>2. LET l == [req[r] EXCEPT !.at = to]
        IN  /\ l.at = to /\ l.b = req[r].b /\ l.p = req[r].p
            /\ l.st = req[r].st /\ l.pct = req[r].pct
    BY <1>2 DEF Locals
  <2>3. PICK l : /\ Become(r, l) /\ l.at = to /\ l.b = req[r].b
                 /\ l.p = req[r].p /\ l.st = req[r].st /\ l.pct = req[r].pct
    BY <2>1, <2>2
  <2>4. QED
    BY <1>1, <2>3
<1>6. Finish(r) => req'[r].at = "idle"
  BY <1>1, <1>3 DEF Finish
<1>7. ASSUME NEW bs, GoRelease(r, bs)
      PROVE  req'[r].at = "release" /\ req'[r].st = NoRow
  BY <1>1, <1>4, <1>7 DEF GoRelease
<1>8. QED
  BY <1>1, <1>5, <1>6, <1>7

\* The locals a handler begins with, or goes on with, about a booking or about
\* a payment.
LEMMA About ==
  /\ \A at, b : LET l == AboutBooking(at, b)
                IN  l.at = at /\ l.b = b /\ l.st = NoRow /\ l.pct = 0
  /\ \A at, b, p : LET l == [AboutBooking(at, b) EXCEPT !.p = p]
                   IN  l.at = at /\ l.b = b /\ l.p = p /\ l.st = NoRow
  /\ \A at, b, pct : LET l == [AboutBooking(at, b) EXCEPT !.pct = pct]
                     IN  l.at = at /\ l.b = b /\ l.pct = pct /\ l.st = NoRow
  /\ \A at, b, st : LET l == [AboutBooking(at, b) EXCEPT !.st = st]
                    IN  l.at = at /\ l.b = b /\ l.pct = 0
  /\ \A at, p : LET l == AboutPayment(at, p)
                IN  l.at = at /\ l.b = payFor[p] /\ l.p = p /\ l.st = NoRow
  /\ \A at, p, st : LET l == [AboutPayment(at, p) EXCEPT !.st = st]
                    IN  l.at = at /\ l.b = payFor[p] /\ l.p = p /\ l.st = st
  /\ \A at, p, pct : LET l == [AboutPayment(at, p) EXCEPT !.pct = pct]
                     IN  /\ l.at = at /\ l.b = payFor[p] /\ l.st = NoRow
                         /\ l.pct = pct
  /\ \A at, bs : AboutBookings(at, bs).at = at
BY DEF AboutBooking, AboutPayment, AboutBookings

\* How the handler a page waits for may go on: it ends; it goes on towards a
\* payment; it goes on with a cancellation and its refund; or it has cancelled
\* and owes no refund, finds no payment to refund, or has paid back.
Ends(r) == req'[r].at = "idle"
PaysOn(r) ==
  /\ req[r].at \in CallSteps \ (CancelSteps \cup {"release"})
  /\ req'[r].at \in CallSteps \ (CancelSteps \cup {"release"})
  /\ req'[r].b = req[r].b /\ req'[r].st \in {req[r].st, NoRow}
CancelsOn(r) ==
  /\ req[r].at \in CancelSteps /\ req'[r].at \in CancelSteps
  /\ req'[r].b = req[r].b /\ req'[r].st \in {req[r].st, NoRow}
  /\ req'[r].pct = req[r].pct
Cancels(r) ==
  /\ req[r].at \in CancelSteps /\ req'[r].at = "release"
  /\ req'[r].st = NoRow
  /\ UNCHANGED <<payFor, refunds>>
  /\ \/ req[r].pct = 0
     \/ \A p \in Payment : payFor[p] = req[r].b => pay[p] # "SUCCESS"
     \/ \E p \in Payment : payFor[p] = req[r].b /\ refunds[p] > 0

LEMMA CallMoves ==
  ASSUME TypeOK, LedgerInv, RefundsPositive, NEW r \in Proc,
         HandlerStep(r), req[r].at \in CallSteps
  PROVE  Ends(r) \/ PaysOn(r) \/ CancelsOn(r) \/ Cancels(r)
<1> USE DEF CallSteps, CancelSteps
<1>1. Linked /\ RefundIsBacked /\ req[r].pct \in 0..100
  BY LocalsFields DEF LedgerInv
<1>2. CASE \/ InitiateExpire(r) \/ InitiateFail(r) \/ PaidCommit(r)
           \/ PublishReleased(r)
  BY <1>2, Moved DEF InitiateExpire, InitiateFail, PaidCommit, PublishReleased,
     Ends
<1>3. CASE InitiateConfirm(r) \/ InitiateCall(r) \/ PaidTx(r)
  BY <1>3, Moved DEF InitiateConfirm, InitiateCall, PaidTx, Ends, PaysOn
<1>4. ASSUME NEW p \in Payment, InitiateCreate(r, p) PROVE PaysOn(r)
  <2>1. Become(r, [AboutBooking("initCall", req[r].b) EXCEPT !.p = p])
    BY <1>4 DEF InitiateCreate
  <2>a. req'[r] = [AboutBooking("initCall", req[r].b) EXCEPT !.p = p]
    BY <2>1, Moved
  <2>2. /\ req'[r].at = "initCall" /\ req'[r].b = req[r].b
        /\ req'[r].st = NoRow
    BY <2>a DEF AboutBooking
  <2>3. QED
    BY <1>4, <2>2 DEF InitiateCreate, PaysOn
<1>5. CASE VerifyCall(r)
  <2>1. CASE Finish(r)
    BY <2>1, Moved DEF Ends
  <2>2. CASE Become(r, AboutPayment("paidTx", req[r].p))
    <3>1. req[r].at = "verifyCall" /\ req[r].b = payFor[req[r].p]
      BY <1>1, <1>5 DEF VerifyCall, Linked, PaymentSteps
    <3>2. QED
      BY <2>2, <3>1, Moved, About DEF PaysOn
  <2>3. QED
    BY <1>5, <2>1, <2>2 DEF VerifyCall
<1>6. CASE CancelWrite(r)
  BY <1>1, <1>6, Moved DEF CancelWrite, CancelsOn, Cancels, paymentVars,
     providerVars
<1>7. CASE RefundFind(r)
  <2>1. CASE Finish(r)
    BY <2>1, Moved DEF Ends
  <2>2. ASSUME NEW p \in Payment, payFor[p] = req[r].b,
               Become(r, [AboutPayment("refundCall", p) EXCEPT !.pct = req[r].pct])
        PROVE  CancelsOn(r)
    <3>a. req'[r] = [AboutPayment("refundCall", p) EXCEPT !.pct = req[r].pct]
      BY <2>2, Moved
    <3>1. /\ req'[r].at = "refundCall" /\ req'[r].b = req[r].b
          /\ req'[r].st = NoRow /\ req'[r].pct = req[r].pct
      BY <2>2, <3>a DEF AboutPayment
    <3>2. QED
      BY <1>7, <3>1 DEF RefundFind, CancelsOn
  <2>3. ASSUME NEW p \in Payment, payFor[p] = req[r].b, refunded[p] > 0,
               GoRelease(r, {req[r].b})
        PROVE  Cancels(r)
    <3>1. refunds[p] > 0
      <4>1. \A m, n \in 0..100 : m > 0 /\ m <= n => n > 0
        OBVIOUS
      <4>2. QED
        BY <1>1, <2>3, <4>1 DEF RefundIsBacked, TypeOK
    <3>2. QED
      BY <1>7, <2>3, <3>1, Moved DEF RefundFind, Cancels, paymentVars, providerVars
  <2>4. CASE /\ \A p \in Payment : ~(payFor[p] = req[r].b /\ pay[p] = "SUCCESS")
             /\ GoRelease(r, {req[r].b})
    BY <1>7, <2>4, Moved DEF RefundFind, Cancels, paymentVars, providerVars
  <2>5. QED
    BY <1>7, <2>1, <2>2, <2>3, <2>4 DEF RefundFind
<1>8. CASE RefundCall(r)
  BY <1>8, Moved DEF RefundCall, CancelsOn, Ends
<1>9. CASE RefundLedger(r)
  <2>1. CASE Finish(r)
    BY <2>1, Moved DEF Ends
  <2>2. CASE GoRelease(r, {req[r].b})
    <3>1. /\ req[r].at = "refundLedger" /\ req[r].p \in Payment
          /\ payFor[req[r].p] = req[r].b
      BY <1>1, <1>9 DEF RefundLedger, Linked, PaymentSteps
    <3>2. req[r].pct > 0 /\ req[r].pct <= refunds[req[r].p]
      BY <3>1 DEF RefundsPositive, LedgerInv, HandlersKnow
    <3>3. refunds[req[r].p] > 0
      <4>1. \A m, n \in 0..100 : m > 0 /\ m <= n => n > 0
        OBVIOUS
      <4>2. QED
        BY <1>1, <3>1, <3>2, <4>1 DEF TypeOK
    <3>4. QED
      BY <1>9, <2>2, <3>1, <3>3, Moved DEF RefundLedger, Cancels, providerVars
  <2>3. QED
    BY <1>9, <2>1, <2>2 DEF RefundLedger
<1>10. QED
  BY <1>2, <1>3, <1>4, <1>5, <1>6, <1>7, <1>8, <1>9
  DEF HandlerStep, FailTx, FailCommit, TransitionWrite, ConfirmExpire,
      ConfirmWrite, SweepWrite

-----------------------------------------------------------------------------
(* What the payments do, whoever takes the step.                           *)

RefundSteps == {"refundFind", "refundCall", "refundLedger"}

\* What the requests of the pages begin with.
LEMMA Begins ==
  ASSUME TypeOK, NEW r \in Proc
  PROVE  /\ \A b : InitiateRead(r, b) =>
              /\ req'[r].at \in {"initExpire", "initConfirm"}
              /\ req'[r].b = b /\ req'[r].st = NoRow
         /\ \A b, pct : CancelRead(r, b, pct) =>
              /\ req'[r].at = "cancel" /\ req'[r].b = b /\ req'[r].st = NoRow
              /\ \/ req'[r].pct = 0
                 \/ \E p \in Payment : payFor[p] = b /\ pay[p] = "SUCCESS"
         /\ \A p : VerifyRead(r, p) =>
              /\ req'[r].at = "verifyCall"
              /\ req'[r].b = payFor[p] /\ req'[r].st = status[payFor[p]]
<1>1. ASSUME NEW b, InitiateRead(r, b)
      PROVE  /\ req'[r].at \in {"initExpire", "initConfirm"}
             /\ req'[r].b = b /\ req'[r].st = NoRow
  <2>1. PICK at \in {"initExpire", "initConfirm"} : Become(r, AboutBooking(at, b))
    BY <1>1 DEF InitiateRead, Begin
  <2>2. req'[r] = AboutBooking(at, b)
    BY <2>1, Moved
  <2>3. QED
    BY <2>2 DEF AboutBooking
<1>2. ASSUME NEW b, NEW pct, CancelRead(r, b, pct)
      PROVE  /\ req'[r].at = "cancel" /\ req'[r].b = b /\ req'[r].st = NoRow
             /\ \/ req'[r].pct = 0
                \/ \E p \in Payment : payFor[p] = b /\ pay[p] = "SUCCESS"
  <2> DEFINE paid == \E p \in Payment : payFor[p] = b /\ pay[p] = "SUCCESS"
             owed == IF paid THEN pct ELSE 0
  <2>1. Become(r, [AboutBooking("cancel", b) EXCEPT !.pct = owed])
    BY <1>2 DEF CancelRead, Begin
  <2>2. req'[r] = [AboutBooking("cancel", b) EXCEPT !.pct = owed]
    BY <2>1, Moved
  <2>3. /\ req'[r].at = "cancel" /\ req'[r].b = b /\ req'[r].st = NoRow
        /\ req'[r].pct = owed
    BY <2>2 DEF AboutBooking
  <2>4. QED
    BY <2>3
<1>3. ASSUME NEW p, VerifyRead(r, p)
      PROVE  /\ req'[r].at = "verifyCall"
             /\ req'[r].b = payFor[p] /\ req'[r].st = status[payFor[p]]
  <2>1. Become(r, [AboutPayment("verifyCall", p) EXCEPT !.st = status[payFor[p]]])
    BY <1>3 DEF VerifyRead, Begin
  <2>2. req'[r] = [AboutPayment("verifyCall", p) EXCEPT !.st = status[payFor[p]]]
    BY <2>1, Moved
  <2>3. QED
    BY <2>2 DEF AboutPayment
<1>4. QED
  BY <1>1, <1>2, <1>3

\* A handler that begins has written nothing yet and is far from a refund.
LEMMA Arrivals ==
  ASSUME TypeOK, NEW r \in Proc, Arrive(r) \/ SweepRead(r) \/ Crash(r)
  PROVE  /\ UNCHANGED <<bookingVars, paymentVars, providerVars, announced, notified>>
         /\ req'[r].at \notin RefundSteps
         /\ \A q \in Proc \ {r} : req'[q] = req[q]
<1> USE DEF RefundSteps
<1> DEFINE Fine == /\ UNCHANGED <<bookingVars, paymentVars, providerVars,
                                  announced, notified>>
                   /\ req'[r].at \notin RefundSteps
                   /\ \A q \in Proc \ {r} : req'[q] = req[q]
<1>1. ASSUME NEW b \in Booking, InitiateRead(r, b) \/ ConfirmRead(r, b)
      PROVE  Fine
  <2>1. PICK at \in {"initExpire", "initConfirm", "confirmExpire", "confirm"} :
          Become(r, AboutBooking(at, b))
    BY <1>1 DEF InitiateRead, ConfirmRead, Begin
  <2>2. req'[r].at = at
    BY <2>1, Moved, About
  <2>3. QED
    BY <1>1, <2>1, <2>2, Moved DEF InitiateRead, ConfirmRead
<1>2. ASSUME NEW b \in Booking, NEW pct, CancelRead(r, b, pct)
      PROVE  Fine
  BY <1>2, Begins, Moved DEF CancelRead, Begin
<1>3. ASSUME NEW b \in Booking, NEW st, TransitionRead(r, b, st)
      PROVE  Fine
  <2>1. Become(r, [AboutBooking("transition", b) EXCEPT !.st = st])
    BY <1>3 DEF TransitionRead, Begin
  <2>2. req'[r] = [AboutBooking("transition", b) EXCEPT !.st = st]
    BY <2>1, Moved
  <2>3. req'[r].at = "transition"
    BY <2>2 DEF AboutBooking
  <2>4. QED
    BY <1>3, <2>1, <2>3, Moved DEF TransitionRead
<1>4. ASSUME NEW p \in Payment, WebhookSuccess(r, p) \/ WebhookFailure(r, p)
      PROVE  Fine
  <2>1. PICK at \in {"paidTx", "failTx"} : Become(r, AboutPayment(at, p))
    BY <1>4 DEF WebhookSuccess, WebhookFailure, Begin
  <2>2. req'[r].at = at
    BY <2>1, Moved, About
  <2>3. QED
    BY <1>4, <2>1, <2>2, Moved DEF WebhookSuccess, WebhookFailure
<1>5. ASSUME NEW p \in Payment, VerifyRead(r, p)
      PROVE  Fine
  BY <1>5, Begins, Moved DEF VerifyRead, Begin
<1>6. CASE SweepRead(r)
  <2>1. PICK bs : Become(r, AboutBookings("sweep", bs))
    BY <1>6 DEF SweepRead, Begin
  <2>2. req'[r].at = "sweep"
    BY <2>1, Moved, About
  <2>3. QED
    BY <1>6, <2>1, <2>2, Moved DEF SweepRead
<1>7. CASE Crash(r)
  BY <1>7, Moved DEF Crash, Finish
<1>8. QED
  BY <1>1, <1>2, <1>3, <1>4, <1>5, <1>6, <1>7 DEF Arrive

\* What one step does to the rows of the payments: a row keeps its booking, a
\* refund paid back stays paid back, and a payment that succeeded stays so
\* until it fails after all or has been paid back.
RowsMove ==
  \A p \in Payment :
    /\ payFor[p] \in Booking => payFor'[p] = payFor[p]
    /\ refunds[p] > 0 => refunds'[p] > 0
    /\ pay[p] = "SUCCESS" => pay'[p] \in {"SUCCESS", "FAILED"} \/ refunds'[p] > 0

LEMMA RowsSame ==
  ASSUME TypeOK, UNCHANGED <<pay, payFor, refunds>>
  PROVE  RowsMove /\ (FreshIsFree => FreshIsFree')
BY DEF RowsMove, FreshIsFree

\* Overwriting the status of one payment that is not successful.
LEMMA RowsOverwritten ==
  ASSUME TypeOK, NEW p \in Payment, NEW st \in {"SUCCESS", "FAILED"},
         pay' = [pay EXCEPT ![p] = st], pay[p] # NoRow,
         UNCHANGED <<payFor, refunds>>
  PROVE  RowsMove /\ (FreshIsFree => FreshIsFree')
BY DEF RowsMove, FreshIsFree, TypeOK, NoRow

LEMMA RowsStep ==
  TypeOK /\ LedgerInv /\ RefundsPositive /\ FreshIsFree /\ [Next]_vars
    => RowsMove /\ FreshIsFree'
<1> SUFFICES ASSUME TypeOK, LedgerInv, RefundsPositive, FreshIsFree, [Next]_vars
             PROVE  RowsMove /\ FreshIsFree'
  OBVIOUS
<1> USE DEF bookingVars, paymentVars, providerVars
<1>1. Linked /\ RefundIsBacked /\ HandlersKnow
  BY DEF LedgerInv
<1>2. \A r \in Request : r \in Proc
  BY DEF Proc
<1>3. \A m, n \in 0..100 : m > 0 /\ m <= n => n > 0
  OBVIOUS
<1>4. ASSUME NEW r \in Proc, Arrive(r) \/ SweepRead(r) \/ Crash(r)
      PROVE  RowsMove /\ FreshIsFree'
  BY <1>4, Arrivals, RowsSame
<1>5. CASE Environment \/ UNCHANGED vars
  <2>1. UNCHANGED <<pay, payFor, refunds>>
    BY <1>5 DEF Environment, HoldLapses, Create, GuestPays, GuestDeclines, vars
  <2>2. QED
    BY <2>1, RowsSame
<1>6. ASSUME NEW r \in Proc, HandlerStep(r) PROVE RowsMove /\ FreshIsFree'
  <2>1. CASE \/ InitiateExpire(r) \/ InitiateConfirm(r) \/ InitiateCall(r)
             \/ VerifyCall(r) \/ PaidTx(r) \/ FailTx(r) \/ RefundFind(r)
             \/ TransitionWrite(r) \/ ConfirmExpire(r) \/ ConfirmWrite(r)
             \/ CancelWrite(r) \/ SweepWrite(r) \/ PublishReleased(r)
    <3>1. UNCHANGED <<pay, payFor, refunds>>
      BY <2>1 DEF InitiateExpire, InitiateConfirm, InitiateCall, OpenCharge,
         VerifyCall, PaidTx, FailTx, RefundFind, TransitionWrite, ConfirmExpire,
         ConfirmWrite, CancelWrite, SweepWrite, PublishReleased
    <3>2. QED
      BY <3>1, RowsSame
  <2>2. ASSUME NEW p \in Payment, InitiateCreate(r, p)
        PROVE  RowsMove /\ FreshIsFree'
    <3>1. /\ pay[p] = NoRow /\ payFor[p] = NULL
          /\ pay'[p] = "INITIATED" /\ UNCHANGED refunds
          /\ \A q \in Payment \ {p} : pay'[q] = pay[q] /\ payFor'[q] = payFor[q]
      BY <2>2 DEF InitiateCreate, FreshIsFree, TypeOK
    <3>2. QED
      BY <3>1, NullAssumption DEF RowsMove, FreshIsFree, NoRow
  <2>3. CASE InitiateFail(r) \/ PaidCommit(r) \/ FailCommit(r)
    <3>1. req[r].p \in Payment /\ pay[req[r].p] # NoRow
      BY <1>1, <2>3 DEF InitiateFail, PaidCommit, FailCommit, Linked, PaymentSteps
    <3>2. CASE pay' = pay
      BY <2>3, <3>2, RowsSame DEF InitiateFail, PaidCommit, FailCommit
    <3>3. CASE pay' # pay
      BY <2>3, <3>1, <3>3, RowsOverwritten DEF InitiateFail, PaidCommit, FailCommit
    <3>4. QED
      BY <3>2, <3>3
  <2>4. CASE RefundCall(r)
    <3>1. req[r].p \in Payment /\ req[r].pct \in 0..100
      BY <1>1, <2>4, LocalsFields DEF RefundCall, Linked, PaymentSteps
    <3>2. UNCHANGED <<pay, payFor>>
      BY <2>4 DEF RefundCall
    <3>3. \A q \in Payment : refunds[q] > 0 => refunds'[q] > 0
      <4>1. CASE PayBack(req[r].p, req[r].pct)
        <5>1. \A m, n \in 0..100 : m > 0 => m + n > 0
          OBVIOUS
        <5>2. QED
          BY <3>1, <4>1, <5>1 DEF PayBack, TypeOK
      <4>2. CASE UNCHANGED refunds
        BY <4>2
      <4>3. QED
        BY <2>4, <4>1, <4>2 DEF RefundCall
    <3>4. QED
      BY <3>2, <3>3 DEF RowsMove, FreshIsFree
  <2>5. CASE RefundLedger(r)
    <3>1. /\ req[r].p \in Payment /\ req[r].at = "refundLedger"
          /\ req[r].pct \in 0..100 /\ pay[req[r].p] # NoRow
      BY <1>1, <2>5, LocalsFields DEF RefundLedger, Linked, PaymentSteps
    <3>2. UNCHANGED <<payFor, refunds>>
      BY <2>5 DEF RefundLedger
    <3>3. req[r].pct > 0 /\ req[r].pct <= refunds[req[r].p]
      BY <1>1, <3>1 DEF HandlersKnow, RefundsPositive
    <3>4. refunds'[req[r].p] > 0
      BY <1>3, <3>1, <3>2, <3>3 DEF TypeOK
    <3>5. /\ \A q \in Payment \ {req[r].p} : pay'[q] = pay[q]
          /\ pay'[req[r].p] # NoRow
      BY <2>5, <3>1 DEF RefundLedger, TypeOK, NoRow
    <3>6. QED
      BY <3>1, <3>2, <3>4, <3>5 DEF RowsMove, FreshIsFree
  <2>6. QED
    BY <1>6, <2>1, <2>2, <2>3, <2>4, <2>5 DEF HandlerStep
<1>7. QED
  BY <1>2, <1>4, <1>5, <1>6 DEF Next

\* Handlers go on to a refund only with something to refund.
LEMMA RefundsPositiveStep ==
  TypeOK /\ RefundsPositive /\ [Next]_vars => RefundsPositive'
<1> SUFFICES ASSUME TypeOK, RefundsPositive, [Next]_vars PROVE RefundsPositive'
  OBVIOUS
<1> DEFINE Fine(l) == l.at \in RefundSteps => l.pct > 0
<1>1. \A r \in Request : r \in Proc
  BY DEF Proc
<1>2. \A r \in Proc : Fine(req[r])
  BY DEF RefundsPositive, RefundSteps
<1>3. (\A r \in Proc : Fine(req'[r])) => RefundsPositive'
  BY DEF RefundsPositive, RefundSteps
<1>4. ASSUME NEW r \in Proc, Arrive(r) \/ SweepRead(r) \/ Crash(r)
      PROVE  RefundsPositive'
  BY <1>2, <1>3, <1>4, Arrivals
<1>5. CASE Environment \/ UNCHANGED vars
  <2>1. UNCHANGED req
    BY <1>5 DEF Environment, HoldLapses, Create, GuestPays, GuestDeclines, vars
  <2>2. QED
    BY <1>2, <1>3, <2>1
<1>6. ASSUME NEW r \in Proc, HandlerStep(r) PROVE RefundsPositive'
  <2>0. ASSUME NEW l, Become(r, l), Fine(l) PROVE RefundsPositive'
    BY <1>2, <1>3, <2>0, Moved
  <2>a. Finish(r) => RefundsPositive'
    <3>1. Fine(Idle)
      BY DEF Idle, AboutBooking, RefundSteps
    <3>2. QED
      BY <2>0, <3>1 DEF Finish
  <2>b. \A bs : GoRelease(r, bs) => RefundsPositive'
    <3>1. \A bs : Fine(AboutBookings("release", bs))
      BY DEF AboutBookings, RefundSteps
    <3>2. QED
      BY <2>0, <3>1 DEF GoRelease
  <2>c. ASSUME NEW to, Continue(r, to), to \in RefundSteps => req[r].pct > 0
        PROVE  RefundsPositive'
    <3>1. Fine(req'[r])
      BY <2>c, Moved
    <3>2. Become(r, [req[r] EXCEPT !.at = to])
      BY <2>c DEF Continue
    <3>3. \A q \in Proc \ {r} : req'[q] = req[q]
      BY <3>2, Moved
    <3>4. QED
      BY <1>2, <1>3, <3>1, <3>3
  <2>1. CASE \/ InitiateExpire(r) \/ InitiateFail(r) \/ PaidCommit(r)
             \/ FailCommit(r) \/ RefundLedger(r) \/ TransitionWrite(r)
             \/ ConfirmExpire(r) \/ ConfirmWrite(r) \/ PublishReleased(r)
    BY <2>1, <2>a, <2>b DEF InitiateExpire, InitiateFail, PaidCommit, FailCommit,
       RefundLedger, TransitionWrite, ConfirmExpire, ConfirmWrite, PublishReleased
  <2>2. CASE \/ InitiateConfirm(r) \/ InitiateCall(r) \/ PaidTx(r) \/ FailTx(r)
             \/ CancelWrite(r) \/ SweepWrite(r)
    BY <2>2, <2>a, <2>b, <2>c DEF InitiateConfirm, InitiateCall, PaidTx, FailTx,
       CancelWrite, SweepWrite, RefundSteps
  <2>3. CASE RefundCall(r)
    <3>1. req[r].pct > 0
      BY <2>3 DEF RefundCall, RefundsPositive
    <3>2. QED
      BY <2>3, <2>a, <2>c, <3>1 DEF RefundCall
  <2>4. ASSUME NEW p \in Payment, InitiateCreate(r, p) PROVE RefundsPositive'
    <3>1. Become(r, [AboutBooking("initCall", req[r].b) EXCEPT !.p = p])
      BY <2>4 DEF InitiateCreate
    <3>2. Fine([AboutBooking("initCall", req[r].b) EXCEPT !.p = p])
      BY DEF AboutBooking, RefundSteps
    <3>3. QED
      BY <2>0, <3>1, <3>2
  <2>5. CASE VerifyCall(r)
    <3>1. Fine(AboutPayment("paidTx", req[r].p))
      BY DEF AboutPayment, RefundSteps
    <3>2. QED
      BY <2>0, <2>5, <2>a, <3>1 DEF VerifyCall
  <2>6. CASE RefundFind(r)
    <3>1. req[r].pct > 0
      BY <2>6 DEF RefundFind, RefundsPositive
    <3>2. ASSUME NEW p \in Payment,
                 Become(r, [AboutPayment("refundCall", p) EXCEPT !.pct = req[r].pct])
          PROVE  RefundsPositive'
      <4>1. Fine([AboutPayment("refundCall", p) EXCEPT !.pct = req[r].pct])
        BY <3>1 DEF AboutPayment, RefundSteps
      <4>2. QED
        BY <2>0, <3>2, <4>1
    <3>3. QED
      BY <2>6, <2>a, <2>b, <3>2 DEF RefundFind
  <2>7. QED
    BY <1>6, <2>1, <2>2, <2>3, <2>4, <2>5, <2>6 DEF HandlerStep
<1>7. QED
  BY <1>1, <1>4, <1>5, <1>6 DEF Next

-----------------------------------------------------------------------------
(* The pages implement the core.                                           *)

\* What every policy gives back is a refund the core knows.
LEMMA RefundShares ==
  \A policy \in CancellationPolicy, left \in Hours :
    calculateRefund(policy, left) \in RefundPercent
<1> SUFFICES ASSUME NEW policy \in CancellationPolicy, NEW left \in Hours
             PROVE  calculateRefund(policy, left) \in {0, 50, 100}
  BY PolicyAssumption
<1>1. left \in Int
  BY MineAssumption
<1>2. CASE policy = "FLEXIBLE"
  BY <1>1, <1>2 DEF calculateRefund
<1>3. CASE policy = "STRICT"
  BY <1>1, <1>3 DEF calculateRefund
<1>4. CASE policy # "FLEXIBLE" /\ policy # "STRICT"
  BY <1>1, <1>4 DEF calculateRefund
<1>5. QED
  BY <1>2, <1>3, <1>4

\* Every step of a page, and of everybody else, is a step of the core or
\* leaves it alone.
LEMMA CoreStep ==
  ASSUME [PagesNext]_pagesVars,
         tab.at = "provider" => tab.p \in Payment
  PROVE  [Next]_vars
<1> USE DEF CoreStays
<1>1. CASE UNCHANGED pagesVars \/ loadBooking \/ openCancelPanel \/ loadTrips
  BY <1>1 DEF pagesVars, loadBooking, openCancelPanel, loadTrips
<1>2. CASE handleSubmit
  <2>1. Environment
    BY <1>2, MineAssumption DEF handleSubmit, Environment
  <2>2. QED
    BY <2>1 DEF Next
<1>3. ASSUME NEW r \in Request, handlePayNow(r) PROVE Next
  BY <1>3, MineAssumption DEF handlePayNow, Arrive, Next
<1>4. ASSUME NEW r \in Request, handleConfirmCancel(r) PROVE Next
  <2>1. PICK pct \in RefundPercent : CancelRead(r, Mine, pct)
    BY <1>4, RefundShares DEF handleConfirmCancel
  <2>2. Arrive(r)
    BY <2>1, MineAssumption DEF Arrive
  <2>3. QED
    BY <2>2 DEF Next
<1>5. ASSUME NEW r \in Request, verify(r) PROVE [Next]_vars
  <2>1. CASE VerifyRead(r, tab.p) /\ tab.at = "provider"
    <3>1. Arrive(r)
      BY <2>1 DEF Arrive
    <3>2. QED
      BY <3>1 DEF Next
  <2>2. QED
    BY <1>5, <2>1 DEF verify
<1>6. ASSUME NEW r \in Request, CallStep(r) PROVE Next
  <2>1. r \in Proc /\ (HandlerStep(r) \/ Crash(r))
    BY <1>6 DEF CallStep, Proc
  <2>2. QED
    BY <2>1 DEF Next
<1>7. CASE OthersStep
  BY <1>7 DEF OthersStep, Next
<1>8. QED
  BY <1>1, <1>2, <1>3, <1>4, <1>5, <1>6, <1>7 DEF PagesNext, PageStep

\* A payment whose success is overwritten is kept in mind.
Marks ==
  \A p \in Payment :
    \/ p \in overwritten
    \/ pay[p] = "SUCCESS" /\ pay'[p] = "FAILED"
    => p \in overwritten'

LEMMA MarksStep ==
  ASSUME TypeOK, overwritten \subseteq Payment, [PagesNext]_pagesVars
  PROVE  Marks /\ overwritten' \subseteq Payment
<1> USE DEF CoreStays, Marks
<1>1. CASE UNCHANGED <<overwritten, pay>>
  BY <1>1
<1>2. CASE Overwrites
  BY <1>2 DEF Overwrites
<1>3. CASE UNCHANGED pagesVars \/ loadBooking \/ openCancelPanel \/ loadTrips
  BY <1>1, <1>3 DEF pagesVars, vars, loadBooking, openCancelPanel, loadTrips
<1>4. CASE handleSubmit
  BY <1>1, <1>4 DEF handleSubmit, Create, paymentVars
<1>5. ASSUME NEW r \in Request,
             handlePayNow(r) \/ handleConfirmCancel(r) \/ verify(r)
      PROVE  UNCHANGED <<overwritten, pay>>
  BY <1>5 DEF handlePayNow, handleConfirmCancel, verify, InitiateRead,
     CancelRead, VerifyRead, paymentVars, vars
<1>6. QED
  BY <1>1, <1>2, <1>3, <1>4, <1>5 DEF PagesNext, PageStep, CallStep, OthersStep

\* What the guest has paid, been paid back or is owed is kept in mind.
LEMMA Kept ==
  ASSUME TypeOK, LedgerInv, RowsMove, Marks, [Next]_vars
  PROVE  /\ PaidFor(Mine) => PaidFor(Mine)'
         /\ PaidOut => PaidOut'
         /\ Backed => Backed'
<1>1. PaidFor(Mine) => PaidFor(Mine)'
  BY PaidForStays, LedgerParts, MineAssumption
<1>2. PaidOut => PaidOut'
  BY MineAssumption DEF PaidOut, RowsMove, Marks
<1>3. ASSUME NEW p \in Payment, payFor[p] = Mine, pay[p] = "SUCCESS"
      PROVE  Backed'
  BY <1>3, MineAssumption DEF Backed, PaidOut, RowsMove, Marks
<1>4. QED
  BY <1>1, <1>2, <1>3 DEF Backed

-----------------------------------------------------------------------------
(* Types.                                                                  *)

LEMMA TabTypes ==
  /\ \A at \in Place, shown \in BookingStatus \cup {NoRow} :
       /\ At(at, shown) \in Tab
       /\ \A p \in Payment \cup {NULL} : [At(at, shown) EXCEPT !.p = p] \in Tab
       /\ \A r \in Request : [At(at, shown) EXCEPT !.call = r] \in Tab
       /\ \A v \in {"success", "failed", "error"} :
            [At(at, shown) EXCEPT !.verdict = v] \in Tab
       /\ \A owed \in 0..100 :
            [At(at, shown) EXCEPT !.owed = owed, !.told = TRUE] \in Tab
  /\ \A t \in Tab :
       /\ \A r \in Request \cup {NULL} : [t EXCEPT !.call = r] \in Tab
       /\ [t EXCEPT !.panel = ~@] \in Tab
       /\ \A r \in Request, owed \in 0..100 :
            [t EXCEPT !.call = r, !.owed = owed] \in Tab
       /\ \A v \in {"success", "failed", "error"} :
            [t EXCEPT !.call = NULL, !.verdict = v] \in Tab
<1>1. ASSUME NEW at \in Place, NEW shown \in BookingStatus \cup {NoRow}
      PROVE  /\ At(at, shown) \in Tab
             /\ \A p \in Payment \cup {NULL} : [At(at, shown) EXCEPT !.p = p] \in Tab
             /\ \A r \in Request : [At(at, shown) EXCEPT !.call = r] \in Tab
             /\ \A v \in {"success", "failed", "error"} :
                  [At(at, shown) EXCEPT !.verdict = v] \in Tab
             /\ \A owed \in 0..100 :
                  [At(at, shown) EXCEPT !.owed = owed, !.told = TRUE] \in Tab
  <2>1. At(at, shown) \in Tab
    BY DEF At, Tab
  <2>2. ASSUME NEW p \in Payment \cup {NULL} PROVE [At(at, shown) EXCEPT !.p = p] \in Tab
    BY <2>1 DEF Tab
  <2>3. ASSUME NEW r \in Request PROVE [At(at, shown) EXCEPT !.call = r] \in Tab
    BY <2>1 DEF Tab
  <2>4. ASSUME NEW v \in {"success", "failed", "error"}
        PROVE  [At(at, shown) EXCEPT !.verdict = v] \in Tab
    BY <2>1 DEF Tab
  <2>5. ASSUME NEW owed \in 0..100
        PROVE  [At(at, shown) EXCEPT !.owed = owed, !.told = TRUE] \in Tab
    BY <2>1 DEF Tab
  <2>6. QED
    BY <2>1, <2>2, <2>3, <2>4, <2>5
<1>2. ASSUME NEW t \in Tab
      PROVE  /\ \A r \in Request \cup {NULL} : [t EXCEPT !.call = r] \in Tab
             /\ [t EXCEPT !.panel = ~@] \in Tab
             /\ \A r \in Request, owed \in 0..100 :
                  [t EXCEPT !.call = r, !.owed = owed] \in Tab
             /\ \A v \in {"success", "failed", "error"} :
                  [t EXCEPT !.call = NULL, !.verdict = v] \in Tab
  <2>1. ASSUME NEW r \in Request \cup {NULL} PROVE [t EXCEPT !.call = r] \in Tab
    BY DEF Tab
  <2>2. [t EXCEPT !.panel = ~@] \in Tab
    BY DEF Tab
  <2>3. ASSUME NEW r \in Request, NEW owed \in 0..100
        PROVE  [t EXCEPT !.call = r, !.owed = owed] \in Tab
    BY DEF Tab
  <2>4. ASSUME NEW v \in {"success", "failed", "error"}
        PROVE  [t EXCEPT !.call = NULL, !.verdict = v] \in Tab
    BY DEF Tab
  <2>5. QED
    BY <2>1, <2>2, <2>3, <2>4
<1>3. QED
  BY <1>1, <1>2

LEMMA AnswerTypes ==
  ASSUME TypeOK, tab \in Tab, NEW r \in Request
  PROVE  NoAnswer \in Tab /\ Answer(r) \in Tab
<1>1. /\ {"provider", "confirm"} \subseteq Place /\ tab.owed \in 0..100
      /\ {NoRow, "CANCELLED"} \subseteq BookingStatus \cup {NoRow}
  BY DEF Tab, Place, BookingStatus
<1>2. req[r].p \in Payment \cup {NULL}
  BY LocalsFields DEF Proc
<1>3. NoAnswer \in Tab
  BY TabTypes DEF NoAnswer
<1>4. PayNowAnswer(r) \in Tab
  BY <1>1, <1>2, <1>3, TabTypes DEF PayNowAnswer
<1>5. CancelAnswer(r) \in Tab
  BY <1>1, <1>3, TabTypes DEF CancelAnswer
<1>6. VerifyAnswer(r) \in Tab
  <2>1. \A st : Verdict(st) \in {"success", "failed", "error"}
    BY DEF Verdict
  <2>2. Verified(r) \in {"success", "failed", "error"}
    BY <2>1 DEF Verified
  <2>3. QED
    BY <2>2, TabTypes DEF VerifyAnswer
<1>7. QED
  BY <1>3, <1>4, <1>5, <1>6 DEF Answer

LEMMA TabStep ==
  ASSUME PagesTypeOK, TypeOK', [PagesNext]_pagesVars
  PROVE  tab' \in Tab /\ sends' \in BOOLEAN
<1>1. /\ TypeOK /\ tab \in Tab /\ sends \in BOOLEAN
      /\ Place = {"form", "confirm", "provider", "callback", "trips"}
      /\ {NoRow, "PENDING"} \subseteq BookingStatus \cup {NoRow}
      /\ status[Mine] \in BookingStatus \cup {NoRow}
  BY MineAssumption DEF PagesTypeOK, TypeOK, Place, BookingStatus
<1>2. sends' = sends
  BY DEF PagesNext, PageStep, handleSubmit, loadBooking, openCancelPanel,
     loadTrips, handlePayNow, handleConfirmCancel, verify, CallStep, OthersStep,
     pagesVars
<1>3. CASE handleSubmit \/ loadBooking \/ loadTrips
  <2> DEFINE made == IF sends THEN "PENDING" ELSE NoRow
  <2>1. {made, findOne, status[Mine]} \subseteq BookingStatus \cup {NoRow}
    BY <1>1 DEF findOne
  <2>2. \/ tab' = At("confirm", made)
        \/ tab' = At("confirm", findOne)
        \/ tab' = At("trips", status[Mine])
    BY <1>3 DEF handleSubmit, loadBooking, loadTrips
  <2> HIDE DEF made
  <2>3. \A shown \in BookingStatus \cup {NoRow} :
          At("confirm", shown) \in Tab /\ At("trips", shown) \in Tab
    BY <1>1, TabTypes
  <2>4. /\ At("confirm", made) \in Tab
        /\ At("confirm", findOne) \in Tab
        /\ At("trips", status[Mine]) \in Tab
    BY <2>1, <2>3
  <2>5. QED
    BY <1>1, <1>2, <2>2, <2>4
<1>4. CASE openCancelPanel
  BY <1>1, <1>4, TabTypes DEF openCancelPanel
<1>5. ASSUME NEW r \in Request, handlePayNow(r) PROVE tab' \in Tab
  BY <1>1, <1>5, TabTypes DEF handlePayNow
<1>6. ASSUME NEW r \in Request, handleConfirmCancel(r) PROVE tab' \in Tab
  <2>1. req'[r].pct \in 0..100
    BY DEF TypeOK, Locals, Proc
  <2>2. QED
    BY <1>1, <1>6, <2>1, TabTypes DEF handleConfirmCancel
<1>7. ASSUME NEW r \in Request, verify(r) PROVE tab' \in Tab
  <2>1. Verdict(status[Mine]) \in {"success", "failed", "error"}
    BY DEF Verdict
  <2>2. CASE tab' = [At("callback", NoRow) EXCEPT !.call = r]
    BY <1>1, <2>2, TabTypes
  <2>3. ASSUME NEW v \in {"success", "failed", "error"},
               tab' = [At("callback", NoRow) EXCEPT !.verdict = v]
        PROVE  tab' \in Tab
    BY <1>1, <2>3, TabTypes
  <2>4. QED
    BY <1>7, <2>1, <2>2, <2>3 DEF verify
<1>8. ASSUME NEW r \in Request, CallStep(r) PROVE tab' \in Tab
  BY <1>1, <1>8, AnswerTypes DEF CallStep
<1>9. CASE OthersStep \/ UNCHANGED pagesVars
  BY <1>1, <1>9 DEF OthersStep, pagesVars
<1>10. QED
  BY <1>1, <1>2, <1>3, <1>4, <1>5, <1>6, <1>7, <1>8, <1>9 DEF PagesNext, PageStep

-----------------------------------------------------------------------------
(* What the pages tell the guest.                                          *)

\* A handler leaves the others alone; it opens a charge in one step only, and
\* starts the confirmation messages in one other.
LEMMA HandlerWrites ==
  ASSUME TypeOK, NEW r \in Proc, HandlerStep(r)
  PROVE  /\ \A q \in Proc \ {r} : req'[q] = req[q]
         /\ charge' # charge => InitiateCall(r)
         /\ notified' # notified => PaidCommit(r)
<1>1. \A q \in Proc \ {r} : req'[q] = req[q]
  <2>1. \E l : Become(r, l)
    BY DEF HandlerStep, InitiateExpire, InitiateConfirm, InitiateCreate,
       InitiateCall, InitiateFail, VerifyCall, PaidTx, PaidCommit, FailTx,
       FailCommit, RefundFind, RefundCall, RefundLedger, TransitionWrite,
       ConfirmExpire, ConfirmWrite, CancelWrite, SweepWrite, PublishReleased,
       Finish, Continue, GoRelease
  <2>2. QED
    BY <2>1, Moved
<1>2. charge' # charge => InitiateCall(r)
  BY DEF HandlerStep, InitiateExpire, InitiateConfirm, InitiateCreate,
     InitiateFail, VerifyCall, PaidTx, PaidCommit, FailTx, FailCommit,
     RefundFind, RefundCall, PayBack, RefundLedger, TransitionWrite,
     ConfirmExpire, ConfirmWrite, CancelWrite, SweepWrite, PublishReleased,
     providerVars
<1>3. notified' # notified => PaidCommit(r)
  BY DEF HandlerStep, InitiateExpire, InitiateConfirm, InitiateCreate,
     InitiateCall, InitiateFail, VerifyCall, PaidTx, FailTx, FailCommit,
     RefundFind, RefundCall, RefundLedger, TransitionWrite, ConfirmExpire,
     ConfirmWrite, CancelWrite, SweepWrite, PublishReleased
<1>4. QED
  BY <1>1, <1>2, <1>3

\* The step of anybody else leaves the request of the tab alone.
LEMMA OthersApart ==
  ASSUME TypeOK, tab \in Tab, OthersStep, tab.call # NULL
  PROVE  req'[tab.call] = req[tab.call]
<1>1. tab.call \in Proc
  BY DEF Tab, Proc
<1>2. CASE Environment
  BY <1>2 DEF Environment, HoldLapses, Create, GuestPays, GuestDeclines
<1>3. ASSUME NEW r \in Proc \ {tab.call}, Arrive(r) \/ SweepRead(r) \/ Crash(r)
      PROVE  req'[tab.call] = req[tab.call]
  BY <1>1, <1>3, Arrivals
<1>4. ASSUME NEW r \in Proc \ {tab.call}, HandlerStep(r)
      PROVE  req'[tab.call] = req[tab.call]
  BY <1>1, <1>4, HandlerWrites
<1>5. \A r \in Request \ {tab.call} : r \in Proc \ {tab.call}
  BY DEF Proc
<1>6. QED
  BY <1>2, <1>3, <1>4, <1>5 DEF OthersStep

\* What the pages keep to, apart from the core.
TabKeeps == TabInv /\ SuccessIsPaid /\ AnnouncedRefundIsPaid

\* A tab that waits for nothing and is told nothing new.
LEMMA TabRests ==
  ASSUME TabKeeps, Backed => Backed', PaidOut => PaidOut',
         tab'.call = NULL, tab'.at # "provider",
         tab'.at = "callback" => tab'.verdict # "success",
         \/ tab'.owed = 0 /\ ~tab'.told
         \/ /\ tab'.owed = tab.owed /\ tab'.told = tab.told
            /\ tab'.shown = tab.shown
            /\ tab'.panel = tab.panel \/ ~tab.told
  PROVE  TabKeeps'
BY DEF TabKeeps, TabInv, SuccessIsPaid, AnnouncedRefundIsPaid, PaidOut

\* The request the page waits for goes on, and the page keeps waiting.
LEMMA CallGoesOn ==
  ASSUME PagesTypeOK, PagesInv, [Next]_vars, Marks, tab' = tab,
         NEW r \in Request, tab.call = r, HandlerStep(r), req'[r].at # "idle"
  PROVE  TabKeeps'
<1>1. /\ TypeOK /\ LedgerInv /\ RefundsPositive /\ FreshIsFree /\ TabInv
      /\ SuccessIsPaid /\ AnnouncedRefundIsPaid
  BY DEF PagesTypeOK, PagesInv
<1>2. RowsMove /\ refunds \in [Payment -> 0..100]
  BY <1>1, RowsStep DEF TypeOK
<1>3. /\ PaidFor(Mine) => PaidFor(Mine)'
      /\ PaidOut => PaidOut'
      /\ Backed => Backed'
  BY <1>1, <1>2, Kept
<1>4. Sound(req[r]) /\ r # NULL /\ r \in Proc
  BY <1>1, SlotAssumption DEF TabInv, Proc
<1>5. PaysOn(r) \/ CancelsOn(r) \/ Cancels(r)
  BY <1>1, <1>4, CallMoves DEF Ends, Sound
<1>6. Sound(req[r])'
  <2>1. CASE PaysOn(r)
    BY <1>3, <1>4, <2>1 DEF Sound, PaysOn, CancelSteps, NoRow
  <2>2. CASE CancelsOn(r)
    BY <1>3, <1>4, <2>2 DEF Sound, CancelsOn, CancelSteps, CallSteps, NoRow
  <2>3. CASE Cancels(r)
    <3>1. req[r].b = Mine /\ req[r].pct = tab.owed
      BY <1>4, <2>3 DEF Sound, Cancels, CancelSteps
    <3>2. ASSUME tab.owed > 0 PROVE PaidOut'
      <4>1. Backed /\ tab.owed # 0
        BY <1>1, <3>2 DEF TabInv
      <4>2. PaidOut
        BY <2>3, <3>1, <4>1 DEF Cancels, Backed, PaidOut
      <4>3. QED
        BY <1>3, <4>2
    <3>3. QED
      BY <1>3, <2>3, <3>2 DEF Sound, Cancels, CancelSteps, CallSteps, NoRow
  <2>4. QED
    BY <1>5, <2>1, <2>2, <2>3
<1>7. tab.at = "provider" => tab.p \in Payment /\ payFor'[tab.p] = Mine
  BY <1>1, <1>2, MineAssumption DEF TabInv, RowsMove
<1>8. TabInv'
  BY <1>1, <1>3, <1>6, <1>7 DEF TabInv
<1>9. QED
  BY <1>1, <1>3, <1>8 DEF TabKeeps, SuccessIsPaid, AnnouncedRefundIsPaid, PaidOut

\* The answer to that request reaches the page.
LEMMA CallAnswers ==
  ASSUME PagesTypeOK, PagesInv, LedgerInv', [Next]_vars, Marks,
         NEW r \in Request, tab.call = r, HandlerStep(r), tab' = Answer(r)
  PROVE  TabKeeps'
<1>1. /\ TypeOK /\ LedgerInv /\ RefundsPositive /\ FreshIsFree /\ TabInv
      /\ SuccessIsPaid /\ AnnouncedRefundIsPaid /\ tab \in Tab
  BY DEF PagesTypeOK, PagesInv
<1>2. RowsMove /\ Linked /\ HandlersKnow
  BY <1>1, RowsStep DEF LedgerInv
<1>3. /\ PaidFor(Mine) => PaidFor(Mine)'
      /\ PaidOut => PaidOut'
      /\ Backed => Backed'
  BY <1>1, <1>2, Kept
<1>4. Sound(req[r]) /\ r # NULL /\ r \in Proc
  BY <1>1, SlotAssumption DEF TabInv, Proc
<1>5. CASE tab.at = "callback"
  <2>1. tab' = [tab EXCEPT !.call = NULL, !.verdict = Verified(r)]
    BY <1>5 DEF Answer, VerifyAnswer
  <2>2. /\ tab'.at = "callback" /\ tab'.call = NULL /\ tab'.verdict = Verified(r)
        /\ tab'.owed = tab.owed /\ tab'.told = tab.told
        /\ tab'.shown = tab.shown /\ tab'.panel = tab.panel
    BY <1>1, <1>5, <2>1 DEF Tab
  <2>3. CASE Verified(r) = "success"
    <3>1. notified' # notified \/ req[r].st = "PAID"
      BY <2>3 DEF Verified, Verdict
    <3>2. req[r].st = "PAID" => PaidFor(Mine)'
      BY <1>3, <1>4, <1>5 DEF Sound
    <3>3. ASSUME notified' # notified PROVE PaidFor(Mine)'
      <4>1. req[r].at = "paidCommit"
        BY <1>1, <1>4, <3>3, HandlerWrites DEF PaidCommit
      <4>2. /\ req[r].p \in Payment /\ payFor[req[r].p] = Mine
            /\ charge[req[r].p] = "captured"
        BY <1>2, <1>4, <4>1 DEF Linked, PaymentSteps, HandlersKnow, Sound
      <4>3. PaidFor(Mine)
        BY <4>2 DEF PaidFor
      <4>4. QED
        BY <1>3, <4>3
    <3>4. PaidFor(Mine)'
      BY <3>1, <3>2, <3>3
    <3>5. QED
      BY <1>1, <1>3, <2>2, <3>4
         DEF TabKeeps, TabInv, SuccessIsPaid, AnnouncedRefundIsPaid, PaidOut
  <2>4. CASE Verified(r) # "success"
    BY <1>1, <1>3, <2>2, <2>4, TabRests DEF TabKeeps
  <2>5. QED
    BY <2>3, <2>4
<1>6. CASE tab' = NoAnswer /\ tab.at # "callback" /\ tab.at # "provider"
  <2>1. tab' = [tab EXCEPT !.call = NULL]
    BY <1>6 DEF NoAnswer
  <2>2. /\ tab'.at = tab.at /\ tab'.call = NULL /\ tab'.owed = tab.owed
        /\ tab'.told = tab.told /\ tab'.shown = tab.shown /\ tab'.panel = tab.panel
    BY <1>1, <2>1 DEF Tab
  <2>3. QED
    BY <1>1, <1>3, <1>6, <2>2, TabRests DEF TabKeeps
<1>7. CASE tab.at = "confirm" /\ tab.panel /\ req[r].at = "release"
  <2>1. tab' = [At("confirm", "CANCELLED") EXCEPT !.owed = tab.owed, !.told = TRUE]
    BY <1>7 DEF Answer, CancelAnswer
  <2>2. /\ tab'.at = "confirm" /\ tab'.call = NULL /\ tab'.owed = tab.owed
        /\ tab'.shown = "CANCELLED" /\ ~tab'.panel
    BY <2>1 DEF At
  <2>3. tab.owed > 0 => PaidOut'
    BY <1>3, <1>4, <1>7 DEF Sound
  <2>4. QED
    BY <1>1, <1>3, <2>2, <2>3
       DEF TabKeeps, TabInv, SuccessIsPaid, AnnouncedRefundIsPaid, PaidOut
<1>8. CASE tab' = [At("provider", NoRow) EXCEPT !.p = req[r].p] /\ charge' # charge
  <2>1. req[r].at = "initCall"
    BY <1>1, <1>4, <1>8, HandlerWrites DEF InitiateCall
  <2>2. /\ req[r].p \in Payment /\ payFor[req[r].p] = Mine
    BY <1>2, <1>4, <2>1 DEF Linked, PaymentSteps, Sound
  <2>3. payFor'[req[r].p] = Mine
    BY <1>2, <2>2, MineAssumption DEF RowsMove
  <2>4. /\ tab'.at = "provider" /\ tab'.call = NULL /\ tab'.owed = 0
        /\ ~tab'.told /\ tab'.p = req[r].p
    BY <1>8 DEF At
  <2>5. QED
    BY <2>2, <2>3, <2>4
       DEF TabKeeps, TabInv, SuccessIsPaid, AnnouncedRefundIsPaid
<1>9. tab.at # "provider"
  BY <1>1, <1>4 DEF TabInv
<1>10. QED
  BY <1>5, <1>6, <1>7, <1>8, <1>9 DEF Answer, CancelAnswer, PayNowAnswer

\* Everybody else goes on while the tab stays as it is.
LEMMA OthersKeep ==
  ASSUME PagesTypeOK, PagesInv, [Next]_vars, Marks, OthersStep \/ UNCHANGED pagesVars
  PROVE  TabKeeps'
<1>1. /\ TypeOK /\ LedgerInv /\ RefundsPositive /\ FreshIsFree /\ TabInv
      /\ SuccessIsPaid /\ AnnouncedRefundIsPaid /\ tab \in Tab
  BY DEF PagesTypeOK, PagesInv
<1>2. RowsMove
  BY <1>1, RowsStep
<1>3. /\ PaidFor(Mine) => PaidFor(Mine)'
      /\ PaidOut => PaidOut'
      /\ Backed => Backed'
  BY <1>1, <1>2, Kept
<1>4. tab' = tab
  BY DEF OthersStep, pagesVars
<1>5. ASSUME tab.call # NULL PROVE Sound(req[tab.call])'
  <2>1. req'[tab.call] = req[tab.call]
    BY <1>1, <1>5, OthersApart DEF pagesVars, vars
  <2>2. Sound(req[tab.call])
    BY <1>1, <1>5 DEF TabInv
  <2>3. QED
    BY <1>3, <1>4, <2>1, <2>2 DEF Sound
<1>6. tab.at = "provider" => payFor'[tab.p] = Mine
  BY <1>1, <1>2, MineAssumption DEF TabInv, RowsMove
<1>7. TabInv'
  BY <1>1, <1>3, <1>4, <1>5, <1>6 DEF TabInv
<1>8. QED
  BY <1>1, <1>3, <1>4, <1>7 DEF TabKeeps, SuccessIsPaid, AnnouncedRefundIsPaid, PaidOut

\* The guest does something on a page.
LEMMA PageKeeps ==
  ASSUME PagesTypeOK, PagesInv, TypeOK', LedgerInv', [Next]_vars, Marks, PageStep
  PROVE  TabKeeps'
<1>1. /\ TypeOK /\ LedgerInv /\ RefundsPositive /\ FreshIsFree /\ TabInv
      /\ SuccessIsPaid /\ AnnouncedRefundIsPaid /\ tab \in Tab
  BY DEF PagesTypeOK, PagesInv
<1>2. RowsMove /\ EntryIsPaidFor
  BY <1>1, RowsStep DEF LedgerInv
<1>3. /\ PaidFor(Mine) => PaidFor(Mine)'
      /\ PaidOut => PaidOut'
      /\ Backed => Backed'
  BY <1>1, <1>2, Kept
<1>4. TabKeeps
  BY <1>1 DEF TabKeeps
<1>5. status[Mine] = "PAID" => PaidFor(Mine)
  BY <1>2, MineAssumption DEF EntryIsPaidFor
<1>6. ASSUME NEW at \in Place \ {"provider"}, NEW shown, tab' = At(at, shown)
      PROVE  TabKeeps'
  <2>1. /\ tab'.at = at /\ tab'.call = NULL /\ tab'.owed = 0 /\ ~tab'.told
        /\ tab'.verdict = "none"
    BY <1>6 DEF At
  <2>2. QED
    BY <1>3, <1>4, <2>1, TabRests
<1>7. CASE handleSubmit \/ loadBooking \/ loadTrips
  BY <1>6, <1>7 DEF handleSubmit, loadBooking, loadTrips, Place
<1>8. CASE openCancelPanel
  <2>1. /\ tab'.at = "confirm" /\ tab'.call = NULL /\ tab'.owed = tab.owed
        /\ tab'.told = tab.told /\ tab'.shown = tab.shown
    BY <1>1, <1>8 DEF openCancelPanel, Waiting, Tab
  <2>2. ~tab.told
    BY <1>1, <1>8 DEF openCancelPanel, canCancel, TabInv
  <2>3. QED
    BY <1>3, <1>4, <2>1, <2>2, TabRests
<1>9. ASSUME NEW r \in Request, handlePayNow(r) PROVE TabKeeps'
  <2>1. /\ req'[r].at \in {"initExpire", "initConfirm"} /\ req'[r].b = Mine
        /\ req'[r].st = NoRow
    BY <1>1, <1>9, Begins DEF handlePayNow, Proc
  <2>2. /\ tab'.at = "confirm" /\ tab'.call = r /\ tab'.owed = tab.owed
        /\ tab'.told = tab.told /\ tab'.shown = tab.shown /\ tab'.panel = tab.panel
    BY <1>1, <1>9 DEF handlePayNow, Tab
  <2>3. Sound(req[r])'
    BY <2>1, <2>2 DEF Sound, CallSteps, CancelSteps
  <2>4. QED
    BY <1>1, <1>3, <2>2, <2>3
       DEF TabKeeps, TabInv, SuccessIsPaid, AnnouncedRefundIsPaid, PaidOut
<1>10. ASSUME NEW r \in Request, handleConfirmCancel(r) PROVE TabKeeps'
  <2>1. /\ req'[r].at = "cancel" /\ req'[r].b = Mine /\ req'[r].st = NoRow
        /\ \/ req'[r].pct = 0
           \/ \E p \in Payment : payFor[p] = Mine /\ pay[p] = "SUCCESS"
    BY <1>1, <1>10, Begins DEF handleConfirmCancel, Proc
  <2>2. /\ tab'.at = "confirm" /\ tab'.call = r /\ tab'.owed = req'[r].pct
        /\ tab'.told = tab.told /\ tab.panel
    BY <1>1, <1>10 DEF handleConfirmCancel, Tab
  <2>3. ~tab'.told
    BY <1>1, <2>2 DEF TabInv
  <2>4. Sound(req[r])'
    BY <2>1, <2>2 DEF Sound, CallSteps, CancelSteps
  <2>5. tab'.owed > 0 => Backed'
    BY <1>3, <2>1, <2>2 DEF Backed
  <2>6. QED
    BY <2>2, <2>3, <2>4, <2>5
       DEF TabKeeps, TabInv, SuccessIsPaid, AnnouncedRefundIsPaid
<1>11. ASSUME NEW r \in Request, verify(r) PROVE TabKeeps'
  <2>1. tab.p \in Payment /\ payFor[tab.p] = Mine
    BY <1>1, <1>11 DEF verify, TabInv
  <2>2. ASSUME NEW v, tab' = [At("callback", NoRow) EXCEPT !.verdict = v],
               v = "success" => PaidFor(Mine)
        PROVE  TabKeeps'
    <3>1. /\ tab'.at = "callback" /\ tab'.call = NULL /\ tab'.owed = 0
          /\ ~tab'.told /\ tab'.verdict = v
      BY <2>2 DEF At
    <3>2. QED
      BY <1>3, <2>2, <3>1
         DEF TabKeeps, TabInv, SuccessIsPaid, AnnouncedRefundIsPaid
  <2>3. ASSUME VerifyRead(r, tab.p), tab' = [At("callback", NoRow) EXCEPT !.call = r]
        PROVE  TabKeeps'
    <3>1. /\ req'[r].at = "verifyCall" /\ req'[r].b = Mine
          /\ req'[r].st = status[Mine]
      BY <1>1, <2>1, <2>3, Begins DEF Proc
    <3>2. /\ tab'.at = "callback" /\ tab'.call = r /\ tab'.owed = 0
          /\ ~tab'.told /\ tab'.verdict = "none"
      BY <2>3 DEF At
    <3>3. Sound(req[r])'
      BY <1>3, <1>5, <3>1, <3>2 DEF Sound, CallSteps, CancelSteps
    <3>4. QED
      BY <3>2, <3>3 DEF TabKeeps, TabInv, SuccessIsPaid, AnnouncedRefundIsPaid
  <2>4. Verdict(status[Mine]) = "success" => PaidFor(Mine)
    BY <1>5 DEF Verdict
  <2>5. QED
    BY <1>11, <2>2, <2>3, <2>4 DEF verify
<1>12. ASSUME NEW r \in Request, CallStep(r) PROVE TabKeeps'
  <2>1. CASE tab' = NoAnswer
    <3>1. tab.call # NULL /\ tab.at # "provider"
      BY <1>1, <1>12, SlotAssumption DEF CallStep, TabInv
    <3>2. /\ tab'.at = tab.at /\ tab'.call = NULL /\ tab'.owed = tab.owed
          /\ tab'.told = tab.told /\ tab'.shown = tab.shown /\ tab'.panel = tab.panel
          /\ tab'.at = "callback" => tab'.verdict # "success"
      BY <1>1, <2>1 DEF NoAnswer, Tab
    <3>3. QED
      BY <1>3, <1>4, <3>1, <3>2, TabRests
  <2>2. CASE HandlerStep(r) /\ tab' = IF req'[r].at # "idle" THEN tab ELSE Answer(r)
    <3>1. tab.call = r
      BY <1>12 DEF CallStep
    <3>2. CASE req'[r].at # "idle"
      BY <2>2, <3>1, <3>2, CallGoesOn
    <3>3. CASE req'[r].at = "idle"
      BY <2>2, <3>1, <3>3, CallAnswers
    <3>4. QED
      BY <3>2, <3>3
  <2>3. QED
    BY <1>12, <2>1, <2>2 DEF CallStep
<1>13. QED
  BY <1>7, <1>8, <1>9, <1>10, <1>11, <1>12 DEF PageStep

LEMMA PagesStart == PagesInit => PagesTypeOK /\ PagesInv
<1> SUFFICES ASSUME PagesInit PROVE PagesTypeOK /\ PagesInv
  OBVIOUS
<1>1. TypeOK /\ LedgerInv
  BY InitTypes, LedgerInit DEF PagesInit
<1>2. PagesTypeOK
  <2>1. "form" \in Place /\ NoRow \in BookingStatus \cup {NoRow}
    BY DEF Place
  <2>2. QED
    BY <1>1, <2>1, TabTypes DEF PagesInit, PagesTypeOK
<1>3. /\ tab.at = "form" /\ tab.call = NULL /\ tab.owed = 0 /\ ~tab.told
  BY DEF PagesInit, At
<1>4. RefundsPositive /\ FreshIsFree
  <2>1. Idle.at = "idle"
    BY DEF Idle, AboutBooking
  <2>2. QED
    BY <2>1 DEF PagesInit, Init, RefundsPositive, FreshIsFree
<1>5. QED
  BY <1>1, <1>2, <1>3, <1>4
     DEF PagesInv, TabInv, SuccessIsPaid, AnnouncedRefundIsPaid

LEMMA PagesStep ==
  PagesTypeOK /\ PagesInv /\ [PagesNext]_pagesVars
    => [Next]_vars /\ PagesTypeOK' /\ PagesInv'
<1> SUFFICES ASSUME PagesTypeOK, PagesInv, [PagesNext]_pagesVars
             PROVE  [Next]_vars /\ PagesTypeOK' /\ PagesInv'
  OBVIOUS
<1>1. TypeOK /\ LedgerInv /\ RefundsPositive /\ FreshIsFree /\ TabInv
  BY DEF PagesTypeOK, PagesInv
<1>2. [Next]_vars
  BY <1>1, CoreStep DEF TabInv
<1>3. TypeOK' /\ LedgerInv'
  BY <1>1, <1>2, LedgerStep
<1>4. RefundsPositive' /\ FreshIsFree'
  BY <1>1, <1>2, RowsStep, RefundsPositiveStep
<1>5. Marks /\ overwritten' \subseteq Payment
  BY <1>1, MarksStep DEF PagesTypeOK
<1>6. PagesTypeOK'
  BY <1>3, <1>5, TabStep DEF PagesTypeOK
<1>7. TabKeeps'
  BY <1>2, <1>3, <1>5, PageKeeps, OthersKeep DEF PagesNext
<1>8. QED
  BY <1>2, <1>3, <1>4, <1>6, <1>7 DEF PagesInv, TabKeeps

\* The tables, the tab and what it has been told agree in every state, with
\* any number of other requests, tabs, replicas and notifications at work: the
\* inductive invariant behind the theorems about the pages.
THEOREM PagesCorrect == PagesSpec => [](PagesTypeOK /\ PagesInv)
<1>1. PagesTypeOK /\ PagesInv /\ [PagesNext]_pagesVars => (PagesTypeOK /\ PagesInv)'
  BY PagesStep
<1>2. QED
  BY <1>1, PagesStart, PTL DEF PagesSpec

\* The pages keep to the types of their state, and the tables behind them too.
THEOREM PagesTypes == PagesSpec => []PagesTypeOK
BY PagesCorrect, PTL

\* Whatever the guest does on the pages, and whatever answers are lost, the
\* API behind them behaves as the reservation core: with the pages in front,
\* all its theorems hold.
THEOREM PagesImplementCore == PagesSpec => Spec
<1>1. PagesInit => Init
  BY DEF PagesInit
<1>2. PagesTypeOK /\ PagesInv /\ [PagesNext]_pagesVars => [Next]_vars
  BY PagesStep
<1>3. QED
  BY <1>1, <1>2, PagesCorrect, PTL DEF PagesSpec, Spec

\* `Payment successful' is shown to a guest only whose money the provider has,
\* or whose booking staff have marked as paid.
THEOREM SuccessIsEarned == PagesSpec => []SuccessIsPaid
BY PagesCorrect, PTL DEF PagesInv

\* An announced refund of a payment has been paid back, whatever requests came
\* between the reading of that payment and the refund; unless its success was
\* overwritten as a failure.
THEOREM AnnouncementsAreTrue == PagesSpec => []AnnouncedRefundIsPaid
BY PagesCorrect, PTL DEF PagesInv

-----------------------------------------------------------------------------
(* Reviews.                                                                *)

\* A request to post has seen a stay that is paid for, and a report that has
\* read the review has been counted since.
ReviewInv ==
  /\ posting \/ review.posted => PaidFor(Reviewed)
  /\ \A g \in Reporter : reading[g] # NULL => reading[g].reportCount < reports
  /\ HiddenForReason

LEMMA ReviewsCore ==
  ASSUME [ReviewsNext]_reviewedVars
  PROVE  [Next]_vars
<1>1. CASE ReviewsNext
  BY <1>1 DEF ReviewsNext
<1>2. CASE UNCHANGED reviewedVars
  BY <1>2 DEF reviewedVars
<1>3. QED
  BY <1>1, <1>2

LEMMA ReviewsStart == ReviewsInit => ReviewsTypeOK /\ ReviewInv
<1> SUFFICES ASSUME ReviewsInit PROVE ReviewsTypeOK /\ ReviewInv
  OBVIOUS
<1>1. ~review.posted /\ review.reportCount = 0 /\ review.hidden = "no"
      /\ review \in ReviewRow /\ reports = 0 /\ reports \in 0..MaxReports
  BY ReporterAssumption DEF ReviewsInit, InitReviews, ReviewRow
<1>2. ~over /\ ~posting /\ over \in BOOLEAN /\ posting \in BOOLEAN
  BY DEF ReviewsInit, InitReviews
<1>3. \A g \in Reporter : reading[g] = NULL
  BY DEF ReviewsInit, InitReviews
<1>4. reading \in [Reporter -> ReviewRow \cup {NULL}]
  BY DEF ReviewsInit, InitReviews
<1>5. ReviewsTypeOK
  BY <1>1, <1>2, <1>4 DEF ReviewsTypeOK
<1>6. HiddenForReason
  BY <1>1 DEF HiddenForReason
<1>7. QED
  BY <1>1, <1>2, <1>3, <1>5, <1>6 DEF ReviewInv

LEMMA ReviewsKeep ==
  ASSUME TypeOK, LedgerInv, ReviewsTypeOK, ReviewInv,
         [ReviewsNext]_reviewedVars
  PROVE  ReviewsTypeOK' /\ ReviewInv'
<1>1. PaidFor(Reviewed) => PaidFor(Reviewed)'
  BY ReviewsCore, PaidForStays, LedgerParts, ReviewedAssumption
<1>2. status[Reviewed] \in {"PAID", "CHECKED_IN", "CHECKED_OUT"} => PaidFor(Reviewed)
  BY ReviewedAssumption DEF LedgerInv, EntryIsPaidFor
<1>3. /\ reports \in 0..MaxReports /\ MaxReports \in Nat
      /\ review \in ReviewRow /\ reading \in [Reporter -> ReviewRow \cup {NULL}]
  BY ReporterAssumption DEF ReviewsTypeOK
<1>4. CASE UNCHANGED reviewVars
  BY <1>1, <1>4 DEF reviewVars, ReviewsTypeOK, ReviewInv, HiddenForReason
<1>5. CASE StayEnds \/ CreateRead
  <2>1. ReviewsTypeOK'
    BY <1>5 DEF StayEnds, CreateRead, ReviewsTypeOK
  <2>2. posting' \/ review'.posted => PaidFor(Reviewed)'
    BY <1>1, <1>2, <1>5 DEF StayEnds, CreateRead, hasStayed, ReviewInv
  <2>3. UNCHANGED <<review, reading, reports>>
    BY <1>5 DEF StayEnds, CreateRead
  <2>4. QED
    BY <2>1, <2>2, <2>3 DEF ReviewInv, HiddenForReason
<1>6. CASE CreateWrite \/ setReviewHidden
  <2>1. /\ review' \in ReviewRow /\ review'.reportCount = review.reportCount
        /\ review'.hidden = "auto" => review.hidden = "auto"
    BY <1>3, <1>6 DEF CreateWrite, setReviewHidden, ReviewRow
  <2>2. /\ UNCHANGED <<over, reading, reports>>
        /\ posting' = FALSE \/ posting' = posting
    BY <1>6 DEF CreateWrite, setReviewHidden, postVars
  <2>3. posting \/ review.posted
    BY <1>6 DEF CreateWrite, setReviewHidden
  <2>4. PaidFor(Reviewed)'
    BY <1>1, <2>3 DEF ReviewInv
  <2>5. ReviewsTypeOK'
    BY <2>1, <2>2 DEF ReviewsTypeOK
  <2>6. QED
    BY <2>1, <2>2, <2>4, <2>5 DEF ReviewInv, HiddenForReason
<1>7. ASSUME NEW g \in Reporter, ReportRead(g)
      PROVE  ReviewsTypeOK' /\ ReviewInv'
  <2>1. /\ reading'[g] = review
        /\ \A h \in Reporter \ {g} : reading'[h] = reading[h]
        /\ reading' \in [Reporter -> ReviewRow \cup {NULL}]
        /\ reports' = reports + 1 /\ reports' \in 0..MaxReports
        /\ UNCHANGED <<over, posting, review>>
    BY <1>3, <1>7 DEF ReportRead, postVars
  <2>2. /\ review.reportCount \in Nat
        /\ \A h \in Reporter : reading[h] # NULL => reading[h].reportCount \in Nat
    BY <1>3 DEF ReviewRow
  <2>3. \A h \in Reporter : reading'[h] # NULL => reading'[h].reportCount < reports'
    BY <1>3, <2>1, <2>2 DEF ReviewInv, HiddenForReason
  <2>4. HiddenForReason'
    BY <1>3, <2>1, <2>2 DEF ReviewInv, HiddenForReason, REPORT_AUTO_HIDE_THRESHOLD
  <2>5. QED
    BY <1>1, <2>1, <2>3, <2>4 DEF ReviewsTypeOK, ReviewInv
<1>8. ASSUME NEW g \in Reporter, ReportWrite(g)
      PROVE  ReviewsTypeOK' /\ ReviewInv'
  <2> DEFINE newCount == reading[g].reportCount + 1
             hides == newCount >= REPORT_AUTO_HIDE_THRESHOLD /\ reading[g].hidden = "no"
             hidden == IF hides THEN "auto" ELSE review.hidden
  <2>1. newCount \in 0..MaxReports /\ newCount <= reports
    BY <1>3, <1>8 DEF ReportWrite, ReviewInv, ReviewRow
  <2>2. /\ review' = [review EXCEPT !.reportCount = newCount, !.hidden = hidden]
        /\ reading' = [reading EXCEPT ![g] = NULL]
        /\ UNCHANGED <<over, posting, reports>>
    BY <1>8 DEF ReportWrite, postVars
  <2>3. hidden \in {"no", "auto", "admin"}
    BY <1>3 DEF ReviewRow
  <2>4. hidden = "auto" => review.hidden = "auto" \/ newCount >= 3
    BY DEF REPORT_AUTO_HIDE_THRESHOLD
  <2> HIDE DEF newCount, hides, hidden
  <2>5. /\ review' \in ReviewRow /\ review'.reportCount = newCount
        /\ review'.posted = review.posted /\ review'.hidden = hidden
    BY <1>3, <2>1, <2>2, <2>3 DEF ReviewRow
  <2>6. /\ reading' \in [Reporter -> ReviewRow \cup {NULL}]
        /\ \A h \in Reporter : reading'[h] # NULL => reading'[h] = reading[h]
    BY <1>3, <2>2
  <2>7. HiddenForReason'
    BY <1>3, <2>1, <2>2, <2>4, <2>5
       DEF ReviewInv, HiddenForReason, REPORT_AUTO_HIDE_THRESHOLD
  <2>8. QED
    BY <1>1, <2>2, <2>5, <2>6, <2>7 DEF ReviewsTypeOK, ReviewInv
<1>9. QED
  BY <1>4, <1>5, <1>6, <1>7, <1>8 DEF ReviewsNext, ReviewStep, reviewedVars

\* What holds of the core, of the review and of the reports in every state.
THEOREM ReviewsCorrect ==
  ReviewsSpec => [](TypeOK /\ LedgerInv /\ ReviewsTypeOK /\ ReviewInv)
<1>1. ReviewsInit => TypeOK /\ LedgerInv /\ ReviewsTypeOK /\ ReviewInv
  BY ReviewsStart, InitTypes, LedgerInit DEF ReviewsInit
<1>2. TypeOK /\ LedgerInv /\ ReviewsTypeOK /\ ReviewInv
        /\ [ReviewsNext]_reviewedVars
        => (TypeOK /\ LedgerInv /\ ReviewsTypeOK /\ ReviewInv)'
  BY ReviewsCore, LedgerStep, ReviewsKeep
<1>3. QED
  BY <1>1, <1>2, PTL DEF ReviewsSpec

\* Every review that was posted is of a stay that is paid for, though other
\* requests change the booking between its check and its insert.
THEOREM ReviewsAreOfPaidStays == ReviewsSpec => []ReviewsArePaidStays
<1>1. ReviewInv => ReviewsArePaidStays
  BY DEF ReviewInv, ReviewsArePaidStays
<1>2. QED
  BY <1>1, ReviewsCorrect, PTL

\* However many reports overlap, they hide a review only when three have been
\* made.
THEOREM ReportsHideWithReason == ReviewsSpec => []HiddenForReason
BY ReviewsCorrect, PTL DEF ReviewInv
=============================================================================
