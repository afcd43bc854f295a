--------------------------- MODULE PaymentsService --------------------------
(***************************************************************************)
(* apps/api/src/payments/payments.service.ts: starting a payment, the      *)
(* webhook, verification after the redirect, the refund that a             *)
(* cancellation asks for, and the manual status change of staff.           *)
(***************************************************************************)
EXTENDS PhonePe

-----------------------------------------------------------------------------
(* initiatePayment                                                         *)

\* Read the booking, check its status, look at the hold.
InitiateRead(r, b) ==
  /\ canTransition(status[b], "CONFIRMED")
  /\ Begin(r, AboutBooking(IF hold[b] = "lapsed" THEN "initExpire"
                                                 ELSE "initConfirm", b))
  /\ UNCHANGED <<bookingVars, paymentVars, providerVars, announced, notified>>

\* The hold has run out: mark the booking and throw.
InitiateExpire(r) ==
  /\ req[r].at = "initExpire"
  /\ WriteBooking(req[r].b, "EXPIRED", hold[req[r].b])
  /\ Finish(r)
  /\ UNCHANGED <<paymentVars, providerVars, announced, notified>>

\* PENDING -> CONFIRMED.  The row may have changed since it was read.
InitiateConfirm(r) ==
  /\ req[r].at = "initConfirm"
  /\ \/ /\ WriteBooking(req[r].b, "CONFIRMED", "none")
        /\ Continue(r, "initCreate")
     \/ /\ ~Accepts(req[r].b, "CONFIRMED")
        /\ Finish(r)
        /\ UNCHANGED bookingVars
  /\ UNCHANGED <<paymentVars, providerVars, announced, notified>>

\* Insert the payment row, before the provider is called.
InitiateCreate(r, p) ==
  /\ req[r].at = "initCreate"
  /\ pay[p] = NoRow
  /\ pay' = [pay EXCEPT ![p] = "INITIATED"]
  /\ payFor' = [payFor EXCEPT ![p] = req[r].b]
  /\ Become(r, [AboutBooking("initCall", req[r].b) EXCEPT !.p = p])
  /\ UNCHANGED <<bookingVars, refunded, providerVars, announced, notified>>

\* The provider answers with a redirect URL; or it opens the transaction and
\* the answer is lost; or it does not.  The last two make the call throw.
InitiateCall(r) ==
  /\ req[r].at = "initCall"
  /\ \/ OpenCharge(req[r].p) /\ (Finish(r) \/ Continue(r, "initFail"))
     \/ Continue(r, "initFail") /\ UNCHANGED providerVars
  /\ UNCHANGED <<bookingVars, paymentVars, announced, notified>>

\* A mutant: the catch block forgets the booking.
InitiateFailPaymentOnly(r) ==
  /\ req[r].at = "initFail"
  /\ pay' = [pay EXCEPT ![req[r].p] = "FAILED"]
  /\ Finish(r)
  /\ UNCHANGED <<bookingVars, payFor, refunded, providerVars, announced, notified>>

\* The transaction of the catch block; nothing is published.
InitiateFail(r) ==
  /\ req[r].at = "initFail"
  /\ pay' = [pay EXCEPT ![req[r].p] = "FAILED"]
  /\ WriteBooking(req[r].b, "CANCELLED", hold[req[r].b])
  /\ Finish(r)
  /\ UNCHANGED <<payFor, refunded, providerVars, announced, notified>>

-----------------------------------------------------------------------------
(* handleWebhook and verifyPayment                                         *)

\* A notification of success, which the provider sends of a captured payment
\* only: read payment and booking; a payment that is SUCCESS or FAILED is left
\* alone, a booking that cannot become PAID makes it throw.
WebhookSuccess(r, p) ==
  /\ charge[p] = "captured"
  /\ pay[p] \in {"INITIATED", "REFUNDED"}
  /\ canTransition(status[payFor[p]], "PAID")
  /\ Begin(r, AboutPayment("paidTx", p))
  /\ UNCHANGED <<bookingVars, paymentVars, providerVars, announced, notified>>

\* Any other notification counts as a failure, also one that says that the
\* payment is still pending, and one that arrives when the guest has paid
\* meanwhile.  The booking is given up if its status allows that.
WebhookFailure(r, p) ==
  /\ charge[p] # "none"
  /\ pay[p] \in {"INITIATED", "REFUNDED"}
  /\ canTransition(status[payFor[p]], "CANCELLED")
  /\ Begin(r, AboutPayment("failTx", p))
  /\ UNCHANGED <<bookingVars, paymentVars, providerVars, announced, notified>>

\* verifyPayment reads the payment and its booking ...
VerifyRead(r, p) ==
  /\ pay[p] = "INITIATED"
  /\ Begin(r, [AboutPayment("verifyCall", p) EXCEPT !.st = status[payFor[p]]])
  /\ UNCHANGED <<bookingVars, paymentVars, providerVars, announced, notified>>

\* A mutant: any answer is taken for a completed payment.
VerifyCallTrusting(r) ==
  /\ req[r].at = "verifyCall"
  /\ \/ /\ canTransition(req[r].st, "PAID")
        /\ Become(r, AboutPayment("paidTx", req[r].p))
     \/ Finish(r)
  /\ UNCHANGED <<bookingVars, paymentVars, providerVars, announced, notified>>

\* ... and asks the provider.  Only a completed payment is acted on; the
\* status checked is the one read before the call.
VerifyCall(r) ==
  /\ req[r].at = "verifyCall"
  /\ \/ /\ charge[req[r].p] = "captured"
        /\ canTransition(req[r].st, "PAID")
        /\ Become(r, AboutPayment("paidTx", req[r].p))
     \/ Finish(r)
  /\ UNCHANGED <<bookingVars, paymentVars, providerVars, announced, notified>>

\* processSuccessfulPayment, inside the transaction: read the payment again.
PaidTx(r) ==
  /\ req[r].at = "paidTx"
  /\ IF pay[req[r].p] = "INITIATED" THEN Continue(r, "paidCommit")
                                    ELSE Finish(r)
  /\ UNCHANGED <<bookingVars, paymentVars, providerVars, announced, notified>>

\* Its two updates and the commit.  Neither update repeats the test, and the
\* default isolation level lets another transaction commit in between.  On
\* success the invoice and the confirmation messages are started.
PaidCommit(r) ==
  /\ req[r].at = "paidCommit"
  /\ \/ /\ pay' = [pay EXCEPT ![req[r].p] = "SUCCESS"]
        /\ WriteBooking(req[r].b, "PAID", hold[req[r].b])
        /\ notified' = [notified EXCEPT ![req[r].p] = @ + 1]
     \/ /\ ~Accepts(req[r].b, "PAID")
        /\ UNCHANGED <<bookingVars, pay, notified>>
  /\ Finish(r)
  /\ UNCHANGED <<payFor, refunded, providerVars, announced>>

\* processFailedPayment: the same for a payment that failed.
FailTx(r) ==
  /\ req[r].at = "failTx"
  /\ IF pay[req[r].p] = "INITIATED" THEN Continue(r, "failCommit")
                                    ELSE Finish(r)
  /\ UNCHANGED <<bookingVars, paymentVars, providerVars, announced, notified>>

\* A mutant: the payment's new status is written into the booking as well.
FailCommitWrongEnum(r) ==
  /\ req[r].at = "failCommit"
  /\ pay' = [pay EXCEPT ![req[r].p] = "FAILED"]
  /\ WriteBooking(req[r].b, "FAILED", hold[req[r].b])
  /\ GoRelease(r, {req[r].b})
  /\ UNCHANGED <<payFor, refunded, providerVars, announced, notified>>

FailCommit(r) ==
  /\ req[r].at = "failCommit"
  /\ pay' = [pay EXCEPT ![req[r].p] = "FAILED"]
  /\ WriteBooking(req[r].b, "CANCELLED", hold[req[r].b])
  /\ GoRelease(r, {req[r].b})
  /\ UNCHANGED <<payFor, refunded, providerVars, announced, notified>>

-----------------------------------------------------------------------------
(* refundPayment, called by cancel with the refund it computed             *)

\* Find a successful payment.  None: nothing to do.  A refund that would
\* exceed the amount throws; a payment refunded before is returned as it is.
RefundFind(r) ==
  /\ req[r].at = "refundFind"
  /\ LET successes == {p \in Payment : payFor[p] = req[r].b
                                       /\ pay[p] = "SUCCESS"}
     IN \/ successes = {} /\ GoRelease(r, {req[r].b})
        \/ \E p \in successes :
             \/ refunded[p] + req[r].pct > 100 /\ Finish(r)
             \/ /\ refunded[p] + req[r].pct <= 100
                /\ refunded[p] > 0
                /\ GoRelease(r, {req[r].b})
             \/ /\ refunded[p] = 0
                /\ Become(r, [AboutPayment("refundCall", p) EXCEPT
                                !.pct = req[r].pct])
  /\ UNCHANGED <<bookingVars, paymentVars, providerVars, announced, notified>>

\* A mutant: a rejected refund is written down like any other.
RefundCallUnchecked(r) ==
  /\ req[r].at = "refundCall"
  /\ Continue(r, "refundLedger")
  /\ PayBack(req[r].p, req[r].pct) \/ UNCHANGED providerVars
  /\ UNCHANGED <<bookingVars, paymentVars, announced, notified>>

\* A mutant: a refund that fails is logged, and the handler goes on.
RefundCallLogging(r) ==
  /\ req[r].at = "refundCall"
  /\ \/ PayBack(req[r].p, req[r].pct) /\ Continue(r, "refundLedger")
     \/ GoRelease(r, {req[r].b}) /\ UNCHANGED providerVars
  /\ UNCHANGED <<bookingVars, paymentVars, announced, notified>>

\* The provider carries the refund out and the answer arrives; or it does so
\* and the answer is lost; or it does not.  The last two make the call throw.
RefundCall(r) ==
  /\ req[r].at = "refundCall"
  /\ \/ PayBack(req[r].p, req[r].pct) /\ Continue(r, "refundLedger")
     \/ PayBack(req[r].p, req[r].pct) /\ Finish(r)
     \/ Finish(r) /\ UNCHANGED providerVars
  /\ UNCHANGED <<bookingVars, paymentVars, announced, notified>>

\* Write the refund down.  This update has a WHERE clause: it throws when the
\* payment is no longer an unrefunded SUCCESS.
RefundLedger(r) ==
  /\ req[r].at = "refundLedger"
  /\ \/ /\ pay[req[r].p] = "SUCCESS" /\ refunded[req[r].p] = 0
        /\ pay' = [pay EXCEPT ![req[r].p] = "REFUNDED"]
        /\ refunded' = [refunded EXCEPT ![req[r].p] = req[r].pct]
        /\ GoRelease(r, {req[r].b})
     \/ /\ ~(pay[req[r].p] = "SUCCESS" /\ refunded[req[r].p] = 0)
        /\ Finish(r)
        /\ UNCHANGED <<pay, refunded>>
  /\ UNCHANGED <<bookingVars, payFor, providerVars, announced, notified>>

-----------------------------------------------------------------------------
(* transitionBooking                                                       *)

TransitionRead(r, b, target) ==
  /\ canTransition(status[b], target)
  /\ Begin(r, [AboutBooking("transition", b) EXCEPT !.st = target])
  /\ UNCHANGED <<bookingVars, paymentVars, providerVars, announced, notified>>

TransitionWrite(r) ==
  /\ req[r].at = "transition"
  /\ \/ WriteByHand(req[r].b, req[r].st, hold[req[r].b])
     \/ ~Accepts(req[r].b, req[r].st) /\ UNCHANGED bookingVars
  /\ Finish(r)
  /\ UNCHANGED <<paymentVars, providerVars, announced, notified>>

=============================================================================
