---------------------------- MODULE BookingPages ----------------------------
(***************************************************************************)
(* The pages of apps/web around a guest's booking: the form, the           *)
(* confirmation page with payment and cancellation, the return from the    *)
(* payment provider and the list of trips.  The booking is a row of the    *)
(* reservation core, and a request of a page is a handler of the core: the *)
(* page waits for its answer while everybody else goes on.  A page offers  *)
(* what the row it last loaded allows.                                     *)
(***************************************************************************)
EXTENDS Reservations, CancellationPolicy

CONSTANTS
  Mine,   \* the guest's booking
  Hours   \* hours before check-in at which the guest may cancel

ASSUME MineAssumption == Mine \in Booking /\ Hours \subseteq Int
ASSUME PolicyAssumption == {0, 50, 100} \subseteq RefundPercent
ASSUME SlotAssumption == NULL \notin Request

VARIABLES
  sends,       \* the client passes on the access token it got with the booking
  tab,         \* the guest's browser tab
  overwritten  \* payments whose success was overwritten as a failure (history)

pagesVars == <<vars, sends, tab, overwritten>>

Place == {"form", "confirm", "provider", "callback", "trips"}

\* What a tab remembers: where it is, the status it shows (NoRow: nothing was
\* found), an open cancellation panel, the slot of the request whose answer it
\* waits for, the payment it comes back with, the refund that its cancellation
\* owes by what the API read, whether a refund has been announced, and how
\* the verification ended.
At(place, shown) ==
  [at |-> place, shown |-> shown, panel |-> FALSE, call |-> NULL, p |-> NULL,
   owed |-> 0, told |-> FALSE, verdict |-> "none"]

PagesInit ==
  /\ Init
  /\ sends \in BOOLEAN
  /\ tab = At("form", NoRow)
  /\ overwritten = {}

CoreStays == UNCHANGED <<vars, overwritten>>
Waiting == tab.call # NULL

-----------------------------------------------------------------------------
(* The form and the confirmation page.                                     *)

\* assertBookingAccess: without the token of the booking no endpoint of the
\* confirmation page looks at it.
findOne == IF sends THEN status[Mine] ELSE NoRow

\* The page of a booking just made loads it at once.
handleSubmit ==
  /\ tab.at = "form"
  /\ \E s \in Asked : Create(Mine, s)
  /\ tab' = At("confirm", IF sends THEN "PENDING" ELSE NoRow)
  /\ UNCHANGED <<sends, overwritten>>

loadBooking ==
  /\ tab.at \in {"callback", "trips"} /\ ~Waiting
  /\ tab' = At("confirm", findOne)
  /\ CoreStays /\ UNCHANGED sends

isPending == tab.shown \in {"PENDING", "CONFIRMED"}
canCancel == tab.shown \in {"PENDING", "CONFIRMED", "PAID", "CHECKED_IN"}

\* Pay now.  A request that is refused at once leaves the page as it was.
handlePayNow(r) ==
  /\ tab.at = "confirm" /\ isPending /\ ~tab.panel /\ ~Waiting
  /\ sends
  /\ InitiateRead(r, Mine)
  /\ tab' = [tab EXCEPT !.call = r]
  /\ UNCHANGED <<sends, overwritten>>

\* The panel with the preview of the refund, and away again.
openCancelPanel ==
  /\ tab.at = "confirm" /\ canCancel /\ ~Waiting
  /\ tab' = [tab EXCEPT !.panel = ~@]
  /\ CoreStays /\ UNCHANGED sends

\* The property's policy is what the host has made of it by now.
handleConfirmCancel(r) ==
  /\ tab.at = "confirm" /\ tab.panel /\ ~Waiting
  /\ sends
  /\ \E policy \in CancellationPolicy, left \in Hours :
       CancelRead(r, Mine, calculateRefund(policy, left))
  /\ tab' = [tab EXCEPT !.call = r, !.owed = req'[r].pct]
  /\ UNCHANGED <<sends, overwritten>>

-----------------------------------------------------------------------------
(* Back from the provider.                                                 *)

Verdict(bookingStatus) == IF bookingStatus = "PAID" THEN "success" ELSE "failed"

\* The callback page asks once, when it opens: about a payment that is decided
\* the API answers at once, about any other after it has asked the provider.
verify(r) ==
  /\ tab.at = "provider"
  /\ \/ /\ ~sends
        /\ tab' = [At("callback", NoRow) EXCEPT !.verdict = "error"]
        /\ CoreStays
     \/ /\ sends /\ pay[tab.p] # "INITIATED"
        /\ tab' = [At("callback", NoRow) EXCEPT !.verdict = Verdict(status[Mine])]
        /\ CoreStays
     \/ /\ sends /\ VerifyRead(r, tab.p)
        /\ tab' = [At("callback", NoRow) EXCEPT !.call = r]
        /\ UNCHANGED overwritten
  /\ UNCHANGED sends

-----------------------------------------------------------------------------
(* Answers.                                                                *)

NoAnswer == IF tab.at = "callback"
            THEN [tab EXCEPT !.call = NULL, !.verdict = "error"]
            ELSE [tab EXCEPT !.call = NULL]

\* Of initiatePayment: a redirect, when the provider has just opened a charge.
PayNowAnswer(r) ==
  IF charge' # charge THEN [At("provider", NoRow) EXCEPT !.p = req[r].p]
                      ELSE NoAnswer

\* Of cancel: the cancelled booking and the refund, once all went well.
CancelAnswer(r) ==
  IF req[r].at = "release"
  THEN [At("confirm", "CANCELLED") EXCEPT !.owed = tab.owed, !.told = TRUE]
  ELSE NoAnswer

\* Of verifyPayment: PAID when this request has recorded the payment; the
\* status read before the call, which a provider that says `not paid' or a
\* webhook that was faster leave standing; or an error.
Verified(r) ==
  CASE notified' # notified -> "success"
    [] req[r].at = "verifyCall" /\ charge[req[r].p] # "captured"
         -> Verdict(req[r].st)
    [] req[r].at = "paidTx" -> "failed"
    [] OTHER -> "error"
VerifyAnswer(r) == [tab EXCEPT !.call = NULL, !.verdict = Verified(r)]

Answer(r) == CASE tab.at = "callback" -> VerifyAnswer(r)
               [] tab.at = "confirm" /\ tab.panel -> CancelAnswer(r)
               [] OTHER -> PayNowAnswer(r)

\* (History, and no step of the code.)
Overwrites ==
  overwritten' = overwritten \cup
                   {p \in Payment : pay[p] = "SUCCESS" /\ pay'[p] = "FAILED"}

\* The handler the page waits for takes a step.  If that is its last one, the
\* answer reaches the page, or is lost; after a crash there is none.
CallStep(r) ==
  /\ tab.call = r
  /\ \/ HandlerStep(r) /\ tab' = IF req'[r].at # "idle" THEN tab ELSE Answer(r)
     \/ HandlerStep(r) /\ req'[r].at = "idle" /\ tab' = NoAnswer
     \/ Crash(r) /\ tab' = NoAnswer
  /\ UNCHANGED sends
  /\ Overwrites

-----------------------------------------------------------------------------
(* Trips, and everybody else.                                              *)

\* GET /guest/bookings is the signed-in guest's, and needs no token.  Leaving
\* a page does not stop the request it waits for.
loadTrips ==
  /\ tab.at # "provider" /\ status[Mine] # NoRow
  /\ tab' = At("trips", status[Mine])
  /\ CoreStays /\ UNCHANGED sends

PageStep ==
  \/ handleSubmit \/ loadBooking \/ openCancelPanel \/ loadTrips
  \/ \E r \in Request : \/ handlePayNow(r) \/ handleConfirmCancel(r)
                        \/ verify(r) \/ CallStep(r)

\* Everybody else: the provider and its webhooks, other guests and other tabs
\* of this one, and the lists of the host and of the administrator, which were
\* loaded at any time and so ask for any change of status.
OthersStep ==
  /\ \/ Environment
     \/ \E r \in Request \ {tab.call} : Arrive(r)
     \/ \E r \in Proc \ {tab.call} : SweepRead(r) \/ HandlerStep(r) \/ Crash(r)
  /\ UNCHANGED <<sends, tab>>
  /\ Overwrites

PagesNext == PageStep \/ OthersStep

PagesSpec == PagesInit /\ [][PagesNext]_pagesVars

-----------------------------------------------------------------------------

Tab == [at : Place, shown : BookingStatus \cup {NoRow}, panel : BOOLEAN,
        call : Request \cup {NULL}, p : Payment \cup {NULL}, owed : 0..100,
        told : BOOLEAN, verdict : {"none", "success", "failed", "error"}]

\* The tables and the tab keep to their types.
PagesTypeOK ==
  /\ TypeOK
  /\ sends \in BOOLEAN /\ tab \in Tab /\ overwritten \subseteq Payment

\* `Payment successful' is only ever shown to a guest whose money the provider
\* has, or whose booking staff have marked as paid by hand.
SuccessIsPaid ==
  tab.at = "callback" /\ tab.verdict = "success" => PaidFor(Mine)

\* When a page announces the refund of a payment that the cancellation had
\* found, the provider has paid back; unless a notification of failure, which
\* had seen the payment open, overwrote its success before the refund.
AnnouncedRefundIsPaid ==
  tab.told /\ tab.owed > 0 =>
    \E p \in Payment : payFor[p] = Mine /\ (refunds[p] > 0 \/ p \in overwritten)
=============================================================================
