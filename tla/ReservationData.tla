--------------------------- MODULE ReservationData --------------------------
(***************************************************************************)
(* The state the booking and the payment service share: the bookings and   *)
(* payments tables with the exclusion constraint of the database, what the *)
(* payment provider knows, and the requests being served.                  *)
(*                                                                         *)
(* A handler of the API is a sequence of database statements and provider  *)
(* calls with an `await' after each, so it is modelled as a sequence of    *)
(* steps between which any other handler may run.  A request in progress   *)
(* is a record in `req' that says which step comes next and what the       *)
(* handler still remembers of what it has read.                            *)
(***************************************************************************)
EXTENDS BookingState, Integers, FiniteSets

CONSTANTS
  Room,          \* the rooms on sale
  Day,           \* the days of the booking window, consecutive integers
  MaxNights,     \* longest stay the API accepts (90 in the code)
  Asked,         \* stays guests ask for: any stay, unless a run bounds it
  Booking,       \* ids of the rows the bookings table may come to hold
  Payment,       \* ids of the rows the payments table may come to hold
  Request,       \* slots for HTTP requests served at the same time
  Cron,          \* one hold-cleanup scheduler for each API replica
  RefundPercent, \* refunds the cancellation policy may answer, in percent
  ManualTarget,  \* statuses staff ask for: any of them, unless a run bounds it
  CanCrash,      \* TRUE when a handler may stop between two of its steps
  NULL           \* no booking, no payment, no stay

Proc == Request \cup Cron

ASSUME DayAssumption == Day \subseteq Int /\ MaxNights \in Nat
ASSUME RefundAssumption == RefundPercent \subseteq 0..100
ASSUME ProcAssumption == Request \cap Cron = {}
ASSUME TargetAssumption == ManualTarget \subseteq BookingStatus

VARIABLES
  \* bookings table
  status,     \* status of each booking, NoRow before the insert
  hold,       \* holdExpiresAt: "none" (null), "running" or "lapsed" (past)
  stay,       \* room, check-in and check-out of each booking
  byHand,     \* bookings staff have marked PAID (history, in no table)
  \* payments table
  pay,        \* status of each payment, NoRow before the insert
  payFor,     \* the booking a payment is for
  refunded,   \* refundedAmount in percent of the amount; 0: no refundTxnId
  \* payment provider
  charge,     \* the provider's side of each payment transaction
  refunds,    \* total percentage the provider has paid back
  \* API processes and what they tell the outside
  req,        \* the handler each process is running
  announced,  \* kinds of realtime events published about a booking
  notified    \* times a payment's confirmation side effects were started

bookingVars  == <<status, hold, stay, byHand>>
paymentVars  == <<pay, payFor, refunded>>
providerVars == <<charge, refunds>>
vars == <<status, hold, stay, byHand, pay, payFor, refunded, charge, refunds,
          req, announced, notified>>

-----------------------------------------------------------------------------
(* Stays, and the constraint no_overlapping_bookings.                      *)

\* What validateDateRange lets through, as the date columns keep it.  It
\* compares full date-times, check-out after check-in and a bounded number of
\* days apart; what is stored are the dates, which may be the same.
Stay == {s \in [room : Room, checkIn : Day, checkOut : Day] :
           /\ s.checkIn <= s.checkOut
           /\ s.checkOut - s.checkIn <= MaxNights}

ASSUME AskedAssumption == Asked \subseteq Stay
ASSUME NullAssumption == NULL \notin Booking \cup Payment \cup Stay

\* A stay that ends on the date it begins is stored as the empty daterange.
Empty(s) == s.checkIn = s.checkOut

\* daterange && daterange, with the upper end excluded: the guest of the
\* check-out day and the guest of the next check-in may share that date, and
\* an empty range overlaps nothing.
\* (First a mutant, with both ends excluded.)
OverlapsOpen(s, t) ==
  /\ s.room = t.room /\ ~Empty(s) /\ ~Empty(t)
  /\ s.checkIn + 1 < t.checkOut
  /\ t.checkIn + 1 < s.checkOut

Overlaps(s, t) ==
  /\ s.room = t.room /\ ~Empty(s) /\ ~Empty(t)
  /\ s.checkIn < t.checkOut
  /\ t.checkIn < s.checkOut

\* A mutant of the constraint: as if its WHERE clause had left PENDING out.
SlotFreeOfPaid(b, s) ==
  \A c \in Booking \ {b} :
    status[c] \in ACTIVE_STATES \ {"PENDING"} => ~Overlaps(stay[c], s)

SlotFree(b, s) ==
  \A c \in Booking \ {b} :
    status[c] \in ACTIVE_STATES => ~Overlaps(stay[c], s)

\* The database accepts a new value of booking b's status.
Accepts(b, st) == st \in ACTIVE_STATES => SlotFree(b, stay[b])

-----------------------------------------------------------------------------
(* Requests.                                                               *)

Steps == {"idle", "confirm", "confirmExpire", "initConfirm", "initExpire",
          "initCreate", "initCall", "initFail", "cancel", "refundFind",
          "refundCall", "refundLedger", "verifyCall", "paidTx", "paidCommit",
          "failTx", "failCommit", "transition", "sweep", "release"}

\* The locals of a handler: the next step, the booking and payment it is
\* about, a status it remembers, a refund, and bookings to publish about.
Locals == [at : Steps, b : Booking \cup {NULL}, p : Payment \cup {NULL},
           st : BookingStatus \cup {NoRow}, pct : 0..100, bs : SUBSET Booking]

\* The locals of a handler about booking b, about payment p of booking b, or
\* about the bookings in bs.
AboutBooking(at, b) ==
  [at |-> at, b |-> b, p |-> NULL, st |-> NoRow, pct |-> 0, bs |-> {}]
AboutPayment(at, p) ==
  [at |-> at, b |-> payFor[p], p |-> p, st |-> NoRow, pct |-> 0, bs |-> {}]
AboutBookings(at, bs) ==
  [at |-> at, b |-> NULL, p |-> NULL, st |-> NoRow, pct |-> 0, bs |-> bs]

Idle == AboutBooking("idle", NULL)

Become(r, locals) == req' = [req EXCEPT ![r] = locals]

\* Process r starts a handler; `locals' is what it has read so far.
Begin(r, locals) == req[r].at = "idle" /\ Become(r, locals)

\* Process r goes on to step `to' of the handler it is running.
Continue(r, to) == Become(r, [req[r] EXCEPT !.at = to])

\* The handler of r returns or throws; either way it is over.
Finish(r) == Become(r, Idle)

\* The handler of r has only its room.released events left to publish.
GoRelease(r, bs) == Become(r, AboutBookings("release", bs))

-----------------------------------------------------------------------------
(* Statements on the bookings table.                                       *)

\* prisma.booking.update({where: {id}, data: {status, holdExpiresAt}}): the
\* WHERE clause names only the row, so whatever status the row has by now is
\* overwritten, unless the constraint refuses it.
WriteRow(b, st, h) ==
  /\ Accepts(b, st)
  /\ status' = [status EXCEPT ![b] = st]
  /\ hold' = [hold EXCEPT ![b] = h]
  /\ UNCHANGED stay

WriteBooking(b, st, h) == WriteRow(b, st, h) /\ UNCHANGED byHand

\* The same, asked for by staff.
WriteByHand(b, st, h) ==
  /\ WriteRow(b, st, h)
  /\ byHand' = IF st = "PAID" THEN byHand \cup {b} ELSE byHand

\* The last step of cancel, of the cleanup and of a failed payment: publish
\* room.released for the bookings the handler has let go.
PublishReleased(r) ==
  /\ req[r].at = "release"
  /\ announced' = [b \in Booking |->
                     IF b \in req[r].bs THEN announced[b] \cup {"released"}
                                         ELSE announced[b]]
  /\ Finish(r)
  /\ UNCHANGED <<bookingVars, paymentVars, providerVars, notified>>

=============================================================================
