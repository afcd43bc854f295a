# StayEase: a TLA+ verification of the booking system

StayEase lets hosts put hotel rooms on sale and lets guests book and pay for
them. This directory holds TLA+ modules translated from its source, TLC
configurations that model-check them on small instances, and theorems that
TLAPS proves for instances of every size. Paths below are relative to the
repository; `api/` stands for `apps/api/src/`.

    tlc -config overlap.cfg MCReservations.tla     # one of the runs below
    tlapm ReservationsProofs.tla                   # one of the proof modules

## 1. Inventory of the system

One Postgres database is shared by any number of replicas of a NestJS API
(`apps/api`). Each HTTP request is served by an `async` handler: a sequence of
database statements and calls to other services, with an `await` after each,
between which every other handler may run. There are few transactions, nearly
all at the default isolation level READ COMMITTED, where a transaction's second
statement sees what others have committed since its first one. Beside the
database stand a payment provider (PhonePe), Redis, a realtime service written
in Go (`apps/realtime`) that tells browsers which rooms are taken, and a
Next.js site (`apps/web`).

| Component | State | Operations | Talks to | What is hard | Correct when |
|---|---|---|---|---|---|
| Booking state machine, `api/common/booking-state.ts` | none: a table | `canTransition`, `assertCanTransition`, `isTerminal`, `ACTIVE_STATES` | asked by every service before it writes a status | the answer is about a status read earlier | every status change is one of the table's |
| Bookings, `api/bookings` | `bookings`: status, room, dates, `holdExpiresAt` | `create`, `confirm`, `cancel`, `cleanupExpiredHolds` (each minute, in every replica), lists, analytics | payments (refund), realtime | two guests want the same nights; updates name a row by id only; holds time out while somebody pays | no room is sold twice; holds end; releases are announced |
| Payments, `api/payments/payments.service.ts` | `payments`: status, `refundedAmount`, `refundTxnId` | `initiatePayment`, `handleWebhook`, `verifyPayment`, `refundPayment`, `transitionBooking` | provider, bookings, invoices, messages | webhooks twice, late, or during a verification; provider calls that fail or whose answer is lost; crashes between a call and its ledger entry | the ledger agrees with the provider; one charge and one refund for a booking |
| Provider client, `api/payments/phonepe.service.ts` | none | `initiatePayment`, `verifyPayment`, `initiateRefund` | PhonePe | each refund call has a new id | a refund is asked for once |
| Database constraints, `schema.prisma`, `scripts/fix-exclude-constraint.ts` | tables, `no_overlapping_bookings` | refuses an insert or an update | - | half-open ranges, list of active statuses | as the room calendar of `RoomCalendar` |
| Cancellation policy, `api/common/cancellation-policy.ts` | none; the policy is a column of `properties` | `calculateRefund` | cancel, preview | whole hours, boundaries at 24, 120 and 168; the host may change the policy at any time | the refund announced is the refund paid |
| Payouts, `api/payouts` | `payouts`; `bookings.payoutId` | `getBalance`, `generate` (SERIALIZABLE, retried), `markPaid` | reads bookings and invoices | two settlements at once; a cancellation after settlement | a booking is settled once |
| Invoices and GST, `api/invoices` | `invoices`, `invoice_sequences` | `generateForBooking`, `getForBooking` | started by a payment | a duplicate delivery; a number drawn and lost; rounding | one invoice a booking; numbers unique |
| Pricing: rules, calendar, approvals, execution | `pricing_rules`, `pricing_approvals`, `daily_room_prices` | `create`, `setActive`, `decide`, `approveAndApply`, `rollback`, the calendar's suggestion | `create` of a booking | a status tested before the transaction; two requests about one proposal; a rollback of prices read earlier | a live price has been decided; guests pay prices that were set |
| Insights, recommendations, pace | none | functions of the bookings | the host's screens | rounded percentages at thresholds; three services count the same thing | they agree, and follow the bookings |
| Realtime hub, `apps/realtime` | connected clients, each with a buffer of messages | register, unregister, broadcast | Redis, browsers | slow clients; a disconnect racing a broadcast | a channel is closed once; every socket is cleaned up |
| Availability feed, `apps/web/src/lib/use-availability.ts` | held rooms, as seen by a page | on held, on released | hub | lost events; a set of rooms, not of bookings | a served page has missed nothing |
| Sessions of hosts, guests, administrators | `refresh_tokens` and the like; tokens and profile in the browser | register, login, refresh, logout, suspend | the pages of every tab | tabs share local storage and keep tokens in memory; answers arrive late | all tabs show one session; suspension takes effect |
| Reviews | `reviews`: rating, reports, hidden | create, reply, report, hide | bookings | two reports at once; a report racing an administrator | reviews are of paid stays; hidden after three reports |
| Properties, rooms, search, host verification | `properties`, `rooms`, columns of `hosts` | create, update, deactivate, remove, submit, review | search, bookings | pages act on rows loaded long ago; booking asks about the room only | what is sold was on offer; a badge rests on an ID somebody saw |
| Web pages, `apps/web/src/app` | what each tab has loaded | forms and buttons | all of the above | buttons offered by old rows | what they tell the guest about money is so |
| Rate limiter | a Redis counter for each key and window | consume | Redis | nothing carries over to the next window | - |
| Billing plan | columns of `hosts` | setPlan, setGstin | invoices, payouts | a change while an invoice is made | - |
| AI, upload, email, WhatsApp, health, metrics, filters | none kept here | calls to outside services | - | - | - |

What is hard to test in it is listed, at the line where it bites, under
`hazards` in `PROJECT.json`, with the properties that watch over it. Most of it
has one root: **a handler decides on a status that it has read, and later writes
by id alone**; the pages of the site do the same with the rows they have loaded.
Two things stand in the way of harm. One is the exclusion
constraint of the database. The other is what cannot be undone outside: money
once captured stays captured, however often the rows about it are overwritten.
The proofs below make that precise.

## 2. Plan

Order of work, most important first:

1. the reservation core: bookings, payments, provider and constraint together,
   since almost every hazard lies between them (done);
2. its proofs: types, the ledger against the provider, and the room calendar as
   the abstract specification (done);
3. `Payouts` over serializable transactions with retries, refining "each
   booking is settled once", and `Invoices` with `Gst` and `Rounding` (numbers,
   tax), with their proofs (done);
4. the pages around a booking and the reviews, both over the core and its
   handlers step by step: `BookingPages` with the cancellation policy, `Reviews`
   (done);
5. `Sessions`, `Realtime`, `Pricing` with `Demand`, and `CatalogPages` over
   `Catalog` (done);
6. the proofs of 4 and 5, and of the core's handlers one at a time (done: every
   invariant and every action property of a run is a theorem);
7. next, one view of a payment from the webhook to the invoice: `Invoices` starts
   at the commit of a success and shares only that moment with the core, and
   `Payouts` has its own, coarser handlers.

How the modules of the core build on each other:

    BookingState        status table, no state
      ReservationData   tables, constraint, handlers in progress
        PhonePe         the provider
          PaymentsService
            BookingsService
              Reservations        Init, Next, Spec, properties
                MCReservations    instances for TLC
                ReservationsProofs
                Reviews           MCReviews
                BookingPages      MCBookingPages; EXTENDS CancellationPolicy too
                  BookingPagesProofs   of the pages and of the reviews
    RoomCalendar        abstract; instantiated by Reservations

and of the other parts, which meet the core in the statuses of `BookingState`
and in what the core calls `notified`:

    SettlementLedger    abstract; instantiated by Payouts
    BookingState
      Payouts           MCPayouts, PayoutsProofs
    Rounding            money, in floating point
      Gst               tax on an invoice
        Invoices        MCInvoices, InvoicesProofs

    AuthService               accounts, token pairs, digests
      Sessions                MCSessions, SessionsProofs
    Demand                    figures computed from bookings
      Pricing                 MCPricing, PricingProofs
    Catalog                   property, room, host verification
      CatalogPages            MCCatalog, CatalogPagesProofs
    Realtime                  MCRealtime, RealtimeProofs

## 3. The reservation core

### State

| Variable | In the system |
|---|---|
| `status`, `hold`, `stay` | columns of `bookings`. `hold` keeps of `holdExpiresAt` whether it is null, still ahead, or past |
| `byHand` | history: the bookings staff have marked PAID |
| `pay`, `payFor`, `refunded` | columns of `payments`. `refunded` is `refundedAmount` in percent of the amount; 0 also stands for no `refundTxnId` |
| `charge`, `refunds` | what the provider has captured and paid back |
| `req` | for each process, the handler it is running: next step and locals |
| `announced` | which of `room.held`, `room.released` was published about a booking |
| `notified` | how often invoice and messages were started for a payment |

### Steps of a handler

A handler is one action for each stretch of code between two `await`s on shared
state. The first reads (`...Read`, `Webhook...`), checks with `canTransition`
what the code checks, and remembers the locals in `req[r]`; the following ones
find the tables as they are by then.

| Code | Actions |
|---|---|
| `bookings.service` `create` | `Create` |
| `confirm` | `ConfirmRead`, then `ConfirmWrite` or `ConfirmExpire` |
| `cancel`, with `refundPayment` | `CancelRead`, `CancelWrite`, `RefundFind`, `RefundCall`, `RefundLedger`, `PublishReleased` |
| `cleanupExpiredHolds` | `SweepRead`, `SweepWrite`, `PublishReleased` |
| `payments.service` `initiatePayment` | `InitiateRead`, `InitiateExpire` or `InitiateConfirm`, `InitiateCreate`, `InitiateCall`, `InitiateFail` |
| `handleWebhook` | `WebhookSuccess`, `PaidTx`, `PaidCommit`; `WebhookFailure`, `FailTx`, `FailCommit`, `PublishReleased` |
| `verifyPayment` | `VerifyRead`, `VerifyCall`, `PaidTx`, `PaidCommit` |
| `transitionBooking` | `TransitionRead`, `TransitionWrite` |
| a process or its connection dies | `Crash`, at any step of any handler |
| guests and time | `GuestPays`, `GuestDeclines`, `HoldLapses` |

The cleanup is also an endpoint, so a request may run it as well as a `Cron`
process.

### What is abstracted, and why it may be

- **Transactions.** `processSuccessfulPayment` and `processFailedPayment` read
  and then update inside READ COMMITTED transactions. The read and the two
  updates with the commit are two steps: the updates do not depend on anything
  read between them, take row locks, and become visible together.
- **Constraint.** Every write of an active status asks `SlotFree`; a refused
  write is a step that changes nothing (in `initiatePayment`, the end of the
  handler; in a transaction, its rollback).
- **Dates.** The API compares full date-times and the columns are `@db.Date`.
  `Stay` therefore has stays that end on the date they begin: check-out after
  check-in, in one day. They are stored as an empty range, which the constraint
  compares with nothing (`Empty`, `Overlaps`), and hold no night of the calendar.
- **create** is one step with the `room.held` event that follows it. Nothing in
  the core reads that event. The checks of the room and the guest before it
  refuse the request; its retry after a deadlock repeats a refused insert.
- **Reads with `include`** (a payment with its booking) are one step.
- **Money** is in percent of the payment's amount. What the policy answers is a
  constant, `RefundPercent`; whichever time it is, some value of it applies.
- **"The latest successful payment"** of a booking is any successful one.
- **Provider.** A transaction is captured or declined once. The answer to the
  call that opens it, or to one that pays back, may be lost although the call
  was carried out (`InitiateCall`, `RefundCall`); a charge opened so may be paid
  like any other. The provider does not pay back more than it captured.
- **Notifications.** The controller takes `success` or `COMPLETED` for success
  and everything else, a pending payment included, for failure; so does
  `WebhookFailure`, at any time after the charge was opened. That a notification
  of success is of a captured payment is the provider's word: the controller
  does not ask whether flag and state agree.
- **Refusals that change nothing** (access tokens, signatures, wrong amounts)
  are left out, as is the mock mode of the provider client.
- **Staff transitions.** The endpoints take a target status; `ManualTarget` is
  the set of targets staff ask for. In all runs but `overlap` and
  `v_double_refund` it is every status, `PAID` included, as on the
  administrator's page and endpoint; the one beside the payments takes all but
  CANCELLED. Who sets `PAID` by hand lets in a guest who has not paid through
  the provider, which the code allows: `byHand` remembers it and the properties
  about entry name it.
- **Asked** bounds in a run the stays guests ask for; nothing else reads it.

### What holds, and what does not

With handlers step by step the table of transitions is not kept, nor do the two
tables always agree: a stale write may bring back a booking that was cancelled
and paid back, and of two transactions that both saw INITIATED one may record a
failure over the other's success. What is left is `SuccessIsCaptured`,
`RefundIsBacked`, `EntryIsPaidFor` (nobody enters for whom no money was ever
captured, unless staff said so), the constraint's `NoDoubleBooking` and the
calendar. One handler at a time (`serial`) also keeps `LegalTransitions`,
`OnePaymentPerBooking`, `PaidHasPayment` and `TablesAgree`: the difference
between the two lists is what the missing conditions in the updates cost.
That a failed payment was never captured does not hold even then, since a
notification that a payment is pending fails it.

### Fairness

`FairSpec` assumes what a runtime and a scheduler give: a handler that can go
on goes on (`WF` of `HandlerStep`), and the cron job of a replica is run again
and again (`WF` of `SweepRead`). `Crash` may come at any step, so a cleanup may
be cut off each time before its write; that each replica is cut off there for
ever is excluded by `SF` of `SweepWrite`. Ten minutes pass (`WF` of
`HoldLapses`). Nothing is assumed of guests and the provider.

## 4. Payouts

`Payouts` is the ledger of one host; a batch reads and writes the bookings of
that host only. `counted[p]` stands for the count and the amounts of payout `p`:
the set of bookings they are computed from. `payoutId`, `payoutStatus`, `status`
and `pay` are columns.

| Code | Actions |
|---|---|
| `generate`, begin and `findMany` | `Generate`: the snapshot's answer goes into `req[r].bs` |
| insert, `updateMany`, commit | `Claim` |
| P2034, and the retry after a pause | `Abort`, `Retry` (a new transaction, a new snapshot); after `MaxAttempts` it throws |
| `markPaid` | `MarkRead`, `MarkWrite`, with nothing between them to stop a second call |
| the process dies | `Crash`: the transaction is rolled back |
| `processSuccessfulPayment`, `transitionBooking`, `cancel`, `refundPayment` | `HandlerRead`, `HandlerWrite`, `HandlerRefund`, `HandlerEnd` |

- **SERIALIZABLE.** Of Postgres the model keeps two rules. A transaction that
  has a row in its snapshot cannot update that row once somebody else has
  written it (`stale`, set by `Outdated`): this alone gives the properties. And
  it may be aborted, also without that, while another serializable transaction
  of the kind is open: this only adds aborts. Booking and payment handlers run
  at READ COMMITTED, which no serializable transaction conflicts with unless
  they write the same row.
- **Handlers** of bookings and payments are the core's with less detail: a
  status found allowed and not written yet. They still overwrite statuses that
  changed meanwhile, so a booking may go back from CANCELLED to PAID here as
  well. Initial bookings are CONFIRMED and unpaid.
- A refund is written into `payments` only. It therefore does not disturb an
  open batch, and does not have to: the cancellation before it wrote the
  booking's row.

`SettlementLedger` says what hosts are promised: bookings are settled together,
each of them once, and what a batch was computed from never changes.
`ClaimedWhenEarned` says nothing of what happens after the claim: a stay may be
settled long before check-in and cancelled after that, and the code never takes
the host's share back.

## 5. Invoices

`Invoices` starts where a payment's success is committed, which several
deliveries of it may do (both may read INITIATED in their transactions): `Deliver` is the
test inside the transaction, `Commit` its end, which starts
`generateForBooking` and does not wait for it. Its four statements are
`InvoiceLookup`, `InvoiceRead` (with `calculateGst`), `NextInvoiceNumber` and
`IssueInvoice`; `DeliveryCrash` may end it anywhere. `SetGstin` is the host's
registration, moving and its withdrawal; `NewYear` is the clock.

- The booking's status is left out of `Deliver`: it would only refuse some
  deliveries, and which ones is the core's subject.
- An invoice number is a pair of year and value; the string is made of both, and
  of six digits or more, so that different pairs are different strings.
- A GSTIN counts by where it is registered: not at all, in the state of the
  property, or elsewhere (`Gstin`).
- **Money.** Amounts are integers, in paise. The code computes
  `Math.round(x * 100) / 100` in floating point. `Near` gives the results that
  can come of it: the nearest paisa, and when the exact value lies halfway
  between two, either of them. Each rounding is chosen for itself, but the
  two halves of one tax are the same expression and come out equal.

Numbers are unique and not without gaps: the second of two deliveries draws one
that its refused insert loses. The schema says only "sequential per calendar
year".

## 6. Sessions

A browser's tabs share one local storage. `Sessions` is of one role's client
(`api`, `guestApi` or `adminApi`, chosen in `Init`), with its tables in
`AuthService`.

| Variable | In the system |
|---|---|
| `row` | the account: none, left by a checkout, active, suspended |
| `pair` | a token pair: its owner, whether the access token is in its lifetime, whether the row of the refresh token is neither revoked nor expired |
| `stored` | tokens and profile in local storage |
| `memory`, `shown` | per tab: the tokens its client holds, the profile its pages show |
| `notified` | tabs a storage event is on its way to |
| `request` | the auth request of a tab: sent, past its checks (bcrypt runs), answered |

A login that is answered 401 makes a client that still holds tokens try a refresh
before it shows the refusal (`Deny`), as any other call does.

Login and registration are two steps, since hashing lies between the check and
the write: an account may be created or suspended meanwhile. `Rotate` is the
refresh endpoint. The digest stored is salted (`bcrypt`) and the one looked up
is not (`sha256`), so `FindsRow` finds no row and every refresh is refused. The model says
it by the two digests and not by leaving refreshing out; that no refresh ever
succeeds is then a theorem (§12). `SuspensionBites`
depends on it: the guards read no table and a refresh does not look at
`isActive`, so that with one digest for both a suspended host would stay signed
in, which is the property's mutant. Pairs that nothing can use are issued
again, so two suffice for runs of any length.

Fairness: storage events are delivered and access tokens expire. Nobody has to
sign in, and answers may be lost.

## 7. The realtime feed

`Realtime` has the path of an event from `publish` through Redis and the hub to
the set of rooms a page shows. The hub is one goroutine whose `select` cases are
`Register`, `Unregister` and `DeliverTargeted`; each socket has a reader
(`ReadPump`, `ReadError`) and a writer (`WritePump`, `WriteClose`,
`WriteError`). A case is one step: the hub's locks are only taken by the hub.
What can fail does: a publish, the subscription (for good), a full queue,
sockets, and a page that is left. `panicked` would become true when a channel is closed twice
or written to after its close, which in Go ends the process.

`due` is a history variable: what a page would show had it seen every event the
hub delivered since it subscribed. `NothingSkipped` compares it with what the
page shows and what is still on its way, which `After` adds up without going
through the events one by one: of each room the last event about it decides. The fairness is that of the Go
scheduler and its `select`; nothing makes a visitor come or go. Buffers of one
event instead of 256 make them full at once.

## 8. Pages around a booking, and reviews

`BookingPages` is the guest's tab over the core: `tab` says where it is, the
status it loaded, whether the cancellation panel is open, and for which request
(`call`) it waits. `handlePayNow`, `verify` and `handleConfirmCancel` start a
handler of the core; `CallStep` runs it, step by step, and gives its answer to
the page, or loses it. In between everybody else goes on (`OthersStep`): the
provider and its webhooks, other tabs of the guest, the host and the
administrator, whose lists are of any age and who therefore ask for any status.
That every step here is one of the core's, or none, is a theorem
(`PagesImplementCore`).

- `sends`, chosen in `Init`, is whether the client presents the booking's access
  token. The web pages never do (`FALSE`), and every call that asks for it is
  then refused: a guest who has just booked is sent to a page that finds no
  booking. `TRUE` is a client that follows the same screens with the token,
  without which the rest of the pages would not be exercised at all.
- A cancellation meets any policy and any of the hours left in `MCHours`, one
  for each row of the table and on its boundary where there is one at 24 or 168.
- `tab.owed` is the refund the cancellation has computed, if it has found a
  successful payment: the code refunds only then, and announces the percentage
  either way.
- `overwritten` is history: payments whose success was overwritten as a failure.
  `AnnouncedRefundIsPaid` names it because the property is false without: the
  answer of the call that opens a charge is lost, the guest pays, a notification
  records the success, a cancellation reads it, and then the catch block of
  `initiatePayment` writes FAILED; `refundPayment` finds no successful payment
  and the refund is announced all the same. TLC finds this in the instance of `pages`.

`Reviews` is a review of one booking of the core, posted and reported in two
statements each. `ReviewsSpec` puts it beside the core's `Next`; no page is
needed, since whoever may post does. `HiddenForReason` says that overlapping
reports can lose counts and never gain them. `over` is the clock after
check-out.

## 9. Pricing

`Pricing` is of one room. `request` holds what each of the host's requests has
read: `DecideRead` and `DecideWrite`, `ApplyRead` (status, before the
transaction), `ApplyCurrent` (current price, inside it), `ApplyCommit`,
`RollbackRead` and `RollbackWrite`; `Crash` ends any of them. `stay` is the
guest's booking: `CreateRead` (the room with its base price), `CreatePrices`
(dated prices, then the total). The calendar applies the rules one after another
(`suggestedPrice`, a recursive function of how many have been applied), each
when it is `applicable`: switched on, its optional first and last day, both
included, and its range of demand cover the day. Days are numbers; a price sent
as text, of which `"0"` passes the code's test, is any number in `Offer` or a
suggested one. Proposals may name no room, and are then never applied.

Two histories say what has happened to prices: `hadBase`, the base prices the
room has had, and `accepted`, the proposals that were approved at some time.
`DatedPricesWereSet` asks of every dated price, also one a rollback has written
(`MANUAL`), and of the one kept beside it, that it was set for that night in one
of these ways; `ChargedAsSet` asks it of what the guest pays. A proposal is in
`accepted` though a second decision has turned it into REJECTED since: that this
happens, against the guide, is the run `v_decided_twice`.

A night's price is read by date, and the number of nights is the number of
started days between two date-times. `Night` is the set of these dates.

`Demand` has the figures three services compute from the bookings, translated
separately and compared by `AdviceFollowsDemand` over all markets of at most one
booking a room. They do not mean the same bookings. The insights read a month, to the
hour (`LastMonth`: of its first day some bookings count and some do not), and
count guests who have left. Their days go from midnight to midnight on the
server's clock and are then named in UTC, while the other services cut at
midnight in UTC: on a server off UTC such a day has the nights of two
(`Spanned`). The property states what agrees then: on UTC, no day the insights call
a peak is advised a discount; off UTC, one of the two days at least is spared
the larger one.

## 10. Listings

`Catalog` is the API around one property with one room and its host;
`CatalogPages` adds the host's pages, the lists of two administrators and a
visitor who searches, looks and books. Every page keeps what it loaded.
`property.offered` is history: the property was open and the room active at one
moment. `seen` is history, too: the IDs an administrator had on screen while
pending. IDs are numbers, in the order they were handed in.

Booking a room asks only whether the room is active. That a guest cannot buy
from a closed property rests on the pages alone (`SoldWasOffered`, whose mutant
is a public page with inactive rooms). The model lets a page act on anything it
once showed: an approval may reach an ID that was handed in later and that
nobody has seen; `VerifiedWasSeen` is the part of the promise that holds.

## 11. Runs

Deadlock is checked in `sessions` and `catalog`. In the others the system may
stop: bookings end, and rows, deliveries, versions or events are used up. Bookings,
payments, requests, reporters and administrators are interchangeable and the
safety runs use that symmetry.

| Run | Bounds | Shows |
|---|---|---|
| `overlap` (`MCReservations`) | 2 bookings of 1 room in 3 days (stays of 1 and 2 nights and of none: equal, nested, adjacent), 1 payment, 1 request, 1 cron, crashes | `TypeOK`, `NoDoubleBooking`, the abstract calendar `CalendarSpec`, and `HoldsAreSwept` under `FairSpec`; a handler may write an expired booking back to life while its nights have been sold again, and the constraint stands in the way |
| `payments` (`MCReservations`) | 1 booking, 2 payments, 2 requests, 1 cron, refunds of 0, 50, 100, staff who ask for any status, crashes; 830 thousand states | `SuccessIsCaptured`, `RefundIsBacked`, `EntryIsPaidFor`, and the inductive invariant `LedgerInv` |
| `serial` (`MCReviews`) | 1 booking of any of 4 stays, 2 payments, 1 request, its review, 2 reporters, 3 reports, any status asked for, crashes; 44 thousand states | one request at a time, `LegalTransitions`, `OnePaymentPerBooking`, `PaidHasPayment` and `TablesAgree` hold, whatever is called in whatever order and wherever it stops; and `ReviewsArePaidStays`, `HiddenForReason` |
| `payouts` (`MCPayouts`) | 2 bookings, 2 payouts, 2 requests, 2 other handlers, 2 attempts (4 in the code) | `BatchesMatchClaims`, `ClaimedWhenEarned`, and the abstract ledger `SettledOnce` |
| `invoices` (`MCInvoices`) | 2 bookings at 1000.01, 7500.00 or 7500.04 a night, 2 deliveries, 2 years | `NumbersNeverClash`, `InvoiceAddsUp`, `DearerIsTaxedMore` |
| `sessions` (`MCSessions`) | 3 roles, 1 account, 2 token pairs, 2 tabs | `EveryTabFollows`, `SuspensionBites` |
| `realtime` (`MCRealtime`) | 1 room, 2 sockets, buffers of 1, 2 events | `HubNeverPanics`, `NothingSkipped`, `SocketsEnd` |
| `pages` (`MCBookingPages`) | 1 booking, 1 payment, 2 requests (the page's and another), all policies, hours for each row of the refund table, any status asked for, crashes; 299 thousand states | `PagesTypeOK`, `SuccessIsPaid`, `AnnouncedRefundIsPaid` |
| `pricing` (`MCPricing`) | 2 nights, one of them with dated prices, 2 proposals, 2 requests, 1 rule that ends with the first night, versions up to 2, 3 rooms of demand, bookings made 3, 10 and 30 days ago; 785 thousand states | `DatedPricesWereSet`, `ChargedAsSet`, `AdviceFollowsDemand` |
| `catalog` (`MCCatalog`) | 1 property, 1 room, 2 prices, 2 administrators, 2 IDs | `SoldWasOffered`, `VerifiedWasSeen` |

Every run but `payments` and `serial` also checks its module's type invariant. `pages`
is explored up to `View`, which leaves out what was announced and how often a
payment was notified: the steps and properties of that run read neither, but
for a test that the latter has just changed.

Two of each are enough for the properties of the core: each relates two bookings, two
payments of one booking, or two handlers about one row. Three days are the least
with which stays nest and touch. One room suffices, as bookings of different
rooms meet nowhere. In `payouts` two batches contend for one booking or for two, and
the other handlers for the same; a first and a last attempt are all there is to
tell apart. In `invoices` two deliveries are about one booking
or about two, the prices lie on both sides of the slabs, and two of them make
the halves of the tax round. In `sessions` a second tab is what makes
tokens in memory and in storage differ, and two pairs an old and a new session.
In `realtime` buffers of one are full after one event, and one socket may be
slow while the other is not. In `pricing` two requests meet about one proposal
or about two for one night. The rest of the generality is what the proofs are
for.

The next runs each check one statement that a comment or a guide of the
repository makes and the code does not keep; TLC's counterexample is the scenario. The quotes are
in `PROJECT.json` under `findings`.

| Run | The counterexample |
|---|---|
| `v_double_refund` | two cancellations at once both call the provider; one refund is recorded |
| `v_decided_twice` | two requests both read a proposal as PENDING; one approves it and the other then rejects it |

Neither contradicts a property that is proved: with any number of
requests the room is still sold once, the ledger never claims money that
is not there, and a price that is charged has been set.

## 12. Proofs

Every invariant and every action property of the runs is a theorem about
instances of any size, under the assumptions named with the constants: days and
prices are numbers, refunds are between 0 and 100 percent, requests and cron
processes are different, bounds are natural numbers, and `NULL` is none of the
ids and rows. The assumptions are evaluated in the runs.

**Reservations** (`ReservationsProofs`, in four parts), for any sets of rooms,
bookings, payments, requests and replicas, any days and any longest stay:

| Theorem | States |
|---|---|
| `TypeCorrect` | `Spec => [](TypeOK /\ Linked)` |
| `LedgerCorrect` | `Spec => [](TypeOK /\ LedgerInv)` |
| `CapturedBeforeSuccess`, `EntryNeedsPayment`, `RefundsAreBacked` | the three other properties of `payments` |
| `NoRoomSoldTwice` | `Spec => []NoDoubleBooking` |
| `BookingsImplementCalendar` | `Spec => CalendarSpec` |
| `SerialCorrect` | one handler at a time: `Spec => [](TypeOK /\ Linked /\ SerialInv)` |
| `SerialTransitionsAreLegal`, `SerialChargesOnce`, `SerialEntryIsPaid`, `SerialTablesAgree` | one handler at a time: the properties of `serial` about bookings |

*Ledger.* That a payment recorded as successful has been captured is not
inductive: `PaidCommit` writes SUCCESS without looking at the provider, having
asked two steps before. The invariant says what handlers still know:

- `Linked`: payments refer to bookings that exist, and the locals of a handler
  to rows that do (a step of the types' proof needs it already);
- `HandlersKnow`: a handler about to record a success has seen the money
  captured, one starting a payment is alone in doing so and its payment is
  untouched, one about to write a refund down has had it carried out, and one
  about to let a guest in or out has read a booking that is paid for;
- `ChargesFollowRows`: the provider knows no payment before its row exists.

All of these survive the steps of other handlers because the provider's side
only grows: captured is final, refunds only add up, and a booking once paid for
remains so (`PaidFor`). The proof has two halves accordingly, the money and the
guests (`LedgerParts`). Concurrency of handlers about the same row breaks the
*order* of the ledger (a success transaction that had read INITIATED may commit
after a refund and undo its REFUNDED), never this agreement.

*Rooms.* `NoDoubleBooking` needs two facts: an active booking has a stay
(`RowsFilled`), and no step writes an active status without the constraint's
consent. The second goes through every status write of every handler
(`StatusSteps`); the cleanup's and the expiry's writes need no consent since
they write an inactive status. A status that handlers remember as the
target of a transition may be active, so the invariant types those too
(`TargetsStep`).

*Refinement.* `claim` maps a booking to the nights it holds, `booked` to the
nights of its row. Each step is one of the calendar's or a stutter: `Create` is a
`Claim`; a write of an active status over an inactive one is a `Reclaim`, which
happens (see `overlap`) and which the calendar allows only when the nights are
free; everything that ends bookings is a `Release` of one or many.
`ApartSharesNoNight` connects the constraint's comparison of dates with sets of
nights.

*One handler at a time.* The root named in §1 is that a handler writes what an
earlier read allowed. `ReadsHold` says, for each step, what the handler has read
and still relies on: PENDING before a confirmation, CONFIRMED while a payment is
started or recorded, CANCELLED while a refund is made, a status the table lets
the next one follow. With other handlers this is false; with `Proc = {solo}`
only crashes, guests and time come between, and they change neither a status nor
a payment row. `PaymentsFollowConfirmation` and `OnePaymentPerBooking` complete
the invariant: `initiatePayment` asks for PENDING, and no booking with a payment
is ever PENDING again. `SerialEntryIsPaid` and `SerialTablesAgree` are inductive
relative to that; targets are any staff may ask for, `PAID` included.

**Payouts** (`PayoutsProofs`), for any bookings, payouts, requests, handlers and
number of attempts above 0:

| Theorem | States |
|---|---|
| `PayoutsCorrect`, `PayoutTypes` | `Spec => []Inv`, `Spec => []TypeOK` |
| `RevenueMatchesClaims` | `Spec => []BatchesMatchClaims` |
| `OnlyEarnedIsClaimed` | `Spec => ClaimedWhenEarned` |
| `PayoutsImplementLedger` | `Spec => SettledOnce` |

`BatchesMatchClaims` alone is not inductive: `Claim` writes what an earlier
snapshot showed. `SnapshotsHold` adds that a transaction that is not stale still
finds its bookings unclaimed and settleable, since every write to one of them
marks it stale; `RowsBeforeBatches`, that a payout to be inserted has no
bookings yet. `RetriesLeft` only serves the type of `attempt`. A claim then maps
to one `Settle`, and every other step to a stutter.

**Invoices** (`InvoicesProofs`), for any bookings, prices, lengths of stay,
deliveries and years:

| Theorem | States |
|---|---|
| `InvoicesCorrect`, `InvoiceTypes` | `Spec => []Inv`, `Spec => []TypeOK` |
| `NumbersAreUnique` | `Spec => []NumbersNeverClash` |
| `InvoicesAddUp` | `Spec => []InvoiceAddsUp` |
| `DearerPaysMoreTax` | `Spec => []DearerIsTaxedMore` |

That a new number clashes with none in use needs that every number held or
issued is one its year's sequence has reached (`DeliveriesHold`,
`InvoicesHold`). The amounts follow from a lemma about `calculateGst`,
`GstBalanced`: whatever the rounding, twice half the tax misses the tax by a
paisa at most (`NearHalf`). For the order of taxes, `TaxesHold` says that what a
delivery carries is the tax of its own booking's price; then neither the slab
(`RateMonotone`) nor a rounding, whose halves may go either way
(`NearMonotone`), exchanges two of them.

**Sessions** (`SessionsProofs`), for any accounts, token pairs and tabs:

| Theorem | States |
|---|---|
| `SessionTypes` | `Spec => []TypeOK` |
| `SignInsCorrect` | `Spec => [](TypeOK /\ SignInInv)` |
| `SessionsEndWithTheirToken` | `Spec => []RefreshNeverSucceeds` |
| `TokensAreOfSignIns` | `Spec => TokensComeFromSignIns` |
| `SuspendedSignNoFurther` | `Spec => SuspendedSignInsFail` |

The last three are the safety behind `SuspensionBites`: a token becomes valid
only through a sign-in of its owner that has passed its checks, none passes
while its account is suspended, and no refresh succeeds. So a suspended account
gets no new pair, except through a sign-in that was past its checks before the
suspension (bcrypt was running), and what it has ends with its lifetime. That
these sessions do end is the liveness half, which the run checks.

**The realtime feed** (`RealtimeProofs`), for any rooms, sockets, capacities and
number of events:

| Theorem | States |
|---|---|
| `FeedCorrect`, `FeedTypes` | `Spec => []Inv`, `Spec => []TypeOK` |
| `HubSurvives` | `Spec => []HubNeverPanics` |
| `PagesMissNothing` | `Spec => []NothingSkipped` |

`Sound` is the invariant of one socket: while the hub has it among its clients
its channel is open, its reader has not gone, and what the page shows, followed
by what is on the wire and in the channel, is what is due. A step of a socket
disturbs that socket only (`OneSocket`). An event that is delivered comes last
and therefore decides about its room (`AfterAppend`); one that is handled comes
first and may as well be handled now (`AfterHead`).

**Pages around a booking, and reviews** (`BookingPagesProofs`), for any bookings,
payments, requests, replicas, hours, reporters and number of reports:

| Theorem | States |
|---|---|
| `PagesCorrect`, `PagesTypes` | `PagesSpec => [](PagesTypeOK /\ PagesInv)`, `PagesSpec => []PagesTypeOK` |
| `PagesImplementCore` | `PagesSpec => Spec` |
| `SuccessIsEarned` | `PagesSpec => []SuccessIsPaid` |
| `AnnouncementsAreTrue` | `PagesSpec => []AnnouncedRefundIsPaid` |
| `ReviewsCorrect` | `ReviewsSpec => [](TypeOK /\ LedgerInv /\ ReviewsTypeOK /\ ReviewInv)` |
| `ReviewsAreOfPaidStays` | `ReviewsSpec => []ReviewsArePaidStays` |
| `ReportsHideWithReason` | `ReviewsSpec => []HiddenForReason` |

Every step of a page is a step of the core or leaves it alone, so that the
core's `LedgerInv` holds under the pages; every further conjunct is about the
one handler a page waits for. `Sound` says what its locals mean for the tab: a
cancellation has the refund the page remembers, a verification that had read
PAID is of a paid booking, and one that has gone on to `release` with a refund
owed has paid it. `Backed` bridges the steps in between: a payment that was
successful when the cancellation read it is successful still, or has been paid
back by some other cancellation, or has been overwritten (`Marks` goes through
the writes of every handler for that). The reviews need less: `ReviewInv` says that a review
posted or about to be posted is of a booking that was paid for, which cannot
cease, and that a report on its way has read fewer reports than were made.

**Pricing** (`PricingProofs`), for any nights, rules, proposals, requests,
prices, numbers of rooms and markets of finite sets of bookings:

| Theorem | States |
|---|---|
| `PricingCorrect`, `PricingTypes` | `Spec => []Inv`, `Spec => []TypeOK` |
| `DatedPricesSet` | `Spec => []DatedPricesWereSet` |
| `GuestsPayWhatWasSet` | `Spec => []ChargedAsSet` |
| `AdviceCorrect` | `Spec => []AdviceFollowsDemand` |

`Settled(n)` are the prices somebody has set for a night, now or before: base
prices and approved proposals. Dated prices are among them, those a rollback would
bring back, and those a request has read and will write (`PriceHolds`,
`RequestHolds`); `SettledGrows` makes that survive all that happens in between.
The advice is arithmetic: whole division keeps the order (`DivMonotone`), so
one booking more of the week raises the percentage and never lowers the advice
(`AdjustmentMonotone`), for any number of rooms and not only the three of the
run. Off UTC a peak is the union of two days, one of which then has at least
half of its bookings (`HalfOfAPeak`): 39 percent after rounding, too many
for the larger discount. That the price after any number of rules is a number, and the base price
if none is applicable, is an induction over that number; `SetInduction` is the
principle, for a set instead of a predicate, from the well-foundedness of `<`.

**Listings** (`CatalogPagesProofs`), for any prices, administrators and number of
IDs handed in:

| Theorem | States |
|---|---|
| `CatalogCorrect`, `CatalogTypes` | `Spec => []Inv`, `Spec => []TypeOK` |
| `OnlyOfferedIsSold` | `Spec => []SoldWasOffered` |
| `BadgesRestOnIds` | `Spec => []VerifiedWasSeen` |

What a page has on screen was so when it was loaded: a visitor's result was on
offer (`ShownWasOffered`), a list with buttons to decide has shown the ID
(`ListedWasSeen`). History, `property.offered` and `seen`, keeps both true after
the tables have moved on.

**Only model-checked:** liveness, which is out of the prover's reach, as is
`ENABLED`: `HoldsAreSwept`, `EveryTabFollows`, `SuspensionBites` and
`SocketsEnd`, each on the instance of its run; and that no state of `sessions`
and `catalog` is a deadlock.

## 13. Not modelled

- Lists, previews and analytics only read; search and the figures a host
  decides by are modelled, the insights' revenue sums are not.
- The rate limiter: one atomic increment on a key that names its window.
- AI, upload, email, WhatsApp, health, metrics, error filters: calls to outside
  services and output.
- Of the pages: billing, payouts, dashboards and the revenue page, which show
  what one request returned; account settings; all layout and animation.
- Of a listing: texts, photos, ratings, paging. Of sessions: editing a profile.
- Amounts of payouts: fee and net amount are computed from the same bookings in
  the same transaction.
- The signing of provider requests, and the mock mode of the provider client.

Seen on the way, and not the subject of a run:

- Status updates name a row by id only (`bookings.service.ts:492` and others): a
  booking confirmed between the cleanup's two statements goes from CONFIRMED to
  EXPIRED, and two deliveries of one webhook both pass the test inside the
  transaction and both start invoice and messages, although
  `payments.service.ts:192` says that only one request will see INITIATED. A
  guest who was cancelled and paid back between the host's read and write is
  checked in.
- Any notification that is not a success fails the payment, also one of a
  payment still pending that the guest completes a moment later
  (`payments.controller.ts:109`).
- A refund may be announced and not paid (§8).
- No page of the site keeps the access token that `create` returns, and
  `assertBookingAccess` refuses whoever has none; `bookings.controller.ts:57`
  says that the booking's id serves as a token.
- A success webhook for a booking that was cancelled meanwhile throws; the
  money is neither recorded nor paid back.
- A refund the provider rejects ends `cancel` before it announces the room; the
  comment at `bookings.service.ts:293` says that it "just gets logged".
- `initiatePayment` clears the hold and nothing releases the room of a guest who
  then walks away.
- No refresh ever succeeds: the digest stored is never the digest looked up.
  The client then drops its tokens, and in a tab that holds old ones this also
  removes those another tab has just stored; the profile stays on screen.
- The pages announce a refund to a guest who has not paid anything.
- `api/common/cancellation-policy.ts:17` and `schema.prisma:65` describe the
  MODERATE policy without the last day before check-in, in which nothing is
  refunded; the site promises a full refund at 48 hours or more whatever the
  policy is.
- An invoice's total is `totalPrice` with the tax on top, while the guest was
  charged `totalPrice`. One that could not be made is not made later.
- An administrator's transition may set any status the table allows and refunds
  nothing, also for a paid booking.
- The host's pricing page proposes a price of 0, sends no bearer token and
  ignores the answer. Pages show the base price while `create` charges dated
  prices.
- The links of the home page carry no city and dates, and without them the search asks the API
  nothing. A property without active rooms gives the booking bar no room to
  show.
- The host's calendar counts expired bookings; the banner of a property listens
  for event types nobody publishes; analytics average hidden reviews.
