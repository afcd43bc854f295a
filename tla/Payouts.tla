------------------------------ MODULE Payouts -------------------------------
(***************************************************************************)
(* apps/api/src/payouts/payouts.service.ts: the ledger of what a host is   *)
(* owed and has been paid.  A batch is made in one SERIALIZABLE            *)
(* transaction: it reads the settleable bookings from a snapshot, inserts  *)
(* the payout and puts its id into the rows it has read.  Postgres aborts  *)
(* it if one of those rows was written after the snapshot was taken, and   *)
(* the service tries again a few times.                                    *)
(*                                                                         *)
(* Meanwhile the booking and payment services go on writing to the same    *)
(* rows.  They act as in Reservations, in less detail: a handler of theirs *)
(* is no more than a status it has found allowed and has not written yet.  *)
(* All bookings are of one host; no batch reads those of another.          *)
(***************************************************************************)
EXTENDS BookingState, Naturals, FiniteSets

CONSTANTS
  Booking,      \* bookings of the host
  Payout,       \* ids of the rows the payouts table may come to hold
  Request,      \* slots for payout requests served at the same time
  Handler,      \* slots for booking and payment handlers at the same time
  MaxAttempts,  \* how often a batch is tried (4 in the code)
  NULL          \* no payout, no booking

ASSUME AttemptsAssumption == MaxAttempts \in Nat \ {0}
ASSUME NullAssumption == NULL \notin Payout \cup Booking

VARIABLES
  status,       \* bookings: status
  pay,          \* status of a booking's payment
  todo,         \* what each booking or payment handler is about to write
  payoutId,     \* bookings: payoutId
  counted,      \* the bookings a payout's count and amounts were computed from
  payoutStatus, \* payouts: status, NoRow before the insert
  req           \* the payout handler each request slot is running

bookingVars == <<status, pay, todo>>
payoutVars  == <<payoutId, counted, payoutStatus>>
vars == <<status, pay, todo, payoutId, counted, payoutStatus, req>>

SETTLEABLE_STATUSES == {"PAID", "CHECKED_IN", "CHECKED_OUT"}

\* A mutant: a booking already in a payout is taken again.
EligibleAgain == {b \in Booking : status[b] \in SETTLEABLE_STATUSES
                                  /\ pay[b] = "SUCCESS"}

\* What findMany returns: paid for, not refunded, in no payout yet.
Eligible == {b \in Booking : /\ status[b] \in SETTLEABLE_STATUSES
                             /\ payoutId[b] = NULL
                             /\ pay[b] = "SUCCESS"}

-----------------------------------------------------------------------------

Locals == [at : {"idle", "claim", "retry", "mark"}, bs : SUBSET Booking,
           stale : BOOLEAN, attempt : 0..MaxAttempts, p : Payout \cup {NULL}]

Idle == [at |-> "idle", bs |-> {}, stale |-> FALSE, attempt |-> 0, p |-> NULL]

\* A transaction whose snapshot has shown `bs' to be eligible.
Claiming(attempt, bs) ==
  [Idle EXCEPT !.at = "claim", !.bs = bs, !.attempt = attempt]

Become(r, locals) == req' = [req EXCEPT ![r] = locals]

\* The requests after the rows of `bs' are written: a transaction that has
\* one of them in its snapshot can no longer commit.
Outdated(bs) ==
  [r \in Request |->
     [req[r] EXCEPT !.stale = @ \/ (req[r].bs \cap bs # {})]]

\* generate: begin the transaction and read.  (With nothing eligible it
\* throws.)
Generate(r) ==
  /\ req[r].at = "idle"
  /\ Eligible # {}
  /\ Become(r, Claiming(1, Eligible))
  /\ UNCHANGED <<bookingVars, payoutVars>>

\* A mutant: READ COMMITTED, which does not mind what happened to the rows.
ClaimReadCommitted(r, p) ==
  /\ req[r].at = "claim"
  /\ payoutStatus[p] = NoRow
  /\ payoutStatus' = [payoutStatus EXCEPT ![p] = "PENDING"]
  /\ counted' = [counted EXCEPT ![p] = req[r].bs]
  /\ payoutId' = [b \in Booking |-> IF b \in req[r].bs THEN p ELSE payoutId[b]]
  /\ req' = [Outdated(req[r].bs) EXCEPT ![r] = Idle]
  /\ UNCHANGED bookingVars

\* Insert the payout, put its id into the rows, commit.
Claim(r, p) ==
  /\ req[r].at = "claim"
  /\ ~req[r].stale
  /\ payoutStatus[p] = NoRow
  /\ payoutStatus' = [payoutStatus EXCEPT ![p] = "PENDING"]
  /\ counted' = [counted EXCEPT ![p] = req[r].bs]
  /\ payoutId' = [b \in Booking |-> IF b \in req[r].bs THEN p ELSE payoutId[b]]
  /\ req' = [Outdated(req[r].bs) EXCEPT ![r] = Idle]
  /\ UNCHANGED bookingVars

\* P2034: a row was written meanwhile, or Postgres sees a dangerous pattern
\* with another serializable transaction.  The last attempt throws.
Abort(r) ==
  /\ req[r].at = "claim"
  /\ req[r].stale \/ \E q \in Request \ {r} : req[q].at = "claim"
  /\ Become(r, IF req[r].attempt < MaxAttempts
                 THEN [Idle EXCEPT !.at = "retry", !.attempt = req[r].attempt]
                 ELSE Idle)
  /\ UNCHANGED <<bookingVars, payoutVars>>

\* After a pause, generate again: a new transaction, a new snapshot.
Retry(r) ==
  /\ req[r].at = "retry"
  /\ Become(r, IF Eligible = {} THEN Idle
                                ELSE Claiming(req[r].attempt + 1, Eligible))
  /\ UNCHANGED <<bookingVars, payoutVars>>

\* markPaid: read the payout ...
MarkRead(r, p) ==
  /\ req[r].at = "idle"
  /\ payoutStatus[p] = "PENDING"
  /\ Become(r, [Idle EXCEPT !.at = "mark", !.p = p])
  /\ UNCHANGED <<bookingVars, payoutVars>>

\* ... and update it by id.  (Two calls at once may both do so.)
MarkWrite(r) ==
  /\ req[r].at = "mark"
  /\ payoutStatus' = [payoutStatus EXCEPT ![req[r].p] = "PAID"]
  /\ Become(r, Idle)
  /\ UNCHANGED <<bookingVars, payoutId, counted>>

\* The process serving r dies; an open transaction is rolled back.
Crash(r) ==
  /\ req[r].at # "idle"
  /\ Become(r, Idle)
  /\ UNCHANGED <<bookingVars, payoutVars>>

-----------------------------------------------------------------------------
(* The other services.                                                     *)

Nothing == <<NULL, NoRow>>

\* A handler reads a booking and finds a change allowed: payment, desk, guest.
HandlerRead(h, b, st) ==
  /\ todo[h] = Nothing
  /\ canTransition(status[b], st)
  /\ st = "PAID" => pay[b] = "INITIATED"
  /\ todo' = [todo EXCEPT ![h] = <<b, st>>]
  /\ UNCHANGED <<status, pay, payoutVars, req>>

\* A mutant: the write goes unnoticed by transactions that have read the row.
HandlerWriteUnnoticed(h) ==
  LET b == todo[h][1]   st == todo[h][2] IN
  /\ st \in BookingStatus
  /\ status' = [status EXCEPT ![b] = st]
  /\ pay' = IF st = "PAID" THEN [pay EXCEPT ![b] = "SUCCESS"] ELSE pay
  /\ todo' = [todo EXCEPT ![h] = IF st = "CANCELLED" /\ pay[b] = "SUCCESS"
                                   THEN <<b, "REFUNDED">> ELSE Nothing]
  /\ UNCHANGED <<payoutVars, req>>

\* It writes the status, by id; together with the payment's on success.  A
\* cancellation of a paid booking goes on to refund it.
HandlerWrite(h) ==
  LET b == todo[h][1]   st == todo[h][2] IN
  /\ st \in BookingStatus
  /\ status' = [status EXCEPT ![b] = st]
  /\ pay' = IF st = "PAID" THEN [pay EXCEPT ![b] = "SUCCESS"] ELSE pay
  /\ req' = Outdated({b})
  /\ todo' = [todo EXCEPT ![h] = IF st = "CANCELLED" /\ pay[b] = "SUCCESS"
                                   THEN <<b, "REFUNDED">> ELSE Nothing]
  /\ UNCHANGED payoutVars

\* A mutant: the refund's status is written into the booking.
HandlerRefundMisplaced(h) ==
  /\ todo[h][2] = "REFUNDED"
  /\ pay[todo[h][1]] = "SUCCESS"
  /\ status' = [status EXCEPT ![todo[h][1]] = "REFUNDED"]
  /\ todo' = [todo EXCEPT ![h] = Nothing]
  /\ UNCHANGED <<pay, payoutVars, req>>

\* The refund is written down in the payments table, if it still may be.
HandlerRefund(h) ==
  /\ todo[h][2] = "REFUNDED"
  /\ pay[todo[h][1]] = "SUCCESS"
  /\ pay' = [pay EXCEPT ![todo[h][1]] = "REFUNDED"]
  /\ todo' = [todo EXCEPT ![h] = Nothing]
  /\ UNCHANGED <<status, payoutVars, req>>

\* It dies, throws, or the provider or the database refuses.
HandlerEnd(h) ==
  /\ todo[h] # Nothing
  /\ todo' = [todo EXCEPT ![h] = Nothing]
  /\ UNCHANGED <<status, pay, payoutVars, req>>

-----------------------------------------------------------------------------

Init ==
  /\ status = [b \in Booking |-> "CONFIRMED"]
  /\ pay = [b \in Booking |-> "INITIATED"]
  /\ todo = [h \in Handler |-> Nothing]
  /\ payoutId = [b \in Booking |-> NULL]
  /\ counted = [p \in Payout |-> {}]
  /\ payoutStatus = [p \in Payout |-> NoRow]
  /\ req = [r \in Request |-> Idle]

PayoutStep(r) ==
  \/ Generate(r) \/ Abort(r) \/ Retry(r) \/ MarkWrite(r) \/ Crash(r)
  \/ \E p \in Payout : Claim(r, p) \/ MarkRead(r, p)

HandlerStep(h) ==
  \/ \E b \in Booking, st \in {"PAID", "CHECKED_IN", "CHECKED_OUT", "CANCELLED"} :
       HandlerRead(h, b, st)
  \/ HandlerWrite(h) \/ HandlerRefund(h) \/ HandlerEnd(h)

Next ==
  \/ \E r \in Request : PayoutStep(r)
  \/ \E h \in Handler : HandlerStep(h)

Spec == Init /\ [][Next]_vars

-----------------------------------------------------------------------------

TypeOK ==
  /\ status \in [Booking -> BookingStatus]
  /\ pay \in [Booking -> {"INITIATED", "SUCCESS", "REFUNDED"}]
  /\ todo \in [Handler -> (Booking \X (BookingStatus \cup {"REFUNDED"}))
                            \cup {Nothing}]
  /\ payoutId \in [Booking -> Payout \cup {NULL}]
  /\ counted \in [Payout -> SUBSET Booking]
  /\ payoutStatus \in [Payout -> {NoRow, "PENDING", "PAID"}]
  /\ req \in [Request -> Locals]

\* The bookings a payout's amounts were computed from are the ones that carry
\* its id: revenue is counted where it was claimed and nowhere else, however
\* many batches are generated at once.
BatchesMatchClaims ==
  \A p \in Payout : counted[p] = {b \in Booking : payoutId[b] = p}

\* A booking enters a payout only while its status is settleable: a batch that
\* a cancellation overtakes starts over.
ClaimedWhenEarned ==
  [][\A b \in Booking :
       payoutId[b] = NULL /\ payoutId'[b] # NULL
         => status[b] \in SETTLEABLE_STATUSES]_vars

Ledger == INSTANCE SettlementLedger WITH batch <- counted

\* Payouts implement the abstract ledger.
SettledOnce == Ledger!LedgerSpec
=============================================================================
