---------------------------- MODULE PayoutsProofs ---------------------------
(***************************************************************************)
(* Proofs about the payouts, for any number of bookings, payouts, requests *)
(* and attempts: the batches match the rows that were claimed, only        *)
(* settleable bookings are claimed, and no booking is settled twice.       *)
(***************************************************************************)
EXTENDS Payouts, TLAPS

\* A payout without a row has settled nothing.
RowsBeforeBatches ==
  \A p \in Payout : payoutStatus[p] = NoRow => counted[p] = {}

\* What a transaction may still commit is as its snapshot has shown it.
SnapshotsHold ==
  \A r \in Request :
    req[r].at = "claim" =>
      /\ req[r].bs # {}
      /\ ~req[r].stale =>
           \A b \in req[r].bs :
             payoutId[b] = NULL /\ status[b] \in SETTLEABLE_STATUSES

\* Only an attempt that was not the last is tried again.
RetriesLeft ==
  \A r \in Request : req[r].at = "retry" => req[r].attempt < MaxAttempts

Inv == /\ TypeOK
       /\ BatchesMatchClaims /\ RowsBeforeBatches
       /\ SnapshotsHold /\ RetriesLeft

\* The locals of a request are taken apart once for all.
LEMMA LocalsFields ==
  ASSUME TypeOK, NEW r \in Request
  PROVE  /\ req[r].at \in {"idle", "claim", "retry", "mark"}
         /\ req[r].bs \subseteq Booking
         /\ req[r].stale \in BOOLEAN
         /\ req[r].attempt \in 0..MaxAttempts
         /\ req[r].p \in Payout \cup {NULL}
  BY DEF TypeOK, Locals

\* Marking transactions outdated changes nothing else of them.
LEMMA OutdatedFields ==
  ASSUME TypeOK, NEW bs \in SUBSET Booking, NEW r \in Request
  PROVE  /\ Outdated(bs) \in [Request -> Locals]
         /\ Outdated(bs)[r].at = req[r].at
         /\ Outdated(bs)[r].bs = req[r].bs
         /\ Outdated(bs)[r].attempt = req[r].attempt
         /\ Outdated(bs)[r].stale = (req[r].stale \/ req[r].bs \cap bs # {})
<1>1. \A q \in Request : req[q] \in Locals
  BY DEF TypeOK
<1>2. Outdated(bs) = [q \in Request |->
          [req[q] EXCEPT !.stale = @ \/ (req[q].bs \cap bs # {})]]
  BY DEF Outdated
<1>3. ASSUME NEW q \in Request
      PROVE  [req[q] EXCEPT !.stale = @ \/ (req[q].bs \cap bs # {})] \in Locals
  BY <1>1 DEF Locals
<1>4. QED
  BY <1>1, <1>2, <1>3 DEF Locals

\* The locals of a handler that is not running.
LEMMA IdleTypes == Idle \in Locals /\ Idle.at = "idle" /\ Idle.bs = {}
  BY AttemptsAssumption DEF Idle, Locals

\* The locals of a handler that has read the bookings it will claim.
LEMMA ClaimingTypes ==
  ASSUME NEW n \in 0..MaxAttempts, NEW bs \in SUBSET Booking
  PROVE  /\ Claiming(n, bs) \in Locals /\ Claiming(n, bs).at = "claim"
         /\ Claiming(n, bs).bs = bs /\ Claiming(n, bs).stale = FALSE
  BY DEF Claiming, Idle, Locals

-----------------------------------------------------------------------------

\* The invariant holds at the start.
LEMMA InvInit == Init => Inv
<1> SUFFICES ASSUME Init PROVE Inv
  OBVIOUS
<1>1. TypeOK
  BY IdleTypes DEF Init, TypeOK, BookingStatus
<1>2. BatchesMatchClaims
  BY NullAssumption DEF Init, BatchesMatchClaims
<1>3. RowsBeforeBatches /\ SnapshotsHold /\ RetriesLeft
  BY IdleTypes DEF Init, RowsBeforeBatches, SnapshotsHold, RetriesLeft
<1>4. QED
  BY <1>1, <1>2, <1>3 DEF Inv

\* A step of one request's own that only changes its locals, to some that are
\* not in a transaction.
LEMMA LocalStep ==
  ASSUME Inv, NEW r \in Request, NEW l \in Locals, Become(r, l),
         l.at # "claim", l.at = "retry" => l.attempt < MaxAttempts,
         UNCHANGED <<bookingVars, payoutId, counted>>,
         payoutStatus' \in [Payout -> {NoRow, "PENDING", "PAID"}],
         \A p \in Payout : payoutStatus'[p] = NoRow => payoutStatus[p] = NoRow
  PROVE  Inv'
<1>1. /\ req' \in [Request -> Locals]
      /\ req'[r] = l /\ \A q \in Request \ {r} : req'[q] = req[q]
  BY DEF Inv, TypeOK, Become
<1>2. TypeOK'
  BY <1>1 DEF Inv, TypeOK, bookingVars
<1>3. BatchesMatchClaims' /\ RowsBeforeBatches'
  BY DEF Inv, BatchesMatchClaims, RowsBeforeBatches
<1>4. SnapshotsHold' /\ RetriesLeft'
  BY <1>1 DEF Inv, SnapshotsHold, RetriesLeft, bookingVars
<1>5. QED
  BY <1>2, <1>3, <1>4 DEF Inv

\* A transaction begins: its snapshot shows the tables as they are.
LEMMA BeginStep ==
  ASSUME Inv, NEW r \in Request, NEW n \in 0..MaxAttempts, Eligible # {},
         Become(r, Claiming(n, Eligible)), UNCHANGED <<bookingVars, payoutVars>>
  PROVE  Inv'
<1>1. Eligible \subseteq Booking
  BY DEF Eligible
<1>2. /\ req' \in [Request -> Locals]
      /\ req'[r] = Claiming(n, Eligible)
      /\ \A q \in Request \ {r} : req'[q] = req[q]
  BY <1>1, ClaimingTypes DEF Inv, TypeOK, Become
<1>3. TypeOK'
  BY <1>2 DEF Inv, TypeOK, bookingVars, payoutVars
<1>4. BatchesMatchClaims' /\ RowsBeforeBatches'
  BY DEF Inv, BatchesMatchClaims, RowsBeforeBatches, payoutVars
<1>5. SnapshotsHold' /\ RetriesLeft'
  <2>1. /\ req'[r].at = "claim" /\ req'[r].bs = Eligible
        /\ UNCHANGED <<status, payoutId>>
    <3>1. /\ Claiming(n, Eligible).at = "claim"
          /\ Claiming(n, Eligible).bs = Eligible
      BY DEF Claiming, Idle
    <3>2. QED
      BY <1>2, <3>1 DEF bookingVars, payoutVars
  <2>2. \A b \in Eligible : payoutId[b] = NULL /\ status[b] \in SETTLEABLE_STATUSES
    BY DEF Eligible
  <2>3. ASSUME NEW q \in Request, req'[q].at = "claim"
        PROVE  /\ req'[q].bs # {}
               /\ ~req'[q].stale =>
                    \A b \in req'[q].bs :
                      payoutId'[b] = NULL /\ status'[b] \in SETTLEABLE_STATUSES
    <3>1. CASE q = r
      BY <2>1, <2>2, <3>1
    <3>2. CASE q # r
      BY <1>2, <2>1, <2>3, <3>2 DEF Inv, SnapshotsHold
    <3>3. QED
      BY <3>1, <3>2
  <2>4. QED
    BY <1>2, <2>1, <2>3 DEF Inv, SnapshotsHold, RetriesLeft
<1>6. QED
  BY <1>3, <1>4, <1>5 DEF Inv

\* A batch commits: its bookings were unclaimed until this step.
LEMMA ClaimStep ==
  ASSUME Inv, NEW r \in Request, NEW p \in Payout, Claim(r, p)
  PROVE  Inv'
<1> DEFINE bs == req[r].bs
<1>1. /\ bs \in SUBSET Booking
      /\ \A b \in bs : payoutId[b] = NULL
  BY LocalsFields DEF Inv, SnapshotsHold, Claim
<1>2. /\ req' \in [Request -> Locals] /\ req'[r] = Idle
      /\ \A q \in Request \ {r} :
           /\ req'[q].at = req[q].at /\ req'[q].bs = req[q].bs
           /\ req'[q].stale = (req[q].stale \/ req[q].bs \cap bs # {})
  <2>1. req' = [Outdated(bs) EXCEPT ![r] = Idle]
    BY DEF Claim
  <2>2. Outdated(bs) \in [Request -> Locals]
    BY <1>1, OutdatedFields DEF Inv
  <2>3. QED
    BY <1>1, <2>1, <2>2, IdleTypes, OutdatedFields DEF Inv
<1>3. TypeOK'
  BY <1>1, <1>2 DEF Inv, TypeOK, Claim, bookingVars
<1>4. BatchesMatchClaims'
  <2>1. counted' = [counted EXCEPT ![p] = bs]
    BY DEF Claim
  <2>2. \A b \in Booking : payoutId'[b] = IF b \in bs THEN p ELSE payoutId[b]
    BY DEF Claim
  <2>3. counted[p] = {}
    BY DEF Inv, RowsBeforeBatches, Claim
  <2>4. ASSUME NEW q \in Payout
        PROVE  counted'[q] = {b \in Booking : payoutId'[b] = q}
    <3>1. CASE q = p
      BY <1>1, <2>1, <2>2, <2>3, <3>1
         DEF Inv, TypeOK, BatchesMatchClaims
    <3>2. CASE q # p
      BY <1>1, <2>1, <2>2, <3>2, NullAssumption
         DEF Inv, TypeOK, BatchesMatchClaims
    <3>3. QED
      BY <3>1, <3>2
  <2>5. QED
    BY <2>4 DEF BatchesMatchClaims
<1>5. RowsBeforeBatches'
  BY DEF Inv, TypeOK, RowsBeforeBatches, Claim, NoRow
<1>6. SnapshotsHold'
  <2>1. \A q \in Request \ {r} :
          req[q].bs \subseteq Booking /\ req[q].stale \in BOOLEAN
    BY LocalsFields DEF Inv
  <2>2. \A b \in Booking : payoutId'[b] = IF b \in bs THEN p ELSE payoutId[b]
    BY DEF Claim
  <2>3. ASSUME NEW q \in Request, req'[q].at = "claim"
        PROVE  /\ req'[q].bs # {}
               /\ ~req'[q].stale =>
                    \A b \in req'[q].bs :
                      payoutId'[b] = NULL /\ status'[b] \in SETTLEABLE_STATUSES
    <3>1. q # r
      BY <1>2, <2>3, IdleTypes
    <3>2. req[q].bs # {} /\ (~req[q].stale =>
             \A b \in req[q].bs :
               payoutId[b] = NULL /\ status[b] \in SETTLEABLE_STATUSES)
      BY <1>2, <2>3, <3>1 DEF Inv, SnapshotsHold
    <3>3. UNCHANGED status
      BY DEF Claim, bookingVars
    <3>4. QED
      BY <1>2, <2>1, <2>2, <3>1, <3>2, <3>3
  <2>4. QED
    BY <2>3 DEF SnapshotsHold
<1>7. RetriesLeft'
  <2>1. \A q \in Request \ {r} : req'[q].attempt = req[q].attempt
    <3>1. req' = [Outdated(bs) EXCEPT ![r] = Idle]
      BY DEF Claim
    <3>2. QED
      BY <1>1, <3>1, OutdatedFields DEF Inv
  <2>2. QED
    BY <1>2, <2>1, IdleTypes DEF Inv, RetriesLeft
<1>8. QED
  BY <1>3, <1>4, <1>5, <1>6, <1>7 DEF Inv

\* A booking's row is written: batches that have read it become outdated.
LEMMA WriteStep ==
  ASSUME Inv, NEW h \in Handler, HandlerWrite(h)
  PROVE  Inv'
<1> DEFINE b == todo[h][1]
           st == todo[h][2]
<1>1. todo[h] # Nothing
  BY DEF HandlerWrite, Nothing, BookingStatus, NoRow
<1>2. b \in Booking /\ st \in BookingStatus
  BY <1>1 DEF Inv, TypeOK, HandlerWrite
<1>3. /\ req' \in [Request -> Locals]
      /\ \A q \in Request :
           /\ req'[q].at = req[q].at /\ req'[q].bs = req[q].bs
           /\ req'[q].stale = (req[q].stale \/ req[q].bs \cap {b} # {})
           /\ req'[q].attempt = req[q].attempt
  <2>1. req' = Outdated({b}) /\ {b} \in SUBSET Booking
    BY <1>2 DEF HandlerWrite
  <2>2. TypeOK
    BY DEF Inv
  <2>3. req' \in [Request -> Locals]
    <3>1. CASE Request = {}
      BY <2>1, <3>1 DEF Outdated
    <3>2. CASE Request # {}
      <4>1. PICK q \in Request : TRUE
        BY <3>2
      <4>2. QED
        BY <2>1, <2>2, <4>1, OutdatedFields
    <3>3. QED
      BY <3>1, <3>2
  <2>4. ASSUME NEW q \in Request
        PROVE  /\ req'[q].at = req[q].at /\ req'[q].bs = req[q].bs
               /\ req'[q].stale = (req[q].stale \/ req[q].bs \cap {b} # {})
               /\ req'[q].attempt = req[q].attempt
    BY <2>1, <2>2, OutdatedFields
  <2>5. QED
    BY <2>3, <2>4
<1>4. TypeOK'
  BY <1>2, <1>3 DEF Inv, TypeOK, HandlerWrite, payoutVars
<1>5. BatchesMatchClaims' /\ RowsBeforeBatches'
  BY DEF Inv, BatchesMatchClaims, RowsBeforeBatches, HandlerWrite, payoutVars
<1>6. SnapshotsHold'
  <2>1. \A q \in Request : req[q].bs \subseteq Booking /\ req[q].stale \in BOOLEAN
    BY LocalsFields DEF Inv
  <2>2. \A c \in Booking \ {b} : status'[c] = status[c]
    BY <1>2 DEF Inv, TypeOK, HandlerWrite
  <2>3. QED
    BY <1>2, <1>3, <2>1, <2>2 DEF Inv, SnapshotsHold, HandlerWrite, payoutVars
<1>7. RetriesLeft'
  BY <1>3 DEF Inv, RetriesLeft
<1>8. QED
  BY <1>4, <1>5, <1>6, <1>7 DEF Inv

\* The other steps of booking handlers write no row that a batch has read.
LEMMA QuietStep ==
  ASSUME Inv, NEW h \in Handler,
         \/ \E b \in Booking, st \in {"PAID", "CHECKED_IN", "CHECKED_OUT",
                                      "CANCELLED"} : HandlerRead(h, b, st)
         \/ HandlerRefund(h)
         \/ HandlerEnd(h)
  PROVE  Inv'
<1>1. UNCHANGED <<status, payoutId, counted, payoutStatus, req>>
  BY DEF HandlerRead, HandlerRefund, HandlerEnd, payoutVars
<1>2. TypeOK'
  <2>1. CASE \E b \in Booking, st \in {"PAID", "CHECKED_IN", "CHECKED_OUT",
                                       "CANCELLED"} : HandlerRead(h, b, st)
    BY <1>1, <2>1 DEF Inv, TypeOK, HandlerRead, BookingStatus
  <2>2. CASE HandlerRefund(h)
    BY <1>1, <2>2 DEF Inv, TypeOK, HandlerRefund
  <2>3. CASE HandlerEnd(h)
    BY <1>1, <2>3 DEF Inv, TypeOK, HandlerEnd
  <2>4. QED
    BY <2>1, <2>2, <2>3
<1>3. QED
  BY <1>1, <1>2
     DEF Inv, BatchesMatchClaims, RowsBeforeBatches, SnapshotsHold, RetriesLeft

\* Every step keeps the invariant.
LEMMA InvStep == Inv /\ [Next]_vars => Inv'
<1> SUFFICES ASSUME Inv, [Next]_vars PROVE Inv'
  OBVIOUS
<1>1. ASSUME NEW r \in Request, Generate(r) PROVE Inv'
  <2>1. 1 \in 0..MaxAttempts
    BY AttemptsAssumption
  <2>2. QED
    BY <1>1, <2>1, BeginStep DEF Generate
<1>2. ASSUME NEW r \in Request, Abort(r) PROVE Inv'
  <2>1. PICK l \in Locals : /\ l.at # "claim" /\ Become(r, l)
                            /\ l.at = "retry" => l.attempt < MaxAttempts
    <3>1. [Idle EXCEPT !.at = "retry", !.attempt = req[r].attempt] \in Locals
      BY LocalsFields DEF Inv, Idle, Locals
    <3>2. /\ [Idle EXCEPT !.at = "retry", !.attempt = req[r].attempt].at = "retry"
          /\ [Idle EXCEPT !.at = "retry", !.attempt = req[r].attempt].attempt
               = req[r].attempt
      BY DEF Idle
    <3>3. QED
      BY <1>2, <3>1, <3>2, IdleTypes DEF Abort
  <2>2. QED
    BY <1>2, <2>1, LocalStep DEF Abort, payoutVars, Inv, TypeOK
<1>3. ASSUME NEW r \in Request, Retry(r) PROVE Inv'
  <2>1. CASE Eligible = {}
    BY <1>3, <2>1, IdleTypes, LocalStep DEF Retry, payoutVars, Inv, TypeOK
  <2>2. CASE Eligible # {}
    <3>1. req[r].attempt + 1 \in 0..MaxAttempts
      BY <1>3, LocalsFields, AttemptsAssumption DEF Retry, Inv, RetriesLeft
    <3>2. QED
      BY <1>3, <2>2, <3>1, BeginStep DEF Retry
  <2>3. QED
    BY <2>1, <2>2
<1>4. ASSUME NEW r \in Request, MarkWrite(r) PROVE Inv'
  <2>1. payoutStatus' \in [Payout -> {NoRow, "PENDING", "PAID"}]
    BY <1>4 DEF MarkWrite, Inv, TypeOK
  <2>2. \A p \in Payout : payoutStatus'[p] = NoRow => payoutStatus[p] = NoRow
    BY <1>4 DEF MarkWrite, Inv, TypeOK, NoRow
  <2>3. QED
    BY <1>4, <2>1, <2>2, IdleTypes, LocalStep DEF MarkWrite
<1>5. ASSUME NEW r \in Request, Crash(r) PROVE Inv'
  BY <1>5, IdleTypes, LocalStep DEF Crash, payoutVars, Inv, TypeOK
<1>6. ASSUME NEW r \in Request, NEW p \in Payout, MarkRead(r, p) PROVE Inv'
  <2>1. /\ [Idle EXCEPT !.at = "mark", !.p = p] \in Locals
        /\ [Idle EXCEPT !.at = "mark", !.p = p].at = "mark"
    <3>1. Idle \in Locals /\ "mark" \in {"idle", "claim", "retry", "mark"}
      BY IdleTypes
    <3>2. QED
      BY <3>1 DEF Locals
  <2>2. QED
    BY <1>6, <2>1, LocalStep DEF MarkRead, payoutVars, Inv, TypeOK
<1>7. ASSUME UNCHANGED vars PROVE Inv'
  BY <1>7 DEF vars, Inv, TypeOK, BatchesMatchClaims, RowsBeforeBatches,
              SnapshotsHold, RetriesLeft
<1>8. QED
  BY <1>1, <1>2, <1>3, <1>4, <1>5, <1>6, <1>7, ClaimStep, WriteStep, QuietStep
     DEF Next, PayoutStep, HandlerStep

\* The invariant of the payouts: types, batches against rows, snapshots.
THEOREM PayoutsCorrect == Spec => []Inv
<1>1. QED
  BY InvInit, InvStep, PTL DEF Spec

\* Bookings, payouts and the locals of every request keep to their types.
THEOREM PayoutTypes == Spec => []TypeOK
<1>1. Inv => TypeOK
  BY DEF Inv
<1>2. QED
  BY <1>1, PayoutsCorrect, PTL

\* The amounts of every payout were computed from the bookings that carry its
\* id, however many requests and cancellations overlap.
THEOREM RevenueMatchesClaims == Spec => []BatchesMatchClaims
<1>1. Inv => BatchesMatchClaims
  BY DEF Inv
<1>2. QED
  BY <1>1, PayoutsCorrect, PTL

\* A booking enters a payout only while it is settleable.
THEOREM OnlyEarnedIsClaimed == Spec => ClaimedWhenEarned
<1>1. ASSUME Inv, [Next]_vars, NEW b \in Booking,
             payoutId[b] = NULL, payoutId'[b] # NULL
      PROVE  status[b] \in SETTLEABLE_STATUSES
  <2>1. PICK r \in Request, p \in Payout : Claim(r, p)
    BY <1>1 DEF Next, vars, PayoutStep, HandlerStep, Generate, Abort, Retry,
                MarkRead, MarkWrite, Crash, HandlerRead, HandlerWrite,
                HandlerRefund, HandlerEnd, payoutVars
  <2>2. b \in req[r].bs
    BY <1>1, <2>1 DEF Claim
  <2>3. QED
    BY <1>1, <2>1, <2>2 DEF Claim, Inv, SnapshotsHold
<1>2. Inv /\ [Next]_vars =>
        [\A b \in Booking : payoutId[b] = NULL /\ payoutId'[b] # NULL
           => status[b] \in SETTLEABLE_STATUSES]_vars
  BY <1>1
<1>3. QED
  BY <1>2, PayoutsCorrect, PTL DEF Spec, ClaimedWhenEarned

\* The payouts implement the abstract ledger: no booking is settled twice.
THEOREM PayoutsImplementLedger == Spec => SettledOnce
<1>1. Init => Ledger!LedgerInit
  BY DEF Init, Ledger!LedgerInit
<1>2. ASSUME Inv, [Next]_vars PROVE [Ledger!LedgerNext]_counted
  <2>1. CASE UNCHANGED counted
    BY <2>1
  <2>2. CASE ~UNCHANGED counted
    <3>1. PICK r \in Request, p \in Payout : Claim(r, p)
      BY <1>2, <2>2 DEF Next, vars, PayoutStep, HandlerStep, Generate, Abort,
                  Retry, MarkRead, MarkWrite, Crash, HandlerRead, HandlerWrite,
                  HandlerRefund, HandlerEnd, payoutVars
    <3>2. /\ req[r].bs \in SUBSET Booking /\ req[r].bs # {}
          /\ \A b \in req[r].bs : payoutId[b] = NULL
      BY <1>2, <3>1, LocalsFields DEF Claim, Inv, SnapshotsHold
    <3>3. counted[p] = {}
      BY <1>2, <3>1 DEF Claim, Inv, RowsBeforeBatches
    <3>4. \A q \in Payout : counted[q] \cap req[r].bs = {}
      BY <1>2, <3>2, NullAssumption DEF Inv, BatchesMatchClaims
    <3>5. Ledger!Settle(p, req[r].bs)
      BY <3>1, <3>2, <3>3, <3>4 DEF Claim, Ledger!Settle
    <3>6. QED
      BY <3>2, <3>5 DEF Ledger!LedgerNext
  <2>3. QED
    BY <2>1, <2>2
<1>3. QED
  BY <1>1, <1>2, PayoutsCorrect, PTL DEF Spec, SettledOnce, Ledger!LedgerSpec
=============================================================================
