-------------------------- MODULE SettlementLedger --------------------------
(***************************************************************************)
(* What the payouts promise the platform and its hosts: the bookings of a  *)
(* batch are settled together, no booking is settled twice, and what a     *)
(* batch was computed from never changes.                                  *)
(***************************************************************************)
CONSTANTS Booking, Payout

VARIABLE batch      \* the bookings each payout settles, {} before it is made

LedgerInit == batch = [p \in Payout |-> {}]

Settle(p, bs) ==
  /\ batch[p] = {} /\ bs # {}
  /\ \A q \in Payout : batch[q] \cap bs = {}
  /\ batch' = [batch EXCEPT ![p] = bs]

LedgerNext == \E p \in Payout, bs \in SUBSET Booking : Settle(p, bs)

LedgerSpec == LedgerInit /\ [][LedgerNext]_batch
=============================================================================
