----------------------------- MODULE MCPricing ------------------------------
(* An instance of the pricing desk for TLC. *)
EXTENDS Pricing, TLC

MCRule ==
  {[type |-> "PERCENT", adjustment |-> 50, minDemand |-> 80, maxDemand |-> NULL,
    startDate |-> NULL, endDate |-> 1]}
MCOffer == {-1}

\* Three rooms, so that every row of the table of recommendations is met; at
\* most one booking for each, and one more on any of them.
MCStay(room) ==
  UNION {[room : {room}, from : {night}, to : {night + 1},
          made : {-3, -10, -30}, status : {"PAID", "CHECKED_OUT"}] :
            night \in {0, 1}}
Booked(room) == {{}} \cup {{b} : b \in MCStay(room)}
MCMarket ==
  {(a \cup b) \cup c : a \in Booked(1), b \in Booked(2), c \in Booked(3)}

Symmetry == Permutations(Proposal) \cup Permutations(Request)
=============================================================================
