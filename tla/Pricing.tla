------------------------------ MODULE Pricing -------------------------------
(***************************************************************************)
(* Dated prices of one room: the host's pricing rules and what the         *)
(* calendar suggests, the proposals the host decides, applies and rolls    *)
(* back, each a request of several statements, and the guest's booking     *)
(* that reads the prices meanwhile.                                        *)
(***************************************************************************)
EXTENDS Demand, Sequences, Functions

CONSTANTS
  Night,       \* the nights of the guest's stay, as numbers of days
  Dated,       \* bound: the nights the host proposes a price for
  Proposal,    \* ids of PricingApproval rows
  Request,     \* requests of the host the API serves at the same time
  Rule,        \* pricing rules: type, adjustment, minDemand, maxDemand,
               \* startDate, endDate
  Price,       \* base prices
  Offer,       \* prices a client may propose
  Level,       \* demand on a day, in per cent
  Market,      \* sets of bookings the property may have
  MaxVersion,  \* bound: versions of a dated price
  NULL

ASSUME PriceAssumption ==
  /\ Price \subseteq Nat /\ Offer \subseteq Int /\ Dated \subseteq Night
  /\ \A r \in Rule : r.adjustment \in Int
ASSUME MarketAssumption ==
  \A S \in Market : IsFiniteSet(S) /\ \A b \in S : b.made \in Int
ASSUME VersionAssumption == MaxVersion \in Nat

VARIABLES
  base,      \* basePrice of the room
  hadBase,   \* history: every base price the room has had
  rules,     \* pricing rules of the property, oldest first
  approval,  \* PricingApproval rows
  accepted,  \* history: the proposals that have ever been approved
  daily,     \* DailyRoomPrice rows
  request,   \* what each request has read
  stay       \* the guest's POST /bookings

vars == <<base, hadBase, rules, approval, accepted, daily, request, stay>>

\* The rows, and what a request has read; prices that are stored are not
\* below zero, prices that are proposed may be.
RuleRow == [rule: Rule, isActive: BOOLEAN]
ApprovalRow == [status: {"PENDING", "APPROVED", "REJECTED"}, night: Dated, price: Int,
                forRoom: BOOLEAN]
DailyRow == [price: Nat, previous: Nat, source: {"APPROVED_RULE", "MANUAL"},
             approval: Proposal, version: 1 .. MaxVersion]
Deciding == [step: {"decide", "apply"}, id: Proposal]
Upserting == [step: {"upsert"}, id: Proposal, price: Nat, previous: Nat,
              version: Nat \ {0}]
RollingBack == [step: {"rollback"}, night: Night, price: Nat, previous: Nat]

NoRow == [status |-> "none"]
Idle == [step |-> "idle"]

ASSUME NullAssumption == NULL \notin DailyRow

Init ==
  /\ base \in Price /\ hadBase = {base}
  /\ rules = <<>>
  /\ approval = [p \in Proposal |-> NoRow] /\ accepted = {}
  /\ daily = [n \in Night |-> NULL]
  /\ request = [h \in Request |-> Idle]
  /\ stay = [step |-> "form"]

\* Only the request h and the tables named in its step change.
Others == UNCHANGED <<base, hadBase, rules, stay>>
Answers(h) == request' = [request EXCEPT ![h] = Idle]

-----------------------------------------------------------------------------
(* Base price, rules and the calendar.                                     *)

RoomUpdate ==
  /\ base' \in Price
  /\ hadBase' = hadBase \cup {base'}
  /\ UNCHANGED <<rules, approval, accepted, daily, request, stay>>

\* The validation a new rule has to pass.
ValidRule(r) ==
  /\ r.type = "PERCENT" => r.adjustment \in -100 .. 500
  /\ r.minDemand # NULL => r.minDemand \in 0 .. 100
  /\ r.maxDemand # NULL => r.maxDemand \in 0 .. 100
  /\ r.minDemand # NULL /\ r.maxDemand # NULL => r.minDemand <= r.maxDemand

RuleCreate(r) ==
  /\ \A i \in DOMAIN rules : rules[i].rule # r
  /\ ValidRule(r)
  /\ rules' = Append(rules, [rule |-> r, isActive |-> TRUE])
  /\ UNCHANGED <<base, hadBase, approval, accepted, daily, request, stay>>

RuleSetActive(i) ==
  /\ \E isActive \in BOOLEAN : rules' = [rules EXCEPT ![i].isActive = isActive]
  /\ UNCHANGED <<base, hadBase, approval, accepted, daily, request, stay>>

\* The i-th rule counts on a day with the demand d: its dates, both of them
\* included, and its range of demand cover it.
applicable(i, day, d) ==
  LET r == rules[i]
  IN  /\ r.isActive
      /\ r.rule.startDate # NULL => r.rule.startDate <= day
      /\ r.rule.endDate # NULL => r.rule.endDate >= day
      /\ r.rule.minDemand # NULL => d >= r.rule.minDemand
      /\ r.rule.maxDemand # NULL => d <= r.rule.maxDemand

\* One rule on a price, in whole units.
Adjusted(price, r) ==
  IF r.rule.type = "PERCENT" THEN (price * (100 + r.rule.adjustment)) \div 100
                             ELSE price + r.rule.adjustment

\* The calendar's price for a day: every applicable rule, oldest first.
suggestedPrice(day, d) ==
  LET price[i \in 0 .. Len(rules)] ==
        IF i = 0 THEN base
        ELSE IF applicable(i, day, d) THEN Adjusted(price[i - 1], rules[i])
        ELSE price[i - 1]
      last == price[Len(rules)]
  IN  IF last < 0 THEN 0 ELSE last

-----------------------------------------------------------------------------
(* Proposals: POST and PATCH /host/pricing-approvals.                      *)

\* That there is a price is all that is checked about it (and a zero sent as
\* text is one); the room may be left out.
ApprovalCreate(p) ==
  /\ approval[p] = NoRow
  /\ \E n \in Dated, forRoom \in BOOLEAN :
       \E price \in Offer \cup {suggestedPrice(n, d) : d \in Level} :
         approval' = [approval EXCEPT ![p] =
                        [status |-> "PENDING", night |-> n, price |-> price,
                         forRoom |-> forRoom]]
  /\ UNCHANGED <<base, hadBase, rules, accepted, daily, request, stay>>

\* The status of a proposal is written by id, and an approval is remembered.
WriteStatus(p, decision) ==
  /\ approval' = [approval EXCEPT ![p].status = decision]
  /\ accepted' = IF decision = "APPROVED" THEN accepted \cup {p} ELSE accepted

DecideRead(h) ==
  /\ request[h] = Idle
  /\ \E p \in Proposal :
       /\ approval[p].status = "PENDING"
       /\ request' = [request EXCEPT ![h] = [step |-> "decide", id |-> p]]
  /\ UNCHANGED <<approval, accepted, daily>> /\ Others

\* The update names the row only, whatever its status has become.
DecideWrite(h) ==
  /\ request[h].step = "decide"
  /\ \E decision \in {"APPROVED", "REJECTED"} :
       WriteStatus(request[h].id, decision)
  /\ Answers(h)
  /\ UNCHANGED daily /\ Others

-----------------------------------------------------------------------------
(* Live prices: POST /host/pricing-execution.                              *)

\* The row is read before the transaction starts.
ApplyRead(h) ==
  /\ request[h] = Idle
  /\ \E p \in Proposal :
       /\ approval[p].status = "PENDING" /\ approval[p].forRoom
       /\ request' = [request EXCEPT ![h] = [step |-> "apply", id |-> p]]
  /\ UNCHANGED <<approval, accepted, daily>> /\ Others

\* A mutant: no test for a negative price.
ApplyCurrentUnchecked(h) ==
  /\ request[h].step = "apply"
  /\ LET asked == approval[request[h].id]
         current == daily[asked.night]
     IN  request' = [request EXCEPT ![h] =
           [step |-> "upsert", id |-> request[h].id, price |-> asked.price,
            previous |-> IF current = NULL THEN base ELSE current.price,
            version |-> IF current = NULL THEN 1 ELSE current.version + 1]]
  /\ UNCHANGED <<approval, accepted, daily>> /\ Others

\* Inside it, at READ COMMITTED: the room's price and the dated one.  The
\* transaction gives up on a negative price.
ApplyCurrent(h) ==
  /\ request[h].step = "apply"
  /\ LET asked == approval[request[h].id]
         current == daily[asked.night]
     IN  IF asked.price < 0
           THEN Answers(h)
           ELSE request' = [request EXCEPT ![h] =
                  [step |-> "upsert", id |-> request[h].id,
                   price |-> asked.price,
                   previous |-> IF current = NULL THEN base ELSE current.price,
                   version |-> IF current = NULL THEN 1 ELSE current.version + 1]]
  /\ UNCHANGED <<approval, accepted, daily>> /\ Others

\* A mutant: the decision is forgotten when the price goes live.
DecidedLater(p) == UNCHANGED <<approval, accepted>>

\* The upsert and the decision are committed together.
Decided(p) == WriteStatus(p, "APPROVED")

ApplyCommit(h) ==
  /\ request[h].step = "upsert" /\ request[h].version <= MaxVersion
  /\ LET r == request[h]
     IN  /\ daily' = [daily EXCEPT ![approval[r.id].night] =
                [price |-> r.price, previous |-> r.previous,
                 source |-> "APPROVED_RULE", approval |-> r.id,
                 version |-> r.version]]
         /\ Decided(r.id)
  /\ Answers(h)
  /\ Others

RollbackRead(h) ==
  /\ request[h] = Idle
  /\ \E n \in Night :
       /\ daily[n] # NULL
       /\ request' = [request EXCEPT ![h] =
            [step |-> "rollback", night |-> n,
             price |-> daily[n].previous, previous |-> daily[n].price]]
  /\ UNCHANGED <<approval, accepted, daily>> /\ Others

\* Prices as they were read, the version as it is now.
RollbackWrite(h) ==
  /\ request[h].step = "rollback"
  /\ daily[request[h].night].version < MaxVersion
  /\ daily' = [daily EXCEPT
       ![request[h].night].price = request[h].price,
       ![request[h].night].previous = request[h].previous,
       ![request[h].night].source = "MANUAL",
       ![request[h].night].version = @ + 1]
  /\ Answers(h)
  /\ UNCHANGED <<approval, accepted>> /\ Others

\* The process stops: an open transaction is rolled back with it.
Crash(h) ==
  /\ request[h] # Idle
  /\ Answers(h)
  /\ UNCHANGED <<approval, accepted, daily>> /\ Others

-----------------------------------------------------------------------------
(* The guest's booking: the room, then the dated prices, then the insert.  *)

Desk == UNCHANGED <<base, hadBase, rules, approval, accepted, daily, request>>

CreateRead ==
  /\ stay.step = "form"
  /\ stay' = [step |-> "room", base |-> base]
  /\ Desk

\* A mutant: a proposal counts before the host has decided on it.
nightlyRateProposed(n) ==
  IF \E p \in Proposal : approval[p].status = "PENDING" /\ approval[p].night = n
    THEN approval[CHOOSE p \in Proposal : /\ approval[p].status = "PENDING"
                                          /\ approval[p].night = n].price
    ELSE stay.base

\* A dated price wins over the base price read a moment ago.
nightlyRate(n) == IF daily[n] # NULL THEN daily[n].price ELSE stay.base

Total(rates) == FoldFunction(+, 0, rates)

CreatePrices ==
  /\ stay.step = "room"
  /\ stay' = [step |-> "booked",
              totalPrice |-> Total([n \in Night |-> nightlyRate(n)])]
  /\ Desk

HostStep(h) ==
  \/ DecideRead(h)   \/ DecideWrite(h)
  \/ ApplyRead(h)    \/ ApplyCurrent(h) \/ ApplyCommit(h)
  \/ RollbackRead(h) \/ RollbackWrite(h)
  \/ Crash(h)

Next ==
  \/ RoomUpdate
  \/ \E r \in Rule : RuleCreate(r)
  \/ \E i \in DOMAIN rules : RuleSetActive(i)
  \/ \E p \in Proposal : ApprovalCreate(p)
  \/ \E h \in Request : HostStep(h)
  \/ CreateRead \/ CreatePrices

Spec == Init /\ [][Next]_vars

-----------------------------------------------------------------------------
(* Properties.                                                             *)

\* Rows and requests are what they should be; no dated price is below zero.
TypeOK ==
  /\ base \in hadBase /\ hadBase \subseteq Price
  /\ rules \in Seq(RuleRow)
  /\ approval \in [Proposal -> ApprovalRow \cup {NoRow}]
  /\ accepted \subseteq {p \in Proposal : approval[p] # NoRow}
  /\ daily \in [Night -> DailyRow \cup {NULL}]
  /\ request \in [Request -> {Idle} \cup Deciding \cup Upserting \cup RollingBack]
  /\ stay.step \in {"form", "room", "booked"}

\* What a night may cost: a base price the room has had, or the price of a
\* proposal for that very night that the host has approved.
Settled(n) ==
  hadBase \cup {approval[p].price : p \in {q \in accepted : approval[q].night = n}}

\* The dated price of a night, and the one kept beside it to fall back on, have
\* been set for that night, also after a rollback that wrote prices it had read
\* before another request changed them; and a live price that names a proposal
\* is the price of that proposal.
DatedPricesWereSet ==
  \A n \in Night : daily[n] # NULL =>
    /\ daily[n].price \in Settled(n) /\ daily[n].previous \in Settled(n)
    /\ daily[n].source = "APPROVED_RULE" =>
         /\ daily[n].approval \in accepted
         /\ approval[daily[n].approval].price = daily[n].price

\* A decision is not finalized twice: a proposal that has been approved is not
\* rejected as well, whichever two requests of the host meet.
DecidedOnce == \A p \in accepted : approval[p].status = "APPROVED"

\* A guest pays, for each night, what that night may cost, and never a negative
\* price.
ChargedAsSet ==
  stay.step = "booked" =>
    \E rates \in [Night -> {x \in UNION {Settled(n) : n \in Night} : x >= 0}] :
      /\ \A n \in Night : rates[n] \in Settled(n)
      /\ stay.totalPrice = Total(rates)

\* The recommendation follows the bookings: one more of this week never lowers
\* it, a peak of the insights is not to be discounted, and the screens that
\* show the same figure agree.  The calendar suggests no negative price, and
\* none but the base price where no rule is switched on and covers the day.
AdviceIsAlwaysSound ==
  \A S \in Market : \A more \in UNION Market, day \in {0, 1} :
    AdviceIsSound(S, more, day)

AdviceFollowsDemand ==
  /\ AdviceIsAlwaysSound
  /\ \A n \in Night, d \in Level :
       /\ suggestedPrice(n, d) >= 0
       /\ (\A i \in DOMAIN rules : ~applicable(i, n, d)) =>
            suggestedPrice(n, d) = base
=============================================================================
