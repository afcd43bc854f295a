------------------------------- MODULE Demand -------------------------------
(***************************************************************************)
(* What the revenue services work out from the bookings of one property:   *)
(* the demand behind the pricing calendar, the booking pace, the           *)
(* recommended change and the insights.  Days are numbers, today is 0; a   *)
(* booking has its nights [from, to), its status and the day it was made.  *)
(***************************************************************************)
EXTENDS Integers, FiniteSets

CONSTANT RoomCount   \* rooms of the property

ASSUME RoomCountAssumption == RoomCount \in Nat

\* Math.round of a percentage; a property without rooms has no demand.
Percent(count) ==
  IF RoomCount = 0 THEN 0 ELSE (200 * count + RoomCount) \div (2 * RoomCount)

Over(S, day) == {b \in S : b.from < day + 1 /\ b.to > day}
WithStatus(S, statuses) == {b \in S : b.status \in statuses}
MadeSince(S, day) == {b \in S : b.made >= day}

activeStatuses == {"CONFIRMED", "PAID", "CHECKED_IN"}
activeRevenueStatuses == {"PAID", "CHECKED_IN", "CHECKED_OUT"}

\* The calendar's demand on a day, in per cent of the rooms.
demand(S, day) == Percent(Cardinality(WithStatus(Over(S, day), activeStatuses)))

\* A mutant: the two raises are mixed up.
adjustmentByOccupancy(occupancy, pace) ==
  CASE occupancy >= 80 /\ pace > 0  -> 5
    [] occupancy >= 65 /\ pace > 0 -> 10
    [] occupancy <= 30 /\ pace <= 0 -> -10
    [] occupancy <= 45 /\ pace < 0 -> -5
    [] OTHER -> 0

\* The table of the recommendations.
adjustment(occupancy, pace) ==
  CASE occupancy >= 80 /\ pace > 0  -> 10
    [] occupancy >= 65 /\ occupancy < 80 /\ pace > 0 -> 5
    [] occupancy <= 30 /\ pace <= 0 -> -10
    [] occupancy <= 45 /\ occupancy > 30 /\ pace < 0 -> -5
    [] OTHER -> 0

\* Bookings of the last week against those of the week before.
paceDelta(S, day) ==
  LET booked == WithStatus(Over(S, day), activeStatuses)
      recent == MadeSince(booked, -7)
  IN  Cardinality(recent) - Cardinality(MadeSince(booked, -14) \ recent)

recommendation(S, day) ==
  adjustment(Percent(Cardinality(WithStatus(Over(S, day), activeStatuses))),
             paceDelta(S, day))

\* The pace screen reads a month of bookings only.
getPace(S, day) ==
  LET read == {b \in MadeSince(S, -30) : b.status # "EXPIRED"}
  IN  [occupancy |-> demand(read, day), paceDelta |-> paceDelta(read, day)]

\* The insights read a month up to the hour, so that of the bookings made on
\* its first day some may count and others not.
LastMonth(S) ==
  {month \in SUBSET MadeSince(S, -30) : MadeSince(S, -29) \subseteq month}

\* Their day goes from one midnight of the server to the next and is named in
\* UTC: off UTC it has parts of two days, and the nights of both count.
Spanned(day, utc) == IF utc THEN {day} ELSE {day, day + 1}

\* A guest who has left still counts for them.
demandRatio(month, day, utc) ==
  Percent(Cardinality(WithStatus(UNION {Over(month, d) : d \in Spanned(day, utc)},
                                 {"CONFIRMED"} \cup activeRevenueStatuses)))
peak(month, day, utc) == demandRatio(month, day, utc) >= 80

-----------------------------------------------------------------------------
(* What the screens owe the host.                                          *)

\* One more booking made this week never makes the recommendation lower.
BookingsRaiseAdvice(S, more, day) ==
  more.status \in activeStatuses /\ more.made >= -7 =>
    recommendation(S \cup {more}, day) >= recommendation(S, day)

\* When the insights call a day a peak, and nobody left before the end of a
\* stay, the recommendation gives no discount for it.  On a server off UTC the
\* peak may lie in either of the two days: then one of them at least is spared
\* the larger discount.
PeakIsNotDiscounted(S, day) ==
  \A month \in LastMonth(S), utc \in BOOLEAN :
    LET days == Spanned(day, utc)
    IN  /\ peak(month, day, utc)
        /\ \A d \in days : WithStatus(Over(S, d), {"CHECKED_OUT"}) = {}
        => \E d \in days :
             recommendation(S, d) >= (IF utc THEN 0 ELSE -5)

\* The pace screen and the recommendation mean the same pace, and the former
\* never shows the day fuller than the calendar does.
ScreensAgree(S, day) ==
  /\ getPace(S, day).paceDelta = paceDelta(S, day)
  /\ getPace(S, day).occupancy <= demand(S, day)

AdviceIsSound(S, more, day) ==
  /\ BookingsRaiseAdvice(S, more, day)
  /\ PeakIsNotDiscounted(S, day)
  /\ ScreensAgree(S, day)
=============================================================================
