------------------------- MODULE CancellationPolicy -------------------------
(***************************************************************************)
(* apps/api/src/common/cancellation-policy.ts: the share of its price a    *)
(* guest gets back, by the hours left before the day of arrival.           *)
(***************************************************************************)
EXTENDS Integers

CancellationPolicy == {"FLEXIBLE", "MODERATE", "STRICT"}

calculateRefund(policy, hoursLeft) ==
  LET hoursBeforeCheckIn == IF hoursLeft > 0 THEN hoursLeft ELSE 0
  IN CASE policy = "FLEXIBLE" -> IF hoursBeforeCheckIn >= 24 THEN 100 ELSE 0
       [] policy = "STRICT"   -> IF hoursBeforeCheckIn >= 168 THEN 50 ELSE 0
       [] OTHER               -> IF hoursBeforeCheckIn >= 120 THEN 100
                                 ELSE IF hoursBeforeCheckIn >= 24 THEN 50
                                 ELSE 0
=============================================================================
