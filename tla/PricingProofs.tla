---------------------------- MODULE PricingProofs ----------------------------
(***************************************************************************)
(* Proofs about dated prices and about the advice the host gets, for any   *)
(* rules, proposals, requests, nights, numbers of rooms and markets.       *)
(***************************************************************************)
EXTENDS Pricing, FiniteSetTheorems, WellFoundedInduction, TLAPS

-----------------------------------------------------------------------------
(* The advice: arithmetic on counts of bookings.                           *)

\* Whole division by a fixed number keeps the order.
LEMMA DivMonotone ==
  ASSUME NEW x \in Nat, NEW y \in Nat, x <= y, NEW n \in Nat \ {0}
  PROVE  x \div n <= y \div n
<1> DEFINE p == x \div n
           q == y \div n
<1>1. p \in Int /\ q \in Int
  OBVIOUS
<1>2. n * p <= x /\ y < n * q + n
  OBVIOUS
<1> HIDE DEF p, q
<1>3. ASSUME p >= q + 1 PROVE FALSE
  <2>1. n * p >= n * (q + 1)
    BY <1>1, <1>3
  <2>2. n * (q + 1) = n * q + n
    BY <1>1
  <2>3. n * q \in Int /\ n * p \in Int
    BY <1>1
  <2>4. QED
    BY <1>2, <2>1, <2>2, <2>3
<1>4. p <= q
  BY <1>1, <1>3
<1>5. QED
  BY <1>4 DEF p, q

\* More bookings are never a smaller part of the rooms.
LEMMA PercentMonotone ==
  ASSUME NEW m \in Nat, NEW n \in Nat, m <= n
  PROVE  /\ Percent(m) \in Int /\ Percent(n) \in Int
         /\ Percent(m) <= Percent(n)
<1>1. CASE RoomCount = 0
  BY <1>1 DEF Percent
<1>2. CASE RoomCount # 0
  <2>1. /\ 200 * m + RoomCount \in Nat /\ 200 * n + RoomCount \in Nat
        /\ 200 * m + RoomCount <= 200 * n + RoomCount
        /\ 2 * RoomCount \in Nat \ {0}
    BY <1>2, RoomCountAssumption
  <2>2. QED
    BY <1>2, <2>1, DivMonotone DEF Percent
<1>3. QED
  BY <1>1, <1>2

\* The table never advises less when occupancy or pace is higher.
LEMMA AdjustmentMonotone ==
  ASSUME NEW o \in Int, NEW p \in Int, NEW oo \in Int, NEW pp \in Int,
         o <= oo, p <= pp
  PROVE  adjustment(o, p) <= adjustment(oo, pp)
  BY DEF adjustment

\* A night eight tenths sold or more is never recommended a discount.
LEMMA FullIsNotDiscounted ==
  ASSUME NEW o \in Int, NEW p \in Int, o >= 80
  PROVE  adjustment(o, p) >= 0
  BY DEF adjustment

-----------------------------------------------------------------------------
(* The advice: what the screens owe the host.                              *)

Bookings(S) == IsFiniteSet(S) /\ \A b \in S : b.made \in Int

\* The bookings the recommendation counts.
Counted(S, day) == WithStatus(Over(S, day), activeStatuses)

\* The bookings that count for a day are finitely many, of those there are.
LEMMA CountedFinite ==
  ASSUME NEW S, Bookings(S), NEW day, NEW k
  PROVE  /\ Bookings(Counted(S, day)) /\ Bookings(MadeSince(Counted(S, day), k))
         /\ Counted(S, day) \subseteq S
  BY FS_Subset DEF Bookings, Counted, WithStatus, Over, MadeSince

\* The pace is a difference of two numbers of bookings.
LEMMA PaceIsInt ==
  ASSUME NEW S, Bookings(S), NEW day
  PROVE  paceDelta(S, day) \in Int /\ Cardinality(Counted(S, day)) \in Nat
<1> DEFINE recent == MadeSince(Counted(S, day), -7)
           before == MadeSince(Counted(S, day), -14) \ recent
<1>1. IsFiniteSet(recent) /\ IsFiniteSet(before) /\ IsFiniteSet(Counted(S, day))
  <2>1. /\ Bookings(recent) /\ Bookings(MadeSince(Counted(S, day), -14))
        /\ Bookings(Counted(S, day))
    BY CountedFinite
  <2>2. QED
    BY <2>1, FS_Difference DEF Bookings
<1>2. paceDelta(S, day) = Cardinality(recent) - Cardinality(before)
  BY DEF paceDelta, Counted
<1>3. QED
  BY <1>1, <1>2, FS_CardinalityType

\* One more booking, made this week, and the advice is not lower.
LEMMA MoreIsNotLess ==
  ASSUME NEW S, Bookings(S), NEW more, more.made \in Int, NEW day
  PROVE  BookingsRaiseAdvice(S, more, day)
<1> DEFINE T == S \cup {more}
           C == Counted(S, day)
           D == Counted(T, day)
<1>1. SUFFICES ASSUME more.status \in activeStatuses, more.made >= -7
               PROVE  recommendation(T, day) >= recommendation(S, day)
  BY DEF BookingsRaiseAdvice
<1>2. Bookings(T)
  BY FS_AddElement DEF Bookings
<1>3. D = C \/ (D = C \cup {more} /\ more \notin C)
  BY <1>1 DEF Counted, WithStatus, Over
<1>4. Bookings(C) /\ Bookings(D)
  BY <1>2, CountedFinite
<1> DEFINE recentC == MadeSince(C, -7)
           recentD == MadeSince(D, -7)
           beforeC == MadeSince(C, -14) \ recentC
           beforeD == MadeSince(D, -14) \ recentD
<1>5. /\ recommendation(S, day) = adjustment(Percent(Cardinality(C)), paceDelta(S, day))
      /\ recommendation(T, day) = adjustment(Percent(Cardinality(D)), paceDelta(T, day))
      /\ paceDelta(S, day) = Cardinality(recentC) - Cardinality(beforeC)
      /\ paceDelta(T, day) = Cardinality(recentD) - Cardinality(beforeD)
  BY DEF recommendation, paceDelta, Counted
<1>6. IsFiniteSet(C) /\ IsFiniteSet(D)
  BY <1>4 DEF Bookings
<1>7. /\ recentC \subseteq recentD /\ beforeD = beforeC /\ C \subseteq D
      /\ recentD \subseteq D /\ beforeC \subseteq C
  BY <1>1, <1>3 DEF MadeSince
<1> HIDE DEF T, C, D, recentC, recentD, beforeC, beforeD
<1>8. /\ Cardinality(C) \in Nat /\ Cardinality(D) \in Nat
      /\ Cardinality(C) <= Cardinality(D)
  BY <1>6, <1>7, FS_Subset, FS_CardinalityType
<1>9. /\ Cardinality(recentC) \in Nat /\ Cardinality(recentD) \in Nat
      /\ Cardinality(recentC) <= Cardinality(recentD)
      /\ Cardinality(beforeC) \in Nat
  BY <1>6, <1>7, FS_Subset, FS_CardinalityType
<1>10. /\ paceDelta(S, day) \in Int /\ paceDelta(T, day) \in Int
       /\ paceDelta(S, day) <= paceDelta(T, day)
  BY <1>5, <1>7, <1>9
<1>11. /\ Percent(Cardinality(C)) \in Int /\ Percent(Cardinality(D)) \in Int
       /\ Percent(Cardinality(C)) <= Percent(Cardinality(D))
  BY <1>8, PercentMonotone
<1>12. adjustment(Percent(Cardinality(C)), paceDelta(S, day))
         <= adjustment(Percent(Cardinality(D)), paceDelta(T, day))
  BY <1>10, <1>11, AdjustmentMonotone
<1>13. QED
  <2>1. \A o, p : adjustment(o, p) \in Int
    BY DEF adjustment
  <2>2. QED
    BY <1>5, <1>12, <2>1

\* A count of eight tenths of the rooms, made of two, leaves one of the two at
\* four tenths or so.
LEMMA HalfOfAPeak ==
  ASSUME NEW k \in Nat, NEW m \in Nat, NEW n \in Nat, k <= m + n,
         Percent(k) >= 80
  PROVE  Percent(m) > 30 \/ Percent(n) > 30
<1>1. RoomCount # 0
  BY DEF Percent
<1> DEFINE r == RoomCount
           half == IF m <= n THEN n ELSE m
<1>2. r \in Nat /\ r > 0 /\ 2 * r \in Nat \ {0}
  BY <1>1, RoomCountAssumption
<1>3. 80 <= (200 * k + r) \div (2 * r)
  BY <1>1 DEF Percent
<1>4. 80 * (2 * r) <= 200 * k + r
  <2> DEFINE x == 200 * k + r
             y == 2 * r
             q == x \div y
  <2>1. x \in Nat /\ y \in Nat \ {0} /\ q \in Int /\ 80 <= q
    BY <1>2, <1>3
  <2>2. y * q <= x
    <3> HIDE DEF x, y
    <3>1. QED
      BY <2>1
  <2>3. y * 80 <= y * q
    <3> HIDE DEF x, y, q
    <3>1. QED
      BY <2>1
  <2>4. QED
    <3>1. y * 80 <= x
      <4> HIDE DEF x, y, q
      <4>1. y * q \in Int
        BY <2>1
      <4>2. QED
        BY <2>1, <2>2, <2>3, <4>1
    <3>2. QED
      BY <3>1, <1>2
<1>5. half \in Nat /\ k <= 2 * half
  OBVIOUS
<1>6. 31 * (2 * r) <= 200 * half + r
  BY <1>2, <1>4, <1>5
<1>7. Percent(half) >= 31
  <2>1. (31 * (2 * r)) \div (2 * r) = 31
    <3> DEFINE y == 2 * r
    <3>1. y \in Nat \ {0}
      BY <1>2
    <3> HIDE DEF y
    <3>2. (31 * y) \div y = 31
      BY <3>1
    <3>3. QED
      BY <3>2 DEF y
  <2>2. 31 * (2 * r) \in Nat /\ 200 * half + r \in Nat
    BY <1>2, <1>5
  <2>3. (31 * (2 * r)) \div (2 * r) <= (200 * half + r) \div (2 * r)
    BY <1>2, <1>6, <2>2, DivMonotone
  <2>4. QED
    BY <1>1, <2>1, <2>3 DEF Percent
<1>8. Percent(half) > 30
  <2>1. Percent(half) \in Int
    BY <1>5, PercentMonotone
  <2> HIDE DEF half
  <2>2. QED
    BY <1>7, <2>1
<1>9. half = m \/ half = n
  OBVIOUS
<1>10. QED
  <2> HIDE DEF half
  <2>1. QED
    BY <1>8, <1>9

\* With more than three tenths of the rooms sold the larger discount is out.
LEMMA NoLargeDiscount ==
  ASSUME NEW o \in Int, NEW p \in Int, o > 30
  PROVE  adjustment(o, p) >= -5
  BY DEF adjustment

\* A full day is not to be discounted, nor, off UTC, the fuller of the two days
\* by more than the smaller discount.
LEMMA PeaksAreSafe ==
  ASSUME NEW S, Bookings(S), NEW day \in Int
  PROVE  PeakIsNotDiscounted(S, day)
<1>1. SUFFICES ASSUME NEW month \in LastMonth(S), NEW utc \in BOOLEAN,
                      peak(month, day, utc),
                      \A d \in Spanned(day, utc) :
                        WithStatus(Over(S, d), {"CHECKED_OUT"}) = {}
               PROVE  \E d \in Spanned(day, utc) :
                        recommendation(S, d) >= (IF utc THEN 0 ELSE -5)
  BY DEF PeakIsNotDiscounted
<1> DEFINE seen == WithStatus(UNION {Over(month, d) : d \in Spanned(day, utc)},
                              {"CONFIRMED"} \cup activeRevenueStatuses)
           C(d) == Counted(S, d)
<1>2. Percent(Cardinality(seen)) >= 80
  BY <1>1 DEF peak, demandRatio
<1>3. seen \subseteq UNION {C(d) : d \in Spanned(day, utc)}
  <2>1. month \subseteq S
    BY DEF LastMonth, MadeSince
  <2>2. ASSUME NEW d \in Spanned(day, utc), NEW b \in Over(month, d),
               b.status \in {"CONFIRMED"} \cup activeRevenueStatuses
        PROVE  b \in C(d)
    <3>1. b \in Over(S, d)
      BY <2>1 DEF Over
    <3>2. b.status # "CHECKED_OUT"
      BY <1>1, <3>1 DEF WithStatus
    <3>3. QED
      BY <2>2, <3>1, <3>2 DEF Counted, WithStatus, activeStatuses,
                              activeRevenueStatuses
  <2>3. QED
    BY <2>2 DEF WithStatus
<1>4. \A d : IsFiniteSet(C(d)) /\ Cardinality(C(d)) \in Nat
  BY CountedFinite, PaceIsInt DEF Bookings
<1>5. \A d : /\ recommendation(S, d) = adjustment(Percent(Cardinality(C(d))), paceDelta(S, d))
             /\ paceDelta(S, d) \in Int
  BY PaceIsInt DEF recommendation, Counted
<1> HIDE DEF seen, C
<1>6. CASE utc
  <2>1. seen \subseteq C(day)
    BY <1>3, <1>6 DEF Spanned
  <2>2. /\ Cardinality(seen) \in Nat /\ Cardinality(seen) <= Cardinality(C(day))
    BY <1>4, <2>1, FS_Subset, FS_CardinalityType
  <2>3. Percent(Cardinality(C(day))) \in Int /\ Percent(Cardinality(C(day))) >= 80
    BY <1>2, <1>4, <2>2, PercentMonotone
  <2>4. recommendation(S, day) >= 0
    BY <1>5, <2>3, FullIsNotDiscounted
  <2>5. QED
    BY <1>6, <2>4 DEF Spanned
<1>7. CASE ~utc
  <2>1. seen \subseteq C(day) \cup C(day + 1)
    BY <1>3, <1>7 DEF Spanned
  <2>2. /\ IsFiniteSet(C(day) \cup C(day + 1))
        /\ Cardinality(C(day) \cup C(day + 1))
             <= Cardinality(C(day)) + Cardinality(C(day + 1))
    <3>1. /\ IsFiniteSet(C(day) \cup C(day + 1))
          /\ Cardinality(C(day) \cup C(day + 1))
               = Cardinality(C(day)) + Cardinality(C(day + 1))
                 - Cardinality(C(day) \cap C(day + 1))
      BY <1>4, FS_Union
    <3>2. Cardinality(C(day) \cap C(day + 1)) \in Nat
      BY <1>4, FS_Intersection, FS_CardinalityType
    <3>3. QED
      BY <1>4, <3>1, <3>2
  <2>3. /\ Cardinality(seen) \in Nat
        /\ Cardinality(seen) <= Cardinality(C(day)) + Cardinality(C(day + 1))
    <3>1. /\ IsFiniteSet(seen)
          /\ Cardinality(seen) <= Cardinality(C(day) \cup C(day + 1))
      BY <2>1, <2>2, FS_Subset
    <3>2. /\ Cardinality(seen) \in Nat
          /\ Cardinality(C(day) \cup C(day + 1)) \in Nat
      BY <2>2, <3>1, FS_CardinalityType
    <3>3. QED
      BY <1>4, <2>2, <3>1, <3>2
  <2>4. PICK d \in {day, day + 1} : Percent(Cardinality(C(d))) > 30
    BY <1>2, <1>4, <2>3, HalfOfAPeak
  <2>5. Percent(Cardinality(C(d))) \in Int
    BY <1>4, PercentMonotone
  <2>6. recommendation(S, d) >= -5
    BY <1>5, <2>4, <2>5, NoLargeDiscount
  <2>7. QED
    BY <1>7, <2>6 DEF Spanned
<1>8. QED
  BY <1>6, <1>7

\* The pace screen, which reads less, means the same pace.
LEMMA ScreensDoAgree ==
  ASSUME NEW S, Bookings(S), NEW day
  PROVE  ScreensAgree(S, day)
<1> DEFINE read == {b \in MadeSince(S, -30) : b.status # "EXPIRED"}
           C == Counted(S, day)
           R == Counted(read, day)
<1>1. /\ getPace(S, day).paceDelta = paceDelta(read, day)
      /\ getPace(S, day).occupancy = Percent(Cardinality(R))
      /\ demand(S, day) = Percent(Cardinality(C))
  BY DEF getPace, demand, Counted
<1>2. R \subseteq C /\ IsFiniteSet(C)
  BY CountedFinite DEF Bookings, Counted, WithStatus, Over, MadeSince
<1>3. MadeSince(R, -7) = MadeSince(C, -7) /\ MadeSince(R, -14) = MadeSince(C, -14)
  BY DEF Bookings, Counted, WithStatus, Over, MadeSince, activeStatuses
<1>4. paceDelta(read, day) = paceDelta(S, day)
  BY <1>3 DEF paceDelta, Counted
<1> HIDE DEF C, R
<1>5. Percent(Cardinality(R)) <= Percent(Cardinality(C))
  BY <1>2, FS_Subset, FS_CardinalityType, PercentMonotone
<1>6. QED
  BY <1>1, <1>4, <1>5 DEF ScreensAgree

\* The three together, for every market the host may be in.
LEMMA AdviceSound == AdviceIsAlwaysSound
<1>1. ASSUME NEW S \in Market, NEW more \in UNION Market, NEW day \in {0, 1}
      PROVE  AdviceIsSound(S, more, day)
  <2>1. Bookings(S) /\ more.made \in Int
    BY MarketAssumption DEF Bookings
  <2>2. QED
    BY <2>1, MoreIsNotLess, PeaksAreSafe, ScreensDoAgree DEF AdviceIsSound
<1>2. QED
  BY <1>1 DEF AdviceIsAlwaysSound

-----------------------------------------------------------------------------
(* The calendar's price: what a recursive function yields, by induction on *)
(* the number of rules.                                                    *)

\* Induction over the natural numbers, for a set of them.
LEMMA SetInduction ==
  ASSUME NEW S, 0 \in S, \A n \in Nat : n \in S => n + 1 \in S
  PROVE  Nat \subseteq S
<1> DEFINE T == Nat \ S
<1>1. SUFFICES ASSUME T # {} PROVE FALSE
  OBVIOUS
<1>2. PICK x \in T : \A y \in T : <<y, x>> \notin OpToRel(<, Nat)
  <2> HIDE DEF T
  <2>1. T \subseteq Nat
    BY DEF T
  <2>2. QED
    BY <1>1, <2>1, NatLessThanWellFounded, WFMin
<1>3. x \in Nat /\ x # 0
  OBVIOUS
<1>4. x - 1 \in Nat /\ x - 1 < x
  BY <1>3
<1>5. <<x - 1, x>> \in OpToRel(<, Nat)
  BY <1>3, <1>4 DEF OpToRel
<1>6. x - 1 \notin T
  BY <1>2, <1>5
<1>7. QED
  BY <1>3, <1>4, <1>6

\* A rule makes a whole price of a whole price.
LEMMA AdjustedIsInt ==
  ASSUME NEW x \in Int, NEW r \in RuleRow
  PROVE  Adjusted(x, r) \in Int
<1>1. r.rule.adjustment \in Int
  BY PriceAssumption DEF RuleRow
<1>2. x * (100 + r.rule.adjustment) \in Int
  BY <1>1
<1>3. QED
  BY <1>1, <1>2 DEF Adjusted

\* The price after the first i rules, given the prices after fewer of them.
AfterRule(f, day, d, i) ==
  IF i = 0 THEN base
  ELSE IF applicable(i, day, d) THEN Adjusted(f[i - 1], rules[i])
  ELSE f[i - 1]

PricesAre(f, day, d) == f = [i \in 0 .. Len(rules) |-> AfterRule(f, day, d, i)]

\* There is such a sequence of prices, for any number of the rules.
LEMMA PricesExist ==
  ASSUME base \in Int, rules \in Seq(RuleRow), NEW day, NEW d
  PROVE  \E f : PricesAre(f, day, d)
<1> DEFINE Is(f, n) == f = [i \in 0 .. n |-> AfterRule(f, day, d, i)]
           S == {n \in Nat : \E f : Is(f, n)}
<1>1. 0 \in S
  <2>1. Is([i \in 0 .. 0 |-> base], 0)
    BY DEF AfterRule
  <2>2. QED
    BY <2>1
<1>2. ASSUME NEW n \in Nat, n \in S PROVE n + 1 \in S
  <2>1. PICK f : Is(f, n)
    BY <1>2
  <2> DEFINE g == [i \in 0 .. n + 1 |-> IF i <= n THEN f[i]
                                        ELSE AfterRule(f, day, d, n + 1)]
  <2>2. \A i \in 0 .. n + 1 : g[i] = AfterRule(g, day, d, i)
    <3>1. ASSUME NEW i \in 0 .. n + 1 PROVE g[i] = AfterRule(g, day, d, i)
      <4>1. CASE i = 0
        BY <2>1, <4>1 DEF AfterRule
      <4>2. CASE i # 0
        <5>1. i - 1 \in 0 .. n /\ g[i - 1] = f[i - 1]
          BY <4>2
        <5>2. AfterRule(g, day, d, i) = AfterRule(f, day, d, i)
          BY <4>2, <5>1 DEF AfterRule
        <5>3. i <= n => f[i] = AfterRule(f, day, d, i)
          BY <2>1
        <5>4. i = n + 1 \/ i <= n
          OBVIOUS
        <5>5. QED
          BY <5>2, <5>3, <5>4
      <4>3. QED
        BY <4>1, <4>2
    <3>2. QED
      BY <3>1
  <2>3. Is(g, n + 1)
    BY <2>2
  <2> HIDE DEF g, Is
  <2>4. QED
    BY <2>3
<1>3. Nat \subseteq S
  <2> HIDE DEF S
  <2>1. QED
    BY <1>1, <1>2, SetInduction
<1>4. Len(rules) \in S
  BY <1>3
<1>5. QED
  BY <1>4 DEF PricesAre

\* The calendar's price is a whole number not below zero, and the base price
\* when no rule counts.
LEMMA SuggestedPrice ==
  ASSUME base \in Nat, rules \in Seq(RuleRow), NEW day, NEW d
  PROVE  /\ suggestedPrice(day, d) \in Nat
         /\ (\A i \in DOMAIN rules : ~applicable(i, day, d)) =>
              suggestedPrice(day, d) = base
<1> DEFINE price == CHOOSE f : f = [i \in 0 .. Len(rules) |-> AfterRule(f, day, d, i)]
           last == price[Len(rules)]
           none == \A i \in DOMAIN rules : ~applicable(i, day, d)
<1>1. suggestedPrice(day, d) = IF last < 0 THEN 0 ELSE last
  BY DEF suggestedPrice, AfterRule
<1>2. price = [i \in 0 .. Len(rules) |-> AfterRule(price, day, d, i)]
  <2>1. base \in Int
    OBVIOUS
  <2>2. PICK f : PricesAre(f, day, d)
    BY <2>1, PricesExist
  <2>3. QED
    BY <2>2 DEF PricesAre
<1> HIDE DEF price
<1> DEFINE S == {n \in Nat : n <= Len(rules) =>
                   price[n] \in Int /\ (none => price[n] = base)}
<1>3. 0 \in S
  BY <1>2 DEF AfterRule
<1>4. ASSUME NEW n \in Nat, n \in S PROVE n + 1 \in S
  <2>1. SUFFICES ASSUME n + 1 <= Len(rules)
                 PROVE  /\ price[n + 1] \in Int
                        /\ none => price[n + 1] = base
    OBVIOUS
  <2>2. n + 1 \in 0 .. Len(rules) /\ n + 1 # 0 /\ (n + 1) - 1 = n
    BY <2>1
  <2>3. price[n + 1] = IF applicable(n + 1, day, d)
                       THEN Adjusted(price[n], rules[n + 1]) ELSE price[n]
    BY <1>2, <2>2 DEF AfterRule
  <2>4. price[n] \in Int /\ (none => price[n] = base)
    BY <1>4, <2>1
  <2>5. n + 1 \in DOMAIN rules /\ rules[n + 1] \in RuleRow
    BY <2>1
  <2>6. none => ~applicable(n + 1, day, d)
    BY <2>5
  <2>7. QED
    BY <2>3, <2>4, <2>5, <2>6, AdjustedIsInt
<1>5. Nat \subseteq S
  <2> HIDE DEF S
  <2>1. QED
    BY <1>3, <1>4, SetInduction
<1>6. last \in Int /\ (none => last = base)
  BY <1>5
<1>7. QED
  BY <1>1, <1>6

-----------------------------------------------------------------------------
(* The invariant: what requests that are halfway through still know.       *)

\* A request that is about a proposal has seen its row; one about to make a
\* price live carries the proposal's price and, to fall back on, one that was
\* settled for that night; one that rolls back carries two such prices.
RequestHolds(h) ==
  LET r == request[h] IN
    /\ r.step \in {"decide", "apply", "upsert"} => approval[r.id] \in ApprovalRow
    /\ r.step = "upsert" =>
         /\ r.price = approval[r.id].price
         /\ \A n \in Night : approval[r.id].night = n => r.previous \in Settled(n)
    /\ r.step = "rollback" =>
         /\ daily[r.night] # NULL
         /\ \A n \in Night : r.night = n =>
              r.price \in Settled(n) /\ r.previous \in Settled(n)

\* A live price was settled, and so was the one a rollback brings back.
PriceHolds(n) ==
  daily[n] # NULL =>
    LET d == daily[n]
        p == approval[d.approval] IN
      /\ d.price \in Settled(n) /\ d.previous \in Settled(n)
      /\ d.source = "APPROVED_RULE" => d.approval \in accepted /\ p.price = d.price

StayHolds == (stay.step = "room" => stay.base \in hadBase) /\ ChargedAsSet

Inv ==
  /\ TypeOK
  /\ \A h \in Request : RequestHolds(h)
  /\ \A n \in Night : PriceHolds(n)
  /\ StayHolds

\* What every step keeps: base prices the room has had, approvals, the night and
\* price of a proposal, and that there is a price for a night.
Kept ==
  /\ hadBase \subseteq hadBase' /\ accepted \subseteq accepted'
  /\ \A p \in Proposal : approval[p] \in ApprovalRow =>
       /\ approval'[p] \in ApprovalRow
       /\ approval'[p].night = approval[p].night
       /\ approval'[p].price = approval[p].price
  /\ \A n \in Night : daily[n] # NULL => daily'[n] # NULL

\* What was settled stays settled.
LEMMA SettledGrows ==
  ASSUME Kept, TypeOK, NEW n \in Night
  PROVE  Settled(n) \subseteq Settled(n)'
<1>1. ASSUME NEW p \in accepted, approval[p].night = n
      PROVE  /\ p \in accepted'
             /\ approval'[p].night = n /\ approval'[p].price = approval[p].price
  BY <1>1 DEF Kept, TypeOK
<1>2. hadBase \subseteq hadBase'
  BY DEF Kept
<1>3. QED
  BY <1>1, <1>2 DEF Settled

\* Every price a host has settled on is a number of rupees.
LEMMA SettledIsInt ==
  ASSUME TypeOK, NEW n \in Night
  PROVE  Settled(n) \subseteq Int
<1>1. hadBase \subseteq Int
  BY PriceAssumption DEF TypeOK
<1>2. ASSUME NEW p \in accepted PROVE approval[p].price \in Int
  BY DEF TypeOK, ApprovalRow
<1>3. QED
  BY <1>1, <1>2 DEF Settled

\* Which step a request has come to tells which record it is.
LEMMA RequestTypes ==
  ASSUME TypeOK, NEW h \in Request
  PROVE  /\ request[h] \in {Idle} \cup Deciding \cup Upserting \cup RollingBack
         /\ request[h].step \in {"idle", "decide", "apply", "upsert", "rollback"}
         /\ request[h].step \in {"decide", "apply"} => request[h] \in Deciding
         /\ request[h].step = "upsert" => request[h] \in Upserting
         /\ request[h].step = "rollback" => request[h] \in RollingBack
  BY DEF TypeOK, Idle, Deciding, Upserting, RollingBack

\* What a request has read remains settled while other requests go on.
LEMMA RequestStays ==
  ASSUME Kept, TypeOK, NEW h \in Request, RequestHolds(h),
         request'[h] = request[h]
  PROVE  RequestHolds(h)'
<1>1. \A n \in Night : Settled(n) \subseteq Settled(n)'
  BY SettledGrows
<1>2. request[h].step \in {"decide", "apply", "upsert"} => request[h].id \in Proposal
  BY RequestTypes DEF Deciding, Upserting
<1>3. request[h].step = "rollback" => request[h].night \in Night
  BY RequestTypes DEF RollingBack
<1>4. QED
  BY <1>1, <1>2, <1>3 DEF Kept, RequestHolds

\* A night's price remains settled as long as its row is left alone.
LEMMA PriceStays ==
  ASSUME Kept, TypeOK, NEW n \in Night, PriceHolds(n), daily'[n] = daily[n]
  PROVE  PriceHolds(n)'
<1>1. Settled(n) \subseteq Settled(n)'
  BY SettledGrows
<1>2. ASSUME NEW p \in accepted
      PROVE  p \in accepted' /\ approval'[p].price = approval[p].price
  BY DEF Kept, TypeOK
<1>3. QED
  BY <1>1, <1>2 DEF PriceHolds

\* A guest's total was made of rates that were settled, night by night.
LEMMA StayStays ==
  ASSUME Kept, TypeOK, StayHolds, UNCHANGED stay
  PROVE  StayHolds'
<1>1. \A n \in Night : Settled(n) \subseteq Settled(n)'
  BY SettledGrows
<1>2. stay.step = "room" => stay.base \in hadBase'
  BY DEF Kept, StayHolds
<1>3. ASSUME stay.step = "booked" PROVE ChargedAsSet'
  <2>1. PICK rates \in [Night -> {x \in UNION {Settled(n) : n \in Night} : x >= 0}] :
          /\ \A n \in Night : rates[n] \in Settled(n)
          /\ stay.totalPrice = Total(rates)
    BY <1>3 DEF StayHolds, ChargedAsSet
  <2>2. \A n \in Night : rates[n] \in Settled(n)' /\ rates[n] >= 0
    BY <1>1, <2>1
  <2>3. rates \in [Night -> {x \in UNION {Settled(n)' : n \in Night} : x >= 0}]
    BY <2>1, <2>2
  <2>4. QED
    BY <2>1, <2>2, <2>3 DEF ChargedAsSet
<1>4. QED
  BY <1>2, <1>3 DEF StayHolds, ChargedAsSet

\* A step of one request that leaves the guest and the base price alone.
LEMMA DeskStep ==
  ASSUME Inv, Kept, TypeOK', NEW h \in Request, RequestHolds(h)',
         \A g \in Request \ {h} : request'[g] = request[g],
         \A n \in Night : daily'[n] = daily[n] \/ PriceHolds(n)',
         UNCHANGED stay
  PROVE  Inv'
<1>1. \A g \in Request : RequestHolds(g)'
  BY RequestStays DEF Inv
<1>2. \A n \in Night : PriceHolds(n)'
  BY PriceStays DEF Inv
<1>3. StayHolds'
  BY StayStays DEF Inv
<1>4. QED
  BY <1>1, <1>2, <1>3 DEF Inv

\* A request takes a new state and no table changes.
LEMMA OnlyRequest ==
  ASSUME Inv, NEW h \in Request, NEW q,
         q \in {Idle} \cup Deciding \cup Upserting \cup RollingBack,
         request' = [request EXCEPT ![h] = q],
         UNCHANGED <<approval, accepted, daily, base, hadBase, rules, stay>>,
         RequestHolds(h)'
  PROVE  Inv'
<1>1. Kept
  BY DEF Kept
<1>2. \A g \in Request \ {h} : request'[g] = request[g]
  BY DEF Inv, TypeOK
<1>3. TypeOK'
  BY DEF Inv, TypeOK
<1>4. QED
  BY <1>1, <1>2, <1>3, DeskStep

\* A request is answered, and no table changes.
LEMMA AnswerStep ==
  ASSUME Inv, NEW h \in Request, Answers(h),
         UNCHANGED <<approval, accepted, daily, base, hadBase, rules, stay>>
  PROVE  Inv'
<1>1. request' = [request EXCEPT ![h] = Idle] /\ request'[h] = Idle
  BY DEF Answers, Inv, TypeOK
<1>2. RequestHolds(h)'
  BY <1>1 DEF RequestHolds, Idle
<1>3. QED
  BY <1>1, <1>2, OnlyRequest

\* Reading a proposal to decide or apply it.
LEMMA ReadStep ==
  ASSUME Inv, NEW h \in Request, DecideRead(h) \/ ApplyRead(h)
  PROVE  Inv'
<1>1. PICK p \in Proposal, s \in {"decide", "apply"} :
        /\ approval[p].status = "PENDING"
        /\ request' = [request EXCEPT ![h] = [step |-> s, id |-> p]]
  BY DEF DecideRead, ApplyRead
<1> DEFINE q == [step |-> s, id |-> p]
<1>2. q \in Deciding /\ q.step = s /\ q.id = p
  BY DEF Deciding
<1> HIDE DEF q
<1>3. approval[p] \in ApprovalRow
  BY <1>1 DEF Inv, TypeOK, NoRow
<1>4. request' = [request EXCEPT ![h] = q] /\ request'[h] = q
  BY <1>1 DEF q, Inv, TypeOK
<1>5. UNCHANGED <<approval, accepted, daily, base, hadBase, rules, stay>>
  BY DEF DecideRead, ApplyRead, Others
<1>6. RequestHolds(h)'
  BY <1>1, <1>2, <1>3, <1>4, <1>5 DEF RequestHolds
<1>7. QED
  BY <1>2, <1>4, <1>5, <1>6, OnlyRequest

\* Reading, inside the transaction, the prices to fall back on.
LEMMA ApplyCurrentStep ==
  ASSUME Inv, NEW h \in Request, ApplyCurrent(h)
  PROVE  Inv'
<1> DEFINE p == request[h].id
           asked == approval[p]
           current == daily[asked.night]
           previous == IF current = NULL THEN base ELSE current.price
           version == IF current = NULL THEN 1 ELSE current.version + 1
           q == [step |-> "upsert", id |-> p, price |-> asked.price,
                 previous |-> previous, version |-> version]
<1>1. UNCHANGED <<approval, accepted, daily, base, hadBase, rules, stay>>
  BY DEF ApplyCurrent, Others
<1>2. CASE asked.price < 0
  BY <1>1, <1>2, AnswerStep DEF ApplyCurrent
<1>3. CASE ~(asked.price < 0)
  <2>1. request' = [request EXCEPT ![h] = q] /\ request[h].step = "apply"
    BY <1>3 DEF ApplyCurrent
  <2>2. p \in Proposal /\ asked \in ApprovalRow
    BY <2>1, RequestTypes DEF Inv, RequestHolds, Deciding
  <2>3. asked.night \in Night /\ asked.price \in Nat
    BY <1>3, <2>2, PriceAssumption DEF ApprovalRow
  <2>4. base \in hadBase /\ base \in Nat
    BY PriceAssumption DEF Inv, TypeOK
  <2>5. previous \in Nat /\ version \in Nat \ {0}
    <3>1. current = NULL \/ current \in DailyRow
      BY <2>3 DEF Inv, TypeOK
    <3>2. current \in DailyRow => current.price \in Nat /\ current.version \in Nat
      BY VersionAssumption DEF DailyRow
    <3> HIDE DEF current
    <3>3. QED
      BY <2>4, <3>1, <3>2
  <2>6. previous \in Settled(asked.night)
    <3>1. CASE current = NULL
      BY <2>4, <3>1 DEF Settled
    <3>2. CASE current # NULL
      BY <2>3, <3>2 DEF Inv, PriceHolds
    <3>3. QED
      BY <3>1, <3>2
  <2>7. /\ q \in Upserting /\ q.step = "upsert" /\ q.id = p
        /\ q.price = asked.price /\ q.previous = previous
    <3> HIDE DEF previous, version, asked, p
    <3>1. QED
      BY <2>2, <2>3, <2>5 DEF Upserting
  <2> HIDE DEF previous, version, q
  <2>8. request'[h] = q
    BY <2>1 DEF Inv, TypeOK
  <2>9. approval' = approval /\ \A n \in Night : Settled(n)' = Settled(n)
    BY <1>1 DEF Settled
  <2>10. RequestHolds(h)'
    BY <2>2, <2>6, <2>7, <2>8, <2>9 DEF RequestHolds
  <2>11. QED
    BY <1>1, <2>1, <2>7, <2>10, OnlyRequest
<1>4. QED
  BY <1>2, <1>3

\* Reading the prices a rollback exchanges.
LEMMA RollbackReadStep ==
  ASSUME Inv, NEW h \in Request, RollbackRead(h)
  PROVE  Inv'
<1>1. PICK n \in Night :
        /\ daily[n] # NULL
        /\ request' = [request EXCEPT ![h] =
             [step |-> "rollback", night |-> n,
              price |-> daily[n].previous, previous |-> daily[n].price]]
  BY DEF RollbackRead
<1> DEFINE q == [step |-> "rollback", night |-> n,
                 price |-> daily[n].previous, previous |-> daily[n].price]
<1>2. daily[n].price \in Nat /\ daily[n].previous \in Nat
  BY <1>1 DEF Inv, TypeOK, DailyRow
<1>3. /\ q \in RollingBack /\ q.step = "rollback" /\ q.night = n
      /\ q.price = daily[n].previous /\ q.previous = daily[n].price
  BY <1>2 DEF RollingBack
<1>4. daily[n].price \in Settled(n) /\ daily[n].previous \in Settled(n)
  BY <1>1 DEF Inv, PriceHolds
<1>5. request' = [request EXCEPT ![h] = q] /\ request'[h] = q
  BY <1>1 DEF Inv, TypeOK
<1> HIDE DEF q
<1>6. UNCHANGED <<approval, accepted, daily, base, hadBase, rules, stay>>
  BY DEF RollbackRead, Others
<1>7. \A m \in Night : Settled(m)' = Settled(m)
  BY <1>6 DEF Settled
<1>8. RequestHolds(h)'
  BY <1>1, <1>3, <1>4, <1>5, <1>6, <1>7 DEF RequestHolds
<1>9. QED
  BY <1>3, <1>5, <1>6, <1>8, OnlyRequest

\* A decision keeps what the proposal is about.
LEMMA DecideWriteStep ==
  ASSUME Inv, NEW h \in Request, DecideWrite(h)
  PROVE  Inv'
<1> DEFINE p == request[h].id
<1>1. PICK s \in {"APPROVED", "REJECTED"} :
        /\ approval' = [approval EXCEPT ![p].status = s]
        /\ accepted' = IF s = "APPROVED" THEN accepted \cup {p} ELSE accepted
  BY DEF DecideWrite, WriteStatus
<1>2. p \in Proposal /\ approval[p] \in ApprovalRow
  BY RequestTypes DEF DecideWrite, Inv, RequestHolds, Deciding
<1> HIDE DEF p
<1> DEFINE row == [approval[p] EXCEPT !.status = s]
<1>3. /\ row \in ApprovalRow /\ row.status = s
      /\ row.night = approval[p].night /\ row.price = approval[p].price
  BY <1>2 DEF ApprovalRow
<1>4. approval' = [approval EXCEPT ![p] = row]
  BY <1>1
<1> HIDE DEF row
<1>5. /\ approval'[p] = row
      /\ \A q \in Proposal \ {p} : approval'[q] = approval[q]
      /\ approval' \in [Proposal -> ApprovalRow \cup {NoRow}]
  BY <1>2, <1>3, <1>4 DEF Inv, TypeOK
<1>6. /\ request' = [request EXCEPT ![h] = Idle] /\ request'[h] = Idle
      /\ \A g \in Request \ {h} : request'[g] = request[g]
      /\ UNCHANGED <<daily, base, hadBase, rules, stay>>
  BY DEF DecideWrite, Answers, Others, Inv, TypeOK
<1>7. Kept
  BY <1>1, <1>2, <1>3, <1>5, <1>6 DEF Kept
<1>8. TypeOK'
  <2>1. accepted' \subseteq {q \in Proposal : approval'[q] # NoRow}
    BY <1>1, <1>2, <1>3, <1>5 DEF Inv, TypeOK, NoRow, ApprovalRow
  <2>2. QED
    BY <1>5, <1>6, <2>1 DEF Inv, TypeOK
<1>9. RequestHolds(h)'
  BY <1>6 DEF RequestHolds, Idle
<1>10. QED
  BY <1>6, <1>7, <1>8, <1>9, DeskStep

\* The price goes live together with the decision.
LEMMA ApplyCommitStep ==
  ASSUME Inv, NEW h \in Request, ApplyCommit(h)
  PROVE  Inv'
<1> DEFINE r == request[h]
           p == r.id
           d == [price |-> r.price, previous |-> r.previous,
                 source |-> "APPROVED_RULE", approval |-> p,
                 version |-> r.version]
           row == [approval[p] EXCEPT !.status = "APPROVED"]
<1>1. /\ r \in Upserting /\ r.step = "upsert" /\ r.version <= MaxVersion
      /\ p \in Proposal /\ approval[p] \in ApprovalRow
      /\ r.price = approval[p].price
      /\ \A n \in Night : approval[p].night = n => r.previous \in Settled(n)
  BY RequestTypes DEF ApplyCommit, Inv, RequestHolds, Upserting
<1>2. PICK night \in Night : night = approval[p].night /\ r.previous \in Settled(night)
  BY <1>1, PriceAssumption DEF ApprovalRow
<1>3. /\ daily' = [daily EXCEPT ![night] = d]
      /\ approval' = [approval EXCEPT ![p] = row]
      /\ accepted' = accepted \cup {p}
  BY <1>2 DEF ApplyCommit, Decided, WriteStatus
<1>4. /\ d \in DailyRow /\ d.price = r.price /\ d.previous = r.previous
      /\ d.source = "APPROVED_RULE" /\ d.approval = p
  <2>1. /\ r.price \in Nat /\ r.previous \in Nat /\ r.version \in 1 .. MaxVersion
    BY <1>1, VersionAssumption DEF Upserting
  <2>2. QED
    <3> HIDE DEF r, p
    <3>1. QED
      BY <1>1, <2>1 DEF DailyRow
<1>5. /\ row \in ApprovalRow /\ row.status = "APPROVED"
      /\ row.night = night /\ row.price = r.price
  BY <1>1, <1>2 DEF ApprovalRow
<1>6. /\ request'[h] = Idle
      /\ request' \in [Request -> {Idle} \cup Deciding \cup Upserting \cup RollingBack]
      /\ \A g \in Request \ {h} : request'[g] = request[g]
      /\ UNCHANGED <<base, hadBase, rules, stay>>
  BY DEF ApplyCommit, Answers, Others, Inv, TypeOK
<1> HIDE DEF r, p, d, row
<1>7. /\ approval'[p] = row
      /\ \A q \in Proposal \ {p} : approval'[q] = approval[q]
      /\ approval' \in [Proposal -> ApprovalRow \cup {NoRow}]
  BY <1>1, <1>3, <1>5 DEF Inv, TypeOK
<1>8. /\ daily'[night] = d /\ d # NULL
      /\ \A n \in Night \ {night} : daily'[n] = daily[n]
      /\ daily' \in [Night -> DailyRow \cup {NULL}]
  BY <1>2, <1>3, <1>4, NullAssumption DEF Inv, TypeOK
<1>9. Kept
  <2>1. row.night = approval[p].night /\ row.price = approval[p].price
    BY <1>1, <1>2, <1>5
  <2>2. QED
    BY <1>3, <1>5, <1>6, <1>7, <1>8, <2>1 DEF Kept
<1>10. TypeOK'
  <2>1. accepted' \subseteq {q \in Proposal : approval'[q] # NoRow}
    BY <1>1, <1>3, <1>5, <1>7 DEF Inv, TypeOK, NoRow, ApprovalRow
  <2>2. QED
    BY <1>6, <1>7, <1>8, <2>1 DEF Inv, TypeOK
<1>11. RequestHolds(h)'
  BY <1>6 DEF RequestHolds, Idle
<1>12. PriceHolds(night)'
  <2>1. d.previous \in Settled(night)'
    BY <1>2, <1>4, <1>9, SettledGrows DEF Inv
  <2>2. d.price \in Settled(night)'
    BY <1>1, <1>3, <1>4, <1>5, <1>7 DEF Settled
  <2>3. QED
    BY <1>3, <1>4, <1>5, <1>7, <1>8, <2>1, <2>2 DEF PriceHolds
<1>13. QED
  BY <1>6, <1>8, <1>9, <1>10, <1>11, <1>12, DeskStep

\* A rollback brings back what it read, whatever is live by now.
LEMMA RollbackWriteStep ==
  ASSUME Inv, NEW h \in Request, RollbackWrite(h)
  PROVE  Inv'
<1> DEFINE r == request[h]
           d == [daily[r.night] EXCEPT !.price = r.price, !.previous = r.previous,
                                     !.source = "MANUAL", !.version = @ + 1]
<1>1. PICK night \in Night :
      /\ r \in RollingBack /\ r.step = "rollback" /\ night = r.night
      /\ daily[night] # NULL /\ daily[night].version < MaxVersion
      /\ r.price \in Settled(night) /\ r.previous \in Settled(night)
  BY RequestTypes DEF RollbackWrite, Inv, RequestHolds, RollingBack
<1>2. daily[night] \in DailyRow /\ r.price \in Nat /\ r.previous \in Nat
  BY <1>1 DEF Inv, TypeOK, RollingBack
<1>3. daily[night].version + 1 \in 1 .. MaxVersion
  BY <1>1, <1>2, VersionAssumption DEF DailyRow
<1>4. daily' = [daily EXCEPT ![night] = d]
  BY <1>1 DEF RollbackWrite
<1>5. /\ request'[h] = Idle
      /\ request' \in [Request -> {Idle} \cup Deciding \cup Upserting \cup RollingBack]
      /\ \A g \in Request \ {h} : request'[g] = request[g]
      /\ UNCHANGED <<approval, accepted, base, hadBase, rules, stay>>
  BY DEF RollbackWrite, Answers, Others, Inv, TypeOK
<1> HIDE DEF r
<1>6. /\ d \in DailyRow /\ d.price = r.price /\ d.previous = r.previous
      /\ d.source = "MANUAL"
  BY <1>1, <1>2, <1>3 DEF DailyRow
<1> HIDE DEF d
<1>7. /\ daily'[night] = d /\ d # NULL
      /\ \A n \in Night \ {night} : daily'[n] = daily[n]
      /\ daily' \in [Night -> DailyRow \cup {NULL}]
  BY <1>1, <1>4, <1>6, NullAssumption DEF Inv, TypeOK
<1>8. Kept
  BY <1>5, <1>7 DEF Kept
<1>9. TypeOK'
  BY <1>5, <1>7 DEF Inv, TypeOK
<1>10. RequestHolds(h)'
  BY <1>5 DEF RequestHolds, Idle
<1>11. PriceHolds(night)'
  <2>1. Settled(night) \subseteq Settled(night)'
    BY <1>1, <1>8, SettledGrows DEF Inv
  <2>2. QED
    BY <1>1, <1>6, <1>7, <2>1 DEF PriceHolds
<1>12. QED
  BY <1>5, <1>7, <1>8, <1>9, <1>10, <1>11, DeskStep

\* Steps that leave the requests and the dated prices alone.
LEMMA QuietStep ==
  ASSUME Inv, Kept, TypeOK', StayHolds', UNCHANGED <<daily, request>>
  PROVE  Inv'
  BY RequestStays, PriceStays DEF Inv

\* A new base price, a new rule, a rule switched on or off, a new proposal.
LEMMA RoomUpdateStep ==
  ASSUME Inv, RoomUpdate
  PROVE  Inv'
<1>1. Kept /\ TypeOK'
  BY DEF RoomUpdate, Kept, Inv, TypeOK
<1>2. QED
  BY <1>1, QuietStep, StayStays DEF RoomUpdate, Inv

\* Editing the rules of a property leaves prices and decisions alone.
LEMMA RuleStep ==
  ASSUME Inv,
         (\E r \in Rule : RuleCreate(r)) \/ \E i \in DOMAIN rules : RuleSetActive(i)
  PROVE  Inv'
<1>1. UNCHANGED <<base, hadBase, approval, accepted, daily, request, stay>>
  BY DEF RuleCreate, RuleSetActive
<1>2. rules' \in Seq(RuleRow)
  <2>1. ASSUME NEW r \in Rule, RuleCreate(r) PROVE rules' \in Seq(RuleRow)
    <3> DEFINE row == [rule |-> r, isActive |-> TRUE]
    <3>1. row \in RuleRow
      BY DEF RuleRow
    <3>2. rules' = Append(rules, row) /\ rules \in Seq(RuleRow)
      BY <2>1 DEF RuleCreate, Inv, TypeOK
    <3> HIDE DEF row
    <3>3. QED
      BY <3>1, <3>2
  <2>2. ASSUME NEW i \in DOMAIN rules, RuleSetActive(i) PROVE rules' \in Seq(RuleRow)
    <3>1. PICK isActive \in BOOLEAN : rules' = [rules EXCEPT ![i].isActive = isActive]
      BY <2>2 DEF RuleSetActive
    <3>2. rules \in Seq(RuleRow) /\ rules[i] \in RuleRow
      BY DEF Inv, TypeOK
    <3> DEFINE row == [rules[i] EXCEPT !.isActive = isActive]
    <3>3. row \in RuleRow /\ rules' = [rules EXCEPT ![i] = row]
      BY <3>1, <3>2 DEF RuleRow
    <3> HIDE DEF row
    <3>4. QED
      BY <3>2, <3>3
  <2>3. QED
    BY <2>1, <2>2
<1>3. Kept /\ TypeOK'
  BY <1>1, <1>2 DEF Kept, Inv, TypeOK
<1>4. QED
  BY <1>1, <1>3, QuietStep, StayStays DEF Inv

\* A new proposal is pending and overwrites no decision.
LEMMA ApprovalCreateStep ==
  ASSUME Inv, NEW p \in Proposal, ApprovalCreate(p)
  PROVE  Inv'
<1>0. PICK n \in Dated, forRoom \in BOOLEAN :
        \E price \in Offer \cup {suggestedPrice(n, d) : d \in Level} :
          approval' = [approval EXCEPT ![p] =
                         [status |-> "PENDING", night |-> n, price |-> price,
                          forRoom |-> forRoom]]
  BY DEF ApprovalCreate
<1>1. PICK price \in Offer \cup {suggestedPrice(n, d) : d \in Level} :
        approval' = [approval EXCEPT ![p] =
                       [status |-> "PENDING", night |-> n, price |-> price,
                        forRoom |-> forRoom]]
  BY <1>0
<1>2. price \in Int
  <2>1. base \in Nat /\ rules \in Seq(RuleRow)
    BY PriceAssumption DEF Inv, TypeOK
  <2>2. \A d \in Level : suggestedPrice(n, d) \in Nat
    BY <2>1, SuggestedPrice
  <2>3. QED
    BY <2>2, PriceAssumption
<1> DEFINE row == [status |-> "PENDING", night |-> n, price |-> price,
                   forRoom |-> forRoom]
<1>3. row \in ApprovalRow
  BY <1>2 DEF ApprovalRow
<1>4. approval' = [approval EXCEPT ![p] = row] /\ approval[p] = NoRow
  BY <1>1 DEF ApprovalCreate
<1> HIDE DEF row
<1>5. /\ approval' \in [Proposal -> ApprovalRow \cup {NoRow}]
      /\ \A q \in Proposal \ {p} : approval'[q] = approval[q]
      /\ approval[p] \notin ApprovalRow
  BY <1>3, <1>4 DEF Inv, TypeOK, NoRow, ApprovalRow
<1>6. UNCHANGED <<base, hadBase, rules, accepted, daily, request, stay>>
  BY DEF ApprovalCreate
<1>7. Kept /\ TypeOK'
  BY <1>5, <1>6 DEF Kept, Inv, TypeOK
<1>8. QED
  BY <1>6, <1>7, QuietStep, StayStays DEF Inv

\* The guest's booking: the base price that was read was one at the time, and
\* the rates of the nights are settled when they are read.
LEMMA StayStep ==
  ASSUME Inv, CreateRead \/ CreatePrices
  PROVE  Inv'
<1>1. UNCHANGED <<base, hadBase, rules, approval, accepted, daily, request>>
  BY DEF CreateRead, CreatePrices, Desk
<1>2. Kept
  BY <1>1 DEF Kept
<1>3. CASE CreateRead
  <2>1. stay' = [step |-> "room", base |-> base]
    BY <1>3 DEF CreateRead
  <2>2. stay'.step = "room" /\ stay'.base \in hadBase'
    BY <1>1, <2>1 DEF Inv, TypeOK
  <2>3. TypeOK' /\ StayHolds'
    BY <1>1, <2>2 DEF Inv, TypeOK, StayHolds, ChargedAsSet
  <2>4. QED
    BY <1>1, <1>2, <2>3, QuietStep
<1>4. CASE CreatePrices
  <2> DEFINE rates == [n \in Night |-> nightlyRate(n)]
  <2>1. stay.step = "room" /\ stay' = [step |-> "booked", totalPrice |-> Total(rates)]
    BY <1>4 DEF CreatePrices
  <2>2. stay'.step = "booked" /\ stay'.totalPrice = Total(rates)
    BY <2>1
  <2>3. ASSUME NEW n \in Night
        PROVE  rates[n] \in Settled(n) /\ rates[n] \in Nat
    <3>1. CASE daily[n] = NULL
      <4>1. rates[n] = stay.base /\ stay.base \in hadBase
        BY <2>1, <3>1 DEF nightlyRate, Inv, StayHolds
      <4>2. QED
        BY <4>1, PriceAssumption DEF Settled, Inv, TypeOK
    <3>2. CASE daily[n] # NULL
      <4>1. rates[n] = daily[n].price /\ daily[n] \in DailyRow
        BY <3>2 DEF nightlyRate, Inv, TypeOK
      <4>2. QED
        BY <3>2, <4>1 DEF Inv, PriceHolds, DailyRow
    <3>3. QED
      BY <3>1, <3>2
  <2>4. rates \in [Night -> {x \in UNION {Settled(n) : n \in Night} : x >= 0}]
    BY <2>3
  <2> HIDE DEF rates
  <2>5. \A n \in Night : Settled(n)' = Settled(n)
    BY <1>1 DEF Settled
  <2>6. /\ rates \in [Night -> {x \in UNION {Settled(n)' : n \in Night} : x >= 0}]
        /\ \A n \in Night : rates[n] \in Settled(n)'
    BY <2>3, <2>4, <2>5
  <2>7. ChargedAsSet'
    BY <2>2, <2>6 DEF ChargedAsSet
  <2>8. TypeOK' /\ StayHolds'
    BY <1>1, <2>2, <2>7 DEF Inv, TypeOK, StayHolds
  <2>9. QED
    BY <1>1, <1>2, <2>8, QuietStep
<1>5. QED
  BY <1>3, <1>4

\* With no rule, no proposal and no price set, there is nothing to break.
LEMMA InvInit == Init => Inv
<1>1. SUFFICES ASSUME Init PROVE Inv
  OBVIOUS
<1>2. TypeOK
  BY <1>1 DEF Init, TypeOK
<1>3. \A h \in Request : RequestHolds(h)
  BY <1>1 DEF Init, RequestHolds, Idle
<1>4. \A n \in Night : PriceHolds(n)
  BY <1>1 DEF Init, PriceHolds
<1>5. StayHolds
  BY <1>1 DEF Init, StayHolds, ChargedAsSet
<1>6. QED
  BY <1>2, <1>3, <1>4, <1>5 DEF Inv

\* Every request, edit and booking keeps the invariant.
LEMMA InvStep == Inv /\ [Next]_vars => Inv'
<1>1. SUFFICES ASSUME Inv, [Next]_vars PROVE Inv'
  OBVIOUS
<1>2. CASE UNCHANGED vars
  <2>1. Kept /\ TypeOK' /\ UNCHANGED <<daily, request, stay>>
    BY <1>1, <1>2 DEF vars, Kept, Inv, TypeOK
  <2>2. QED
    BY <1>1, <2>1, QuietStep, StayStays DEF Inv
<1>3. ASSUME NEW h \in Request, HostStep(h) PROVE Inv'
  <2>1. CASE Crash(h)
    BY <1>1, <2>1, AnswerStep DEF Crash, Others
  <2>2. QED
    BY <1>1, <1>3, <2>1, ReadStep, ApplyCurrentStep, RollbackReadStep,
       DecideWriteStep, ApplyCommitStep, RollbackWriteStep DEF HostStep
<1>4. ASSUME NEW p \in Proposal, ApprovalCreate(p) PROVE Inv'
  BY <1>1, <1>4, ApprovalCreateStep
<1>5. CASE RoomUpdate \/ CreateRead \/ CreatePrices
  BY <1>1, <1>5, RoomUpdateStep, StayStep
<1>6. CASE (\E r \in Rule : RuleCreate(r)) \/ \E i \in DOMAIN rules : RuleSetActive(i)
  BY <1>1, <1>6, RuleStep
<1>7. QED
  BY <1>1, <1>2, <1>3, <1>4, <1>5, <1>6 DEF Next

\* Requests that are halfway through, live prices and the guest's total agree
\* with what the host has decided.
THEOREM PricingCorrect == Spec => []Inv
<1>1. QED
  BY InvInit, InvStep, PTL DEF Spec

\* Rows and requests keep to their types; no dated price is below zero.
THEOREM PricingTypes == Spec => []TypeOK
<1>1. Inv => TypeOK
  BY DEF Inv
<1>2. QED
  BY <1>1, PricingCorrect, PTL

\* The dated price of a night and the one to fall back on have been set for
\* that night, and a price that names a proposal is that proposal's.
THEOREM DatedPricesSet == Spec => []DatedPricesWereSet
<1>1. Inv => DatedPricesWereSet
  BY DEF Inv, PriceHolds, DatedPricesWereSet
<1>2. QED
  BY <1>1, PricingCorrect, PTL

\* A guest pays, night by night, a base price the room has had or the price of
\* an approved proposal.
THEOREM GuestsPayWhatWasSet == Spec => []ChargedAsSet
<1>1. Inv => ChargedAsSet
  BY DEF Inv, StayHolds
<1>2. QED
  BY <1>1, PricingCorrect, PTL

\* The advice follows the bookings of any market, for any number of rooms, and
\* the calendar's price, whatever the rules, is no negative one and the base
\* price when none of them counts.
THEOREM AdviceCorrect == Spec => []AdviceFollowsDemand
<1>1. Inv => AdviceFollowsDemand
  <2>1. SUFFICES ASSUME Inv PROVE AdviceFollowsDemand
    OBVIOUS
  <2>2. base \in Nat /\ rules \in Seq(RuleRow)
    BY <2>1, PriceAssumption DEF Inv, TypeOK
  <2>3. QED
    BY <2>2, SuggestedPrice, AdviceSound DEF AdviceFollowsDemand
<1>2. QED
  BY <1>1, PricingCorrect, PTL
=============================================================================
