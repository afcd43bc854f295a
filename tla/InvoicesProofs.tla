--------------------------- MODULE InvoicesProofs ---------------------------
(***************************************************************************)
(* Proofs about the invoices, for any bookings, prices, deliveries and     *)
(* years: every number drawn is new, and every invoice adds up.            *)
(***************************************************************************)
EXTENDS Invoices, TLAPS

\* Rounding stays among the naturals, and misses by half a unit at most.
LEMMA NearTypes ==
  ASSUME NEW n \in Nat, NEW d \in {2, 100}, NEW k \in Near(n, d)
  PROVE  k \in Nat
  BY DEF Near

\* Rounding a half to the paisa is off by one half at most.
LEMMA NearHalf ==
  ASSUME NEW n \in Nat, NEW k \in Near(n, 2)
  PROVE  2 * k - n \in -1..1
  BY DEF Near

\* The lines of an invoice add up to its total, give or take a paisa.
Balanced(g) == g.taxable + g.cgst + g.sgst + g.igst - g.total \in -1..1

\* What calculateGst answers has its types and adds up.
LEMMA GstBalanced ==
  ASSUME NEW total \in Nat, NEW n \in Nat, NEW gstin \in Gstin,
         NEW g \in calculateGst(total, n, gstin)
  PROVE  g \in Amounts /\ Balanced(g)
<1> DEFINE rate == gstRateForNightlyTariff(total, n)
<1>1. rate \in {0, 12, 18}
  BY DEF gstRateForNightlyTariff
<1>2. PICK tax \in IF gstin = "none" THEN {0} ELSE taxAmounts(total, rate) :
        g \in {[gstin |-> gstin, taxable |-> total,
                cgst |-> IF gstin = "intra" THEN half ELSE 0,
                sgst |-> IF gstin = "intra" THEN half ELSE 0,
                igst |-> IF gstin = "inter" THEN tax ELSE 0,
                total |-> total + tax] : half \in Near(tax, 2)}
  BY DEF calculateGst
<1>2a. PICK half \in Near(tax, 2) :
        g = [gstin |-> gstin, taxable |-> total,
             cgst |-> IF gstin = "intra" THEN half ELSE 0,
             sgst |-> IF gstin = "intra" THEN half ELSE 0,
             igst |-> IF gstin = "inter" THEN tax ELSE 0,
             total |-> total + tax]
  BY <1>2
<1>3. tax \in Nat
  <2>1. CASE gstin = "none"
    BY <1>2, <2>1
  <2>2. CASE gstin # "none"
    <3>1. total * rate \in Nat
      BY <1>1
    <3>2. QED
      BY <1>2, <2>2, <3>1, NearTypes DEF taxAmounts
  <2>3. QED
    BY <2>1, <2>2
<1>4. half \in Nat /\ 2 * half - tax \in -1..1
  BY <1>2a, <1>3, NearTypes, NearHalf
<1>5. g \in Amounts
  BY <1>2a, <1>3, <1>4 DEF Amounts
<1>6. gstin = "none" => tax = 0
  BY <1>2
<1>7. Balanced(g)
  <2>1. CASE gstin = "none"
    BY <1>2a, <1>6, <2>1 DEF Balanced
  <2>2. CASE gstin = "intra"
    BY <1>2a, <1>3, <1>4, <2>2 DEF Balanced
  <2>3. CASE gstin = "inter"
    BY <1>2a, <1>3, <2>3 DEF Balanced
  <2>4. QED
    BY <2>1, <2>2, <2>3 DEF Gstin
<1>8. QED
  BY <1>5, <1>7

-----------------------------------------------------------------------------

\* The number's year has reached it in these sequences.
Reached(num, seq) == num[1] \in Year /\ num[2] \in 1..seq[num[1]]

\* Numbers that are held or issued have been drawn, and deliveries about to
\* issue an invoice are about a booking and hold amounts that add up.
DeliveriesHold ==
  \A d \in Delivery :
    /\ delivery[d].at \in {"commit", "lookup", "read", "number", "issue"} =>
         delivery[d].b \in Booking
    /\ delivery[d].at \in {"number", "issue"} =>
         delivery[d].gst \in Amounts /\ Balanced(delivery[d].gst)
    /\ delivery[d].at = "issue" => Reached(delivery[d].num, sequence)

InvoicesHold ==
  \A b \in Booking :
    invoice[b] # NULL => Reached(invoice[b].num, sequence) /\ Balanced(invoice[b].gst)

Inv == TypeOK /\ DeliveriesHold /\ InvoicesHold /\ NumbersNeverClash

\* The locals of a delivery.
DeliveryLocals ==
  [at : {"new", "commit", "lookup", "read", "number", "issue", "over"},
   b : Booking \cup {NULL}, gst : Amounts \cup {NULL}, num : Number]

\* A delivery that has just begun, or is over, is well typed.
LEMMA NewTypes ==
  /\ New \in DeliveryLocals /\ New.at = "new"
  /\ [New EXCEPT !.at = "over"] \in DeliveryLocals
  /\ [New EXCEPT !.at = "over"].at = "over"
  BY DEF New, None, DeliveryLocals, Number

\* Without invoices and sequences nothing clashes.
LEMMA InvInit == Init => Inv
<1> SUFFICES ASSUME Init PROVE Inv
  OBVIOUS
<1>1. TypeOK
  BY NewTypes DEF Init, TypeOK, DeliveryLocals, Gstin
<1>2. DeliveriesHold /\ NumbersNeverClash
  BY NewTypes DEF Init, DeliveriesHold, NumbersNeverClash
<1>3. InvoicesHold
  BY DEF Init, InvoicesHold
<1>4. QED
  BY <1>1, <1>2, <1>3 DEF Inv

\* A delivery goes on to locals that hold no number; no table changes but the
\* paid bookings, the host and the year, which the invariant does not mention
\* except for their types.
LEMMA QuietStep ==
  ASSUME Inv, NEW d \in Delivery, NEW l \in DeliveryLocals,
         delivery' = [delivery EXCEPT ![d] = l],
         l.at # "issue",
         l.at \in {"commit", "lookup", "read", "number"} => l.b \in Booking,
         l.at = "number" => l.gst \in Amounts /\ Balanced(l.gst),
         UNCHANGED <<rowVars, hostGstin, year, sequence, invoice>>,
         paid' \subseteq Booking
  PROVE  Inv'
<1>1. /\ delivery' \in [Delivery -> DeliveryLocals]
      /\ delivery'[d] = l /\ \A e \in Delivery \ {d} : delivery'[e] = delivery[e]
  BY DEF Inv, TypeOK, DeliveryLocals
<1>2. TypeOK'
  BY <1>1 DEF Inv, TypeOK, DeliveryLocals, rowVars
<1>3. DeliveriesHold'
  BY <1>1 DEF Inv, DeliveriesHold, Reached
<1>4. InvoicesHold'
  BY DEF Inv, InvoicesHold, Reached
<1>5. NumbersNeverClash'
  BY <1>1 DEF Inv, NumbersNeverClash
<1>6. QED
  BY <1>2, <1>3, <1>4, <1>5 DEF Inv

\* Every step keeps the invariant.
LEMMA InvStep == Inv /\ [Next]_vars => Inv'
<1> SUFFICES ASSUME Inv, [Next]_vars PROVE Inv'
  OBVIOUS
<1>1. \A d \in Delivery : delivery[d] \in DeliveryLocals
  BY DEF Inv, TypeOK, DeliveryLocals
<1>2. paid \subseteq Booking
  BY DEF Inv, TypeOK
<1>3. ASSUME NEW d \in Delivery, End(d), paid' = paid,
             UNCHANGED <<rowVars, hostGstin, year, sequence, invoice>>
      PROVE  Inv'
  BY <1>2, <1>3, NewTypes, QuietStep DEF End
<1>4. ASSUME NEW d \in Delivery, NEW b \in Booking, Deliver(d, b) PROVE Inv'
  <2> DEFINE l == [delivery[d] EXCEPT !.at = "commit", !.b = b]
  <2>1. l \in DeliveryLocals /\ l.at = "commit" /\ l.b = b
    BY <1>1 DEF DeliveryLocals
  <2>2. delivery' = [delivery EXCEPT ![d] = l]
    BY <1>4 DEF Deliver
  <2>3. QED
    BY <1>2, <1>4, <2>1, <2>2, QuietStep DEF Deliver
<1>5. ASSUME NEW d \in Delivery, NEW to \in {"lookup", "read"}, Advance(d, to),
             delivery[d].b \in Booking, paid' \subseteq Booking,
             UNCHANGED <<rowVars, hostGstin, year, sequence, invoice>>
      PROVE  Inv'
  <2> DEFINE l == [delivery[d] EXCEPT !.at = to]
  <2>1. l \in DeliveryLocals /\ l.at = to /\ l.b = delivery[d].b
    BY <1>1 DEF DeliveryLocals
  <2>2. delivery' = [delivery EXCEPT ![d] = l]
    BY <1>5 DEF Advance
  <2>3. QED
    BY <1>5, <2>1, <2>2, QuietStep
<1>6. ASSUME NEW d \in Delivery, Commit(d) PROVE Inv'
  <2>1. delivery[d].b \in Booking
    BY <1>6 DEF Commit, Inv, DeliveriesHold
  <2>2. QED
    BY <1>2, <1>5, <1>6, <2>1 DEF Commit
<1>7. ASSUME NEW d \in Delivery, InvoiceLookup(d) PROVE Inv'
  <2>1. delivery[d].b \in Booking
    BY <1>7 DEF InvoiceLookup, Inv, DeliveriesHold
  <2>2. QED
    BY <1>2, <1>3, <1>5, <1>7, <2>1 DEF InvoiceLookup
<1>8. ASSUME NEW d \in Delivery, InvoiceRead(d) PROVE Inv'
  <2>1. delivery[d].b \in Booking
    BY <1>8 DEF InvoiceRead, Inv, DeliveriesHold
  <2>2. PICK g \in calculateGst(price[delivery[d].b], nights[delivery[d].b],
                                hostGstin) :
          delivery' = [delivery EXCEPT ![d].at = "number", ![d].gst = g]
    BY <1>8 DEF InvoiceRead
  <2>3. g \in Amounts /\ Balanced(g)
    BY <2>1, <2>2, GstBalanced, PriceAssumption DEF Inv, TypeOK
  <2> DEFINE l == [delivery[d] EXCEPT !.at = "number", !.gst = g]
  <2>4. /\ l \in DeliveryLocals /\ l.at = "number" /\ l.gst = g
        /\ l.b = delivery[d].b
    BY <1>1, <2>3 DEF DeliveryLocals
  <2>5. delivery' = [delivery EXCEPT ![d] = l]
    BY <2>2
  <2>6. QED
    BY <1>2, <1>8, <2>1, <2>3, <2>4, <2>5, QuietStep DEF InvoiceRead
<1>9. ASSUME NEW d \in Delivery, NextInvoiceNumber(d) PROVE Inv'
  <2> DEFINE num == <<year, sequence[year] + 1>>
             l == [delivery[d] EXCEPT !.at = "issue", !.num = num]
  <2>1. year \in Year /\ sequence[year] \in Nat
    BY DEF Inv, TypeOK
  <2>2. /\ sequence' \in [Year -> Nat] /\ sequence'[year] = sequence[year] + 1
        /\ \A y \in Year : sequence'[y] \in Nat /\ sequence[y] <= sequence'[y]
    BY <1>9, <2>1 DEF NextInvoiceNumber, Inv, TypeOK
  <2>2a. num \in Number
    BY <2>1, YearAssumption DEF Number
  <2>3. /\ l \in DeliveryLocals /\ l.at = "issue" /\ l.num = num
        /\ l.b = delivery[d].b /\ l.gst = delivery[d].gst
    <3> HIDE DEF num
    <3>1. QED
      BY <1>1, <2>2a DEF DeliveryLocals
  <2>4. delivery' = [delivery EXCEPT ![d] = l]
    BY <1>9 DEF NextInvoiceNumber
  <2>5. /\ delivery' \in [Delivery -> DeliveryLocals] /\ delivery'[d] = l
        /\ \A e \in Delivery \ {d} : delivery'[e] = delivery[e]
    BY <2>3, <2>4 DEF Inv, TypeOK, DeliveryLocals
  <2>6. TypeOK'
    BY <1>9, <2>2, <2>5
       DEF NextInvoiceNumber, Inv, TypeOK, DeliveryLocals, rowVars
  <2>7. ASSUME NEW m \in Number, Reached(m, sequence)
       PROVE  Reached(m, sequence') /\ m # num
    BY <2>1, <2>2, <2>7 DEF Reached, Number, Inv, TypeOK
  <2>8. Reached(num, sequence')
    BY <2>1, <2>2 DEF Reached
  <2>9. DeliveriesHold'
    <3>1. \A e \in Delivery : delivery[e].num \in Number
      BY <1>1 DEF DeliveryLocals
    <3>2. /\ delivery[d].b \in Booking
          /\ delivery[d].gst \in Amounts /\ Balanced(delivery[d].gst)
      BY <1>9 DEF NextInvoiceNumber, Inv, DeliveriesHold
    <3>3. QED
      <4> HIDE DEF l, num
      <4>1. QED
        BY <2>3, <2>5, <2>7, <2>8, <3>1, <3>2 DEF Inv, DeliveriesHold
  <2>10. \A b \in Booking : invoice[b] # NULL => invoice[b].num \in Number
    BY DEF Inv, TypeOK
  <2>11. InvoicesHold'
    BY <1>9, <2>7, <2>10 DEF NextInvoiceNumber, Inv, InvoicesHold
  <2>12. NumbersNeverClash'
    <3>1. \A e \in Delivery : delivery[e].num \in Number
      BY <1>1 DEF DeliveryLocals
    <3>2. \A e \in Delivery \ {d} : delivery[e].at = "issue" =>
            delivery[e].num # num
      BY <2>7, <3>1 DEF Inv, DeliveriesHold
    <3>3. \A b \in Booking : invoice[b] # NULL => invoice[b].num # num
      BY <2>7, <2>10 DEF Inv, InvoicesHold
    <3>4. UNCHANGED invoice
      BY <1>9 DEF NextInvoiceNumber
    <3>5. QED
      <4> HIDE DEF l, num
      <4>1. QED
        BY <2>3, <2>5, <3>2, <3>3, <3>4 DEF Inv, NumbersNeverClash
  <2>13. QED
    BY <2>6, <2>9, <2>11, <2>12 DEF Inv
<1>10. ASSUME NEW d \in Delivery, IssueInvoice(d) PROVE Inv'
  <2> DEFINE b == delivery[d].b
             i == [num |-> delivery[d].num, gst |-> delivery[d].gst]
  <2>1. CASE UNCHANGED invoice
    BY <1>3, <1>10, <2>1 DEF IssueInvoice
  <2>2. CASE invoice' = [invoice EXCEPT ![b] = i]
    <3>1. /\ b \in Booking /\ delivery[d].gst \in Amounts
          /\ Balanced(delivery[d].gst) /\ Reached(delivery[d].num, sequence)
      BY <1>10 DEF IssueInvoice, Inv, DeliveriesHold
    <3>2. /\ i \in [num : Number, gst : Amounts]
          /\ i.num = delivery[d].num /\ i.gst = delivery[d].gst
      BY <1>1, <3>1 DEF DeliveryLocals
    <3>3. /\ delivery' \in [Delivery -> DeliveryLocals]
          /\ delivery'[d].at = "over"
          /\ \A e \in Delivery \ {d} : delivery'[e] = delivery[e]
      BY <1>1, <1>10, NewTypes
         DEF IssueInvoice, End, Inv, TypeOK, DeliveryLocals
    <3>4. /\ invoice' \in [Booking -> [num : Number, gst : Amounts] \cup {NULL}]
          /\ invoice'[b] = i
          /\ \A c \in Booking \ {b} : invoice'[c] = invoice[c]
      BY <2>2, <3>1, <3>2 DEF Inv, TypeOK
    <3>5. UNCHANGED <<rowVars, paid, hostGstin, year, sequence>>
      BY <1>10 DEF IssueInvoice
    <3>6. TypeOK'
      BY <3>3, <3>4, <3>5 DEF Inv, TypeOK, DeliveryLocals, rowVars
    <3>7. DeliveriesHold'
      BY <3>3, <3>5 DEF Inv, DeliveriesHold, Reached
    <3>8. InvoicesHold'
      BY <3>1, <3>2, <3>4, <3>5 DEF Inv, InvoicesHold, Reached
    <3>9. NumbersNeverClash'
      <4>1. \A e \in Delivery \ {d} :
              delivery[e].at = "issue" => delivery[e].num # delivery[d].num
        BY <1>10 DEF IssueInvoice, Inv, NumbersNeverClash
      <4>2. QED
        BY <3>2, <3>3, <3>4, <4>1 DEF Inv, NumbersNeverClash
    <3>10. QED
      BY <3>6, <3>7, <3>8, <3>9 DEF Inv
  <2>3. QED
    BY <1>10, <2>1, <2>2 DEF IssueInvoice
<1>11. ASSUME NEW d \in Delivery, DeliveryCrash(d) PROVE Inv'
  BY <1>3, <1>11 DEF DeliveryCrash
<1>12. ASSUME UNCHANGED <<rowVars, paid, sequence, invoice, delivery>>,
              hostGstin' \in Gstin, year' \in Year
       PROVE  Inv'
  BY <1>12 DEF Inv, TypeOK, DeliveriesHold, InvoicesHold, NumbersNeverClash,
               Reached, rowVars
<1>13. ASSUME NEW gstin \in Gstin, SetGstin(gstin) PROVE Inv'
  BY <1>12, <1>13 DEF SetGstin, Inv, TypeOK
<1>14. ASSUME NewYear PROVE Inv'
  BY <1>12, <1>14 DEF NewYear, Inv, TypeOK
<1>15. ASSUME UNCHANGED vars PROVE Inv'
  BY <1>12, <1>15 DEF vars, rowVars, Inv, TypeOK
<1>16. QED
  BY <1>4, <1>6, <1>7, <1>8, <1>9, <1>10, <1>11, <1>13, <1>14, <1>15 DEF Next

\* The invariant of the invoices.
THEOREM InvoicesCorrect == Spec => []Inv
<1>1. QED
  BY InvInit, InvStep, PTL DEF Spec

\* A number is drawn once: no insert of an invoice is refused because of it.
THEOREM NumbersAreUnique == Spec => []NumbersNeverClash
<1>1. Inv => NumbersNeverClash
  BY DEF Inv
<1>2. QED
  BY <1>1, InvoicesCorrect, PTL

\* Taxable amount and tax lines make up the total, give or take a paisa.
THEOREM InvoicesAddUp == Spec => []InvoiceAddsUp
<1>1. Inv => InvoiceAddsUp
  BY DEF Inv, InvoicesHold, InvoiceAddsUp, Balanced
<1>2. QED
  BY <1>1, InvoicesCorrect, PTL

\* Rows, deliveries and invoices keep to their types.
THEOREM InvoiceTypes == Spec => []TypeOK
<1>1. Inv => TypeOK
  BY DEF Inv
<1>2. QED
  BY <1>1, InvoicesCorrect, PTL

-----------------------------------------------------------------------------
(* The tax: it never falls from one price to a dearer one.                 *)

\* Of the same tariff slabs, a dearer stay is in the same or a higher one.
LEMMA RateMonotone ==
  ASSUME NEW n \in Nat, NEW low \in Nat, NEW high \in Nat, low < high
  PROVE  /\ gstRateForNightlyTariff(low, n) \in {0, 12, 18}
         /\ gstRateForNightlyTariff(high, n) \in {0, 12, 18}
         /\ gstRateForNightlyTariff(low, n) <= gstRateForNightlyTariff(high, n)
  BY DEF gstRateForNightlyTariff

\* Rounding never exchanges the order of two different amounts, even where a
\* half may go either way.
LEMMA NearMonotone ==
  ASSUME NEW m \in Nat, NEW n \in Nat, m < n,
         NEW j \in Near(m, 100), NEW k \in Near(n, 100)
  PROVE  j <= k
  BY DEF Near

\* No tax on nothing.
LEMMA NearNothing ==
  ASSUME NEW k \in Near(0, 100)
  PROVE  k = 0
  BY DEF Near

\* Neither the slab nor rounding makes the dearer of two stays of equal length
\* pay less tax.
LEMMA TaxMonotone ==
  ASSUME NEW n \in Nat, NEW low \in Nat, NEW high \in Nat, low < high,
         NEW t \in taxAmounts(low, gstRateForNightlyTariff(low, n)),
         NEW u \in taxAmounts(high, gstRateForNightlyTariff(high, n))
  PROVE  t <= u
<1> DEFINE r == gstRateForNightlyTariff(low, n)
           q == gstRateForNightlyTariff(high, n)
<1>1. r \in {0, 12, 18} /\ q \in {0, 12, 18} /\ r <= q
  BY RateMonotone
<1>2. t \in Near(low * r, 100) /\ u \in Near(high * q, 100)
  BY DEF taxAmounts
<1> HIDE DEF r, q
<1>3. CASE q = 0
  <2>1. low * r = 0 /\ high * q = 0
    BY <1>1, <1>3
  <2>2. t = 0 /\ u = 0
    BY <1>2, <2>1, NearNothing
  <2>3. QED
    BY <2>2
<1>4. CASE q \in {12, 18}
  <2>1. low * r \in Nat /\ high * q \in Nat /\ low * r < high * q
    <3>1. CASE r = 0
      BY <1>4, <3>1
    <3>2. CASE r = 12
      BY <1>1, <1>4, <3>2
    <3>3. CASE r = 18
      BY <1>1, <1>4, <3>3
    <3>4. QED
      BY <1>1, <3>1, <3>2, <3>3
  <2>2. QED
    BY <1>2, <2>1, NearMonotone
<1>5. QED
  BY <1>1, <1>3, <1>4

\* The amounts g are those of a stay of n nights at the price p.
Taxed(g, p, n) ==
  /\ g.total \in Nat
  /\ g.total - p \in IF g.gstin = "none" THEN {0}
                     ELSE taxAmounts(p, gstRateForNightlyTariff(p, n))

\* The record of an invoice carries the tax of its price, or none.
LEMMA GstTaxed ==
  ASSUME NEW p \in Nat, NEW n \in Nat, NEW gstin \in Gstin,
         NEW g \in calculateGst(p, n, gstin)
  PROVE  Taxed(g, p, n)
<1>1. g.total \in Nat
  BY GstBalanced DEF Amounts
<1>2. PICK tax \in IF gstin = "none" THEN {0}
                   ELSE taxAmounts(p, gstRateForNightlyTariff(p, n)) :
        g \in {[gstin |-> gstin, taxable |-> p,
                cgst |-> IF gstin = "intra" THEN half ELSE 0,
                sgst |-> IF gstin = "intra" THEN half ELSE 0,
                igst |-> IF gstin = "inter" THEN tax ELSE 0,
                total |-> p + tax] : half \in Near(tax, 2)}
  BY DEF calculateGst
<1>3. g.gstin = gstin /\ g.total = p + tax
  BY <1>2
<1>4. tax \in Int
  <2>1. gstin # "none" => tax \in Near(p * gstRateForNightlyTariff(p, n), 100)
    BY <1>2 DEF taxAmounts
  <2>2. gstRateForNightlyTariff(p, n) \in {0, 12, 18}
    BY DEF gstRateForNightlyTariff
  <2>3. p * gstRateForNightlyTariff(p, n) \in Nat
    BY <2>2
  <2>4. QED
    BY <1>2, <2>1, <2>3, NearTypes
<1>5. g.total - p = tax
  BY <1>3, <1>4
<1>6. QED
  BY <1>1, <1>2, <1>3, <1>5 DEF Taxed

\* Every delivery that has computed amounts, and every invoice, holds those of
\* its own booking.
TaxesHold ==
  /\ \A d \in Delivery :
       delivery[d].at \in {"number", "issue"} =>
         Taxed(delivery[d].gst, price[delivery[d].b], nights[delivery[d].b])
  /\ \A b \in Booking :
       invoice[b] # NULL => Taxed(invoice[b].gst, price[b], nights[b])

\* No delivery and no invoice carries a tax yet.
LEMMA TaxesInit == Init => TaxesHold
  BY NewTypes DEF Init, TaxesHold

\* A delivery takes its tax from the booking and keeps it, and so does the
\* invoice it issues.
LEMMA TaxesStep == Inv /\ TaxesHold /\ [Next]_vars => TaxesHold'
<1> SUFFICES ASSUME Inv, TaxesHold, [Next]_vars PROVE TaxesHold'
  OBVIOUS
<1>1. UNCHANGED <<price, nights>>
  BY DEF vars, rowVars, Next, Deliver, Commit, InvoiceLookup, InvoiceRead,
         NextInvoiceNumber, IssueInvoice, DeliveryCrash, SetGstin, NewYear
<1>2. \A d \in Delivery : delivery[d] \in DeliveryLocals
  BY DEF Inv, TypeOK, DeliveryLocals
\* The deliveries that hold amounts afterwards held the same before.
<1>3. ASSUME UNCHANGED invoice,
             \A d \in Delivery :
               delivery'[d].at \in {"number", "issue"} =>
                 /\ delivery[d].at \in {"number", "issue"}
                 /\ delivery'[d].gst = delivery[d].gst
                 /\ delivery'[d].b = delivery[d].b
      PROVE  TaxesHold'
  BY <1>1, <1>3 DEF TaxesHold
<1>4. ASSUME NEW d \in Delivery, NEW l \in DeliveryLocals,
             delivery' = [delivery EXCEPT ![d] = l]
      PROVE  delivery'[d] = l /\ \A e \in Delivery \ {d} : delivery'[e] = delivery[e]
  BY <1>4 DEF Inv, TypeOK
<1>5. ASSUME NEW d \in Delivery, NEW l \in DeliveryLocals,
             delivery' = [delivery EXCEPT ![d] = l], UNCHANGED invoice,
             l.at \in {"number", "issue"} =>
               /\ delivery[d].at \in {"number", "issue"}
               /\ l.gst = delivery[d].gst /\ l.b = delivery[d].b
      PROVE  TaxesHold'
  BY <1>3, <1>4, <1>5
<1>6. ASSUME NEW d \in Delivery, NEW b \in Booking, Deliver(d, b) PROVE TaxesHold'
  <2> DEFINE l == [delivery[d] EXCEPT !.at = "commit", !.b = b]
  <2>1. l \in DeliveryLocals /\ l.at = "commit"
    BY <1>2 DEF DeliveryLocals
  <2>2. QED
    BY <1>5, <1>6, <2>1 DEF Deliver
<1>7. ASSUME NEW d \in Delivery, NEW to \in {"lookup", "read"}, Advance(d, to),
             UNCHANGED invoice
      PROVE  TaxesHold'
  <2> DEFINE l == [delivery[d] EXCEPT !.at = to]
  <2>1. l \in DeliveryLocals /\ l.at = to
    BY <1>2 DEF DeliveryLocals
  <2>2. QED
    BY <1>5, <1>7, <2>1 DEF Advance
<1>8. ASSUME NEW d \in Delivery, End(d), UNCHANGED invoice PROVE TaxesHold'
  BY <1>5, <1>8, NewTypes DEF End
<1>9. ASSUME NEW d \in Delivery, Commit(d) \/ InvoiceLookup(d) \/ DeliveryCrash(d)
      PROVE  TaxesHold'
  BY <1>7, <1>8, <1>9 DEF Commit, InvoiceLookup, DeliveryCrash
<1>10. ASSUME NEW d \in Delivery, InvoiceRead(d) PROVE TaxesHold'
  <2>1. delivery[d].b \in Booking
    BY <1>10 DEF InvoiceRead, Inv, DeliveriesHold
  <2>2. PICK g \in calculateGst(price[delivery[d].b], nights[delivery[d].b],
                                hostGstin) :
          delivery' = [delivery EXCEPT ![d].at = "number", ![d].gst = g]
    BY <1>10 DEF InvoiceRead
  <2>3. /\ price[delivery[d].b] \in Nat /\ nights[delivery[d].b] \in Nat
        /\ hostGstin \in Gstin
    BY <2>1, PriceAssumption DEF Inv, TypeOK
  <2>4. Taxed(g, price[delivery[d].b], nights[delivery[d].b]) /\ g \in Amounts
    BY <2>2, <2>3, GstTaxed, GstBalanced
  <2> DEFINE l == [delivery[d] EXCEPT !.at = "number", !.gst = g]
  <2>5. l \in DeliveryLocals /\ l.gst = g /\ l.b = delivery[d].b
    BY <1>2, <2>4 DEF DeliveryLocals
  <2>6. delivery' = [delivery EXCEPT ![d] = l] /\ UNCHANGED invoice
    BY <1>10, <2>2 DEF InvoiceRead
  <2> HIDE DEF l
  <2>7. QED
    BY <1>1, <1>4, <2>4, <2>5, <2>6 DEF TaxesHold
<1>11. ASSUME NEW d \in Delivery, NextInvoiceNumber(d) PROVE TaxesHold'
  <2> DEFINE num == <<year, sequence[year] + 1>>
             l == [delivery[d] EXCEPT !.at = "issue", !.num = num]
  <2>1. num \in Number
    BY YearAssumption DEF Inv, TypeOK, Number
  <2>2. delivery' = [delivery EXCEPT ![d] = l] /\ UNCHANGED invoice
    BY <1>11 DEF NextInvoiceNumber
  <2> HIDE DEF num
  <2>3. l \in DeliveryLocals /\ l.gst = delivery[d].gst /\ l.b = delivery[d].b
    BY <1>2, <2>1 DEF DeliveryLocals
  <2> HIDE DEF l
  <2>4. delivery[d].at = "number"
    BY <1>11 DEF NextInvoiceNumber
  <2>5. QED
    BY <1>5, <2>2, <2>3, <2>4
<1>12. ASSUME NEW d \in Delivery, IssueInvoice(d) PROVE TaxesHold'
  <2> DEFINE b == delivery[d].b
             i == [num |-> delivery[d].num, gst |-> delivery[d].gst]
  <2>1. CASE UNCHANGED invoice
    BY <1>8, <1>12, <2>1 DEF IssueInvoice
  <2>2. CASE invoice' = [invoice EXCEPT ![b] = i]
    <3>1. b \in Booking /\ Taxed(i.gst, price[b], nights[b])
      BY <1>12 DEF IssueInvoice, Inv, DeliveriesHold, TaxesHold
    <3>2. invoice'[b] = i /\ \A c \in Booking \ {b} : invoice'[c] = invoice[c]
      BY <2>2, <3>1 DEF Inv, TypeOK
    <3>3. /\ delivery'[d].at = "over"
          /\ \A e \in Delivery \ {d} : delivery'[e] = delivery[e]
      BY <1>12, NewTypes DEF IssueInvoice, End, Inv, TypeOK, DeliveryLocals
    <3> HIDE DEF b, i
    <3>4. QED
      BY <1>1, <3>1, <3>2, <3>3 DEF TaxesHold
  <2>3. QED
    BY <1>12, <2>1, <2>2 DEF IssueInvoice
<1>13. ASSUME UNCHANGED <<invoice, delivery>> PROVE TaxesHold'
  BY <1>3, <1>13
<1>14. QED
  BY <1>6, <1>9, <1>10, <1>11, <1>12, <1>13 DEF Next, SetGstin, NewYear, vars

\* Of two stays of the same length invoiced under the same registration, the
\* dearer one is not taxed less, whatever the slabs and the rounding do.
THEOREM DearerPaysMoreTax == Spec => []DearerIsTaxedMore
<1>1. Inv /\ TaxesHold => DearerIsTaxedMore
  <2>1. SUFFICES ASSUME Inv, TaxesHold, NEW a \in Booking, NEW b \in Booking,
                        invoice[a] # NULL, invoice[b] # NULL,
                        invoice[a].gst.gstin = invoice[b].gst.gstin,
                        nights[a] = nights[b], price[a] < price[b]
                 PROVE  invoice[a].gst.total - price[a]
                          <= invoice[b].gst.total - price[b]
    BY DEF DearerIsTaxedMore
  <2>2. /\ price[a] \in Nat /\ price[b] \in Nat /\ nights[a] \in Nat
        /\ Taxed(invoice[a].gst, price[a], nights[a])
        /\ Taxed(invoice[b].gst, price[b], nights[a])
    BY <2>1, PriceAssumption DEF Inv, TypeOK, TaxesHold
  <2>3. CASE invoice[a].gst.gstin = "none"
    BY <2>1, <2>2, <2>3 DEF Taxed
  <2>4. CASE invoice[a].gst.gstin # "none"
    BY <2>1, <2>2, <2>4, TaxMonotone DEF Taxed
  <2>5. QED
    BY <2>3, <2>4
<1>2. QED
  BY <1>1, TaxesInit, TaxesStep, InvoicesCorrect, PTL DEF Spec
=============================================================================
