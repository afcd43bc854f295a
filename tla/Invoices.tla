------------------------------ MODULE Invoices ------------------------------
(***************************************************************************)
(* apps/api/src/invoices/invoices.service.ts, with what starts it: each    *)
(* delivery of a payment's success runs processSuccessfulPayment, whose    *)
(* transaction may commit although that of another delivery has (its test  *)
(* and its update are two statements); each commit starts                  *)
(* generateForBooking and does not wait for it.                            *)
(***************************************************************************)
EXTENDS Gst, FiniteSets

CONSTANTS
  Booking,      \* bookings, of one host
  Price,        \* totalPrice in paise
  Nights,       \* lengths of stays
  Delivery,     \* deliveries of success webhooks and verifications
  Year,         \* calendar years, consecutive
  NULL          \* no booking, no invoice

ASSUME PriceAssumption == Price \subseteq Nat /\ Nights \subseteq Nat \ {0}
ASSUME YearAssumption == Year \subseteq Nat

VARIABLES
  price, nights,   \* bookings: totalPrice, and the nights of the stay
  paid,            \* bookings whose payment is SUCCESS; the others: INITIATED
  hostGstin,       \* hosts: gstin
  year,            \* new Date().getFullYear()
  sequence,        \* invoice_sequences: value of each year, 0 without a row
  invoice,         \* invoices: number and amounts, NULL without a row
  delivery         \* the step each delivery is at, and its locals

rowVars == <<price, nights>>
vars == <<price, nights, paid, hostGstin, year, sequence, invoice, delivery>>

\* An invoice number INV-<year>-<value>; `None' is not one.
None == <<0, 0>>

New == [at |-> "new", b |-> NULL, gst |-> NULL, num |-> None]

\* Delivery d goes on to another step; or it is over.
Advance(d, to) == delivery' = [delivery EXCEPT ![d].at = to]
End(d) == delivery' = [delivery EXCEPT ![d] = [New EXCEPT !.at = "over"]]

\* A delivery's transaction finds the payment INITIATED.
Deliver(d, b) ==
  /\ delivery[d].at = "new"
  /\ b \notin paid
  /\ delivery' = [delivery EXCEPT ![d].at = "commit", ![d].b = b]
  /\ UNCHANGED <<rowVars, paid, hostGstin, year, sequence, invoice>>

\* It commits, whatever the row has become, and the invoice is started.
Commit(d) ==
  /\ delivery[d].at = "commit"
  /\ paid' = paid \cup {delivery[d].b}
  /\ Advance(d, "lookup")
  /\ UNCHANGED <<rowVars, hostGstin, year, sequence, invoice>>

\* generateForBooking: an invoice that is there is returned.
InvoiceLookup(d) ==
  /\ delivery[d].at = "lookup"
  /\ IF invoice[delivery[d].b] = NULL THEN Advance(d, "read") ELSE End(d)
  /\ UNCHANGED <<rowVars, paid, hostGstin, year, sequence, invoice>>

\* Read booking and host, and compute the tax.
InvoiceRead(d) ==
  /\ delivery[d].at = "read"
  /\ \E gst \in calculateGst(price[delivery[d].b], nights[delivery[d].b],
                             hostGstin) :
       delivery' = [delivery EXCEPT ![d].at = "number", ![d].gst = gst]
  /\ UNCHANGED <<rowVars, paid, hostGstin, year, sequence, invoice>>

\* A mutant: the number of invoices so far plus one, as a count would give it.
NextInvoiceNumberCounted(d) ==
  /\ delivery[d].at = "number"
  /\ LET issued == {b \in Booking : invoice[b] # NULL /\ invoice[b].num[1] = year}
     IN delivery' = [delivery EXCEPT
                       ![d].at = "issue",
                       ![d].num = <<year, Cardinality(issued) + 1>>]
  /\ UNCHANGED <<rowVars, paid, hostGstin, year, sequence, invoice>>

\* nextInvoiceNumber: one upsert increments the year's value and returns it.
NextInvoiceNumber(d) ==
  /\ delivery[d].at = "number"
  /\ sequence' = [sequence EXCEPT ![year] = @ + 1]
  /\ delivery' = [delivery EXCEPT ![d].at = "issue",
                                  ![d].num = <<year, sequence[year] + 1>>]
  /\ UNCHANGED <<rowVars, paid, hostGstin, year, invoice>>

\* Insert the invoice.  Booking and number are unique columns; an insert that
\* they refuse throws, which is logged, and the number is lost.
IssueInvoice(d) ==
  LET b == delivery[d].b   num == delivery[d].num IN
  /\ delivery[d].at = "issue"
  /\ IF invoice[b] = NULL /\ \A c \in Booking :
                               invoice[c] # NULL => invoice[c].num # num
       THEN invoice' = [invoice EXCEPT ![b] = [num |-> num,
                                               gst |-> delivery[d].gst]]
       ELSE UNCHANGED invoice
  /\ End(d)
  /\ UNCHANGED <<rowVars, paid, hostGstin, year, sequence>>

\* The process handling d dies, or the database refuses its transaction.
DeliveryCrash(d) ==
  /\ delivery[d].at \notin {"new", "over"}
  /\ End(d)
  /\ UNCHANGED <<rowVars, paid, hostGstin, year, sequence, invoice>>

\* A mutant: what is entered is kept, also when no state has such a code.
SetGstinUnchecked(gstin) ==
  /\ gstin # hostGstin
  /\ hostGstin' \in {gstin, "unknown"}
  /\ UNCHANGED <<rowVars, paid, year, sequence, invoice, delivery>>

\* BillingService.setGstin: the host registers, moves, or takes it back.
SetGstin(gstin) ==
  /\ gstin # hostGstin
  /\ hostGstin' = gstin
  /\ UNCHANGED <<rowVars, paid, year, sequence, invoice, delivery>>

NewYear ==
  /\ year + 1 \in Year
  /\ year' = year + 1
  /\ UNCHANGED <<rowVars, paid, hostGstin, sequence, invoice, delivery>>

Init ==
  /\ price \in [Booking -> Price]
  /\ nights \in [Booking -> Nights]
  /\ paid = {}
  /\ hostGstin = "none"
  /\ year \in Year
  /\ sequence = [y \in Year |-> 0]
  /\ invoice = [b \in Booking |-> NULL]
  /\ delivery = [d \in Delivery |-> New]

Next ==
  \/ \E d \in Delivery :
       \/ \E b \in Booking : Deliver(d, b)
       \/ Commit(d) \/ InvoiceLookup(d) \/ InvoiceRead(d)
       \/ NextInvoiceNumber(d) \/ IssueInvoice(d) \/ DeliveryCrash(d)
  \/ \E gstin \in Gstin : SetGstin(gstin)
  \/ NewYear

Spec == Init /\ [][Next]_vars

-----------------------------------------------------------------------------

\* What is on an invoice, and in the hands of a delivery.
Amounts == [gstin : Gstin, taxable : Nat, cgst : Nat, sgst : Nat, igst : Nat,
            total : Nat]
Number == Nat \X Nat

TypeOK ==
  /\ price \in [Booking -> Price] /\ nights \in [Booking -> Nights]
  /\ paid \subseteq Booking
  /\ hostGstin \in Gstin
  /\ year \in Year
  /\ sequence \in [Year -> Nat]
  /\ invoice \in [Booking -> [num : Number, gst : Amounts] \cup {NULL}]
  /\ delivery \in
       [Delivery -> [at : {"new", "commit", "lookup", "read", "number",
                           "issue", "over"},
                     b : Booking \cup {NULL}, gst : Amounts \cup {NULL},
                     num : Number]]

\* No two deliveries hold the same invoice number, and none holds one that has
\* been issued: no paid booking stays without an invoice because the unique
\* column refuses its number.
NumbersNeverClash ==
  \A d \in Delivery :
    delivery[d].at = "issue" =>
      /\ \A b \in Booking :
           invoice[b] # NULL => invoice[b].num # delivery[d].num
      /\ \A e \in Delivery \ {d} :
           delivery[e].at = "issue" => delivery[e].num # delivery[d].num

\* Every invoice adds up, up to the paisa that rounding two halves of the tax
\* may gain or lose, although the host registers while it is made.
InvoiceAddsUp ==
  \A b \in Booking :
    invoice[b] # NULL =>
      LET g == invoice[b].gst IN
        g.taxable + g.cgst + g.sgst + g.igst - g.total \in -1..1

\* Of two stays of the same length invoiced under the same registration, the
\* dearer one is not taxed less, also across the slabs.
DearerIsTaxedMore ==
  \A a, b \in Booking :
    /\ invoice[a] # NULL /\ invoice[b] # NULL
    /\ invoice[a].gst.gstin = invoice[b].gst.gstin
    /\ nights[a] = nights[b] /\ price[a] < price[b]
    => invoice[a].gst.total - price[a] <= invoice[b].gst.total - price[b]
=============================================================================
