-------------------------------- MODULE Gst ---------------------------------
(***************************************************************************)
(* apps/api/src/invoices/gst.ts: the tax on an invoice, in paise.          *)
(***************************************************************************)
EXTENDS Rounding

\* A mutant: the upper slabs exchanged.
gstRateInverted(total, nights) ==
  IF total <= 100000 * nights THEN 0
  ELSE IF total <= 750000 * nights THEN 18 ELSE 12

\* The slab of the tariff for one night: up to 1000 rupees, up to 7500, above.
gstRateForNightlyTariff(total, nights) ==
  IF total <= 100000 * nights THEN 0
  ELSE IF total <= 750000 * nights THEN 12 ELSE 18

\* The tax on `total', at a rate in percent.
taxAmounts(total, rate) == Near(total * rate, 100)

\* Where the host is registered: not at all, in the state of the property, or
\* in another one.
Gstin == {"none", "intra", "inter"}

\* A mutant: the whole tax on the IGST line, also within a state.
calculateGstWithIgst(total, nights, gstin) ==
  LET rate == gstRateForNightlyTariff(total, nights) IN
  UNION {{[gstin |-> gstin, taxable |-> total, igst |-> tax,
           cgst |-> IF gstin = "intra" THEN half ELSE 0,
           sgst |-> IF gstin = "intra" THEN half ELSE 0,
           total |-> total + tax] :
             half \in Near(tax, 2)} :
               tax \in IF gstin = "none" THEN {0} ELSE taxAmounts(total, rate)}

\* calculateGst: within a state the tax is split into two equal halves, each
\* of them rounded.
calculateGst(total, nights, gstin) ==
  LET rate == gstRateForNightlyTariff(total, nights) IN
  UNION {{[gstin |-> gstin, taxable |-> total,
           cgst |-> IF gstin = "intra" THEN half ELSE 0,
           sgst |-> IF gstin = "intra" THEN half ELSE 0,
           igst |-> IF gstin = "inter" THEN tax ELSE 0,
           total |-> total + tax] :
             half \in Near(tax, 2)} :
               tax \in IF gstin = "none" THEN {0} ELSE taxAmounts(total, rate)}
=============================================================================
