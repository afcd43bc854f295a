----------------------------- MODULE MCInvoices -----------------------------
(* Instances of the invoices for TLC. *)
EXTENDS Invoices, TLC

MCYear == 2025..2026

\* Prices on both sides of a slab, with tax that rounds: in paise.
MCPrice == {100001, 750000, 750004}

Symmetry == Permutations(Delivery)
=============================================================================
