------------------------------ MODULE Rounding ------------------------------
(***************************************************************************)
(* Math.round(x * 100) / 100 on amounts of money, as several services      *)
(* write it.  Amounts are in paise here, so it rounds to an integer.  The  *)
(* code computes in floating point: a value halfway between two paise may  *)
(* come out as either of them, every other value goes to the nearest.      *)
(***************************************************************************)
EXTENDS Integers

\* The results rounding n/d may have.
Near(n, d) ==
  {k \in {n \div d, n \div d + 1} : 2 * (k * d - n) <= d /\ 2 * (n - k * d) <= d}
=============================================================================
