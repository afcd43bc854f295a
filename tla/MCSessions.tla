----------------------------- MODULE MCSessions -----------------------------
(* Instances of the sessions for TLC. *)
EXTENDS Sessions, TLC
=============================================================================
