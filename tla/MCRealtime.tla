----------------------------- MODULE MCRealtime -----------------------------
(* Instances of the live feed for TLC. *)
EXTENDS Realtime, TLC
=============================================================================
