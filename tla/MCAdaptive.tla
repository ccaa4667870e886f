----------------------------- MODULE MCAdaptive -----------------------------
(* Small instances of the adaptive delay for TLC. *)
EXTENDS AdaptiveVdf
=============================================================================
