----------------------------- MODULE MCScanner ------------------------------
(* Small instances of the log scan for TLC. *)
EXTENDS LogScanner
=============================================================================
