----------------------------- MODULE MCReadStream ------------------------------
(* Small instances of ReadStream for TLC. *)
EXTENDS ReadStream

CONSTANTS e1, e2
=============================================================================
