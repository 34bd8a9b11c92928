-------------------------------- MODULE MCLookups ------------------------------
(* A small instance of Lookups for TLC.                                    *)
EXTENDS Lookups

CONSTANTS a, b
=============================================================================
