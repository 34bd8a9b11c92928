---------------------------- MODULE MCControlPlane -----------------------------
(* A small instance of ControlPlane for TLC: one address, two connections. *)
EXTENDS ControlPlane

CONSTANTS e1, c1, c2
=============================================================================
