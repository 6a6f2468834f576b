----------------------------- MODULE MCNetwork -----------------------------
(* Instances of Network for TLC. *)
EXTENDS Network

CONSTANTS p1, p2, p3
=============================================================================
