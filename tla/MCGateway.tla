------------------------------- MODULE MCGateway -------------------------------
(* Instances of Gateway for TLC. *)
EXTENDS Gateway

MCOneSlot == {0}
MCRoster == [l \in Locos |-> [f \in Functions |-> "lockable"]]
MCBounds == <<2>>

MCAllAssumed == Assumptions
MCRequests == {"enable", "drive"}
=============================================================================
