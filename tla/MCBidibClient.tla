---------------------------- MODULE MCBidibClient ----------------------------
(* Instances of BidibClient for TLC. *)
EXTENDS BidibClient

\* One feature that is fixed, and one between 0 and 1.
MCMin == <<2, 0>>
MCMax == <<2, 1>>
MCDefault == <<2, 0>>

MCAllAssumed == Assumptions
MCSingleAck == {"single_ack"}

MCNumberRequests == {"query", "get", "getall", "reset"}
MCSessionRequests == {"getall", "getnext", "set", "enable", "disable", "drive"}
=============================================================================
