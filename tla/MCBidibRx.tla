----------------------------- MODULE MCBidibRx -----------------------------
(* Instances of BidibRx for TLC. *)
EXTENDS BidibRx

\* A packet of one message and one of two, the second of them repeated.
MCPackets == {<<<<3, 0, 6, 5>>>>, <<<<3, 0, 1, 1>>, <<3, 0, 3, 2>>>>}

MCChecksum == [p \in MCPackets |-> IF Len(p) = 1 THEN 2 ELSE 3]

\* The poll of another node and its answer.
MCAnswers == {<<Word(1, 7), Word(0, 2)>>}

MCBusBytes == 0..8
MCNoiseBytes == {0}

MCAllAssumed == Assumptions
=============================================================================
