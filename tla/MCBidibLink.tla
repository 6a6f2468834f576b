----------------------------- MODULE MCBidibLink -----------------------------
(* Instances of BidibLink for TLC. *)
EXTENDS BidibLink

CONSTANTS b1, b2

MCBytes == {b1, b2}

\* Messages of one, two and three bytes.
MCMessages == {<<b1>>, <<b2, b1>>, <<b1, b2, b2>>}

\* For the runs where only the amount of data matters.
MCPlainMessages == {<<b1>>, <<b1, b1>>}

MCAllAssumed == Assumptions
MCNoneAssumed == {}
=============================================================================
