---------------------------- MODULE MCWiThrottle ----------------------------
(* Instances of WiThrottle for TLC. *)
EXTENDS WiThrottle, TLC

CONSTANTS c1, c2, l1

MCConnSymmetry == Permutations(Conns)

MCOneSlot == {0}
MCTwoSlots == {0, 1}

\* The roster lists a lockable and a momentary function.
MCKinds == [f \in Functions |-> CASE f = 0 -> "lockable" [] f = 5 -> "momentary" [] OTHER -> "unlisted"]
MCRoster == [l \in Locos |-> MCKinds]

MCSteps == {-1, 5}

MCAllAssumed == Assumptions
MCFallsSilent == Assumptions \ {"beating"}
=============================================================================
