----------------------------- MODULE MCLogRing -----------------------------
(* Instances of LogRing for TLC. *)
EXTENDS LogRing

CONSTANTS c1, c2

MCChars == {c1, c2}

\* Texts of one, two and three bytes; the last one fills the ring alone.
MCTexts == {<<c1>>, <<c2, c1>>, <<c1, c2, c2>>}
=============================================================================
