---------------------------- MODULE MCHttpServer ----------------------------
(* Instances of HttpServer for TLC. *)
EXTENDS HttpServer, TLC

CONSTANTS c1, c2

\* A label of two characters, the second an "&" that is escaped; a function
\* above maxFnNum is not listed; the second entry has no label at all.
MCRoster ==
  <<[maxFnNum |-> 3, label |-> [fn \in 0..ROSTER_FUNC_MAX |-> IF fn \in {0, 5} THEN 2 ELSE 0]],
    [maxFnNum |-> 6, label |-> [fn \in 0..ROSTER_FUNC_MAX |-> 0]]>>

\* The longer pieces: the answer line and the schema of the header, the second
\* write of an opening tag, the closing of the address, a label's tag, its "&",
\* and the answer 404.
Longer(piece) ==
  \/ piece \in {Header(1), Header(4), Piece(1, 3, 2), Piece(1, 3, 4), NotFound}
  \/ piece[1] \in 1..Len(Roster) /\ <<piece[2], piece[3]>> \in {<<0, 2>>, <<2, 3>>}

MCSize(piece) == IF Longer(piece) THEN 2 ELSE 1

MCAllAssumed == Assumptions
=============================================================================
