---------------------------- MODULE MCFlashStore ----------------------------
(* Instances of FlashStore for TLC: bytes of three bits. *)
EXTENDS FlashStore, Bitwise

\* Empty, short, longer than can be kept, and with a 0 inside.
MCPayloads == {<<>>, <<6>>, <<5, 6>>, <<6, 6, 5, 5>>, <<5, 0, 6>>}

MCDefault == <<5, 5>>

MCOver == [x \in Bytes \X Bytes |-> x[1] & x[2]]

\* A blank sector, a kept string with data of others behind it, a record
\* whose length cannot be, and an empty one.
MCContents ==
  {[i \in Cells |-> Blank],
   [i \in Cells |-> IF i = 0 THEN 2 ELSE IF i % 2 = 0 THEN 5 ELSE 6],
   [i \in Cells |-> IF i = 0 THEN StringMax + 1 ELSE 5],
   [i \in Cells |-> IF i = 0 THEN 0 ELSE 6]}

\* The length gone and the string left, a string nobody set, one cut by a 0,
\* and none at all.
MCHalfDone ==
  {[i \in Cells |-> IF i % PageSize = 0 THEN Blank ELSE 6],
   [i \in Cells |-> IF i % PageSize = 0 THEN 3 ELSE 4],
   [i \in Cells |-> IF i % 2 = 0 THEN 2 ELSE 0],
   [i \in Cells |-> IF i % PageSize = 1 THEN 1 ELSE Blank]}

MCAllAssumed == Assumptions
=============================================================================
