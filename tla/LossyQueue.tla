----------------------------- MODULE LossyQueue -----------------------------
(***************************************************************************)
(* What the firmware's two byte rings promise: a bounded queue that gives   *)
(* out what was put in, in its order and once, and that loses something     *)
(* only when it is full.  The ring of received words refuses what does not  *)
(* fit; the ring of log bytes forgets its oldest bytes instead.  BidibRx    *)
(* and LogRing implement this specification.                                *)
(***************************************************************************)
EXTENDS Naturals, Sequences

CONSTANTS
  Capacity,   (* items the queue holds: the ring's size less one         *)
  Overflow,   (* "refuse" the new items or "forget" the oldest ones      *)
  Batches     (* what is put in one critical section: sequences of items *)

VARIABLES
  queue,      (* what was put in and neither taken nor lost *)
  last        (* the item taken last                        *)

vars == <<queue, last>>

Newest(s) == IF Len(s) <= Capacity THEN s
             ELSE SubSeq(s, Len(s) - Capacity + 1, Len(s))

Init ==
  /\ queue = <<>>
  /\ last = <<>>

Put(batch) ==
  /\ \/ Len(queue) + Len(batch) <= Capacity
     \/ Overflow = "forget"
  /\ queue' = Newest(queue \o batch)
  /\ UNCHANGED last

Take ==
  /\ queue # <<>>
  /\ last' = Head(queue)
  /\ queue' = Tail(queue)

\* Everything is forgotten, the item taken last included.
Clear ==
  /\ queue' = <<>>
  /\ last' = <<>>

Next ==
  \/ \E batch \in Batches : Put(batch)
  \/ Take
  \/ Clear

Spec == Init /\ [][Next]_vars
=============================================================================
