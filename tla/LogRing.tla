------------------------------ MODULE LogRing ------------------------------
(***************************************************************************)
(* The log (log.c): whoever logs pushes text into a ring and never waits;   *)
(* the main loop calls log_poll, which gives the oldest bytes to the UART   *)
(* as long as its FIFO takes them and the budget of one call lasts.         *)
(*                                                                          *)
(* A push runs with interrupts disabled and is one action.  Nothing else    *)
(* keeps it out of log_poll: it may come between the test that the ring     *)
(* holds something, the removal of a byte (a section of its own) and the    *)
(* write to the UART, and when the ring is full it moves the tail log_poll  *)
(* is working on.  The UART shifts bytes out on its own.                    *)
(***************************************************************************)
EXTENDS Naturals, Sequences

CONSTANTS
  LogRingSize,   (* LOG_RING_SIZE, 2048                               *)
  Budget,        (* bytes one call of log_poll sends at most, 512     *)
  UartDepth,     (* bytes the transmit FIFO of the UART holds, 32     *)
  Chars,         (* bytes a text is made of                           *)
  Blank,         (* content of the ring before anything was written   *)
  Texts          (* texts that are pushed, at most 255 bytes          *)

Slots == 0..LogRingSize-1

ASSUME LogSizesAssumption ==
  /\ LogRingSize \in Nat \ {0, 1}
  /\ Budget \in Nat \ {0}
  /\ UartDepth \in Nat \ {0}

\* log_printf cuts at 255 bytes, far below the size of the ring.
ASSUME TextsAssumption ==
  \A text \in Texts : text \in Seq(Chars) /\ Len(text) \in 1..LogRingSize-1

VARIABLES
  ring,      (* log_ring                                           *)
  head,      (* log_head                                           *)
  tail,      (* log_tail                                           *)
  pc,        (* log_poll: not called ("out"), at its loop's test,  *)
             (* before the section, before the write               *)
  sent,      (* sent_total                                         *)
  b,         (* b, the byte taken from the ring, a sequence of one *)
  fifo       (* bytes in the UART's FIFO                           *)

ringVars == <<ring, head, tail>>
vars == <<ringVars, pc, sent, b, fifo>>

Wrap(x) == x % LogRingSize

log_ring_used == Wrap(head + LogRingSize - tail)

Init ==
  /\ ring = [i \in Slots |-> Blank]
  /\ head = 0 /\ tail = 0
  /\ pc = "out" /\ sent = 0 /\ b = <<>>
  /\ fifo = 0

-----------------------------------------------------------------------------
(* Fault: a full ring looks empty, the tail stays where it is. *)
TailOverrun(n) == tail

\* Where the tail stands after n more bytes: the oldest ones give way.
TailAfter(n) ==
  IF log_ring_used + n < LogRingSize THEN tail ELSE Wrap(head + n + 1)

log_push(text) ==
  LET place(i) == Wrap(i + LogRingSize - head)   \* of slot i in the text, from 0
  IN  /\ ring' = [i \in Slots |-> IF place(i) < Len(text) THEN text[place(i) + 1] ELSE ring[i]]
      /\ head' = Wrap(head + Len(text))
      /\ tail' = TailAfter(Len(text))
      /\ UNCHANGED <<pc, sent, b, fifo>>

-----------------------------------------------------------------------------
(* log_poll *)

PollStarts ==
  /\ pc = "out"
  /\ head # tail
  /\ sent' = 0
  /\ pc' = "test"
  /\ UNCHANGED <<ringVars, b, fifo>>

(* Fault: the indices are compared as if they never wrapped. *)
MayTakeAbove == head > tail /\ fifo < UartDepth

MayTake == head # tail /\ fifo < UartDepth

PollTests ==
  /\ pc = "test"
  /\ pc' = IF MayTake THEN "take" ELSE "out"
  /\ UNCHANGED <<ringVars, sent, b, fifo>>

PollTakes ==
  /\ pc = "take"
  /\ b' = <<ring[tail]>>
  /\ tail' = Wrap(tail + 1)
  /\ pc' = "write"
  /\ UNCHANGED <<ring, head, sent, fifo>>

(* Fault: the budget is compared and never used up. *)
PollWritesUncounted ==
  /\ pc = "write"
  /\ fifo' = fifo + 1
  /\ pc' = IF sent >= Budget THEN "out" ELSE "test"
  /\ UNCHANGED <<ringVars, sent, b>>

PollWrites ==
  /\ pc = "write"
  /\ fifo' = fifo + 1
  /\ sent' = sent + 1
  /\ pc' = IF sent + 1 >= Budget THEN "out" ELSE "test"
  /\ UNCHANGED <<ringVars, b>>

log_poll == PollStarts \/ PollTests \/ PollTakes \/ PollWrites

UartShifts ==
  /\ fifo > 0
  /\ fifo' = fifo - 1
  /\ UNCHANGED <<ringVars, pc, sent, b>>

Next ==
  \/ \E text \in Texts : log_push(text)
  \/ log_poll
  \/ UartShifts

Spec == Init /\ [][Next]_vars

\* The loop never stops and the UART is clocked; nobody has to log.
FairSpec == Spec /\ WF_vars(log_poll) /\ WF_vars(UartShifts)

-----------------------------------------------------------------------------
TypeOK ==
  /\ ring \in [Slots -> Chars \cup {Blank}]
  /\ head \in Slots
  /\ tail \in Slots
  /\ pc \in {"out", "test", "take", "write"}
  /\ sent \in 0..Budget
  /\ b \in {<<>>} \cup {<<c>> : c \in Chars \cup {Blank}}
  /\ fifo \in 0..UartDepth

(***************************************************************************)
(* What log_poll takes is what was pushed, in its order and once; bytes     *)
(* are missing only where the ring was full, and then the oldest           *)
(* (log.c:40-46, 85-88).                                                    *)
(***************************************************************************)
LogBytes == [i \in 1..log_ring_used |-> ring[Wrap(tail + i - 1)]]

LastBytes == INSTANCE LossyQueue WITH
  Capacity <- LogRingSize - 1, Overflow <- "forget", Batches <- Texts,
  queue <- LogBytes, last <- IF b = <<>> THEN <<>> ELSE b[1]

ImplementsLastBytes == LastBytes!Spec

(***************************************************************************)
(* Every call of log_poll ends, even when bytes are pushed as fast as the   *)
(* UART takes them: that is what the budget is for (log.c:91).              *)
(***************************************************************************)
CallsEnd == []<>(pc = "out")

(***************************************************************************)
(* As long as the ring holds something, bytes go on leaving it.             *)
(***************************************************************************)
LogFlows == []<>(head = tail \/ pc = "write")
=============================================================================
