------------------------------- MODULE TxQueue -------------------------------
(***************************************************************************)
(* What the transmit side of the BiDiBus node promises, without ring        *)
(* buffer, interrupts or half-finished state changes: messages handed to    *)
(* the node wait in one bounded queue; when the master polls, the whole     *)
(* queue becomes one packet; the packet goes out as its length, then        *)
(* exactly the queued bytes in their order, then the CRC, and nothing else  *)
(* comes in between.  BidibLink implements this specification.              *)
(***************************************************************************)
EXTENDS Naturals, Sequences

CONSTANTS
  Capacity,   (* bytes the queue holds: BIDIB_TX_BUF_SIZE     *)
  Messages    (* the messages senders hand over: byte strings *)

VARIABLES
  queue,      (* bytes accepted and not yet part of a packet  *)
  packet,     (* bytes of the open packet not yet sent        *)
  wire        (* the last word put on the bus                 *)

vars == <<queue, packet, wire>>

Idle == <<"idle">>
Nak == <<"nak">>
Crc == <<"crc">>
LogonWord == <<"logon">>
LengthWord(n) == <<"len", n>>
DataWord(b) == <<"byte", b>>

\* No packet is open: the bus is idle or the last frame was complete.
Closed == wire \in {Idle, Nak, Crc, LogonWord}

Init ==
  /\ queue = <<>>
  /\ packet = <<>>
  /\ wire = Idle

Enqueue(m) ==
  /\ Len(queue) + Len(m) <= Capacity
  /\ queue' = queue \o m
  /\ UNCHANGED <<packet, wire>>

\* The link is lost: what was waiting is forgotten, what is being sent is not.
Clear ==
  /\ queue' = <<>>
  /\ UNCHANGED <<packet, wire>>

Answer ==
  /\ Closed
  /\ queue # <<>>
  /\ packet' = queue
  /\ queue' = <<>>
  /\ wire' = LengthWord(Len(queue))

SendByte ==
  /\ packet # <<>>
  /\ wire' = DataWord(Head(packet))
  /\ packet' = Tail(packet)
  /\ UNCHANGED queue

SendCrc ==
  /\ ~Closed
  /\ packet = <<>>
  /\ wire' = Crc
  /\ UNCHANGED <<queue, packet>>

SendNak ==
  /\ Closed
  /\ wire' = Nak
  /\ UNCHANGED <<queue, packet>>

SendLogonWord ==
  /\ Closed
  /\ wire' = LogonWord
  /\ UNCHANGED <<queue, packet>>

Next ==
  \/ \E m \in Messages : Enqueue(m)
  \/ Clear
  \/ Answer
  \/ SendByte
  \/ SendCrc
  \/ SendNak
  \/ SendLogonWord

Spec == Init /\ [][Next]_vars
=============================================================================
