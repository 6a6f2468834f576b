------------------------------ MODULE BidibLink ------------------------------
(***************************************************************************)
(* The node's end of the BiDiBus (bidib.c, bidib_client_if.c and the link   *)
(* state machine of bidib_client_parser.c): the logon handshake, the answer *)
(* to a poll, the ring of outgoing messages and the RS485 driver.           *)
(*                                                                          *)
(* Three processes share this state.  The receive ISR and the transmit ISR  *)
(* have the same priority, so neither preempts the other and each           *)
(* invocation is one action here; both preempt the main loop, whose         *)
(* straight-line code is split into the steps between which an ISR can      *)
(* matter (pc).  A section under save_and_disable_interrupts is one action. *)
(* The bus master is the environment.                                       *)
(***************************************************************************)
EXTENDS Naturals, Sequences

CONSTANTS
  TxBufSize,     (* BIDIB_TX_BUF_SIZE, 128                                    *)
  Reserve,       (* BIDIB_SIZE_OF_LOGON_MSG + 1, 12: bytes kept for the logon *)
  LogonMsgSize,  (* BIDIB_LOGON_MSG_SIZE, 13: words of the logon frame        *)
  BackoffRange,  (* 0x3F + 1: range of g_bidib_backoff                        *)
  RxPackets,     (* answers of the master the receive ring has room for       *)
  Bytes,         (* bytes a queued message is made of                         *)
  LogonByte,     (* content of the reserved area                              *)
  ZeroByte,      (* content of the ring before anything was written           *)
  Messages,      (* messages the senders build                                *)
  Assumed        (* the timing assumptions a run or a theorem makes           *)

(***************************************************************************)
(* Timing the code relies on and does not enforce.  Each one is a guard on  *)
(* an environment or ISR action, in force only when it is in Assumed:       *)
(*   quiet_boot    no LOGON token between irq_set_enabled in bidib_init and *)
(*                 set_bidib_to_receive in init_bidib_client_if             *)
(*   prompt_ack    the master answers a logon, and the loop has parsed that *)
(*                 answer, before the master's next LOGON token             *)
(*   paced_puts    the senders leave room for the bytes still being sent    *)
(*   no_late_poll  no poll reaches the node between the timeout test and    *)
(*                 the end of the disconnection                             *)
(*   short_flush   a whole logon frame (286 us) does not fit between two    *)
(*                 steps of a disconnection                                 *)
(***************************************************************************)
Assumptions == {"quiet_boot", "prompt_ack", "paced_puts", "no_late_poll", "short_flush"}

Slots == 0..TxBufSize-1
Cells == Bytes \cup {LogonByte, ZeroByte}

ASSUME SizesAssumption ==
  /\ TxBufSize \in Nat \ {0}
  /\ Reserve \in 1..TxBufSize-1
  /\ LogonMsgSize \in Nat \ {0}
  /\ BackoffRange \in Nat \ {0, 1}
  /\ RxPackets \in Nat \ {0}

ASSUME MessagesAssumption ==
  \A m \in Messages : /\ m \in Seq(Bytes)
                      /\ Len(m) \in 1..TxBufSize

ASSUME AssumedAssumption == Assumed \subseteq Assumptions

VARIABLES
  pc,         (* where the main loop stands                             *)
  conn,       (* g_bidib_connect                                        *)
  backoff,    (* g_bidib_backoff                                        *)
  addressed,  (* my_bidib_node_addr # 0xFF                              *)
  overdue,    (* more than 500 ms since last_poll_us                    *)
  rx,         (* answers of the master waiting in the receive ring      *)
  buf,        (* bidib_tx_buf                                           *)
  read,       (* bidib_tx_buf_read                                      *)
  write,      (* bidib_tx_buf_write                                     *)
  ahead,      (* bidib_tx_ahead                                         *)
  de,         (* BIDIB_PIN_DE: TRUE while the node drives the bus       *)
  txIrq,      (* PIO0_IRQ_1 enabled                                     *)
  logonMode,  (* tx_mode_logon                                          *)
  logonRem,   (* tx_remaining                                           *)
  nak,        (* tx_nak_mode                                            *)
  pIndex,     (* tx_parser_index                                        *)
  pRem,       (* tx_parser_remaining                                    *)
  wire,       (* last word given to the transmit PIO                    *)
  heard       (* master: a whole logon was received, not answered yet   *)

ringVars == <<buf, read, write, ahead>>
isrVars == <<de, txIrq, logonMode, logonRem, nak, pIndex, pRem, wire>>
linkVars == <<conn, backoff, addressed, overdue>>
vars == <<pc, linkVars, rx, ringVars, isrVars, heard>>

Idle == <<"idle">>
Nak == <<"nak">>
Crc == <<"crc">>
LogonWord == <<"logon">>
LengthWord(n) == <<"len", n>>
DataWord(b) == <<"byte", b>>
Words == {Idle, Nak, Crc, LogonWord}
           \cup {LengthWord(n) : n \in 1..TxBufSize}
           \cup {DataWord(b) : b \in Cells}

ConnStates == {"DISCONNECTED", "APPLIED", "CONNECTED", "REJECTED"}
Answers == {"ACK", "REJECTED"}
BootSteps == {"boot", "receive"}
FlushSteps == {"unaddress", "flush_rx", "flush_tx", "prepare"}
MainSteps == {"loop", "disconnect"} \cup BootSteps \cup FlushSteps

\* x & (BIDIB_TX_BUF_SIZE - 1); the size is a power of two.
Wrap(x) == x % TxBufSize

\* State after bidib_init has enabled the receive interrupt.
Init ==
  /\ pc = "boot"
  /\ conn = "DISCONNECTED" /\ backoff = 0 /\ addressed = FALSE /\ overdue = FALSE
  /\ rx = <<>>
  /\ buf = [i \in Slots |-> ZeroByte]
  /\ read = 0 /\ write = 0 /\ ahead = 0
  /\ de = FALSE /\ txIrq = FALSE
  /\ logonMode = TRUE /\ logonRem = 0 /\ nak = FALSE
  /\ pIndex = 0 /\ pRem = 0 /\ wire = Idle
  /\ heard = FALSE

-----------------------------------------------------------------------------
(* Receive ISR.  A word that arrives while DE is high is dropped as an echo. *)

LogonTokenArrives ==
  /\ ~de
  /\ "quiet_boot" \in Assumed => pc \notin BootSteps
  /\ "prompt_ack" \in Assumed => ~heard /\ rx = <<>>

\* Fault: the counter is tested but not lowered.
LogonBackoffKept ==
  /\ LogonTokenArrives
  /\ conn = "DISCONNECTED" /\ backoff > 0
  /\ UNCHANGED vars

LogonBackoff ==
  /\ LogonTokenArrives
  /\ conn = "DISCONNECTED" /\ backoff > 0
  /\ backoff' = backoff - 1
  /\ UNCHANGED <<pc, conn, addressed, overdue, rx, ringVars, isrVars, heard>>

\* The collision check found the bus free: bidib_start_tx.  When the bus is
\* taken the ISR changes nothing.
LogonStart ==
  /\ LogonTokenArrives
  /\ conn = "DISCONNECTED" /\ backoff = 0
  /\ conn' = "APPLIED"
  /\ logonMode' = TRUE
  /\ logonRem' = LogonMsgSize - 1
  /\ de' = TRUE
  /\ txIrq' = TRUE
  /\ wire' = LogonWord
  /\ UNCHANGED <<pc, backoff, addressed, overdue, rx, ringVars, nak, pIndex, pRem, heard>>

\* A LOGON token while the answer to the last logon is still missing.
LogonRetry ==
  /\ LogonTokenArrives
  /\ conn = "APPLIED"
  /\ backoff' = (backoff + 1) % BackoffRange
  /\ conn' = "DISCONNECTED"
  /\ UNCHANGED <<pc, addressed, overdue, rx, ringVars, isrVars, heard>>

PollArrives ==
  /\ ~de
  /\ addressed
  /\ "no_late_poll" \in Assumed => pc \notin {"disconnect"} \cup FlushSteps
  /\ de' = TRUE
  /\ overdue' = FALSE
  /\ txIrq' = TRUE

\* Fault: bidib_tx_ahead is not cleared, the next poll sends the bytes again.
PollKeepsAhead ==
  /\ PollArrives
  /\ ahead > 0 /\ ~logonMode
  /\ pIndex' = read
  /\ pRem' = ahead
  /\ read' = Wrap(read + ahead)
  /\ wire' = LengthWord(ahead)
  /\ UNCHANGED <<pc, conn, backoff, addressed, rx, buf, write, ahead, logonMode, logonRem, nak, heard>>

PollWithData ==
  /\ PollArrives
  /\ ahead > 0 /\ ~logonMode
  /\ pIndex' = read
  /\ pRem' = ahead
  /\ read' = Wrap(read + ahead)
  /\ ahead' = 0
  /\ wire' = LengthWord(ahead)
  /\ UNCHANGED <<pc, conn, backoff, addressed, rx, buf, write, logonMode, logonRem, nak, heard>>

\* Fault: NAK although data is waiting.
PollNakAnyway ==
  /\ PollArrives
  /\ nak' = TRUE
  /\ wire' = Nak
  /\ UNCHANGED <<pc, conn, backoff, addressed, rx, ringVars, logonMode, logonRem, pIndex, pRem, heard>>

PollWithoutData ==
  /\ PollArrives
  /\ ahead = 0 \/ logonMode
  /\ nak' = TRUE
  /\ wire' = Nak
  /\ UNCHANGED <<pc, conn, backoff, addressed, rx, ringVars, logonMode, logonRem, pIndex, pRem, heard>>

-----------------------------------------------------------------------------
(* Transmit ISR. *)

SendLogonWord ==
  /\ txIrq /\ logonMode /\ logonRem > 0
  /\ logonRem' = logonRem - 1
  /\ wire' = LogonWord
  /\ UNCHANGED <<pc, linkVars, rx, ringVars, de, txIrq, logonMode, nak, pIndex, pRem, heard>>

\* Fault: the read index is left where flush_tx put it.
LogonEndKeepsRead ==
  /\ txIrq /\ logonMode /\ logonRem = 0
  /\ "short_flush" \in Assumed => pc \notin FlushSteps
  /\ de' = FALSE
  /\ txIrq' = FALSE
  /\ logonMode' = FALSE
  /\ ahead' = 0
  /\ heard' = (heard \/ (de /\ wire = LogonWord))
  /\ UNCHANGED <<pc, linkVars, rx, buf, read, write, logonRem, nak, pIndex, pRem, wire>>

\* The logon frame is out: release the bus, leave logon mode, and take the
\* ring as holding nothing but the reserved area.
LogonEnd ==
  /\ txIrq /\ logonMode /\ logonRem = 0
  /\ "short_flush" \in Assumed => pc \notin FlushSteps
  /\ de' = FALSE
  /\ txIrq' = FALSE
  /\ logonMode' = FALSE
  /\ read' = Reserve
  /\ ahead' = 0
  /\ heard' = (heard \/ (de /\ wire = LogonWord))
  /\ UNCHANGED <<pc, linkVars, rx, buf, write, logonRem, nak, pIndex, pRem, wire>>

\* Fault: the NAK flag survives the NAK and cuts the next packet.
NakEndKeepsFlag ==
  /\ txIrq /\ ~logonMode /\ nak
  /\ de' = FALSE
  /\ txIrq' = FALSE
  /\ UNCHANGED <<pc, linkVars, rx, ringVars, logonMode, logonRem, nak, pIndex, pRem, wire, heard>>

\* Fault: the interrupt is disabled before the driver is released.
NakEndKeepsDriver ==
  /\ txIrq /\ ~logonMode /\ nak
  /\ nak' = FALSE
  /\ txIrq' = FALSE
  /\ UNCHANGED <<pc, linkVars, rx, ringVars, de, logonMode, logonRem, pIndex, pRem, wire, heard>>

NakEnd ==
  /\ txIrq /\ ~logonMode /\ nak
  /\ nak' = FALSE
  /\ de' = FALSE
  /\ txIrq' = FALSE
  /\ UNCHANGED <<pc, linkVars, rx, ringVars, logonMode, logonRem, pIndex, pRem, wire, heard>>

SendByte ==
  /\ txIrq /\ ~logonMode /\ ~nak /\ pRem > 0
  /\ wire' = DataWord(buf[pIndex])
  /\ pIndex' = Wrap(pIndex + 1)
  /\ pRem' = pRem - 1
  /\ UNCHANGED <<pc, linkVars, rx, ringVars, de, txIrq, logonMode, logonRem, nak, heard>>

\* Fault: after the CRC the node goes on as if a packet were chained.
SendCrcAgain ==
  /\ txIrq /\ ~logonMode /\ ~nak /\ pRem = 0
  /\ wire' = Crc
  /\ UNCHANGED <<pc, linkVars, rx, ringVars, de, txIrq, logonMode, logonRem, nak, pIndex, pRem, heard>>

\* bidib_tx_fill is never raised, so the branch that chains a packet is dead.
SendCrc ==
  /\ txIrq /\ ~logonMode /\ ~nak /\ pRem = 0
  /\ wire' = Crc
  /\ de' = FALSE
  /\ txIrq' = FALSE
  /\ UNCHANGED <<pc, linkVars, rx, ringVars, logonMode, logonRem, nak, pIndex, pRem, heard>>

TxIsr == SendLogonWord \/ LogonEnd \/ NakEnd \/ SendByte \/ SendCrc

-----------------------------------------------------------------------------
(* Main loop. *)

\* init_bidib_client, up to the call of init_bidib_client_if.
BootReset ==
  /\ pc = "boot"
  /\ conn' = "DISCONNECTED"
  /\ pc' = "receive"
  /\ UNCHANGED <<backoff, addressed, overdue, rx, ringVars, isrVars, heard>>

SetBidibToReceive ==
  /\ pc = "receive"
  /\ de' = FALSE
  /\ pc' = "flush_rx"
  /\ UNCHANGED <<linkVars, rx, ringVars, txIrq, logonMode, logonRem, nak, pIndex, pRem, wire, heard>>

\* run_bidib_client reads conn and last_poll_us; the decision stands whatever
\* the ISRs do next.
CheckTimeout ==
  /\ pc = "loop"
  /\ conn = "CONNECTED" /\ overdue
  /\ pc' = "disconnect"
  /\ UNCHANGED <<linkVars, rx, ringVars, isrVars, heard>>

\* set_bidib_state(BIDIB_DISCONNECTED), one step per store the ISRs can see.
Disconnect ==
  /\ pc = "disconnect"
  /\ conn' = "DISCONNECTED"
  /\ pc' = "unaddress"
  /\ UNCHANGED <<backoff, addressed, overdue, rx, ringVars, isrVars, heard>>

Unaddress ==
  /\ pc = "unaddress"
  /\ addressed' = FALSE
  /\ pc' = "flush_rx"
  /\ UNCHANGED <<conn, backoff, overdue, rx, ringVars, isrVars, heard>>

FlushRx ==
  /\ pc = "flush_rx"
  /\ rx' = <<>>
  /\ pc' = "flush_tx"
  /\ UNCHANGED <<linkVars, ringVars, isrVars, heard>>

FlushTx ==
  /\ pc = "flush_tx"
  /\ read' = 0
  /\ write' = Reserve
  /\ ahead' = 0
  /\ pc' = "prepare"
  /\ UNCHANGED <<linkVars, rx, buf, isrVars, heard>>

\* bidib_prepare_tx_logon runs after the critical section, then at boot
\* my_bidib_node_addr is set, and after a timeout last_poll_us.
PrepareTxLogon ==
  /\ pc = "prepare"
  /\ buf' = [i \in Slots |-> IF i < Reserve THEN LogonByte ELSE buf[i]]
  /\ addressed' = FALSE
  /\ overdue' = FALSE
  /\ pc' = "loop"
  /\ UNCHANGED <<conn, backoff, rx, read, write, ahead, isrVars, heard>>

\* Fault: the message is copied to the start of the ring.
PutAtStart(m) ==
  /\ pc = "loop"
  /\ conn = "CONNECTED"
  /\ ahead + Len(m) <= TxBufSize
  /\ "paced_puts" \in Assumed => ahead + Len(m) + pRem <= TxBufSize
  /\ buf' = [i \in Slots |-> IF i < Len(m) THEN m[i + 1] ELSE buf[i]]
  /\ write' = Wrap(write + Len(m))
  /\ ahead' = ahead + Len(m)
  /\ UNCHANGED <<pc, linkVars, rx, read, isrVars, heard>>

\* bidib_tx_fifo_put, in its critical section.  A message that does not fit
\* is refused and changes nothing, like any message while not connected.
Put(m) ==
  /\ pc = "loop"
  /\ conn = "CONNECTED"
  /\ ahead + Len(m) <= TxBufSize
  /\ "paced_puts" \in Assumed => ahead + Len(m) + pRem <= TxBufSize
  /\ buf' = [i \in Slots |-> LET offset == Wrap(i + TxBufSize - write)
                             IN IF offset < Len(m) THEN m[offset + 1] ELSE buf[i]]
  /\ write' = Wrap(write + Len(m))
  /\ ahead' = ahead + Len(m)
  /\ UNCHANGED <<pc, linkVars, rx, read, isrVars, heard>>

\* MSG_LOCAL_LOGON_ACK with our unique ID: set_bidib_state(BIDIB_CONNECTED),
\* which returns at once when the node already is connected.
ParseAck ==
  /\ pc = "loop"
  /\ rx # <<>> /\ Head(rx) = "ACK"
  /\ rx' = Tail(rx)
  /\ conn' = "CONNECTED"
  /\ addressed' = (addressed \/ conn # "CONNECTED")
  /\ overdue' = (overdue /\ conn = "CONNECTED")
  /\ UNCHANGED <<pc, backoff, ringVars, isrVars, heard>>

\* MSG_LOGON_REJECTED with our unique ID: set_bidib_state(BIDIB_REJECTED).
ParseRejected ==
  /\ pc = "loop"
  /\ rx # <<>> /\ Head(rx) = "REJECTED"
  /\ rx' = Tail(rx)
  /\ conn' = "REJECTED"
  /\ addressed' = FALSE
  /\ UNCHANGED <<pc, backoff, overdue, ringVars, isrVars, heard>>

MainStep ==
  \/ BootReset \/ SetBidibToReceive
  \/ CheckTimeout \/ Disconnect \/ Unaddress
  \/ FlushRx \/ FlushTx \/ PrepareTxLogon
  \/ ParseAck \/ ParseRejected

-----------------------------------------------------------------------------
(* The bus master and time. *)

\* The answer to a logon reaches the ring, or finds it full and is dropped.
MasterAnswers(a) ==
  /\ ~de
  /\ heard
  /\ heard' = FALSE
  /\ rx' = IF Len(rx) < RxPackets THEN Append(rx, a) ELSE rx
  /\ UNCHANGED <<pc, linkVars, ringVars, isrVars>>

\* The logon collided on the way, the master restarted, or its answer was lost.
MasterIgnores ==
  /\ heard
  /\ heard' = FALSE
  /\ UNCHANGED <<pc, linkVars, rx, ringVars, isrVars>>

\* 500 ms pass without a poll; no frame of the node lasts that long.
PollOverdue ==
  /\ conn = "CONNECTED" /\ ~de /\ ~overdue
  /\ overdue' = TRUE
  /\ UNCHANGED <<pc, conn, backoff, addressed, rx, ringVars, isrVars, heard>>

LogonToken == LogonBackoff \/ LogonStart \/ LogonRetry
Poll == PollWithData \/ PollWithoutData

Next ==
  \/ LogonToken
  \/ Poll
  \/ TxIsr
  \/ MainStep
  \/ \E m \in Messages : Put(m)
  \/ \E a \in Answers : MasterAnswers(a)
  \/ MasterIgnores
  \/ PollOverdue

Spec == Init /\ [][Next]_vars

(***************************************************************************)
(* The ISR runs whenever the PIO asks for it and the main loop never stops. *)
(* The master offers LOGON tokens again and again, and polls the nodes it   *)
(* knows again and again.                                                   *)
(***************************************************************************)
Fairness ==
  /\ WF_vars(TxIsr)
  /\ WF_vars(MainStep)
  /\ SF_vars(LogonToken)
  /\ SF_vars(Poll)

FairSpec == Spec /\ Fairness

-----------------------------------------------------------------------------
(* What the ring and the transmit ISR hold, as byte strings. *)

Queued == [i \in 1..ahead |-> buf[Wrap(read + i - 1)]]
InFlight == [i \in 1..pRem |-> buf[Wrap(pIndex + i - 1)]]

LogonActive == logonMode /\ txIrq

(* Type invariant. *)
TypeOK ==
  /\ pc \in MainSteps
  /\ conn \in ConnStates
  /\ backoff \in 0..BackoffRange-1
  /\ addressed \in BOOLEAN
  /\ overdue \in BOOLEAN
  /\ rx \in Seq(Answers)
  /\ buf \in [Slots -> Cells]
  /\ read \in Slots
  /\ write \in Slots
  /\ ahead \in 0..TxBufSize
  /\ de \in BOOLEAN
  /\ txIrq \in BOOLEAN
  /\ logonMode \in BOOLEAN
  /\ logonRem \in 0..LogonMsgSize-1
  /\ nak \in BOOLEAN
  /\ pIndex \in Slots
  /\ pRem \in 0..TxBufSize
  /\ wire \in Words
  /\ heard \in BOOLEAN

(***************************************************************************)
(* The node never drives the bus without an interrupt pending that will     *)
(* release it: a DE left high would block every other node and make the     *)
(* receive ISR drop all it hears as echo (bidib.c:210).  No timing is       *)
(* assumed.                                                                 *)
(***************************************************************************)
DriverHasOwner == de => txIrq

(***************************************************************************)
(* The back-off counter never leaves 0..1, whatever the number of lost      *)
(* logons: it is only raised in APPLIED, which is only entered at 0         *)
(* (bidib.c:225-248).  The 0x3F mask is never reached, so two nodes whose   *)
(* logons collide retry in step.                                            *)
(***************************************************************************)
BackoffStaysLow == backoff <= 1

(***************************************************************************)
(* While the node is connected the bytes counted by bidib_tx_ahead are      *)
(* those between the read and the write index (bidib.c:257-262,             *)
(* bidib_client_if.c:182-186): an offset between them would make every      *)
(* later packet carry the bytes of older messages, with a valid CRC.        *)
(***************************************************************************)
RingAligned == conn = "CONNECTED" => write = Wrap(read + ahead)

(***************************************************************************)
(* The node releases the bus only after the whole frame: every word of the  *)
(* logon, every byte of the packet whose length it announced                *)
(* (bidib.c:101-126, 141-151).  A NAK flag left over from an earlier poll   *)
(* would cut the next packet after its length.                              *)
(***************************************************************************)
FrameNeverCut == [][de /\ ~de' => pRem = 0 /\ logonRem = 0]_vars

(***************************************************************************)
(* Bytes handed to the transmit ISR by a poll reach the bus unchanged: no   *)
(* put, flush or logon rewrites a ring cell the ISR has still to send       *)
(* (bidib.c:258-262 gives the cells free before they are sent).             *)
(***************************************************************************)
InFlightKept == [][pRem > 0 => InFlight' \in {InFlight, Tail(InFlight)}]_vars

(***************************************************************************)
(* The ring, the ISRs and the link state together behave like one queue     *)
(* that each poll turns into a packet.                                      *)
(***************************************************************************)
Promise == INSTANCE TxQueue WITH Capacity <- TxBufSize, queue <- Queued, packet <- InFlight
ImplementsTxQueue == Promise!Spec

(***************************************************************************)
(* The bus is released again and again: no frame holds it for ever.         *)
(***************************************************************************)
BusReleased == []<>~de

(***************************************************************************)
(* While the link stands, what is queued leaves the ring on a poll: no mode *)
(* flag left behind (tx_mode_logon, tx_nak_mode) makes the node answer NAK  *)
(* for ever (bidib.c:256-271).                                              *)
(***************************************************************************)
QueueDrains ==
  (conn = "CONNECTED" /\ ahead > 0) ~> (ahead = 0 \/ conn # "CONNECTED")

(***************************************************************************)
(* Back-off, collisions and unanswered logons never silence the node: it    *)
(* keeps applying (or is connected, or rejected).                           *)
(***************************************************************************)
KeepsApplying == []<>(conn # "DISCONNECTED")

(***************************************************************************)
(* The inductive invariant behind RingAligned and FrameNeverCut when a      *)
(* logon keeps its timing (bidib.c:92-277, bidib_client_if.c:156-248).      *)
(* One logon at a time is under way, heard by the master, or answered in    *)
(* the receive ring; a node that is not connected holds nothing beyond the  *)
(* reserved area once flushed; the driver, the interrupt and the three      *)
(* transmit modes agree with one another.                                   *)
(***************************************************************************)
Unflushed == pc \in BootSteps \cup {"unaddress", "flush_rx", "flush_tx"}

ConnectedPart ==
  conn = "CONNECTED" => /\ pc \in {"loop", "disconnect"}
                        /\ ~logonMode /\ ~heard /\ rx = <<>>
                        /\ write = Wrap(read + ahead)

UnconnectedPart ==
  /\ conn # "CONNECTED" => pc # "disconnect"
  /\ conn # "CONNECTED" /\ ~Unflushed => write = Reserve /\ ahead = 0
  /\ pc \in BootSteps => ~txIrq
  /\ addressed => conn = "CONNECTED" \/ pc = "unaddress"

AnswerPart ==
  /\ heard \/ rx # <<>> => ~logonMode /\ pc = "loop" /\ read = Reserve
  /\ heard => rx = <<>>
  /\ Len(rx) <= 1

DriverPart ==
  /\ de <=> txIrq
  /\ ~de => pRem = 0 /\ ~nak
  /\ nak \/ logonMode => pRem = 0
  /\ logonMode => ~nak /\ (pc = "unaddress" => de)
  /\ logonRem > 0 => logonMode /\ de

LinkInv == ConnectedPart /\ UnconnectedPart /\ AnswerPart /\ DriverPart
=============================================================================
