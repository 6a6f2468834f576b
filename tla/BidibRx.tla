------------------------------ MODULE BidibRx ------------------------------
(***************************************************************************)
(* The receiving end of the node (bidib_client_if.c and the assembler of    *)
(* bidib_client_parser.c): the ring the receive ISR fills with the words of *)
(* the bus, and the loop that takes them out again, finds the packets of    *)
(* the master among them, checks their CRC and cuts them into messages.     *)
(*                                                                          *)
(* Two processes share the ring.  bidib_rx_buf_put runs in the ISR and is   *)
(* one action; the loop reads a word and may be caught between the two      *)
(* stores that advance its index (pc).  The words of the bus are the        *)
(* environment.  A word carries what no code reads: the packet it           *)
(* completes, when nothing of it was lost.                                  *)
(***************************************************************************)
EXTENDS Crc8

CONSTANTS
  RxBufSize,   (* BIDIB_RX_BUF_SIZE, 64                                   *)
  PaketSize,   (* size of bidib_rx_paket, 64                              *)
  Packets,     (* what the master sends: each a sequence of messages      *)
  Checksum,    (* the CRC the master appends to each                      *)
  Answers,     (* token and answer of another node, as words              *)
  BusBytes,    (* the bytes that occur on the bus                         *)
  NoiseBytes,  (* what a damaged word may hold                            *)
  InStep,      (* words after which a packet begun at a wrong place is over:
                  the longest length on this bus, a CRC and the lost word *)
  MaxLost,     (* bound: losses of words before the node is in step again *)
  Assumed      (* the assumptions a run or a theorem makes                *)

(***************************************************************************)
(* What the code relies on and does not enforce:                            *)
(*   short_packets  the master keeps its packets shorter than the buffer    *)
(*                  (the node announces PaketSize bytes, one more than the  *)
(*                  assembler stores, bidib_client_parser.c:340)            *)
(*   room_at_wrap   while the read index stands past the ring's end, no     *)
(*                  word arrives that the ring has no room for              *)
(***************************************************************************)
Assumptions == {"short_packets", "room_at_wrap"}

ASSUME RxSizesAssumption ==
  /\ RxBufSize \in Nat \ {0, 1}
  /\ PaketSize \in 2..128

ASSUME RxAssumedAssumption == Assumed \subseteq Assumptions

Slots == 0..RxBufSize-1

Word(id, byte) == [id |-> id, byte |-> byte]

\* The bytes of a packet between its length and its CRC.
Data(packet) ==
  LET joined[i \in 0..Len(packet)] ==
        IF i = 0 THEN <<>> ELSE joined[i-1] \o packet[i]
  IN  joined[Len(packet)]

ASSUME ChecksumAssumption == \A p \in Packets :
  Checksum[p] = Remainder(<<Len(Data(p))>> \o Data(p))

\* A message begins with its length, its own byte left out.
ASSUME PacketsAssumption ==
  /\ Packets \subseteq Seq(Seq(Byte)) \ {<<>>}
  /\ \A p \in Packets : \A i \in DOMAIN p :
       p[i] # <<>> /\ p[i][1] \in 1..127 /\ Len(p[i]) = p[i][1] + 1

\* A packet on the bus: start word, length, messages, CRC.
Frame(p) ==
  LET bytes == <<Len(Data(p))>> \o Data(p) \o <<Checksum[p]>>
  IN  <<Word(1, 0)>> \o [i \in 1..Len(bytes) |-> Word(0, bytes[i])]

Sent == {p \in Packets : "short_packets" \in Assumed => Len(Data(p)) < PaketSize}

\* What goes over the bus between two pauses; packet is <<>> for the answers.
Transmissions == {[words |-> Frame(p), packet |-> p] : p \in Sent}
                   \cup {[words |-> a, packet |-> <<>>] : a \in Answers}

\* What may be left of a transmission.
Lines == {<<>>} \cup UNION {{SubSeq(t.words, i, Len(t.words)) : i \in 1..Len(t.words)} : t \in Transmissions}

ASSUME BusAssumption ==
  /\ \A t \in Transmissions : t.words \in Seq([id : {0, 1}, byte : BusBytes])
  /\ \A a \in Answers : \A i \in DOMAIN a : a[i] # Word(1, 0)
  /\ 0 \in BusBytes
  /\ NoiseBytes \subseteq BusBytes /\ BusBytes \subseteq Byte
  /\ MaxLost \in Nat /\ InStep \in Nat /\ \A b \in BusBytes : b + 2 <= InStep

VARIABLES
  pc,         (* where the loop stands: "loop", "wrap" or "reset"           *)
  rxBuf,      (* bidib_rx_buf                                               *)
  rxRead,     (* bidib_rx_buf_read; RxBufSize between its two stores        *)
  rxWrite,    (* bidib_rx_buf_write                                         *)
  raw,        (* the word read last, a sequence of one                      *)
  state,      (* bidib_rx_state                                             *)
  paket,      (* bidib_rx_paket: the bytes stored of the current packet     *)
  index,      (* bidib_rx_index                                             *)
  crc,        (* bidib_rx_crc                                               *)
  delivered,  (* messages the last step gave to process_bidib_message       *)
  line,       (* bus: words of the transmission still to come               *)
  packet,     (* bus: the packet being transmitted, <<>> if none            *)
  calm,       (* bus: words put since one was lost or damaged, up to InStep *)
  lost,       (* bus: losses and disconnections so far, up to MaxLost       *)
  clean       (* bus: this transmission began in step and lost nothing      *)

ringVars == <<rxBuf, rxRead, rxWrite>>
frameVars == <<state, paket, index, crc>>
busVars == <<line, packet, calm, lost, clean>>
vars == <<pc, ringVars, raw, frameVars, delivered, busVars>>

Cells == [id : {0, 1}, byte : BusBytes, whole : Sent \cup {<<>>}]
Cell(w, whole) == [id |-> w.id, byte |-> w.byte, whole |-> whole]

Init ==
  /\ pc = "loop"
  /\ rxBuf = [i \in Slots |-> Cell(Word(0, 0), <<>>)]
  /\ rxRead = 0 /\ rxWrite = 0
  /\ raw = <<>>
  /\ state = "IDLE"
  /\ paket = <<>> /\ index = 0 /\ crc = 0
  /\ delivered = <<>>
  /\ line = <<>> /\ packet = <<>>
  /\ calm = InStep /\ lost = 0 /\ clean = FALSE

-----------------------------------------------------------------------------
(* Receive ISR and bus. *)

NextWrite == (rxWrite + 1) % RxBufSize
HasRoom == NextWrite # rxRead

(* Fault: the ring takes a word it has no room for. *)
bidib_rx_buf_put_always(cell) ==
  /\ rxBuf' = [rxBuf EXCEPT ![rxWrite] = cell]
  /\ rxWrite' = NextWrite
  /\ UNCHANGED rxRead

(* Fault: the size is one too large for the index. *)
bidib_rx_buf_put_far(cell) ==
  /\ HasRoom
  /\ rxBuf' = [rxBuf EXCEPT ![rxWrite] = cell]
  /\ rxWrite' = (rxWrite + 1) % (RxBufSize + 1)
  /\ UNCHANGED rxRead

bidib_rx_buf_put(cell) ==
  IF HasRoom
  THEN /\ rxBuf' = [rxBuf EXCEPT ![rxWrite] = cell]
       /\ rxWrite' = NextWrite
       /\ UNCHANGED rxRead
  ELSE UNCHANGED ringVars

\* The ISR runs at any time, unless a run assumes it away.
IsrRuns == pc = "wrap" /\ "room_at_wrap" \in Assumed => NextWrite # 0

Talk ==
  /\ IsrRuns
  /\ line = <<>>
  /\ \E t \in Transmissions :
       /\ line' = t.words
       /\ packet' = t.packet
  /\ clean' = (calm = InStep)
  /\ UNCHANGED <<pc, ringVars, raw, frameVars, delivered, calm, lost>>

\* A word is on the bus; intact says whether it reaches the node unharmed.
Transmit(cell, intact) ==
  /\ IsrRuns
  /\ intact \/ lost < MaxLost
  /\ bidib_rx_buf_put(cell)
  /\ line' = Tail(line)
  /\ calm' = IF ~intact THEN 0 ELSE IF calm < InStep THEN calm + 1 ELSE calm
  /\ lost' = IF ~intact THEN lost + 1 ELSE IF calm + 1 >= InStep THEN 0 ELSE lost
  /\ clean' = (clean /\ intact)
  /\ delivered' = <<>>
  /\ UNCHANGED <<pc, raw, frameVars, packet>>

\* The word is stored, or lost in the full ring.
WordArrives ==
  /\ line # <<>>
  /\ Transmit(Cell(Head(line), IF Tail(line) = <<>> /\ clean THEN packet ELSE <<>>), HasRoom)

WordDamaged ==
  /\ line # <<>>
  /\ \E b \in NoiseBytes \ {Head(line).byte} :
       Transmit(Cell(Word(Head(line).id, b), <<>>), FALSE)

-----------------------------------------------------------------------------
(* The loop: assembling.  The code's byte and id_bit are the word just read. *)

Idle(id_bit, byte) ==
  /\ state = "IDLE"
  /\ state' = IF id_bit = 1 /\ byte = 0 THEN "GET_LEN" ELSE "IDLE"
  /\ delivered' = <<>>
  /\ UNCHANGED <<paket, index, crc>>

GetLength(id_bit, byte) ==
  /\ state = "GET_LEN"
  /\ id_bit = 0 /\ byte > 0
  /\ state' = "COLLECT"
  /\ paket' = <<byte>> /\ index' = 1
  /\ crc' = crc_array[byte + 1]
  /\ delivered' = <<>>

NoLength(id_bit, byte) ==
  /\ state = "GET_LEN"
  /\ id_bit = 1 \/ byte = 0
  /\ state' = "IDLE"
  /\ delivered' = <<>>
  /\ UNCHANGED <<paket, index, crc>>

P_LENGTH == paket[1]

\* A byte goes to the place of the index; behind it an older one stays.
Stored(byte) ==
  IF index < Len(paket) THEN [paket EXCEPT ![index + 1] = byte] ELSE Append(paket, byte)

\* The ninth bit is not looked at; the index has eight bits, and the byte that
\* follows 255 others takes the place of the length.
CollectByte(byte) ==
  /\ state = "COLLECT"
  /\ index <= P_LENGTH
  /\ paket' = IF index < PaketSize THEN Stored(byte) ELSE paket
  /\ crc' = crc8_update(crc, byte)
  /\ index' = (index + 1) % 256
  /\ delivered' = <<>>
  /\ UNCHANGED state

(* Fault: the walk steps over the bytes of a message but not over its length. *)
MessagesShortStep(foreign) ==
  LET At(i) == IF i < Len(paket) THEN paket[i + 1] ELSE foreign
      from[i \in 1..256] ==
        IF i >= P_LENGTH \/ At(i) \notin 1..127 THEN <<>>
        ELSE <<[k \in 1..At(i)+1 |-> At(i + k - 1)]>> \o from[i + At(i)]
  IN  from[1]

\* The messages of the packet.  What lies behind its stored bytes reads as
\* foreign; the walk is cut where its index would leave eight bits, which takes
\* a packet of more than 127 bytes.
Messages(foreign) ==
  LET At(i) == IF i < Len(paket) THEN paket[i + 1] ELSE foreign
      from[i \in 1..256] ==
        IF i >= P_LENGTH \/ At(i) \notin 1..127 \/ i + At(i) > 255 THEN <<>>
        ELSE <<[k \in 1..At(i)+1 |-> At(i + k - 1)]>>
               \o (IF At(i) = 127 THEN <<>> ELSE from[i + At(i) + 1])
  IN  from[1]

\* The word after the last byte; what the packet left behind is not used again.
FrameEnds ==
  /\ state = "COLLECT"
  /\ index > P_LENGTH
  /\ state' = "IDLE"
  /\ paket' = <<>> /\ index' = 0 /\ crc' = 0

(* Fault: the messages are processed whatever the CRC says. *)
PacketDoneUnchecked(byte) ==
  /\ FrameEnds
  /\ \E foreign \in NoiseBytes : delivered' = Messages(foreign)

PacketDone(byte) ==
  /\ FrameEnds
  /\ crc8_update(crc, byte) = 0
  /\ \E foreign \in NoiseBytes : delivered' = Messages(foreign)

(* Fault: a damaged packet leaves the state as it is. *)
PacketKept(byte) ==
  /\ state = "COLLECT"
  /\ index > P_LENGTH
  /\ crc8_update(crc, byte) # 0
  /\ delivered' = <<>>
  /\ UNCHANGED frameVars

PacketDropped(byte) ==
  /\ FrameEnds
  /\ crc8_update(crc, byte) # 0
  /\ delivered' = <<>>

Assemble(id_bit, byte) ==
  \/ Idle(id_bit, byte)
  \/ GetLength(id_bit, byte)
  \/ NoLength(id_bit, byte)
  \/ CollectByte(byte)
  \/ PacketDone(byte)
  \/ PacketDropped(byte)

-----------------------------------------------------------------------------
(* The loop: reading a word.  What is done with it touches nothing the ISR
   knows, so it belongs to the step that ends the reading. *)

bidib_rx_ready == rxRead # rxWrite

ReadWord ==
  /\ pc = "loop"
  /\ bidib_rx_ready
  /\ rxRead' = (rxRead + 1) % RxBufSize
  /\ raw' = <<rxBuf[rxRead]>>
  /\ Assemble(rxBuf[rxRead].id, rxBuf[rxRead].byte)
  /\ UNCHANGED <<pc, rxBuf, rxWrite, busVars>>

\* bidib_rx_buf_read is not volatile: the build may keep it in a register until
\* it is wrapped, which is ReadWord, or store it twice.
ReadLast ==
  /\ pc = "loop"
  /\ bidib_rx_ready
  /\ rxRead + 1 = RxBufSize
  /\ rxRead' = RxBufSize
  /\ raw' = <<rxBuf[rxRead]>>
  /\ pc' = "wrap"
  /\ delivered' = <<>>
  /\ UNCHANGED <<rxBuf, rxWrite, frameVars, busVars>>

WrapRead ==
  /\ pc = "wrap"
  /\ rxRead' = 0
  /\ Assemble(raw[1].id, raw[1].byte)
  /\ pc' = "loop"
  /\ UNCHANGED <<rxBuf, rxWrite, raw, busVars>>

-----------------------------------------------------------------------------
(* set_bidib_state(BIDIB_DISCONNECTED) after a timeout. *)

FlushRx ==
  /\ pc = "loop"
  /\ lost < MaxLost
  /\ rxRead' = 0 /\ rxWrite' = 0
  /\ raw' = <<>>
  /\ pc' = "reset"
  /\ calm' = 0 /\ lost' = lost + 1 /\ clean' = FALSE
  /\ delivered' = <<>>
  /\ UNCHANGED <<rxBuf, frameVars, line, packet>>

(* Fault: the assembler is left as it stood. *)
KeepAssembler ==
  /\ pc = "reset"
  /\ pc' = "loop"
  /\ UNCHANGED <<ringVars, raw, frameVars, delivered, busVars>>

ResetAssembler ==
  /\ pc = "reset"
  /\ state' = "IDLE"
  /\ paket' = <<>> /\ index' = 0 /\ crc' = 0
  /\ pc' = "loop"
  /\ UNCHANGED <<ringVars, raw, delivered, busVars>>

Bus == Talk \/ WordArrives \/ WordDamaged
Loop == ReadWord \/ ReadLast \/ WrapRead \/ ResetAssembler

Next == Bus \/ Loop \/ FlushRx

Spec == Init /\ [][Next]_vars

\* The master never stops sending, the loop never stops.
FairSpec == Spec /\ WF_vars(Bus) /\ WF_vars(Loop)

-----------------------------------------------------------------------------
TypeOK ==
  /\ pc \in {"loop", "wrap", "reset"}
  /\ rxBuf \in [Slots -> Cells]
  /\ rxRead \in Slots \cup (IF pc = "wrap" THEN {RxBufSize} ELSE {})
  /\ rxWrite \in Slots
  /\ raw = <<>> \/ raw \in [1..1 -> Cells]
  /\ state \in {"IDLE", "GET_LEN", "COLLECT"}
  /\ paket \in Seq(Byte) /\ Len(paket) <= PaketSize
  /\ index \in Byte
  /\ crc \in Byte
  /\ line \in Lines
  /\ packet \in Sent \cup {<<>>}
  /\ calm \in 0..InStep
  /\ lost \in 0..MaxLost
  /\ clean \in BOOLEAN

(***************************************************************************)
(* The ring the ISR fills and the loop empties behaves like one queue that  *)
(* refuses what does not fit: no word comes out twice, out of order or      *)
(* after it was overwritten, and none is forgotten once it is in            *)
(* (bidib_client_if.c:92-115, 231-237).                                     *)
(***************************************************************************)
RxWords ==
  LET first == rxRead % RxBufSize
  IN  [i \in 1..(rxWrite + RxBufSize - first) % RxBufSize |->
         rxBuf[(first + i - 1) % RxBufSize]]

RxQueue == INSTANCE LossyQueue WITH
  Capacity <- RxBufSize - 1, Overflow <- "refuse", Batches <- {<<c>> : c \in Cells},
  queue <- RxWords, last <- IF raw = <<>> THEN <<>> ELSE raw[1]

ImplementsRxQueue == RxQueue!Spec

(***************************************************************************)
(* While a packet is collected the CRC register is the remainder of the     *)
(* bytes stored so far, its length included, by the polynomial of the       *)
(* BiDiBus (bidib_client_parser.c:827, 853; crc_8bit.c:25-60).              *)
(***************************************************************************)
CrcIsRemainder ==
  state = "COLLECT" /\ index <= PaketSize =>
    crc = Remainder(paket)

(***************************************************************************)
(* Whatever words are lost in the full ring or damaged on the bus, what     *)
(* process_bidib_message gets is exactly the messages of a packet the       *)
(* master sent (bidib_client_parser.c:762-777, 867-869).  CRC-8 lets one    *)
(* mutilated packet in 256 pass; none of this instance's does.              *)
(***************************************************************************)
OnlySentDelivered == delivered \in Sent \cup {<<>>}

(***************************************************************************)
(* A packet that arrives whole is delivered, and in the step that reads its *)
(* CRC, as soon as the node had time to get in step again after the last    *)
(* loss: the assembler cannot stay wrong for longer than the longest length *)
(* it may have read in the wrong place (bidib_client_parser.c:814-888).     *)
(***************************************************************************)
WholePacketsDelivered ==
  [][ReadWord \/ WrapRead => raw'[1].whole \in {<<>>, delivered'}]_vars

(***************************************************************************)
(* The assembler always comes back to IDLE, whatever it took for a length;  *)
(* only the length 255 may hold it longer, since an index of eight bits     *)
(* never exceeds it: 255 bytes later the next one takes its place, and that *)
(* may be 255 again (bidib_client_parser.c:845-854).                        *)
(***************************************************************************)
HearsAgain == (state = "GET_LEN" \/ (state = "COLLECT" /\ P_LENGTH # 255)) ~> (state = "IDLE")
=============================================================================
