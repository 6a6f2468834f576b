---------------------------- MODULE BidibRx_proofs ----------------------------
(***************************************************************************)
(* Proofs about the receiver of BidibRx, for every size of its ring, every  *)
(* set of packets and every word the bus may bring.                         *)
(***************************************************************************)
EXTENDS BidibRx, WellFoundedInduction, SequenceTheorems, TLAPS

RoomAssumed == "room_at_wrap" \in Assumed

N == RxBufSize

Turn(x) == x % N

(* The remainder of what is less than twice the ring's size. *)
LEMMA TurnValue ==
  \A x \in 0..2*N-1 :
    /\ Turn(x) = IF x < N THEN x ELSE x - N
    /\ Turn(x) \in Slots
<1> SUFFICES ASSUME NEW x \in 0..2*N-1
             PROVE  Turn(x) = (IF x < N THEN x ELSE x - N) /\ Turn(x) \in Slots
  OBVIOUS
<1>1. CASE x < N
  BY <1>1, RxSizesAssumption DEF Turn, Slots, N
<1>2. CASE x >= N
  BY <1>2, RxSizesAssumption DEF Turn, Slots, N
<1> QED
  BY <1>1, <1>2, RxSizesAssumption DEF N

(* Positions that are one turn of the ring apart are the same slot. *)
LEMMA TurnSame ==
  \A x, y \in 0..2*N-1 : x = y \/ x = y + N \/ y = x + N => Turn(x) = Turn(y)
  BY TurnValue, RxSizesAssumption DEF N

-----------------------------------------------------------------------------
(* The ring and the bus keep their types; the read index stands past the end *)
(* only between its two stores.                                              *)

BusWords == [id : {0, 1}, byte : BusBytes]

RingInv ==
  /\ rxBuf \in [Slots -> Cells]
  /\ pc \in {"loop", "wrap", "reset"}
  /\ IF pc = "wrap" THEN rxRead = N ELSE rxRead \in Slots
  /\ rxWrite \in Slots
  /\ line \in Seq(BusWords)
  /\ packet \in Sent \cup {<<>>}

LEMMA RingInit == Init => RingInv
<1> SUFFICES ASSUME Init PROVE RingInv
  OBVIOUS
<1>1. Cell(Word(0, 0), <<>>) \in Cells
  BY BusAssumption DEF Cell, Word, Cells
<1>2. 0 \in Slots
  BY RxSizesAssumption DEF Slots
<1> QED
  BY <1>1, <1>2 DEF Init, RingInv

(* What the bus puts into the ring is a cell. *)
LEMMA ArrivingCell ==
  ASSUME RingInv, WordArrives \/ WordDamaged
  PROVE  \E c \in Cells : bidib_rx_buf_put(c)
<1>1. line # <<>> /\ line \in Seq(BusWords)
  BY DEF RingInv, WordArrives, WordDamaged
<1>2. Head(line) \in BusWords
  BY <1>1, HeadTailProperties
<1>3. CASE WordArrives
  <2> DEFINE whole == IF Tail(line) = <<>> /\ clean THEN packet ELSE <<>>
  <2>1. whole \in Sent \cup {<<>>}
    BY DEF RingInv
  <2>2. bidib_rx_buf_put(Cell(Head(line), whole))
    BY <1>3 DEF WordArrives, Transmit
  <2> HIDE DEF whole
  <2>3. Cell(Head(line), whole) \in Cells
    BY <1>2, <2>1 DEF Cell, Cells, BusWords
  <2> QED
    BY <2>2, <2>3
<1>4. CASE WordDamaged
  <2>1. PICK b \in NoiseBytes : bidib_rx_buf_put(Cell(Word(Head(line).id, b), <<>>))
    BY <1>4 DEF WordDamaged, Transmit
  <2>2. Cell(Word(Head(line).id, b), <<>>) \in Cells
    BY <1>2, BusAssumption DEF Cell, Word, Cells, BusWords
  <2> QED
    BY <2>1, <2>2
<1> QED
  BY <1>3, <1>4

LEMMA PutMoves ==
  ASSUME RingInv, NEW c \in Cells, bidib_rx_buf_put(c)
  PROVE  /\ rxBuf' \in [Slots -> Cells] /\ rxWrite' \in Slots /\ rxRead' = rxRead
<1>1. NextWrite \in Slots
  <2>1. rxWrite + 1 \in 0..2*N-1
    BY RxSizesAssumption DEF RingInv, Slots, N
  <2> QED
    BY <2>1, TurnValue DEF NextWrite, Turn, N
<1> QED
  BY <1>1 DEF RingInv, bidib_rx_buf_put, ringVars

LEMMA RingStep == RingInv /\ [Next]_vars => RingInv'
<1> SUFFICES ASSUME RingInv, [Next]_vars PROVE RingInv'
  OBVIOUS
<1>1. CASE Talk
  <2>1. PICK t \in Transmissions : line' = t.words /\ packet' = t.packet
    BY <1>1 DEF Talk
  <2>2. line' \in Seq(BusWords) /\ packet' \in Sent \cup {<<>>}
    <3>1. t.words \in Seq(BusWords)
      BY BusAssumption DEF BusWords
    <3>2. t.packet \in Sent \cup {<<>>}
      BY DEF Transmissions
    <3> QED
      BY <2>1, <3>1, <3>2
  <2> QED
    BY <1>1, <2>2 DEF Talk, RingInv, ringVars
<1>2. CASE WordArrives \/ WordDamaged
  <2>1. PICK c \in Cells : bidib_rx_buf_put(c)
    BY <1>2, ArrivingCell
  <2>2. line' = Tail(line) /\ UNCHANGED <<pc, packet>> /\ line # <<>>
    BY <1>2 DEF WordArrives, WordDamaged, Transmit
  <2>3. line' \in Seq(BusWords)
    BY <2>2, HeadTailProperties DEF RingInv
  <2> QED
    BY <2>1, <2>2, <2>3, PutMoves DEF RingInv
<1>3. CASE ReadWord
  <2>1. rxRead + 1 \in 0..2*N-1
    BY <1>3, RxSizesAssumption DEF RingInv, ReadWord, Slots, N
  <2>2. rxRead' \in Slots
    BY <1>3, <2>1, TurnValue DEF ReadWord, Turn, N
  <2> QED
    BY <1>3, <2>2 DEF RingInv, ReadWord, busVars
<1>4. CASE ReadLast
  BY <1>4 DEF RingInv, ReadLast, busVars, N
<1>5. CASE WrapRead
  BY <1>5, RxSizesAssumption DEF RingInv, WrapRead, busVars, Slots
<1>6. CASE ResetAssembler
  BY <1>6 DEF RingInv, ResetAssembler, busVars, ringVars
<1>7. CASE FlushRx
  BY <1>7, RxSizesAssumption DEF RingInv, FlushRx, Slots
<1>8. CASE UNCHANGED vars
  BY <1>8 DEF RingInv, vars, ringVars, busVars
<1> QED
  BY <1>1, <1>2, <1>3, <1>4, <1>5, <1>6, <1>7, <1>8 DEF Next, Bus, Loop

LEMMA RingInvariant == Spec => []RingInv
  BY RingInit, RingStep, PTL DEF Spec

-----------------------------------------------------------------------------
(* The words of the ring, from the oldest. *)

First == Turn(rxRead)

Waiting == Turn(rxWrite + N - First)

WaitingFacts ==
  /\ First \in Slots
  /\ First = IF rxRead = N THEN 0 ELSE rxRead
  /\ Waiting \in 0..N-1
  /\ Waiting = IF rxWrite >= First THEN rxWrite - First ELSE rxWrite + N - First

LEMMA WaitingValue == RingInv => WaitingFacts
<1> SUFFICES ASSUME RingInv PROVE WaitingFacts
  OBVIOUS
<1>1. rxRead \in 0..2*N-1 /\ rxWrite \in Slots /\ N \in Nat \ {0, 1}
  BY RxSizesAssumption DEF RingInv, Slots, N
<1>2. First \in Slots /\ First = IF rxRead = N THEN 0 ELSE rxRead
  BY <1>1, TurnValue DEF First, RingInv, Slots, N
<1> HIDE DEF First
<1>3. rxWrite + N - First \in 0..2*N-1
  BY <1>1, <1>2 DEF Slots, N
<1>4. Waiting \in Slots /\ Waiting = IF rxWrite + N - First < N THEN rxWrite + N - First
                                     ELSE rxWrite + N - First - N
  BY <1>1, <1>2, <1>3, TurnValue DEF Waiting, Slots, N
<1> QED
  BY <1>1, <1>2, <1>4 DEF WaitingFacts, Slots, N

LEMMA WaitingLater == RingInv' => WaitingFacts'
  BY WaitingValue, PTL

WordsFromFirst ==
  /\ Waiting \in 0..N-1
  /\ RxWords \in Seq(Cells)
  /\ Len(RxWords) = Waiting
  /\ \A i \in 1..Waiting : RxWords[i] = rxBuf[Turn(First + i - 1)]

LEMMA WordsAreSequence == RingInv => WordsFromFirst
<1> SUFFICES ASSUME RingInv PROVE WordsFromFirst
  OBVIOUS
<1>1. First \in Slots /\ Waiting \in 0..N-1 /\ N \in Nat \ {0, 1}
  BY WaitingValue, RxSizesAssumption DEF WaitingFacts, N
<1>2. \A i \in 1..Waiting : First + i - 1 \in 0..2*N-1
  BY <1>1 DEF Slots, N
<1>3. \A i \in 1..Waiting : rxBuf[Turn(First + i - 1)] \in Cells
  BY <1>2, TurnValue DEF RingInv
<1>4. RxWords = [i \in 1..Waiting |-> rxBuf[Turn(First + i - 1)]]
  BY DEF RxWords, Waiting, First, Turn, N
<1>5. Waiting \in Nat
  BY <1>1
<1> QED
  BY <1>1, <1>3, <1>4, <1>5 DEF WordsFromFirst

LEMMA WordsAreSequenceNext == RingInv' => WordsFromFirst'
  BY WordsAreSequence, PTL

-----------------------------------------------------------------------------
(* Every step of the ring is a step of the queue. *)

(* From the oldest word f to the next free place r, and to the place behind. *)
Distance(n, f, r) == IF r >= f THEN r - f ELSE r + n - f

LEMMA OneMore ==
  ASSUME NEW n \in Nat, n > 1, NEW f \in 0..n-1, NEW r \in 0..n-1, NEW q,
         q = IF r + 1 < n THEN r + 1 ELSE 0, q # f
  PROVE  /\ Distance(n, f, r) \in 0..n-2
         /\ Distance(n, f, q) = Distance(n, f, r) + 1
  BY DEF Distance

LEMMA PlaceOf ==
  ASSUME NEW n \in Nat, n > 1, NEW f \in 0..n-1, NEW r \in 0..n-1,
         NEW i \in 1..Distance(n, f, r)+1, Distance(n, f, r) \in 0..n-2,
         NEW x, x = IF f + i - 1 < n THEN f + i - 1 ELSE f + i - 1 - n
  PROVE  /\ f + i - 1 \in 0..2*n-1
         /\ x = r <=> i = Distance(n, f, r) + 1
<1>1. i \in Nat /\ i >= 1 /\ Distance(n, f, r) \in Nat /\ i <= Distance(n, f, r) + 1
  OBVIOUS
<1>2. CASE r >= f
  BY <1>1, <1>2 DEF Distance
<1>3. CASE ~(r >= f)
  BY <1>1, <1>3 DEF Distance
<1> QED
  BY <1>2, <1>3

(* A word that fits is appended. *)
LEMMA WordAppended ==
  ASSUME RingInv, RingInv', NEW c \in Cells, bidib_rx_buf_put(c), HasRoom,
         rxRead = N => NextWrite # 0
  PROVE  Waiting + 1 <= N - 1 /\ RxWords' = RxWords \o <<c>>
<1>1. /\ N \in Nat /\ N > 1 /\ First \in 0..N-1 /\ rxWrite \in 0..N-1
      /\ Waiting = Distance(N, First, rxWrite)
  BY WaitingValue, RxSizesAssumption DEF RingInv, WaitingFacts, Distance, Slots, N
<1>2. /\ rxBuf' = [rxBuf EXCEPT ![rxWrite] = c] /\ rxBuf \in [Slots -> Cells]
      /\ rxWrite' = NextWrite /\ UNCHANGED rxRead
  BY DEF bidib_rx_buf_put, RingInv
<1>3. First' = First
  BY <1>2 DEF First
<1>4. NextWrite = IF rxWrite + 1 < N THEN rxWrite + 1 ELSE 0
  <2>1. rxWrite + 1 \in 0..2*N-1
    BY <1>1
  <2>2. NextWrite = Turn(rxWrite + 1)
    BY DEF NextWrite, Turn, N
  <2> QED
    BY <1>1, <2>1, <2>2, TurnValue
<1>5. NextWrite # First
  BY WaitingValue DEF HasRoom, WaitingFacts
<1>6. Waiting \in 0..N-2 /\ Waiting' = Waiting + 1
  <2>1. Waiting' = Distance(N, First, NextWrite)
    BY <1>2, <1>3, WaitingLater DEF WaitingFacts, Distance
  <2>2. Distance(N, First, rxWrite) \in 0..N-2
    BY <1>1, <1>4, <1>5, OneMore
  <2>3. Distance(N, First, NextWrite) = Distance(N, First, rxWrite) + 1
    BY <1>1, <1>4, <1>5, OneMore
  <2> QED
    BY <1>1, <2>1, <2>2, <2>3
<1> DEFINE w == Waiting
<1>7. RxWords \in Seq(Cells) /\ Len(RxWords) = w /\ w \in Nat
  BY <1>1, <1>6, WordsAreSequence DEF WordsFromFirst
<1>8. /\ RxWords' \in Seq(Cells) /\ Len(RxWords') = w + 1
      /\ \A i \in 1..w+1 : RxWords'[i] = rxBuf'[Turn(First' + i - 1)]
  BY <1>6, WordsAreSequenceNext DEF WordsFromFirst
<1>9. /\ RxWords \o <<c>> \in Seq(Cells) /\ Len(RxWords \o <<c>>) = w + 1
      /\ \A i \in 1..w : (RxWords \o <<c>>)[i] = RxWords[i]
      /\ (RxWords \o <<c>>)[w + 1] = c
  <2> HIDE DEF w
  <2>1. <<c>> \in Seq(Cells) /\ Len(<<c>>) = 1 /\ <<c>>[1] = c
    OBVIOUS
  <2> QED
    BY <1>7, <2>1, ConcatProperties
<1>10. ASSUME NEW i \in 1..w+1 PROVE RxWords'[i] = (RxWords \o <<c>>)[i]
  <2> DEFINE x == Turn(First + i - 1)
  <2>1. RxWords'[i] = rxBuf'[x]
    BY <1>3, <1>8
  <2>2. First + i - 1 \in 0..2*N-1
    BY <1>1, <1>6
  <2>3. x \in Slots /\ x = IF First + i - 1 < N THEN First + i - 1 ELSE First + i - 1 - N
    BY <1>1, <2>2, TurnValue DEF Slots, N
  <2>4. x = rxWrite <=> i = w + 1
    BY <1>1, <1>6, <2>3, PlaceOf
  <2>5. CASE i = w + 1
    BY <1>1, <1>2, <1>9, <2>1, <2>3, <2>4, <2>5
  <2>6. CASE i # w + 1
    <3>1. i \in 1..w
      BY <1>7, <2>6
    <3>2. RxWords[i] = rxBuf[x]
      BY <3>1, WordsAreSequence DEF WordsFromFirst
    <3> QED
      BY <1>2, <1>9, <2>1, <2>3, <2>4, <2>6, <3>1, <3>2
  <2> QED
    BY <2>5, <2>6
<1>11. Waiting + 1 <= N - 1
  BY <1>1, <1>6
<1> QED
  BY <1>8, <1>9, <1>10, <1>11, SeqEqual

(* A word that is read is the oldest one. *)
LEMMA WordTaken ==
  ASSUME RingInv, RingInv', pc = "loop", bidib_rx_ready,
         First' = Turn(rxRead + 1), UNCHANGED <<rxBuf, rxWrite>>
  PROVE  RxWords # <<>> /\ Head(RxWords) = rxBuf[rxRead] /\ RxWords' = Tail(RxWords)
<1> DEFINE w == Waiting
<1>1. /\ rxRead \in Slots /\ First = rxRead /\ w \in 1..N-1
      /\ rxWrite \in Slots /\ N \in Nat \ {0, 1}
      /\ w = IF rxWrite >= First THEN rxWrite - First ELSE rxWrite + N - First
  <2>1. rxRead \in Slots /\ rxWrite \in Slots /\ rxRead # rxWrite /\ N \in Nat \ {0, 1}
    BY RxSizesAssumption DEF RingInv, bidib_rx_ready, N
  <2>2. rxRead # N
    BY <2>1 DEF Slots, N
  <2>3. /\ First = rxRead /\ w \in 0..N-1
        /\ w = IF rxWrite >= First THEN rxWrite - First ELSE rxWrite + N - First
    BY <2>2, WaitingValue DEF WaitingFacts
  <2> HIDE DEF w
  <2> QED
    BY <2>1, <2>3 DEF Slots, N
<1>2. First' \in Slots /\ First' = IF rxRead + 1 < N THEN rxRead + 1 ELSE 0
  <2>1. rxRead + 1 \in 0..2*N-1
    BY <1>1 DEF Slots, N
  <2> QED
    BY <1>1, <2>1, TurnValue DEF Slots, N
<1>3. w' = w - 1
  <2>1. w' = IF rxWrite >= First' THEN rxWrite - First' ELSE rxWrite + N - First'
    BY WaitingLater DEF WaitingFacts
  <2> HIDE DEF w
  <2> QED
    BY <1>1, <1>2, <2>1 DEF Slots, N
<1>4. RxWords \in Seq(Cells) /\ Len(RxWords) = w /\ RxWords # <<>>
  BY <1>1, WordsAreSequence DEF WordsFromFirst
<1>5. Head(RxWords) = rxBuf[rxRead]
  <2>1. RxWords[1] = rxBuf[Turn(First + 1 - 1)]
    BY <1>1, WordsAreSequence DEF WordsFromFirst
  <2>2. First + 1 - 1 = rxRead /\ Turn(rxRead) = rxRead
    BY <1>1, TurnValue DEF Slots, N
  <2> QED
    BY <1>4, <2>1, <2>2
<1>6. RxWords' = Tail(RxWords)
  <2>1. RxWords' \in Seq(Cells) /\ Len(RxWords') = w - 1
    BY <1>3, WordsAreSequenceNext DEF WordsFromFirst
  <2>2. /\ Tail(RxWords) \in Seq(Cells) /\ Len(Tail(RxWords)) = w - 1
        /\ \A i \in 1..w-1 : Tail(RxWords)[i] = RxWords[i + 1]
    BY <1>4, HeadTailProperties
  <2>3. ASSUME NEW i \in 1..w-1 PROVE RxWords'[i] = Tail(RxWords)[i]
    <3>1. RxWords'[i] = rxBuf[Turn(First' + i - 1)]
      BY <1>3, WordsAreSequenceNext DEF WordsFromFirst
    <3>2. RxWords[i + 1] = rxBuf[Turn(First + (i + 1) - 1)]
      BY <1>1, WordsAreSequence DEF WordsFromFirst
    <3>3. Turn(First' + i - 1) = Turn(First + (i + 1) - 1)
      <4> DEFINE x == First' + i - 1
                 y == First + (i + 1) - 1
      <4>1. /\ x \in 0..2*N-1 /\ y \in 0..2*N-1
            /\ x = y \/ y = x + N
        BY <1>1, <1>2 DEF Slots, N
      <4> QED
        BY <4>1, TurnSame
    <3> QED
      BY <2>2, <3>1, <3>2, <3>3
  <2> QED
    BY <2>1, <2>2, <2>3, SeqEqual
<1> QED
  BY <1>4, <1>5, <1>6

(* The ring's words after each kind of step. *)
LEMMA WordsSame ==
  ASSUME UNCHANGED <<rxBuf, rxWrite>>, First' = First
  PROVE  RxWords' = RxWords
<1>1. Waiting' = Waiting
  BY DEF Waiting
<1>2. RxWords = [i \in 1..Waiting |-> rxBuf[Turn(First + i - 1)]]
  BY DEF RxWords, Waiting, First, Turn, N
<1>3. RxWords' = [i \in 1..Waiting' |-> rxBuf'[Turn(First' + i - 1)]]
  BY DEF RxWords, Waiting, First, Turn, N
<1> QED
  BY <1>1, <1>2, <1>3

LEMMA WordsRead ==
  ASSUME RingInv, RingInv', ReadWord \/ ReadLast
  PROVE  RxWords # <<>> /\ Head(RxWords) = rxBuf[rxRead] /\ RxWords' = Tail(RxWords)
<1>1. pc = "loop" /\ bidib_rx_ready /\ UNCHANGED <<rxBuf, rxWrite>>
  BY DEF ReadWord, ReadLast
<1>2. First' = Turn(rxRead + 1)
  <2>1. CASE ReadWord
    <3>1. rxRead' = Turn(rxRead + 1)
      BY <2>1 DEF ReadWord, Turn, N
    <3>2. rxRead + 1 \in 0..2*N-1
      BY <1>1, RxSizesAssumption DEF RingInv, Slots, N
    <3>3. rxRead' \in Slots
      BY <3>1, <3>2, TurnValue
    <3>4. Turn(rxRead') = rxRead'
      BY <3>3, TurnValue, RxSizesAssumption DEF Slots, N
    <3> QED
      BY <3>1, <3>4 DEF First
  <2>2. CASE ReadLast
    <3>1. rxRead' = rxRead + 1
      BY <2>2 DEF ReadLast
    <3> QED
      BY <3>1 DEF First
  <2> QED
    BY <2>1, <2>2
<1> QED
  BY <1>1, <1>2, WordTaken

LEMMA WordsWrapped ==
  ASSUME RingInv, RingInv', WrapRead
  PROVE  RxWords' = RxWords
<1>1. UNCHANGED <<rxBuf, rxWrite>> /\ rxRead' = 0 /\ pc = "wrap"
  BY DEF WrapRead
<1>2. rxRead = N /\ First = 0
  BY <1>1, WaitingValue DEF RingInv, WaitingFacts
<1>3. First' = 0
  BY <1>1, WaitingLater, RxSizesAssumption DEF WaitingFacts, N
<1> QED
  BY <1>1, <1>2, <1>3, WordsSame

LEMMA WordsFlushed ==
  ASSUME RingInv', FlushRx
  PROVE  RxWords' = <<>>
<1>1. rxRead' = 0 /\ rxWrite' = 0
  BY DEF FlushRx
<1>2. Waiting' = 0
  BY <1>1, WaitingLater, RxSizesAssumption DEF WaitingFacts, N
<1> QED
  BY <1>2, WordsAreSequenceNext, EmptySeq DEF WordsFromFirst

LEMMA QueueInit == Init => RxQueue!Init
<1> SUFFICES ASSUME Init PROVE RxQueue!Init
  OBVIOUS
<1>1. RingInv /\ rxRead = 0 /\ rxWrite = 0
  BY RingInit DEF Init
<1>2. Waiting = 0
  BY <1>1, WaitingValue, RxSizesAssumption DEF WaitingFacts, N
<1>3. RxWords = <<>>
  BY <1>1, <1>2, WordsAreSequence, EmptySeq DEF WordsFromFirst
<1> QED
  BY <1>3 DEF Init, RxQueue!Init

LEMMA QueueStep ==
  ASSUME RoomAssumed, RingInv, RingInv', [Next]_vars
  PROVE  [RxQueue!Next]_(RxQueue!vars)
<1> DEFINE stutter == RxWords' = RxWords /\ raw' = raw
<1>1. stutter => UNCHANGED RxQueue!vars
  BY DEF RxQueue!vars
<1>2. ASSUME UNCHANGED <<rxBuf, rxWrite, raw>>, First' = First PROVE stutter
  BY <1>2, WordsSame
<1>3. CASE Talk \/ ResetAssembler \/ UNCHANGED vars
  <2>1. UNCHANGED <<rxBuf, rxRead, rxWrite, raw>>
    BY <1>3 DEF Talk, ResetAssembler, vars, ringVars
  <2>2. First' = First
    BY <2>1 DEF First
  <2> QED
    BY <1>1, <1>2, <2>1, <2>2
<1>4. CASE WordArrives \/ WordDamaged
  <2>1. PICK c \in Cells : bidib_rx_buf_put(c)
    BY <1>4, ArrivingCell
  <2>2. UNCHANGED raw /\ (rxRead = N => NextWrite # 0)
    <3>1. UNCHANGED raw /\ IsrRuns
      BY <1>4 DEF WordArrives, WordDamaged, Transmit
    <3>2. rxRead = N => pc = "wrap"
      BY RxSizesAssumption DEF RingInv, Slots, N
    <3> QED
      BY <3>1, <3>2 DEF IsrRuns, RoomAssumed
  <2>3. CASE HasRoom
    <3>1. Waiting + 1 <= N - 1 /\ RxWords' = RxWords \o <<c>>
      BY <2>1, <2>2, <2>3, WordAppended
    <3>2. RxWords \in Seq(Cells) /\ Len(RxWords) = Waiting /\ Waiting \in 0..N-1
      BY WordsAreSequence DEF WordsFromFirst
    <3>3. Len(<<c>>) = 1 /\ Len(RxWords \o <<c>>) = Waiting + 1
      BY <3>2, ConcatProperties
    <3>4. RxQueue!Newest(RxWords \o <<c>>) = RxWords \o <<c>>
      BY <3>1, <3>3 DEF RxQueue!Newest, N
    <3>5. Len(RxWords) + Len(<<c>>) <= RxBufSize - 1
      BY <3>1, <3>2, <3>3 DEF N
    <3>6. RxQueue!Put(<<c>>)
      BY <2>2, <3>1, <3>4, <3>5 DEF RxQueue!Put
    <3>7. <<c>> \in {<<d>> : d \in Cells}
      OBVIOUS
    <3> QED
      BY <3>6, <3>7 DEF RxQueue!Next
  <2>4. CASE ~HasRoom
    <3>1. UNCHANGED <<rxBuf, rxRead, rxWrite>>
      BY <2>1, <2>4 DEF bidib_rx_buf_put, ringVars
    <3>2. First' = First
      BY <3>1 DEF First
    <3> QED
      BY <1>1, <1>2, <2>2, <3>1, <3>2
  <2> QED
    BY <2>3, <2>4
<1>5. CASE ReadWord \/ ReadLast
  <2>1. RxWords # <<>> /\ Head(RxWords) = rxBuf[rxRead] /\ RxWords' = Tail(RxWords)
    BY <1>5, WordsRead
  <2>2. raw' = <<rxBuf[rxRead]>>
    BY <1>5 DEF ReadWord, ReadLast
  <2>3. RxQueue!Take
    BY <2>1, <2>2 DEF RxQueue!Take
  <2> QED
    BY <2>3 DEF RxQueue!Next
<1>6. CASE WrapRead
  <2>1. RxWords' = RxWords /\ UNCHANGED raw
    BY <1>6, WordsWrapped DEF WrapRead
  <2> QED
    BY <1>1, <2>1
<1>7. CASE FlushRx
  <2>1. raw' = <<>> /\ RxWords' = <<>>
    BY <1>7, WordsFlushed DEF FlushRx
  <2>2. RxQueue!Clear
    BY <2>1 DEF RxQueue!Clear
  <2> QED
    BY <2>2 DEF RxQueue!Next
<1> QED
  BY <1>3, <1>4, <1>5, <1>6, <1>7 DEF Next, Bus, Loop

(***************************************************************************)
(* As long as no word meets a full ring between the two stores that bring   *)
(* the read index back to 0, the ring the interrupt fills and the loop      *)
(* empties is one queue that refuses what does not fit                      *)
(* (bidib_client_if.c:92-115, 231-237).                                     *)
(***************************************************************************)
THEOREM RingIsQueue == RoomAssumed => (Spec => ImplementsRxQueue)
<1> SUFFICES ASSUME RoomAssumed PROVE Spec => ImplementsRxQueue
  OBVIOUS
<1>1. Init => RxQueue!Init
  BY QueueInit
<1>2. RingInv /\ RingInv' /\ [Next]_vars => [RxQueue!Next]_(RxQueue!vars)
  BY QueueStep
<1> QED
  BY <1>1, <1>2, RingInvariant, PTL DEF Spec, ImplementsRxQueue, RxQueue!Spec

-----------------------------------------------------------------------------
(* Induction over a sequence of steps, with sets and functions in the place  *)
(* of operators.                                                             *)

LEMMA LeastElement ==
  ASSUME NEW S \in SUBSET Nat, S # {}
  PROVE  \E x \in S : \A y \in S : x <= y
<1> DEFINE R == OpToRel(<, Nat)
<1>1. IsWellFoundedOn(R, Nat)
  BY NatLessThanWellFounded
<1>2. \A x, y \in Nat : y < x => <<y, x>> \in R
  BY DEF OpToRel
<1> HIDE DEF R
<1>3. PICK x \in S : \A y \in S : ~ (<<y, x>> \in R)
  BY <1>1, WFMin
<1>4. \A y \in S : ~(y < x)
  BY <1>2, <1>3
<1> QED
  BY <1>4

\* What holds of 0 and passes on to the next number holds up to m.
LEMMA UpTo ==
  ASSUME NEW m \in Nat, NEW S, 0 \in S, \A i \in 0..m-1 : i \in S => i + 1 \in S
  PROVE  \A i \in 0..m : i \in S
<1> SUFFICES ASSUME NEW i \in 0..m, i \notin S PROVE FALSE
  OBVIOUS
<1> DEFINE T == {j \in 0..m : j \notin S}
<1>1. T \in SUBSET Nat /\ T # {}
  OBVIOUS
<1>2. PICK x \in T : \A y \in T : x <= y
  BY <1>1, LeastElement
<1>3. x \in 0..m /\ x \notin S /\ x # 0
  BY <1>2
<1>4. x - 1 \in 0..m-1 /\ x - 1 \notin T
  BY <1>2, <1>3
<1>5. x - 1 \in S
  BY <1>4
<1> QED
  BY <1>3, <1>4, <1>5

\* F takes each of m steps; g is the chain of values these steps make of v.
Steps(m, V, F) == F \in [1..m -> [V -> V]]
Chain(m, v, F, g) == g[0] = v /\ \A i \in 1..m : g[i] = F[i][g[i-1]]
ChainIn(m, V, g) == g \in [0..m -> V]

\* There is such a chain.
LEMMA Recursion ==
  ASSUME NEW m \in Nat, NEW V, NEW v \in V, NEW F, Steps(m, V, F)
  PROVE  \E g : ChainIn(m, V, g) /\ Chain(m, v, F, g)
<1> DEFINE Good(k, g) == g[0] = v /\ \A i \in 1..k : g[i] = F[i][g[i-1]]
           S == {k \in 0..m : \E g \in [0..k -> V] : Good(k, g)}
<1>0. F \in [1..m -> [V -> V]]
  BY DEF Steps
<1>1. 0 \in S
  <2>1. [j \in 0..0 |-> v] \in [0..0 -> V] /\ Good(0, [j \in 0..0 |-> v])
    OBVIOUS
  <2>2. 0 \in 0..m
    OBVIOUS
  <2> HIDE DEF Good
  <2> QED
    BY <2>1, <2>2
<1>2. ASSUME NEW k \in 0..m-1, k \in S PROVE k + 1 \in S
  <2>1. PICK g \in [0..k -> V] : Good(k, g)
    BY <1>2
  <2> DEFINE h == [j \in 0..k+1 |-> IF j <= k THEN g[j] ELSE F[k+1][g[k]]]
  <2>2. g[k] \in V /\ k + 1 \in 1..m /\ k \in 0..k /\ k + 1 \in 0..k+1
    OBVIOUS
  <2>3. F[k+1][g[k]] \in V
    BY <1>0, <2>2
  <2>4. h \in [0..k+1 -> V]
    BY <2>3
  <2>5. h[0] = v
    BY <2>1
  <2>6. ASSUME NEW i \in 1..k+1 PROVE h[i] = F[i][h[i-1]]
    <3>1. i - 1 \in 0..k /\ h[i-1] = g[i-1] /\ i \in 0..k+1
      OBVIOUS
    <3>2. CASE i <= k
      <4>1. i \in 1..k /\ h[i] = g[i]
        BY <3>1, <3>2
      <4> QED
        BY <2>1, <3>1, <4>1
    <3>3. CASE ~(i <= k)
      <4>1. i = k + 1 /\ h[i] = F[k+1][g[k]]
        BY <3>1, <3>3
      <4> QED
        BY <3>1, <4>1
    <3> QED
      BY <3>2, <3>3
  <2>7. k + 1 \in 0..m
    OBVIOUS
  <2> HIDE DEF h
  <2> QED
    BY <2>4, <2>5, <2>6, <2>7
<1>3. \A i \in 0..m : i \in S
  <2> HIDE DEF S
  <2> QED
    BY <1>1, <1>2, UpTo
<1>4. m \in 0..m
  OBVIOUS
<1>5. m \in S
  BY <1>3, <1>4
<1> QED
  BY <1>5 DEF Chain, ChainIn

\* And only one.
LEMMA RecursionUnique ==
  ASSUME NEW m \in Nat, NEW v, NEW F, NEW g, NEW h, Chain(m, v, F, g), Chain(m, v, F, h)
  PROVE  \A i \in 0..m : g[i] = h[i]
<1> DEFINE S == {i \in 0..m : g[i] = h[i]}
<1>1. 0 \in S
  BY DEF Chain
<1>2. ASSUME NEW i \in 0..m-1, i \in S PROVE i + 1 \in S
  <2>1. i + 1 \in 1..m /\ (i + 1) - 1 = i /\ g[i] = h[i]
    BY <1>2
  <2> QED
    BY <2>1 DEF Chain
<1>3. \A i \in 0..m : i \in S
  <2> HIDE DEF S
  <2> QED
    BY <1>1, <1>2, UpTo
<1> QED
  BY <1>3

-----------------------------------------------------------------------------
(* The CRC.                                                                  *)

LEMMA XorIsByte ==
  ASSUME NEW x \in Byte, NEW y \in Byte
  PROVE  Xor(x, y) \in Byte
  BY DEF Xor, Bit, Byte

LEMMA XorSame ==
  ASSUME NEW x \in Byte
  PROVE  Xor(x, x) = 0
  BY DEF Xor, Bit, Byte

LEMMA TableInBytes == \A x \in Byte : crc_array[x + 1] \in Byte
<1>1. \A i \in 1..256 : crc_array[i] \in Byte
  BY SMTT(60) DEF crc_array, Byte
<1>2. \A x \in Byte : x + 1 \in 1..256
  BY DEF Byte
<1> QED
  BY <1>1, <1>2

LEMMA UpdateIsByte ==
  ASSUME NEW x \in Byte, NEW y \in Byte
  PROVE  crc8_update(x, y) \in Byte /\ crc8_update(x, y) = DivideByte[Xor(x, y)]
  BY XorIsByte, TableInBytes, TableIsRemainder DEF crc8_update

\* The step of the division at byte i of s.
Divide(s) == [i \in 1..Len(s) |-> [x \in Byte |-> DivideByte[Xor(x, s[i])]]]

LEMMA DivideByteType == \A x \in Byte : DivideByte[x] \in Byte
  BY TableInBytes, TableIsRemainder

LEMMA DivideType ==
  ASSUME NEW s \in Seq(Byte)
  PROVE  Steps(Len(s), Byte, Divide(s))
<1>1. \A i \in 1..Len(s) : s[i] \in Byte
  BY LenProperties
<1>2. \A i \in 1..Len(s), x \in Byte : DivideByte[Xor(x, s[i])] \in Byte
  BY <1>1, XorIsByte, DivideByteType
<1> QED
  BY <1>2 DEF Divide, Steps

\* The remainder is the last value of the division.
LEMMA RemainderValue ==
  ASSUME NEW s \in Seq(Byte), NEW g, ChainIn(Len(s), Byte, g), Chain(Len(s), 0, Divide(s), g)
  PROVE  Remainder(s) = g[Len(s)] /\ Remainder(s) \in Byte
<1> DEFINE m == Len(s)
           Eq(f) == f = [i \in 0..m |-> IF i = 0 THEN 0 ELSE DivideByte[Xor(f[i-1], s[i])]]
           after == CHOOSE f : Eq(f)
<1>1. m \in Nat /\ g \in [0..m -> Byte] /\ g[0] = 0
  BY DEF Chain, ChainIn
<1>2. \A i \in 1..m : g[i] = DivideByte[Xor(g[i-1], s[i])]
  <2>1. \A i \in 1..m : i - 1 \in 0..m /\ g[i-1] \in Byte
    BY <1>1
  <2>2. \A i \in 1..m : Divide(s)[i] = [x \in Byte |-> DivideByte[Xor(x, s[i])]]
    BY DEF Divide
  <2> QED
    BY <2>1, <2>2 DEF Chain
<1>3. Eq(g)
  BY <1>1, <1>2
<1>4. Eq(after)
  BY <1>3
<1>5. Remainder(s) = after[m]
  BY DEF Remainder
<1> HIDE DEF after
<1>6. after[0] = 0 /\ \A i \in 1..m : after[i] = DivideByte[Xor(after[i-1], s[i])]
  BY <1>1, <1>4
<1> DEFINE S == {i \in 0..m : after[i] = g[i]}
<1>7. 0 \in S
  BY <1>1, <1>6
<1>8. ASSUME NEW i \in 0..m-1, i \in S PROVE i + 1 \in S
  <2>1. i + 1 \in 1..m /\ (i + 1) - 1 = i /\ after[i] = g[i]
    BY <1>1, <1>8
  <2> QED
    BY <1>2, <1>6, <2>1
<1>9. \A i \in 0..m : i \in S
  <2> HIDE DEF S
  <2> QED
    BY <1>1, <1>7, <1>8, UpTo
<1> QED
  BY <1>1, <1>5, <1>9

LEMMA DivisionExists ==
  ASSUME NEW s \in Seq(Byte)
  PROVE  \E g : ChainIn(Len(s), Byte, g) /\ Chain(Len(s), 0, Divide(s), g)
<1>1. Len(s) \in Nat /\ 0 \in Byte
  BY DEF Byte
<1> QED
  BY <1>1, DivideType, Recursion

\* One more byte is one more step of the division.
LEMMA RemainderStep ==
  ASSUME NEW s \in Seq(Byte), NEW b \in Byte
  PROVE  /\ Remainder(s) \in Byte
         /\ Remainder(Append(s, b)) = crc8_update(Remainder(s), b)
<1> DEFINE m == Len(s)
           t == Append(s, b)
<1>1. m \in Nat /\ t \in Seq(Byte) /\ Len(t) = m + 1 /\ t[m + 1] = b /\ \A i \in 1..m : t[i] = s[i]
  BY AppendProperties
<1>2. PICK g : ChainIn(m, Byte, g) /\ Chain(m, 0, Divide(s), g)
  BY DivisionExists
<1> HIDE DEF t
<1>3. PICK h : ChainIn(m + 1, Byte, h) /\ Chain(m + 1, 0, Divide(t), h)
  BY <1>1, DivisionExists
<1>4. Remainder(s) = g[m] /\ Remainder(s) \in Byte
  BY <1>2, RemainderValue
<1>5. Remainder(t) = h[m + 1]
  BY <1>1, <1>3, RemainderValue
<1>6. Chain(m, 0, Divide(s), h)
  <2>1. \A i \in 1..m : Divide(t)[i] = Divide(s)[i]
    BY <1>1 DEF Divide
  <2> QED
    BY <1>1, <1>3, <2>1 DEF Chain
<1>7. h[m] = g[m]
  <2>1. \A i \in 0..m : h[i] = g[i]
    BY <1>1, <1>2, <1>6, RecursionUnique
  <2> QED
    BY <1>1, <2>1
<1>8. h[m + 1] = DivideByte[Xor(h[m], b)]
  <2>1. m + 1 \in 1..m+1 /\ (m + 1) - 1 = m
    BY <1>1
  <2>2. Divide(t)[m + 1] = [x \in Byte |-> DivideByte[Xor(x, b)]]
    BY <1>1, <2>1 DEF Divide
  <2>3. h[m] \in Byte
    BY <1>4, <1>7
  <2> QED
    BY <1>3, <2>1, <2>2, <2>3 DEF Chain
<1> QED
  BY <1>4, <1>5, <1>7, <1>8, UpdateIsByte DEF t

LEMMA RemainderEmpty == Remainder(<<>>) = 0
<1>1. <<>> \in Seq(Byte) /\ Len(<<>>) = 0
  OBVIOUS
<1>2. PICK g : ChainIn(0, Byte, g) /\ Chain(0, 0, Divide(<<>>), g)
  BY <1>1, DivisionExists
<1> QED
  BY <1>1, <1>2, RemainderValue DEF Chain

-----------------------------------------------------------------------------
(* Type correctness.  A byte is stored where the index points, so the index  *)
(* may not run ahead of the stored bytes before the buffer is full.          *)

FramePart ==
  /\ state \in {"IDLE", "GET_LEN", "COLLECT"}
  /\ paket \in Seq(Byte) /\ Len(paket) <= PaketSize
  /\ index \in Byte /\ crc \in Byte
  /\ state = "COLLECT" => paket # <<>> /\ (index <= Len(paket) \/ Len(paket) = PaketSize)

RawPart ==
  /\ raw = <<>> \/ raw \in [1..1 -> Cells]
  /\ pc = "wrap" => raw # <<>>

BusPart ==
  /\ line \in Lines
  /\ calm \in 0..InStep /\ lost \in 0..MaxLost /\ clean \in BOOLEAN

CellByte == \A c \in Cells : c.byte \in Byte /\ c.byte \in BusBytes /\ c.id \in {0, 1}

LEMMA CellsHoldBytes == CellByte
  BY BusAssumption DEF Cells, CellByte

LEMMA StoredBytes ==
  ASSUME FramePart, state = "COLLECT", index < PaketSize, NEW b \in Byte
  PROVE  /\ Stored(b) \in Seq(Byte) /\ Stored(b) # <<>>
         /\ Len(Stored(b)) = IF index < Len(paket) THEN Len(paket) ELSE index + 1
         /\ Len(Stored(b)) <= PaketSize
<1>1. paket \in Seq(Byte) /\ Len(paket) \in Nat /\ Len(paket) >= 1 /\ index \in Nat
  BY EmptySeq, LenProperties DEF FramePart, Byte
<1>2. CASE index < Len(paket)
  <2>1. index + 1 \in 1..Len(paket)
    BY <1>1, <1>2
  <2>2. Stored(b) = [paket EXCEPT ![index + 1] = b]
    BY <1>2 DEF Stored
  <2> QED
    BY <1>1, <1>2, <2>1, <2>2, ExceptSeq DEF FramePart
<1>3. CASE ~(index < Len(paket))
  <2>1. index = Len(paket)
    BY <1>1, <1>3, RxSizesAssumption DEF FramePart
  <2>2. Stored(b) = Append(paket, b)
    BY <1>3 DEF Stored
  <2> QED
    BY <1>1, <2>1, <2>2, AppendProperties, RxSizesAssumption
<1> QED
  BY <1>2, <1>3

LEMMA NextIndex ==
  ASSUME NEW i \in Byte
  PROVE  (i + 1) % 256 \in Byte /\ (i + 1) % 256 <= i + 1 /\ i \in Nat
  BY DEF Byte

LEMMA FrameKept ==
  ASSUME FramePart, NEW id \in {0, 1}, NEW b \in Byte, Assemble(id, b)
  PROVE  FramePart'
<1>0. PaketSize \in 2..128 /\ 0 \in Byte /\ <<>> \in Seq(Byte) /\ Len(<<>>) = 0
  BY RxSizesAssumption DEF Byte
<1>1. CASE Idle(id, b)
  BY <1>1 DEF Idle, FramePart
<1>2. CASE GetLength(id, b)
  <2>1. <<b>> \in Seq(Byte) /\ Len(<<b>>) = 1 /\ <<b>> # <<>>
    OBVIOUS
  <2>2. crc_array[b + 1] \in Byte /\ 1 \in Byte
    <3>1. crc_array[b + 1] \in Byte
      BY TableInBytes
    <3> QED
      BY <3>1 DEF Byte
  <2>3. state' = "COLLECT" /\ paket' = <<b>> /\ index' = 1 /\ crc' = crc_array[b + 1]
    BY <1>2 DEF GetLength
  <2> QED
    BY <1>0, <2>1, <2>2, <2>3 DEF FramePart
<1>3. CASE NoLength(id, b)
  BY <1>3 DEF NoLength, FramePart
<1>4. CASE CollectByte(b)
  <2>1. /\ state = "COLLECT" /\ state' = "COLLECT"
        /\ paket' = IF index < PaketSize THEN Stored(b) ELSE paket
        /\ crc' = crc8_update(crc, b) /\ index' = (index + 1) % 256
    BY <1>4 DEF CollectByte
  <2>2. crc' \in Byte
    BY <2>1, UpdateIsByte DEF FramePart
  <2>3. index' \in Byte /\ index' <= index + 1 /\ index \in Nat
    BY <2>1, NextIndex DEF FramePart
  <2>4. CASE index < PaketSize
    <3> DEFINE t == Stored(b)
    <3>1. /\ t \in Seq(Byte) /\ t # <<>> /\ Len(t) <= PaketSize /\ Len(t) \in Nat
          /\ Len(t) = IF index < Len(paket) THEN Len(paket) ELSE index + 1
      BY <2>1, <2>4, StoredBytes, LenProperties
    <3>2. paket' = t /\ Len(paket) \in Nat
      BY <2>1, <2>4, LenProperties DEF FramePart
    <3> HIDE DEF t
    <3>3. index' <= Len(t)
      BY <2>3, <3>1, <3>2 DEF Byte
    <3> QED
      BY <2>1, <2>2, <2>3, <3>1, <3>2, <3>3 DEF FramePart
  <2>5. CASE ~(index < PaketSize)
    <3>1. paket' = paket /\ Len(paket) = PaketSize
      BY <1>0, <2>1, <2>3, <2>5, LenProperties DEF FramePart
    <3> QED
      BY <2>1, <2>2, <2>3, <3>1 DEF FramePart
  <2> QED
    BY <2>4, <2>5
<1>5. CASE PacketDone(b) \/ PacketDropped(b)
  <2>1. state' = "IDLE" /\ paket' = <<>> /\ index' = 0 /\ crc' = 0
    BY <1>5 DEF PacketDone, PacketDropped, FrameEnds
  <2> QED
    BY <1>0, <2>1 DEF FramePart
<1> QED
  BY <1>1, <1>2, <1>3, <1>4, <1>5 DEF Assemble

\* What is left of a transmission after a word is what is left of it too.
LEMMA TailLeft ==
  ASSUME NEW l \in Lines, l # <<>>
  PROVE  Tail(l) \in Lines
<1>1. PICK t \in Transmissions : l \in {SubSeq(t.words, i, Len(t.words)) : i \in 1..Len(t.words)}
  BY DEF Lines
<1>2. PICK i \in 1..Len(t.words) : l = SubSeq(t.words, i, Len(t.words))
  BY <1>1
<1> DEFINE w == t.words
           n == Len(w)
<1>3. w \in Seq(BusWords) /\ n \in Nat /\ i \in 1..n /\ l = SubSeq(w, i, n)
  <2>1. w \in Seq(BusWords)
    BY BusAssumption DEF BusWords
  <2>2. n \in Nat
    BY <2>1, LenProperties
  <2> QED
    BY <1>2, <2>1, <2>2
<1> HIDE DEF w
<1>4. \A j \in i..n : w[j] \in BusWords
  BY <1>3, LenProperties
<1>5. /\ l \in Seq(BusWords) /\ Len(l) = IF i <= n THEN n - i + 1 ELSE 0
      /\ \A j \in 1..n-i+1 : l[j] = w[i + j - 1]
  BY <1>3, <1>4, SubSeqProperties
<1>6. i <= n
  BY <1>3
<1>7. i + 1 \in 1..n+1
  BY <1>3
<1> DEFINE r == SubSeq(w, i + 1, n)
<1>8. /\ r \in Seq(BusWords) /\ Len(r) = n - i
      /\ \A j \in 1..n-i : r[j] = w[i + j]
  <2>1. \A j \in i+1..n : w[j] \in BusWords
    BY <1>3, <1>4
  <2>2. /\ r \in Seq(BusWords) /\ Len(r) = IF i + 1 <= n THEN n - (i + 1) + 1 ELSE 0
        /\ \A j \in 1..n-(i+1)+1 : r[j] = w[(i + 1) + j - 1]
    BY <1>3, <1>7, <2>1, SubSeqProperties
  <2>3. \A j \in 1..n-i : j \in 1..n-(i+1)+1 /\ (i + 1) + j - 1 = i + j
    BY <1>3
  <2> HIDE DEF r
  <2> QED
    BY <1>3, <1>6, <2>2, <2>3
<1>9. /\ Tail(l) \in Seq(BusWords) /\ Len(Tail(l)) = n - i
      /\ \A j \in 1..n-i : Tail(l)[j] = l[j + 1]
  BY <1>3, <1>5, <1>6, HeadTailProperties
<1>10. \A j \in 1..n-i : Tail(l)[j] = r[j]
  <2>1. \A j \in 1..n-i : j + 1 \in 1..n-i+1 /\ i + (j + 1) - 1 = i + j
    BY <1>3
  <2> QED
    BY <1>5, <1>8, <1>9, <2>1
<1>11. Tail(l) = r
  BY <1>8, <1>9, <1>10, SeqEqual
<1>12. CASE i = n
  <2>1. Len(Tail(l)) = 0
    BY <1>3, <1>9, <1>12
  <2>2. Tail(l) = <<>>
    BY <1>9, <2>1, EmptySeq
  <2> QED
    BY <2>2 DEF Lines
<1>13. CASE i # n
  <2>1. i + 1 \in 1..n
    BY <1>3, <1>13
  <2>2. Tail(l) \in {SubSeq(t.words, j, Len(t.words)) : j \in 1..Len(t.words)}
    BY <1>11, <2>1 DEF w
  <2> QED
    BY <2>2 DEF Lines
<1> QED
  BY <1>12, <1>13

RxTypes == RingInv /\ FramePart /\ RawPart /\ BusPart

LEMMA BusSizes == MaxLost \in Nat /\ InStep \in Nat
  BY BusAssumption

LEMMA RxTypesInit == Init => RxTypes
<1> SUFFICES ASSUME Init PROVE RxTypes
  OBVIOUS
<1>1. FramePart
  BY RxSizesAssumption DEF Init, FramePart, Byte
<1>2. <<>> \in Lines
  BY DEF Lines
<1>3. BusPart
  <2>1. line \in Lines /\ calm = InStep /\ lost = 0 /\ clean = FALSE
    BY <1>2 DEF Init
  <2>2. calm \in 0..InStep /\ lost \in 0..MaxLost
    BY <2>1, BusSizes
  <2> QED
    BY <2>1, <2>2 DEF BusPart
<1>4. RawPart
  BY DEF Init, RawPart
<1> QED
  BY <1>1, <1>3, <1>4, RingInit DEF RxTypes

\* The word at hand, and how each step that assembles one does.
LEMMA Assembling ==
  ASSUME RxTypes, ReadWord \/ WrapRead
  PROVE  \E c \in Cells : /\ raw' = <<c>> /\ Assemble(c.id, c.byte)
                          /\ pc' = "loop" /\ UNCHANGED busVars
<1>1. CASE ReadWord
  <2>1. rxRead \in Slots
    BY <1>1 DEF RxTypes, RingInv, ReadWord
  <2>2. rxBuf[rxRead] \in Cells
    BY <2>1 DEF RxTypes, RingInv
  <2> QED
    BY <1>1, <2>2 DEF ReadWord
<1>2. CASE WrapRead
  <2>1. raw \in [1..1 -> Cells]
    BY <1>2 DEF RxTypes, RawPart, WrapRead
  <2>2. raw[1] \in Cells /\ raw = <<raw[1]>>
    BY <2>1
  <2> QED
    BY <1>2, <2>2 DEF WrapRead
<1> QED
  BY <1>1, <1>2

LEMMA BusKept ==
  ASSUME BusPart, RingInv, WordArrives \/ WordDamaged
  PROVE  BusPart' /\ UNCHANGED <<pc, raw, frameVars>>
<1>1. /\ line # <<>> /\ line' = Tail(line) /\ UNCHANGED <<pc, raw, frameVars>>
      /\ \E intact \in BOOLEAN :
           /\ intact \/ lost < MaxLost
           /\ calm' = IF ~intact THEN 0 ELSE IF calm < InStep THEN calm + 1 ELSE calm
           /\ lost' = IF ~intact THEN lost + 1 ELSE IF calm + 1 >= InStep THEN 0 ELSE lost
           /\ clean' = (clean /\ intact)
  <2>1. HasRoom \in BOOLEAN
    BY DEF HasRoom
  <2> QED
    BY <2>1 DEF WordArrives, WordDamaged, Transmit
<1>2. line' \in Lines
  BY <1>1, TailLeft DEF BusPart
<1>3. calm' \in 0..InStep /\ lost' \in 0..MaxLost
  BY <1>1, BusSizes DEF BusPart
<1>4. clean' \in BOOLEAN
  BY <1>1
<1> QED
  BY <1>1, <1>2, <1>3, <1>4 DEF BusPart

LEMMA RxTypesStep == RxTypes /\ [Next]_vars => RxTypes'
<1> SUFFICES ASSUME RxTypes, [Next]_vars PROVE RxTypes'
  OBVIOUS
<1>0. RingInv'
  BY RingStep DEF RxTypes
<1>1. CASE Talk
  <2>1. PICK t \in Transmissions : line' = t.words
    BY <1>1 DEF Talk
  <2> DEFINE w == t.words
  <2>2. w \in Seq(BusWords)
    BY BusAssumption DEF BusWords
  <2>3. w \in Lines
    <3>1. CASE w = <<>>
      BY <3>1 DEF Lines
    <3>2. CASE w # <<>>
      <4> HIDE DEF w
      <4>1. Len(w) \in Nat \ {0}
        BY <2>2, <3>2, EmptySeq
      <4>2. \A j \in 1..Len(w) : w[j] \in BusWords
        BY <2>2, LenProperties
      <4>3. /\ SubSeq(w, 1, Len(w)) \in Seq(BusWords)
            /\ Len(SubSeq(w, 1, Len(w))) = Len(w)
            /\ \A j \in 1..Len(w) : SubSeq(w, 1, Len(w))[j] = w[j]
        <5>1. /\ SubSeq(w, 1, Len(w)) \in Seq(BusWords)
              /\ Len(SubSeq(w, 1, Len(w))) = IF 1 <= Len(w) THEN Len(w) - 1 + 1 ELSE 0
              /\ \A j \in 1..Len(w)-1+1 : SubSeq(w, 1, Len(w))[j] = w[1 + j - 1]
          BY <4>1, <4>2, SubSeqProperties
        <5>2. \A j \in 1..Len(w) : 1 + j - 1 = j /\ j \in 1..Len(w)-1+1
          BY <4>1
        <5> QED
          BY <4>1, <5>1, <5>2
      <4>4. w = SubSeq(w, 1, Len(w))
        BY <2>2, <4>3, SeqEqual
      <4>5. 1 \in 1..Len(w)
        BY <4>1
      <4> QED
        BY <4>4, <4>5 DEF Lines, w
    <3> QED
      BY <3>1, <3>2
  <2> QED
    BY <1>0, <1>1, <2>1, <2>3
       DEF Talk, RxTypes, FramePart, RawPart, BusPart, frameVars
<1>2. CASE WordArrives \/ WordDamaged
  BY <1>0, <1>2, BusKept DEF RxTypes, FramePart, RawPart, frameVars
<1>3. CASE ReadWord \/ WrapRead
  <2>1. PICK c \in Cells : /\ raw' = <<c>> /\ Assemble(c.id, c.byte)
                           /\ pc' = "loop" /\ UNCHANGED busVars
    BY <1>3, Assembling
  <2>2. FramePart'
    BY <2>1, FrameKept, CellsHoldBytes DEF RxTypes, CellByte
  <2>3. RawPart'
    BY <2>1 DEF RawPart
  <2> QED
    BY <1>0, <2>1, <2>2, <2>3 DEF RxTypes, BusPart, busVars
<1>4. CASE ReadLast
  <2>1. rxRead \in Slots
    BY <1>4 DEF RxTypes, RingInv, ReadLast
  <2>2. raw' = <<rxBuf[rxRead]>> /\ rxBuf[rxRead] \in Cells
    BY <1>4, <2>1 DEF RxTypes, RingInv, ReadLast
  <2>3. RawPart'
    BY <2>2 DEF RawPart
  <2> QED
    BY <1>0, <1>4, <2>3 DEF ReadLast, RxTypes, FramePart, BusPart, frameVars, busVars
<1>5. CASE ResetAssembler
  <2>1. FramePart'
    BY <1>5, RxSizesAssumption DEF ResetAssembler, FramePart, Byte
  <2> QED
    BY <1>0, <1>5, <2>1 DEF ResetAssembler, RxTypes, RawPart, BusPart, busVars
<1>6. CASE FlushRx
  <2>1. BusPart'
    <3>1. line' = line /\ calm' = 0 /\ lost' = lost + 1 /\ lost < MaxLost /\ clean' = FALSE
      BY <1>6 DEF FlushRx
    <3>2. calm' \in 0..InStep /\ lost' \in 0..MaxLost
      BY <3>1, BusSizes DEF RxTypes, BusPart
    <3> QED
      BY <3>1, <3>2 DEF RxTypes, BusPart
  <2> QED
    BY <1>0, <1>6, <2>1 DEF FlushRx, RxTypes, FramePart, RawPart, frameVars
<1>7. CASE UNCHANGED vars
  BY <1>0, <1>7 DEF vars, frameVars, busVars, RxTypes, FramePart, RawPart, BusPart
<1> QED
  BY <1>1, <1>2, <1>3, <1>4, <1>5, <1>6, <1>7 DEF Next, Bus, Loop

LEMMA RxTypesInvariant == Spec => []RxTypes
  BY RxTypesInit, RxTypesStep, PTL DEF Spec

(***************************************************************************)
(* Whatever the bus brings and however the build stores the read index, no  *)
(* index leaves its array: a byte is stored only in bidib_rx_paket's 64,    *)
(* and behind the bytes already stored (bidib_client_parser.c:845-854,      *)
(* bidib_client_if.c:92-115, 231-237).                                      *)
(***************************************************************************)
THEOREM TypeCorrect == Spec => []TypeOK
<1>1. RxTypes => TypeOK
  BY DEF RxTypes, RingInv, FramePart, RawPart, BusPart, TypeOK, Slots, N
<1> QED
  BY <1>1, RxTypesInvariant, PTL

-----------------------------------------------------------------------------
(* The CRC register.                                                         *)

\* The packet at hand has not a length the index of eight bits never exceeds.
Below255 == state = "COLLECT" => P_LENGTH # 255

LEMMA XorZero ==
  ASSUME NEW x \in Byte
  PROVE  Xor(0, x) = x
  BY DEF Xor, Bit, Byte

LEMMA FirstRemainder ==
  ASSUME NEW b \in Byte
  PROVE  Remainder(<<b>>) = crc_array[b + 1]
<1>1. <<>> \in Seq(Byte) /\ Append(<<>>, b) = <<b>>
  OBVIOUS
<1>2. Remainder(<<b>>) = crc8_update(0, b)
  BY <1>1, RemainderStep, RemainderEmpty
<1> QED
  BY <1>2, XorZero DEF crc8_update

RegisterPart ==
  state = "COLLECT" =>
    /\ paket[1] \in 1..255 /\ index \in 1..paket[1]+1
    /\ Len(paket) = IF index < PaketSize THEN index ELSE PaketSize
    /\ index <= PaketSize => crc = Remainder(paket)

LEMMA NoWrap ==
  ASSUME NEW i \in 1..254
  PROVE  (i + 1) % 256 = i + 1
  OBVIOUS

LEMMA RegisterKept ==
  ASSUME Below255, FramePart, RegisterPart, NEW c \in Cells, Assemble(c.id, c.byte)
  PROVE  RegisterPart'
<1> DEFINE b == c.byte
<1>0. b \in Byte /\ b \in BusBytes /\ PaketSize \in 2..128
  BY CellsHoldBytes, RxSizesAssumption DEF CellByte
<1>1. CASE GetLength(c.id, b)
  <2>1. b \in 1..255
    <3>1. b > 0
      BY <1>1 DEF GetLength
    <3> HIDE DEF b
    <3> QED
      BY <1>0, <3>1 DEF Byte
  <2>2. state' = "COLLECT" /\ paket' = <<b>> /\ index' = 1 /\ crc' = crc_array[b + 1]
    BY <1>1 DEF GetLength
  <2>3. Remainder(<<b>>) = crc_array[b + 1]
    BY <1>0, FirstRemainder
  <2>4. <<b>>[1] = b /\ Len(<<b>>) = 1
    OBVIOUS
  <2> HIDE DEF b
  <2> QED
    BY <1>0, <2>1, <2>2, <2>3, <2>4 DEF RegisterPart
<1>2. CASE CollectByte(b)
  <2>1. /\ state = "COLLECT" /\ index <= paket[1]
        /\ paket' = IF index < PaketSize THEN Stored(b) ELSE paket
        /\ crc' = crc8_update(crc, b) /\ index' = (index + 1) % 256
    BY <1>2 DEF CollectByte, P_LENGTH
  <2>2. /\ paket[1] \in 1..254 /\ index \in 1..254
        /\ Len(paket) = IF index < PaketSize THEN index ELSE PaketSize
        /\ index <= PaketSize => crc = Remainder(paket)
    <3> DEFINE n == paket[1]
    <3>1. /\ n \in 1..255 /\ n # 255 /\ index \in 1..n+1 /\ index <= n
          /\ Len(paket) = IF index < PaketSize THEN index ELSE PaketSize
          /\ index <= PaketSize => crc = Remainder(paket)
      BY <2>1 DEF RegisterPart, Below255, P_LENGTH
    <3> HIDE DEF n
    <3>2. index \in 1..254
      BY <3>1
    <3> QED
      BY <3>1, <3>2 DEF n
  <2>3. index' = index + 1 /\ index + 1 \in 1..paket[1]+1
    <3> DEFINE n == paket[1]
    <3>1. n \in 1..254 /\ index <= n
      BY <2>1, <2>2
    <3> HIDE DEF n
    <3>2. index \in 1..254 /\ index' = (index + 1) % 256
      BY <2>1, <2>2
    <3>3. index' = index + 1
      BY <3>2, NoWrap
    <3>4. index + 1 \in 1..n+1
      BY <3>1, <3>2
    <3> QED
      BY <3>3, <3>4 DEF n
  <2>4. CASE index < PaketSize
    <3>1. paket' = Append(paket, b) /\ crc = Remainder(paket)
      BY <1>0, <2>1, <2>2, <2>4 DEF Stored
    <3>2. crc' = Remainder(paket')
      BY <1>0, <2>1, <3>1, RemainderStep DEF FramePart
    <3>3. paket'[1] = paket[1] /\ Len(paket') = index + 1
      BY <1>0, <2>2, <2>4, <3>1, AppendProperties DEF FramePart
    <3>4. Len(paket') = IF index' < PaketSize THEN index' ELSE PaketSize
      BY <1>0, <2>2, <2>3, <2>4, <3>3
    <3>5. paket'[1] \in 1..255 /\ index' \in 1..paket'[1]+1
      BY <2>2, <2>3, <3>3
    <3> QED
      BY <3>2, <3>4, <3>5 DEF RegisterPart
  <2>5. CASE ~(index < PaketSize)
    <3>1. paket' = paket
      BY <2>1, <2>5
    <3>2. Len(paket') = IF index' < PaketSize THEN index' ELSE PaketSize
      BY <1>0, <2>2, <2>3, <2>5, <3>1
    <3>3. ~(index' <= PaketSize)
      BY <1>0, <2>2, <2>3, <2>5
    <3>4. paket'[1] \in 1..255 /\ index' \in 1..paket'[1]+1
      BY <2>2, <2>3, <3>1
    <3> QED
      BY <3>2, <3>3, <3>4 DEF RegisterPart
  <2> QED
    BY <2>4, <2>5
<1>3. CASE Idle(c.id, b) \/ NoLength(c.id, b) \/ PacketDone(b) \/ PacketDropped(b)
  BY <1>3 DEF Idle, NoLength, PacketDone, PacketDropped, FrameEnds, RegisterPart
<1> QED
  BY <1>1, <1>2, <1>3 DEF Assemble

LEMMA RegisterStep ==
  ASSUME Below255, RxTypes, RegisterPart, [Next]_vars
  PROVE  RegisterPart'
<1>1. CASE ReadWord \/ WrapRead
  <2>1. PICK c \in Cells : Assemble(c.id, c.byte)
    BY <1>1, Assembling
  <2> QED
    BY <2>1, RegisterKept DEF RxTypes
<1>2. CASE ResetAssembler
  BY <1>2 DEF ResetAssembler, RegisterPart
<1>3. CASE UNCHANGED frameVars
  BY <1>3 DEF frameVars, RegisterPart
<1>4. CASE WordArrives \/ WordDamaged
  BY <1>3, <1>4, BusKept DEF RxTypes
<1> QED
  BY <1>1, <1>2, <1>3, <1>4 DEF Next, Bus, Loop, Talk, ReadLast, FlushRx, vars

(***************************************************************************)
(* As long as no packet has the length 255, which no index of eight bits    *)
(* exceeds, the CRC register of a packet being collected is the remainder   *)
(* of the bytes stored of it, whatever was lost or damaged before           *)
(* (bidib_client_parser.c:827, 853; crc_8bit.c).                            *)
(***************************************************************************)
THEOREM RegisterIsRemainder == Spec /\ []Below255 => []CrcIsRemainder
<1>1. Init => RegisterPart
  BY DEF Init, RegisterPart
<1>2. RxTypes /\ Below255 /\ RegisterPart /\ [Next]_vars => RegisterPart'
  BY RegisterStep
<1>3. RegisterPart => CrcIsRemainder
  BY DEF RegisterPart, CrcIsRemainder
<1> QED
  BY <1>1, <1>2, <1>3, RxTypesInvariant, PTL DEF Spec

-----------------------------------------------------------------------------
(* A packet's bytes, and the messages found in them.                         *)

\* g adds up the messages of p.
Joins(p, g) ==
  /\ g \in [0..Len(p) -> Seq(Byte)]
  /\ g[0] = <<>> /\ g[Len(p)] = Data(p)
  /\ \A i \in 1..Len(p) : g[i] = g[i-1] \o p[i]

Joining(p) == [i \in 1..Len(p) |-> [x \in Seq(Byte) |-> x \o p[i]]]

LEMMA DataJoins ==
  ASSUME NEW p \in Seq(Seq(Byte))
  PROVE  \E g : Joins(p, g)
<1> DEFINE m == Len(p)
           V == Seq(Byte)
           Eq(f) == f = [i \in 0..m |-> IF i = 0 THEN <<>> ELSE f[i-1] \o p[i]]
           joined == CHOOSE f : Eq(f)
<1>1. m \in Nat /\ \A i \in 1..m : p[i] \in V
  BY LenProperties
<1>2. \A i \in 1..m : \A x \in V : x \o p[i] \in V
  BY <1>1, ConcatProperties
<1>3. Steps(m, V, Joining(p))
  BY <1>2 DEF Steps, Joining
<1>4. <<>> \in V
  OBVIOUS
<1> HIDE DEF V
<1>5. PICK g : ChainIn(m, V, g) /\ Chain(m, <<>>, Joining(p), g)
  BY <1>1, <1>3, <1>4, Recursion
<1>6. g \in [0..m -> V] /\ g[0] = <<>>
  BY <1>5 DEF Chain, ChainIn
<1> HIDE DEF m
<1>7. \A i \in 1..m : g[i] = g[i-1] \o p[i]
  <2>1. \A i \in 1..m : i - 1 \in 0..m /\ g[i-1] \in V
    BY <1>1, <1>6
  <2>2. \A i \in 1..m : Joining(p)[i] = [x \in V |-> x \o p[i]]
    BY DEF Joining, V, m
  <2> QED
    BY <1>5, <2>1, <2>2 DEF Chain
<1>8. Eq(g)
  BY <1>1, <1>6, <1>7
<1>9. Eq(joined)
  BY <1>8
<1>10. Data(p) = joined[m]
  BY DEF Data, m
<1> HIDE DEF joined
<1>11. joined[0] = <<>> /\ \A i \in 1..m : joined[i] = joined[i-1] \o p[i]
  BY <1>1, <1>9
<1> DEFINE S == {i \in 0..m : joined[i] = g[i]}
<1>12. 0 \in S
  BY <1>1, <1>6, <1>11
<1>13. ASSUME NEW i \in 0..m-1, i \in S PROVE i + 1 \in S
  <2>1. i + 1 \in 1..m /\ (i + 1) - 1 = i /\ joined[i] = g[i]
    BY <1>1, <1>13
  <2>2. g[i + 1] = g[i] \o p[i + 1]
    BY <1>7, <2>1
  <2>3. joined[i + 1] = joined[i] \o p[i + 1]
    BY <1>11, <2>1
  <2>4. i + 1 \in 0..m
    BY <1>1
  <2> QED
    BY <2>1, <2>2, <2>3, <2>4
<1>14. \A i \in 0..m : i \in S
  <2> HIDE DEF S
  <2> QED
    BY <1>1, <1>12, <1>13, UpTo
<1>15. g[m] = Data(p)
  BY <1>1, <1>10, <1>14
<1> QED
  BY <1>6, <1>7, <1>15 DEF Joins, V, m

\* What was added up early begins the whole.
LEMMA JoinsBegin ==
  ASSUME NEW p \in Seq(Seq(Byte)), NEW g, Joins(p, g), NEW n \in 0..Len(p)
  PROVE  /\ g[n] \in Seq(Byte) /\ Len(g[n]) \in Nat /\ Len(g[n]) <= Len(Data(p))
         /\ \A t \in 1..Len(g[n]) : Data(p)[t] = g[n][t]
<1> DEFINE m == Len(p)
           d == Data(p)
           Good(i) == Len(g[i]) <= Len(d) /\ \A t \in 1..Len(g[i]) : d[t] = g[i][t]
           S == {j \in 0..m : Good(m - j)}
<1>1. m \in Nat /\ \A i \in 1..m : p[i] \in Seq(Byte)
  BY LenProperties
<1>2. /\ g \in [0..m -> Seq(Byte)] /\ g[m] = d
      /\ \A i \in 1..m : g[i] = g[i-1] \o p[i]
  BY DEF Joins
<1> HIDE DEF d
<1>3. 0 \in S
  <2>1. m - 0 = m /\ m \in 0..m /\ 0 \in 0..m
    BY <1>1
  <2>2. Len(d) \in Nat
    BY <1>2, <2>1, LenProperties
  <2> QED
    BY <1>2, <2>1, <2>2
<1>4. ASSUME NEW j \in 0..m-1, j \in S PROVE j + 1 \in S
  <2> DEFINE i == m - j
             a == g[i - 1]
             b == p[i]
  <2>1. i \in 1..m /\ i - 1 \in 0..m /\ i \in 0..m /\ m - (j + 1) = i - 1 /\ j + 1 \in 0..m
    BY <1>1
  <2>2. a \in Seq(Byte) /\ b \in Seq(Byte) /\ g[i] = a \o b
    BY <1>1, <1>2, <2>1
  <2>3. Good(i)
    BY <1>4
  <2>4. Good(i - 1)
    <3> HIDE DEF a, b, i
    <3>1. /\ Len(a) \in Nat /\ Len(a \o b) = Len(a) + Len(b) /\ Len(b) \in Nat
          /\ \A t \in 1..Len(a) : (a \o b)[t] = a[t]
      BY <2>2, ConcatProperties, LenProperties
    <3>2. Len(g[i]) <= Len(d) /\ \A t \in 1..Len(g[i]) : d[t] = g[i][t]
      BY <2>3
    <3>3. Len(a) <= Len(d)
      <4>1. Len(d) \in Nat
        BY <1>1, <1>2, LenProperties
      <4> QED
        BY <2>2, <3>1, <3>2, <4>1
    <3>4. ASSUME NEW t \in 1..Len(a) PROVE d[t] = a[t]
      <4>1. t \in 1..Len(g[i])
        BY <2>2, <3>1
      <4> QED
        BY <2>2, <3>1, <3>2, <4>1
    <3> QED
      BY <3>3, <3>4 DEF a
  <2> QED
    BY <2>1, <2>4
<1>5. \A j \in 0..m : j \in S
  <2> HIDE DEF S
  <2> QED
    BY <1>1, <1>3, <1>4, UpTo
<1>6. m - n \in 0..m /\ m - (m - n) = n
  BY <1>1
<1>7. Good(n)
  <2>1. m - n \in S
    BY <1>5, <1>6
  <2> HIDE DEF Good
  <2> QED
    BY <1>6, <2>1
<1>8. g[n] \in Seq(Byte) /\ Len(g[n]) \in Nat
  BY <1>2, LenProperties
<1> QED
  BY <1>7, <1>8 DEF d

-----------------------------------------------------------------------------
\* The walk over a packet: where it stops, the message at a place, where the
\* next one begins.
Walks(Stops, Overs, M, NextAt, f) ==
  \A i \in 1..256 :
    f[i] = IF i \in Stops THEN <<>>
           ELSE <<M[i]>> \o (IF i \in Overs THEN <<>> ELSE f[NextAt[i]])

GoesOn(Stops, Overs, NextAt) ==
  \A i \in 1..256 : i \notin Stops /\ i \notin Overs => NextAt[i] \in i+1..256

\* Such a walk exists, since it only goes on.
LEMMA WalkExists ==
  ASSUME NEW Stops, NEW Overs, NEW M, NEW NextAt, GoesOn(Stops, Overs, NextAt)
  PROVE  \E f : Walks(Stops, Overs, M, NextAt, f)
<1> DEFINE Body(f, i) == IF i \in Stops THEN <<>>
                         ELSE <<M[i]>> \o (IF i \in Overs THEN <<>> ELSE f[NextAt[i]])
           Good(k, f) == \A i \in 257-k..256 : f[i] = Body(f, i)
           S == {k \in 0..256 : \E f : Good(k, f)}
<1>1. 0 \in S
  <2>1. Good(0, <<>>)
    <3>1. \A i \in 257-0..256 : FALSE
      OBVIOUS
    <3> HIDE DEF Body
    <3> QED
      BY <3>1
  <2>2. 0 \in 0..256
    OBVIOUS
  <2> HIDE DEF Good
  <2> QED
    BY <2>1, <2>2
<1>2. ASSUME NEW k \in 0..255, k \in S PROVE k + 1 \in S
  <2>1. PICK f : Good(k, f)
    BY <1>2
  <2> DEFINE n == 256 - k
             h == [i \in n..256 |-> IF i = n THEN Body(f, n) ELSE f[i]]
  <2>2. n \in 1..256 /\ 257 - k = n + 1 /\ 257 - (k + 1) = n
    OBVIOUS
  <2> HIDE DEF n
  <2>3. ASSUME NEW i \in n..256 PROVE h[i] = Body(h, i)
    <3>1. Body(h, i) = Body(f, i)
      <4>1. CASE i \in Stops \/ i \in Overs
        BY <4>1
      <4>2. CASE i \notin Stops /\ i \notin Overs
        <5> DEFINE x == NextAt[i]
        <5>1. i \in 1..256
          BY <2>2
        <5> HIDE DEF h, Body
        <5>2. x \in i+1..256
          BY <4>2, <5>1 DEF GoesOn
        <5> HIDE DEF x
        <5>3. x \in n..256 /\ x # n
          BY <2>2, <5>2
        <5>4. h[x] = f[x]
          BY <5>3 DEF h
        <5> QED
          BY <4>2, <5>4 DEF x, Body
      <4> QED
        BY <4>1, <4>2
    <3>2. h[i] = Body(f, i)
      <4>1. CASE i = n
        BY <4>1
      <4>2. CASE i # n
        <5>1. i \in n+1..256
          BY <2>2, <4>2
        <5>2. f[i] = Body(f, i)
          BY <2>1, <2>2, <5>1
        <5>3. h[i] = f[i]
          BY <4>2
        <5> QED
          BY <5>2, <5>3
      <4> QED
        BY <4>1, <4>2
    <3> QED
      BY <3>1, <3>2
  <2> HIDE DEF h, Body
  <2>4. Good(k + 1, h)
    BY <2>2, <2>3
  <2>5. k + 1 \in 0..256
    OBVIOUS
  <2> HIDE DEF Good
  <2> QED
    BY <2>4, <2>5
<1>3. \A k \in 0..256 : k \in S
  <2> HIDE DEF S
  <2> QED
    BY <1>1, <1>2, UpTo
<1>4. PICK f : Good(256, f)
  <2>1. 256 \in S
    <3>1. 256 \in 0..256
      OBVIOUS
    <3> HIDE DEF S
    <3> QED
      BY <1>3, <3>1
  <2> HIDE DEF Good
  <2> QED
    BY <2>1
<1>5. \A i \in 1..256 : f[i] = Body(f, i)
  <2> HIDE DEF Body
  <2> QED
    BY <1>4
<1> QED
  BY <1>5 DEF Walks

-----------------------------------------------------------------------------
(* The messages of a packet the master sends.                                *)

ShortAssumed == "short_packets" \in Assumed

LEMMA PacketFacts ==
  ASSUME NEW p \in Packets
  PROVE  /\ p \in Seq(Seq(Byte)) /\ Len(p) \in Nat /\ Len(p) >= 1
         /\ \A i \in 1..Len(p) : /\ p[i] \in Seq(Byte)
                                 /\ p[i][1] \in 1..127 /\ Len(p[i]) = p[i][1] + 1
<1>1. p \in Seq(Seq(Byte)) /\ p # <<>>
  BY PacketsAssumption
<1>2. Len(p) \in Nat /\ DOMAIN p = 1..Len(p) /\ Len(p) # 0
  BY <1>1, LenProperties, EmptySeq
<1>3. \A i \in 1..Len(p) : p[i] \in Seq(Byte)
  BY <1>1, LenProperties
<1> QED
  BY <1>1, <1>2, <1>3, PacketsAssumption

\* The place of message n + 1 in the packet, and what stands there.
Contains(p, g, n) ==
  /\ Len(g[n]) \in Nat /\ Len(g[n + 1]) = Len(g[n]) + Len(p[n + 1])
  /\ Data(p) \in Seq(Byte) /\ Len(Data(p)) \in Nat
  /\ Len(g[n]) + Len(p[n + 1]) <= Len(Data(p))
  /\ \A k \in 1..Len(p[n + 1]) : Data(p)[Len(g[n]) + k] = p[n + 1][k]

LEMMA MessageAt ==
  ASSUME NEW p \in Packets, NEW g, Joins(p, g), NEW n \in 0..Len(p)-1
  PROVE  Contains(p, g, n)
<1> DEFINE q == p[n + 1]
           a == Len(g[n])
           m == Len(p)
<1>1. p \in Seq(Seq(Byte)) /\ m \in Nat /\ q \in Seq(Byte) /\ n + 1 \in 1..m /\ n \in 0..m /\ m \in 0..m
  BY PacketFacts
<1>2. g \in [0..m -> Seq(Byte)] /\ g[m] = Data(p) /\ g[n + 1] = g[n] \o q
  <2>1. (n + 1) - 1 = n
    OBVIOUS
  <2> QED
    BY <1>1, <2>1 DEF Joins
<1>3. g[n] \in Seq(Byte) /\ Data(p) \in Seq(Byte) /\ Len(Data(p)) \in Nat
  BY <1>1, <1>2, LenProperties
<1>4. /\ g[n + 1] \in Seq(Byte) /\ Len(g[n + 1]) <= Len(Data(p))
      /\ \A t \in 1..Len(g[n + 1]) : Data(p)[t] = g[n + 1][t]
  <2>1. n + 1 \in 0..Len(p)
    BY <1>1
  <2> QED
    BY <1>1, <2>1, JoinsBegin
<1> HIDE DEF q, a
<1>5. /\ Len(g[n + 1]) = a + Len(q) /\ a \in Nat /\ Len(q) \in Nat
      /\ \A t \in 1..a+Len(q) : g[n + 1][t] = IF t <= a THEN g[n][t] ELSE q[t - a]
  <2>1. /\ Len(g[n] \o q) = Len(g[n]) + Len(q) /\ Len(g[n]) \in Nat /\ Len(q) \in Nat
        /\ \A t \in 1..Len(g[n])+Len(q) : (g[n] \o q)[t] = IF t <= Len(g[n]) THEN g[n][t] ELSE q[t - Len(g[n])]
    BY <1>1, <1>3, ConcatProperties, LenProperties
  <2> QED
    BY <1>2, <2>1 DEF a
<1>6. ASSUME NEW k \in 1..Len(q) PROVE Data(p)[a + k] = q[k]
  <2>1. a + k \in 1..a+Len(q) /\ ~(a + k <= a) /\ (a + k) - a = k
    BY <1>5
  <2> QED
    BY <1>4, <1>5, <2>1
<1> QED
  BY <1>3, <1>4, <1>5, <1>6 DEF q, a, Contains

LEMMA InFront ==
  ASSUME NEW S, NEW x \in S, NEW s \in Seq(S)
  PROVE  /\ <<x>> \o s \in Seq(S) /\ Len(<<x>> \o s) = Len(s) + 1
         /\ (<<x>> \o s)[1] = x
         /\ \A i \in 1..Len(s) : (<<x>> \o s)[i + 1] = s[i]
<1> DEFINE u == <<x>>
<1>1. u \in Seq(S) /\ Len(u) = 1 /\ u[1] = x
  OBVIOUS
<1> HIDE DEF u
<1>2. /\ u \o s \in Seq(S) /\ Len(u \o s) = Len(u) + Len(s) /\ Len(s) \in Nat
      /\ \A t \in 1..Len(u)+Len(s) : (u \o s)[t] = IF t <= Len(u) THEN u[t] ELSE s[t - Len(u)]
  BY <1>1, ConcatProperties, LenProperties
<1>3. /\ 1 \in 1..Len(u)+Len(s) /\ 1 <= Len(u)
      /\ \A i \in 1..Len(s) : i + 1 \in 1..Len(u)+Len(s) /\ ~(i + 1 <= Len(u)) /\ (i + 1) - Len(u) = i
  BY <1>1, <1>2
<1>4. (u \o s)[1] = x /\ \A i \in 1..Len(s) : (u \o s)[i + 1] = s[i]
  BY <1>1, <1>2, <1>3
<1>5. Len(u \o s) = Len(s) + 1
  BY <1>1, <1>2
<1> QED
  BY <1>2, <1>4, <1>5 DEF u

\* The packet's bytes but for the CRC.
Bytes(p) == <<Len(Data(p))>> \o Data(p)

\* Sizes of a packet that is sent.
LEMMA SentFacts ==
  ASSUME ShortAssumed, NEW p \in Sent
  PROVE  /\ p \in Packets /\ p # <<>>
         /\ Data(p) \in Seq(Byte) /\ Len(Data(p)) \in 2..PaketSize-1 /\ Len(Data(p)) \in 2..127
         /\ Bytes(p) \in Seq(Byte) /\ Len(Bytes(p)) = Len(Data(p)) + 1
         /\ Bytes(p)[1] = Len(Data(p))
         /\ \A i \in 1..Len(Data(p)) : Bytes(p)[i + 1] = Data(p)[i]
<1> DEFINE d == Data(p)
<1>1. p \in Packets /\ Len(d) < PaketSize
  BY DEF Sent, ShortAssumed
<1>2. PICK g : Joins(p, g)
  BY <1>1, PacketFacts, DataJoins
<1>3. 0 \in 0..Len(p)-1 /\ 1 \in 1..Len(p) /\ 0 + 1 = 1 /\ p # <<>>
  BY <1>1, PacketFacts
<1>4. d \in Seq(Byte) /\ Len(d) \in Nat /\ Len(d) >= 2
  <2>1. /\ Len(g[0]) \in Nat /\ d \in Seq(Byte) /\ Len(d) \in Nat
        /\ Len(g[0]) + Len(p[1]) <= Len(d)
    <3>1. Contains(p, g, 0)
      BY <1>1, <1>2, <1>3, MessageAt
    <3> QED
      BY <1>3, <3>1 DEF Contains
  <2>2. Len(p[1]) >= 2 /\ Len(p[1]) \in Nat
    <3>1. p[1][1] \in 1..127 /\ Len(p[1]) = p[1][1] + 1
      BY <1>1, <1>3, PacketFacts
    <3> DEFINE v == p[1][1]
               y == Len(p[1])
    <3> HIDE DEF v, y
    <3>2. v \in 1..127 /\ y = v + 1
      BY <3>1 DEF v, y
    <3>3. y >= 2 /\ y \in Nat
      BY <3>2
    <3> QED
      BY <3>3 DEF y
  <2> DEFINE x == Len(g[0])
             y == Len(p[1])
             z == Len(d)
  <2>3. x \in Nat /\ y \in Nat /\ z \in Nat /\ y >= 2 /\ x + y <= z
    BY <2>1, <2>2
  <2> HIDE DEF x, y, z
  <2>4. z >= 2
    BY <2>3
  <2> QED
    BY <2>1, <2>4 DEF z
<1> HIDE DEF d
<1>5. Len(d) \in 2..PaketSize-1 /\ Len(d) \in 2..127 /\ Len(d) \in Byte
  <2> DEFINE z == Len(d)
  <2>1. z \in Nat /\ z >= 2 /\ z < PaketSize /\ PaketSize \in 2..128
    BY <1>1, <1>4, RxSizesAssumption DEF d
  <2> HIDE DEF z
  <2>2. z \in 2..PaketSize-1 /\ z \in 2..127 /\ z \in Byte
    BY <2>1 DEF Byte
  <2> QED
    BY <2>2 DEF z
<1>6. /\ <<Len(d)>> \o d \in Seq(Byte) /\ Len(<<Len(d)>> \o d) = Len(d) + 1
      /\ (<<Len(d)>> \o d)[1] = Len(d)
      /\ \A i \in 1..Len(d) : (<<Len(d)>> \o d)[i + 1] = d[i]
  BY <1>4, <1>5, InFront
<1> QED
  BY <1>1, <1>3, <1>4, <1>5, <1>6 DEF d, Bytes

\* What is left of a packet after n of its messages.
After(p, n) == [k \in 1..Len(p)-n |-> p[n + k]]

LEMMA AfterFacts ==
  ASSUME NEW p \in Packets, NEW n \in 0..Len(p)-1
  PROVE  <<p[n + 1]>> \o After(p, n + 1) = After(p, n)
<1> DEFINE m == Len(p)
           s == After(p, n + 1)
           t == After(p, n)
           V == Seq(Byte)
           x == p[n + 1]
<1>1. m \in Nat /\ n + 1 \in 1..m /\ \A k \in 1..m : p[k] \in V
  BY PacketFacts
<1> HIDE DEF m, V
<1>2. s \in Seq(V) /\ Len(s) = m - (n + 1) /\ \A k \in 1..m-(n+1) : s[k] = p[(n + 1) + k]
  <2>1. m - (n + 1) \in Nat /\ \A k \in 1..m-(n+1) : p[(n + 1) + k] \in V
    BY <1>1
  <2>2. s = [k \in 1..m-(n+1) |-> p[(n + 1) + k]]
    BY DEF After, m
  <2> QED
    BY <2>1, <2>2
<1>3. t \in Seq(V) /\ Len(t) = m - n /\ \A k \in 1..m-n : t[k] = p[n + k]
  <2>1. m - n \in Nat /\ \A k \in 1..m-n : p[n + k] \in V
    BY <1>1
  <2>2. t = [k \in 1..m-n |-> p[n + k]]
    BY DEF After, m
  <2> QED
    BY <2>1, <2>2
<1> HIDE DEF s, t
<1>4. x \in V
  BY <1>1
<1> HIDE DEF x
<1>5. /\ <<x>> \o s \in Seq(V) /\ Len(<<x>> \o s) = Len(s) + 1 /\ (<<x>> \o s)[1] = x
      /\ \A i \in 1..Len(s) : (<<x>> \o s)[i + 1] = s[i]
  BY <1>2, <1>4, InFront
<1>6. Len(<<x>> \o s) = m - n
  BY <1>1, <1>2, <1>5
<1>7. ASSUME NEW k \in 1..m-n PROVE (<<x>> \o s)[k] = t[k]
  <2>1. CASE k = 1
    BY <1>3, <1>5, <2>1 DEF x
  <2>2. CASE k # 1
    <3>1. k - 1 \in 1..m-(n+1) /\ (k - 1) + 1 = k /\ (n + 1) + (k - 1) = n + k
      BY <1>1, <2>2
    <3>2. (<<x>> \o s)[(k - 1) + 1] = s[k - 1]
      BY <1>2, <1>5, <3>1
    <3> QED
      BY <1>2, <1>3, <3>1, <3>2
  <2> QED
    BY <2>1, <2>2
<1>8. <<x>> \o s = t
  BY <1>3, <1>5, <1>6, <1>7, SeqEqual
<1> QED
  BY <1>8 DEF x, s, t

\* A packet stored whole is cut into its own messages, whatever lies behind it.
LEMMA MessagesFound ==
  ASSUME ShortAssumed, NEW p \in Sent, NEW foreign, paket = Bytes(p)
  PROVE  Messages(foreign) = p
<1> DEFINE m == Len(p)
           d == Data(p)
           l == Len(d)
           At(i) == IF i < Len(paket) THEN paket[i + 1] ELSE foreign
           Eq(f) == f = [i \in 1..256 |->
                          IF i >= P_LENGTH \/ At(i) \notin 1..127 \/ i + At(i) > 255 THEN <<>>
                          ELSE <<[k \in 1..At(i)+1 |-> At(i + k - 1)]>>
                                 \o (IF At(i) = 127 THEN <<>> ELSE f[i + At(i) + 1])]
           from == CHOOSE f : Eq(f)
<1>1. Messages(foreign) = from[1]
  BY DEF Messages
<1>2. /\ p \in Packets /\ d \in Seq(Byte) /\ l \in 2..127
      /\ Len(paket) = l + 1 /\ P_LENGTH = l
      /\ \A i \in 1..l : paket[i + 1] = d[i]
  BY SentFacts DEF P_LENGTH
<1> DEFINE Stops == {i \in 1..256 : i >= l \/ At(i) \notin 1..127 \/ i + At(i) > 255}
           Overs == {i \in 1..256 : At(i) = 127}
           M == [i \in 1..256 |-> [k \in 1..At(i)+1 |-> At(i + k - 1)]]
           NextAt == [i \in 1..256 |-> i + At(i) + 1]
<1>3. PICK h : Walks(Stops, Overs, M, NextAt, h)
  <2>1. ASSUME NEW i \in 1..256, i \notin Stops, i \notin Overs PROVE NextAt[i] \in i+1..256
    <3> DEFINE a == At(i)
    <3> HIDE DEF At
    <3>1. a \in 1..127 /\ ~(i + a > 255) /\ a # 127
      BY <2>1
    <3>2. NextAt[i] = i + a + 1
      OBVIOUS
    <3> HIDE DEF a, NextAt
    <3> QED
      BY <3>1, <3>2
  <2> HIDE DEF Stops, Overs, M, NextAt
  <2>2. GoesOn(Stops, Overs, NextAt)
    BY <2>1 DEF GoesOn
  <2> QED
    BY <2>2, WalkExists
<1>4. \E f : Eq(f)
  <2> DEFINE f == [i \in 1..256 |-> h[i]]
  <2>1. ASSUME NEW i \in 1..256
        PROVE  f[i] = IF i >= P_LENGTH \/ At(i) \notin 1..127 \/ i + At(i) > 255 THEN <<>>
                      ELSE <<[k \in 1..At(i)+1 |-> At(i + k - 1)]>>
                             \o (IF At(i) = 127 THEN <<>> ELSE f[i + At(i) + 1])
    <3>1. h[i] = IF i \in Stops THEN <<>>
                 ELSE <<M[i]>> \o (IF i \in Overs THEN <<>> ELSE h[NextAt[i]])
      <4> HIDE DEF Stops, Overs, M, NextAt
      <4> QED
        BY <1>3 DEF Walks
    <3>2. CASE i \in Stops
      BY <1>2, <3>1, <3>2
    <3>3. CASE i \notin Stops
      <4> DEFINE a == At(i)
      <4>1. a \in 1..127 /\ ~(i + a > 255) /\ ~(i >= P_LENGTH)
        BY <1>2, <3>3
      <4>2. M[i] = [k \in 1..a+1 |-> At(i + k - 1)] /\ NextAt[i] = i + a + 1
        OBVIOUS
      <4>3. i \in Overs <=> a = 127
        OBVIOUS
      <4>4. a # 127 => i + a + 1 \in 1..256
        <5> HIDE DEF a
        <5> QED
          BY <4>1
      <4> HIDE DEF Stops, Overs, M, NextAt
      <4>5. f[i] = <<[k \in 1..a+1 |-> At(i + k - 1)]>>
                             \o (IF a = 127 THEN <<>> ELSE f[i + a + 1])
        <5> HIDE DEF a, At
        <5> QED
          BY <3>1, <3>3, <4>2, <4>3, <4>4
      <4> QED
        BY <4>1, <4>5
    <3> QED
      BY <3>2, <3>3
  <2> HIDE DEF At
  <2>2. Eq(f)
    BY <2>1
  <2> QED
    BY <2>2
<1>5. Eq(from)
  <2> HIDE DEF Eq
  <2> QED
    BY <1>4
<1> HIDE DEF from
<1>6. PICK g : Joins(p, g)
  BY <1>2, PacketFacts, DataJoins
<1>7. p \in Seq(Seq(Byte)) /\ m \in Nat /\ m >= 1
  BY <1>2, PacketFacts
<1>8. g[0] = <<>> /\ g[m] = d
  BY <1>6 DEF Joins
<1> HIDE DEF d
<1>9. \A i \in 1..l : At(i) = d[i]
  <2>1. \A i \in 1..l : i < Len(paket)
    BY <1>2
  <2> QED
    BY <1>2, <2>1
<1>10. \A i \in 1..256 :
         from[i] = IF i >= l \/ At(i) \notin 1..127 \/ i + At(i) > 255 THEN <<>>
                   ELSE <<[k \in 1..At(i)+1 |-> At(i + k - 1)]>>
                          \o (IF At(i) = 127 THEN <<>> ELSE from[i + At(i) + 1])
  <2> HIDE DEF At
  <2>1. \A i \in 1..256 :
          from[i] = IF i >= P_LENGTH \/ At(i) \notin 1..127 \/ i + At(i) > 255 THEN <<>>
                    ELSE <<[k \in 1..At(i)+1 |-> At(i + k - 1)]>>
                           \o (IF At(i) = 127 THEN <<>> ELSE from[i + At(i) + 1])
    BY <1>5
  <2>2. P_LENGTH = l
    BY <1>2
  <2> QED
    BY <2>1, <2>2
<1> HIDE DEF Eq, At, l
<1> DEFINE Good(n) == from[Len(g[n]) + 1] = After(p, n)
           S == {j \in 0..m : Good(m - j)}
<1>11. 0 \in S
  <2>1. from[l + 1] = <<>>
    <3>1. l + 1 \in 1..256 /\ l + 1 >= l
      BY <1>2
    <3> QED
      BY <1>10, <3>1
  <2>2. After(p, m) = <<>>
    BY <1>7 DEF After
  <2>3. m - 0 = m /\ 0 \in 0..m
    BY <1>7
  <2> QED
    BY <1>8, <2>1, <2>2, <2>3 DEF l
<1>12. ASSUME NEW j \in 0..m-1, j \in S PROVE j + 1 \in S
  <2> DEFINE n == m - (j + 1)
             q == p[n + 1]
             a == Len(g[n])
  <2>1. n \in 0..m-1 /\ n + 1 \in 1..m /\ m - j = n + 1 /\ j + 1 \in 0..m
    BY <1>7
  <2>2. from[Len(g[n + 1]) + 1] = After(p, n + 1)
    BY <1>12, <2>1
  <2> HIDE DEF n
  <2>3. q \in Seq(Byte) /\ q[1] \in 1..127 /\ Len(q) = q[1] + 1
    BY <1>2, <2>1, PacketFacts
  <2> DEFINE u == Len(q)
             w == Len(g[n + 1])
  <2>4. a \in Nat /\ w = a + u /\ a + u <= l /\ \A k \in 1..u : d[a + k] = q[k]
    <3>1. p \in Packets /\ n \in 0..Len(p)-1 /\ Joins(p, g)
      BY <1>2, <1>6, <2>1
    <3>2. Contains(p, g, n)
      BY <3>1, MessageAt
    <3> QED
      BY <3>2 DEF Contains, d, l
  <2> DEFINE b == q[1]
  <2> HIDE DEF q, a, u
  <2>5. b \in 1..127 /\ a + b + 1 <= l /\ l \in 2..127 /\ a \in Nat /\ u = b + 1
    <3> HIDE DEF b
    <3>1. b \in 1..127 /\ u = b + 1 /\ a \in Nat /\ a + u <= l /\ l \in 2..127
      BY <1>2, <2>3, <2>4 DEF b, u, l
    <3> QED
      BY <3>1
  <2> HIDE DEF b
  <2>6. At(a + 1) = b
    <3>1. 1 \in 1..u /\ a + 1 \in 1..l
      BY <2>5
    <3> QED
      BY <1>9, <2>4, <3>1 DEF b
  <2>7. ASSUME NEW k \in 1..b+1 PROVE At((a + 1) + k - 1) = q[k]
    <3>1. k \in 1..u /\ (a + 1) + k - 1 = a + k /\ a + k \in 1..l
      BY <2>5
    <3> QED
      BY <1>9, <2>4, <3>1
  <2>8. [k \in 1..b+1 |-> At((a + 1) + k - 1)] = q
    <3>1. q = [k \in 1..b+1 |-> q[k]]
      <4>1. q \in [1..Len(q) -> Byte]
        BY <2>3, LenProperties
      <4> QED
        BY <2>5, <4>1 DEF u
    <3> QED
      BY <2>7, <3>1
  <2>9. from[a + 1] = <<q>> \o from[Len(g[n + 1]) + 1]
    <3>1. /\ a + 1 \in 1..256 /\ ~(a + 1 >= l) /\ b \in 1..127 /\ ~((a + 1) + b > 255) /\ b # 127
          /\ (a + 1) + b + 1 = a + u + 1
      BY <2>5
    <3>2. from[a + 1] = <<[k \in 1..b+1 |-> At((a + 1) + k - 1)]>> \o from[(a + 1) + b + 1]
      BY <1>10, <2>6, <3>1
    <3> QED
      BY <2>4, <2>8, <3>1, <3>2
  <2>10. from[a + 1] = After(p, n)
    BY <1>2, <2>1, <2>2, <2>9, AfterFacts DEF q
  <2> QED
    BY <2>1, <2>10 DEF n, a
<1>13. \A j \in 0..m : j \in S
  <2> HIDE DEF S
  <2> QED
    BY <1>7, <1>11, <1>12, UpTo
<1>14. from[1] = After(p, 0)
  <2>1. m \in 0..m /\ m - m = 0
    BY <1>7
  <2>2. Good(0)
    BY <1>13, <2>1
  <2> QED
    BY <1>8, <2>2
<1>15. After(p, 0) = p
  <2>1. p \in [1..m -> Seq(Byte)]
    BY <1>7, LenProperties
  <2>2. After(p, 0) = [k \in 1..m |-> p[k]]
    BY <1>7 DEF After
  <2> QED
    BY <2>1, <2>2
<1> QED
  BY <1>1, <1>14, <1>15

-----------------------------------------------------------------------------
(* Whole packets.  The words the assembler has not taken yet decide where it *)
(* will stand when it takes a word that arrives now, so the invariant        *)
(* follows it through all of them.                                           *)

\* The assembler's variables in one record; a length of 255 makes it "LOST".
Fresh == [state |-> "IDLE", paket |-> <<>>, index |-> 0, crc |-> 0]

Becomes(s, f) == [state |-> s, paket |-> f.paket, index |-> f.index, crc |-> f.crc]

\* What a word makes of it.
Started(f, c) ==
  IF c.id = 1 /\ c.byte = 0 THEN Becomes("GET_LEN", f) ELSE f
Measured(f, c) ==
  IF c.id = 1 \/ c.byte = 0 THEN Becomes("IDLE", f)
  ELSE [state |-> IF c.byte = 255 THEN "LOST" ELSE "COLLECT",
        paket |-> <<c.byte>>, index |-> 1, crc |-> crc_array[c.byte + 1]]
Collected(f, c) ==
  IF f.index > f.paket[1] THEN Fresh
  ELSE [state |-> "COLLECT",
        paket |-> IF f.index < PaketSize THEN Append(f.paket, c.byte) ELSE f.paket,
        index |-> f.index + 1,
        crc   |-> crc8_update(f.crc, c.byte)]
Taken(f, c) ==
  IF f.state = "IDLE" THEN Started(f, c)
  ELSE IF f.state = "GET_LEN" THEN Measured(f, c)
  ELSE IF f.state = "COLLECT" THEN Collected(f, c)
  ELSE f

\* The first k words of the packet have been taken.
Follows(f, p, k) ==
  IF k = 1 THEN f.state = "GET_LEN"
  ELSE /\ f.state = "COLLECT" /\ f.index = k - 1
       /\ f.paket \in Seq(Byte) /\ Len(f.paket) = k - 1
       /\ \A i \in 1..k-1 : f.paket[i] = Bytes(p)[i]
       /\ f.crc = Remainder(f.paket)

\* k words of the packet are gone, the line holds the others.
Leaves(l, p, k) ==
  /\ Len(l) = Len(Frame(p)) - k
  /\ \A i \in 1..Len(l) : l[i] = Frame(p)[k + i]

Synced(f, p, l) ==
  /\ p \in Sent
  /\ \E k \in 1..Len(Frame(p))-1 : Follows(f, p, k) /\ Leaves(l, p, k)

\* A packet read at a wrong place, over after at most n words.
Collects(f, n) ==
  /\ f.state = "COLLECT"
  /\ f.paket \in Seq(Byte) /\ f.paket # <<>> /\ f.paket[1] \in 1..254
  /\ f.index \in 1..f.paket[1]+1 /\ f.paket[1] + 2 - f.index <= n

Astray(f, n) ==
  \/ f.state \in {"LOST", "IDLE"}
  \/ f.state = "GET_LEN" /\ n = InStep
  \/ Collects(f, n)

BusWord(c) == c.id \in {0, 1} /\ c.byte \in BusBytes

LEMMA InStepFacts ==
  /\ InStep \in Nat /\ InStep >= 2
  /\ \A b \in BusBytes : b \in Byte /\ b + 2 <= InStep
<1>1. InStep \in Nat /\ 0 \in BusBytes /\ BusBytes \subseteq Byte /\ \A b \in BusBytes : b + 2 <= InStep
  BY BusAssumption
<1>2. InStep >= 2
  BY <1>1
<1> QED
  BY <1>1, <1>2

LEMMA CollectsLonger ==
  ASSUME NEW f, NEW m \in Nat, NEW n \in Nat, m <= n, Collects(f, m)
  PROVE  Collects(f, n)
<1> DEFINE l == f.paket[1]
           i == f.index
<1>1. l \in 1..254 /\ i \in 1..l+1 /\ l + 2 - i <= m
  BY DEF Collects
<1> HIDE DEF l, i
<1>2. l + 2 - i <= n
  BY <1>1
<1> QED
  BY <1>2 DEF Collects, l, i

\* A word at a wrong place brings its end nearer, unless it is a start.
LEMMA StrayedCollects ==
  ASSUME NEW f, NEW n \in Nat, Collects(f, n), NEW c, BusWord(c)
  PROVE  /\ n # 0
         /\ Taken(f, c).state = "IDLE" \/ Collects(Taken(f, c), n - 1)
<1> DEFINE l == f.paket[1]
           i == f.index
           g == Taken(f, c)
<1>1. /\ l \in 1..254 /\ i \in 1..l+1 /\ l + 2 - i <= n /\ f.state = "COLLECT"
      /\ f.paket \in Seq(Byte) /\ f.paket # <<>>
  BY DEF Collects
<1>2. g = Collected(f, c)
  BY <1>1 DEF Taken
<1>3. c.byte \in Byte
  BY InStepFacts DEF BusWord
<1>4. n # 0
  <2> HIDE DEF l, i
  <2> QED
    BY <1>1
<1>5. CASE i > l
  BY <1>2, <1>4, <1>5 DEF Collected, Fresh
<1>6. CASE ~(i > l)
  <2>1. /\ g.state = "COLLECT" /\ g.index = i + 1
        /\ g.paket = IF i < PaketSize THEN Append(f.paket, c.byte) ELSE f.paket
    BY <1>2, <1>6 DEF Collected
  <2>2. g.paket \in Seq(Byte) /\ g.paket # <<>> /\ g.paket[1] = l
    <3>1. /\ Append(f.paket, c.byte) \in Seq(Byte) /\ Append(f.paket, c.byte) # <<>>
          /\ Append(f.paket, c.byte)[1] = f.paket[1]
      <4>1. Len(f.paket) \in Nat /\ Len(f.paket) # 0
        BY <1>1, EmptySeq, LenProperties
      <4>2. 1 \in 1..Len(f.paket)
        BY <4>1
      <4> QED
        BY <1>1, <1>3, <4>1, <4>2, AppendProperties
    <3> QED
      BY <1>1, <2>1, <3>1
  <2> HIDE DEF g, l, i
  <2>3. i + 1 \in 1..l+1 /\ l + 2 - (i + 1) <= n - 1
    BY <1>1, <1>6
  <2>4. Collects(g, n - 1)
    BY <1>1, <2>1, <2>2, <2>3 DEF Collects
  <2> QED
    BY <1>4, <2>4 DEF g
<1> QED
  BY <1>5, <1>6

\* So does the length of one.
LEMMA StrayedLength ==
  ASSUME NEW f, f.state = "GET_LEN", NEW c, BusWord(c)
  PROVE  /\ InStep - 1 \in Nat
         /\ \/ Taken(f, c).state \in {"IDLE", "LOST"}
            \/ Collects(Taken(f, c), InStep - 1)
<1> DEFINE g == Taken(f, c)
           b == c.byte
<1>1. /\ g = Measured(f, c) /\ b \in Byte /\ b + 2 <= InStep
      /\ InStep \in Nat /\ InStep >= 2
  BY InStepFacts DEF Taken, BusWord
<1>2. InStep - 1 \in Nat
  BY <1>1
<1>3. CASE c.id = 1 \/ b = 0
  <2>1. Measured(f, c) = Becomes("IDLE", f)
    BY <1>3 DEF Measured
  <2> QED
    BY <1>1, <1>2, <2>1 DEF Becomes
<1>4. CASE ~(c.id = 1 \/ b = 0)
  <2>1. g.state = (IF b = 255 THEN "LOST" ELSE "COLLECT") /\ g.paket = <<b>> /\ g.index = 1
    BY <1>1, <1>4 DEF Measured
  <2>2. <<b>> \in Seq(Byte) /\ <<b>> # <<>> /\ <<b>>[1] = b
    BY <1>1
  <2> HIDE DEF b, g
  <2>3. b # 255 => b \in 1..254 /\ 1 \in 1..b+1 /\ b + 2 - 1 <= InStep - 1
    BY <1>1, <1>4 DEF Byte, b
  <2>4. b # 255 => Collects(g, InStep - 1)
    BY <2>1, <2>2, <2>3 DEF Collects
  <2>5. b = 255 => g.state = "LOST"
    BY <2>1
  <2> QED
    BY <1>2, <2>4, <2>5 DEF g
<1> QED
  BY <1>3, <1>4

Sooner(n) == IF n = 0 THEN 0 ELSE n - 1

Starts(f, c) == f.state = "IDLE" /\ c.id = 1 /\ c.byte = 0

LEMMA StrayedWord ==
  ASSUME NEW n \in 0..InStep, NEW f, Astray(f, n), NEW c, BusWord(c)
  PROVE  IF Starts(f, c) THEN Taken(f, c).state = "GET_LEN"
         ELSE Astray(Taken(f, c), Sooner(n))
<1>1. InStep \in Nat /\ InStep >= 2 /\ n \in Nat
  BY InStepFacts
<1>2. CASE f.state = "COLLECT"
  <2>1. Collects(f, n)
    BY <1>2 DEF Astray
  <2>2. n # 0 /\ (Taken(f, c).state = "IDLE" \/ Collects(Taken(f, c), n - 1))
    BY <1>1, <2>1, StrayedCollects
  <2> QED
    BY <1>2, <2>2 DEF Astray, Sooner, Starts
<1>3. CASE f.state = "GET_LEN"
  <2>1. n = InStep
    BY <1>3 DEF Astray, Collects
  <2>2. Taken(f, c).state \in {"IDLE", "LOST"} \/ Collects(Taken(f, c), InStep - 1)
    BY <1>3, StrayedLength
  <2> QED
    BY <1>1, <1>3, <2>1, <2>2 DEF Astray, Sooner, Starts
<1>4. CASE f.state = "IDLE"
  <2>1. Taken(f, c) = Started(f, c)
    BY <1>4 DEF Taken
  <2>2. CASE Starts(f, c)
    BY <2>1, <2>2 DEF Started, Starts, Becomes
  <2>3. CASE ~Starts(f, c)
    BY <1>4, <2>1, <2>3 DEF Started, Starts, Astray
  <2> QED
    BY <2>2, <2>3
<1>5. CASE f.state = "LOST"
  <2>1. Taken(f, c) = f
    BY <1>5 DEF Taken
  <2> QED
    BY <1>5, <2>1 DEF Astray, Starts
<1> QED
  BY <1>2, <1>3, <1>4, <1>5 DEF Astray, Collects

LEMMA AstrayLonger ==
  ASSUME NEW n \in 0..InStep, NEW f, Astray(f, n)
  PROVE  Astray(f, InStep)
<1>1. InStep \in Nat /\ n \in Nat /\ n <= InStep
  BY InStepFacts
<1> QED
  BY <1>1, CollectsLonger DEF Astray

\* Whatever the word, the assembler is in step again after InStep others.
LEMMA AnyWord ==
  ASSUME NEW f, Astray(f, InStep), NEW c, BusWord(c)
  PROVE  Astray(Taken(f, c), InStep)
<1>1. InStep \in Nat /\ InStep >= 2 /\ InStep \in 0..InStep /\ Sooner(InStep) \in 0..InStep
  BY InStepFacts DEF Sooner
<1>2. IF Starts(f, c) THEN Taken(f, c).state = "GET_LEN"
      ELSE Astray(Taken(f, c), Sooner(InStep))
  BY <1>1, StrayedWord
<1>3. CASE Starts(f, c)
  BY <1>2, <1>3 DEF Astray
<1>4. CASE ~Starts(f, c)
  BY <1>1, <1>2, <1>4, AstrayLonger
<1> QED
  BY <1>3, <1>4

-----------------------------------------------------------------------------
LEMMA ArraySeq ==
  ASSUME NEW n \in Nat, NEW V, NEW w \in [1..n -> V]
  PROVE  w \in Seq(V) /\ Len(w) = n
  OBVIOUS

\* The words of a packet.
LEMMA FrameFacts ==
  ASSUME ShortAssumed, NEW p \in Sent, NEW n, n = Len(Data(p))
  PROVE  /\ n \in 2..PaketSize-1 /\ n \in 2..127 /\ n + 2 <= InStep
         /\ Len(Frame(p)) = n + 3
         /\ Frame(p)[1] = Word(1, 0)
         /\ \A i \in 1..n+1 : Frame(p)[i + 1] = Word(0, Bytes(p)[i])
         /\ Frame(p)[n + 3] = Word(0, Checksum[p])
         /\ \A i \in 1..n+3 : BusWord(Frame(p)[i])
<1> DEFINE V == Seq(Byte)
           s == <<Checksum[p]>>
           w == [i \in 1..Len(Bytes(p) \o s) |-> Word(0, (Bytes(p) \o s)[i])]
<1>1. /\ p \in Packets /\ n \in 2..PaketSize-1 /\ n \in 2..127
      /\ Bytes(p) \in Seq(Byte) /\ Len(Bytes(p)) = n + 1 /\ Bytes(p)[1] = n
  BY SentFacts
<1>2. Frame(p) = <<Word(1, 0)>> \o w
  BY DEF Frame, Bytes
<1>3. Frame(p) \in Seq(BusWords)
  <2> DEFINE t == [words |-> Frame(p), packet |-> p]
  <2>1. t \in Transmissions
    BY DEF Transmissions
  <2>2. t.words = Frame(p)
    OBVIOUS
  <2> HIDE DEF t
  <2> QED
    BY <2>1, <2>2, BusAssumption DEF BusWords
<1>4. /\ Len(Bytes(p) \o s) = n + 2 /\ (Bytes(p) \o s)[n + 2] = Checksum[p]
      /\ \A i \in 1..n+1 : (Bytes(p) \o s)[i] = Bytes(p)[i]
  <2>1. Checksum[p] \in Byte
    <3>1. Checksum[p] = Remainder(Bytes(p))
      BY <1>1, ChecksumAssumption DEF Bytes
    <3>2. PICK g : /\ ChainIn(Len(Bytes(p)), Byte, g)
                    /\ Chain(Len(Bytes(p)), 0, Divide(Bytes(p)), g)
      BY <1>1, DivisionExists
    <3> QED
      BY <1>1, <3>1, <3>2, RemainderValue
  <2>2. s \in Seq(Byte) /\ Len(s) = 1 /\ s[1] = Checksum[p]
    BY <2>1
  <2> DEFINE b == Bytes(p)
  <2> HIDE DEF s, b
  <2>3. /\ Len(b \o s) = Len(b) + Len(s)
        /\ \A i \in 1..Len(b)+Len(s) : (b \o s)[i] = IF i <= Len(b) THEN b[i] ELSE s[i - Len(b)]
    <3>1. b \in Seq(Byte)
      BY <1>1 DEF b
    <3> QED
      BY <2>2, <3>1, ConcatProperties
  <2>4. Len(b) = n + 1 /\ n \in Nat
    BY <1>1 DEF b
  <2>5. n + 2 \in 1..Len(b)+Len(s) /\ ~(n + 2 <= Len(b)) /\ (n + 2) - Len(b) = 1
    BY <2>2, <2>4
  <2>6. \A i \in 1..n+1 : i \in 1..Len(b)+Len(s) /\ i <= Len(b)
    BY <2>2, <2>4
  <2>7. Len(b \o s) = n + 2
    BY <2>2, <2>3, <2>4
  <2> QED
    BY <2>2, <2>3, <2>5, <2>6, <2>7 DEF b
<1>5. /\ Len(Frame(p)) = n + 3 /\ Frame(p)[1] = Word(1, 0)
      /\ \A i \in 1..n+2 : Frame(p)[i + 1] = Word(0, (Bytes(p) \o s)[i])
  <2> DEFINE W == {Word(1, 0)} \cup {w[i] : i \in 1..n+2}
  <2>1. w = [i \in 1..n+2 |-> Word(0, (Bytes(p) \o s)[i])] /\ n + 2 \in Nat
    BY <1>1, <1>4
  <2> HIDE DEF w, s
  <2>2. w \in Seq(W) /\ Len(w) = n + 2
    <3>1. \A i \in 1..n+2 : Word(0, (Bytes(p) \o s)[i]) \in W
      BY <2>1 DEF w
    <3> HIDE DEF W
    <3>2. w \in [1..n+2 -> W]
      BY <2>1, <3>1
    <3> QED
      BY <2>1, <3>2, ArraySeq
  <2>3. Word(1, 0) \in W
    OBVIOUS
  <2> HIDE DEF W
  <2>4. /\ Len(<<Word(1, 0)>> \o w) = Len(w) + 1 /\ (<<Word(1, 0)>> \o w)[1] = Word(1, 0)
        /\ \A i \in 1..Len(w) : (<<Word(1, 0)>> \o w)[i + 1] = w[i]
    BY <2>2, <2>3, InFront
  <2>5. Len(<<Word(1, 0)>> \o w) = n + 3
    BY <1>1, <2>2, <2>4
  <2> QED
    BY <1>2, <2>1, <2>2, <2>4, <2>5
<1> HIDE DEF s, w
<1>6. \A i \in 1..n+1 : Frame(p)[i + 1] = Word(0, Bytes(p)[i])
  <2>1. \A i \in 1..n+1 : i \in 1..n+2
    BY <1>1
  <2> QED
    BY <1>4, <1>5, <2>1
<1>7. Frame(p)[n + 3] = Word(0, Checksum[p])
  <2>1. n + 2 \in 1..n+2 /\ (n + 2) + 1 = n + 3
    BY <1>1
  <2> QED
    BY <1>4, <1>5, <2>1
<1>8. \A i \in 1..n+3 : BusWord(Frame(p)[i])
  <2>1. \A i \in 1..n+3 : Frame(p)[i] \in BusWords
    BY <1>3, <1>5, LenProperties
  <2> QED
    BY <2>1 DEF BusWords, BusWord
<1>9. n + 2 <= InStep
  <2>1. 2 \in 1..n+3 /\ 1 \in 1..n+1 /\ 1 + 1 = 2
    BY <1>1
  <2>2. Frame(p)[2] = Word(0, n) /\ BusWord(Frame(p)[2])
    BY <1>1, <1>6, <1>8, <2>1
  <2>3. n \in BusBytes
    BY <2>2 DEF Word, BusWord
  <2> QED
    BY <2>3, InStepFacts
<1> QED
  BY <1>1, <1>5, <1>6, <1>7, <1>8, <1>9

-----------------------------------------------------------------------------
\* The assembler takes the words of a packet one by one.
LEMMA FollowsOn ==
  ASSUME ShortAssumed, NEW p \in Sent, NEW k \in 1..Len(Data(p))+1,
         NEW f, Follows(f, p, k), NEW c, c.id = 0, c.byte = Bytes(p)[k]
  PROVE  Follows(Taken(f, c), p, k + 1)
<1> DEFINE n == Len(Data(p))
           b == c.byte
           g == Taken(f, c)
           t == Append(f.paket, b)
<1>1. /\ n \in 2..PaketSize-1 /\ n \in 2..127 /\ PaketSize \in Nat
      /\ Bytes(p) \in Seq(Byte) /\ Len(Bytes(p)) = n + 1 /\ Bytes(p)[1] = n
  BY SentFacts, RxSizesAssumption
<1>2. b \in Byte
  BY <1>1, LenProperties
<1>3. CASE k = 1
  <2>1. b = n /\ f.state = "GET_LEN" /\ g = Measured(f, c)
    BY <1>1, <1>3 DEF Follows, Taken
  <2> HIDE DEF g, n
  <2>2. c.id # 1 /\ b # 0 /\ b # 255
    BY <1>1, <2>1
  <2>3. g = [state |-> "COLLECT", paket |-> <<b>>, index |-> 1, crc |-> crc_array[b + 1]]
    BY <2>1, <2>2 DEF Measured
  <2>4. Remainder(<<b>>) = crc_array[b + 1]
    BY <1>2, FirstRemainder
  <2>5. <<b>> \in Seq(Byte) /\ Len(<<b>>) = 1 /\ <<b>>[1] = b
    BY <1>2
  <2>6. /\ g.state = "COLLECT" /\ g.index = 1 /\ g.paket = <<b>>
        /\ g.crc = Remainder(<<b>>)
    BY <2>3, <2>4
  <2> HIDE DEF b
  <2>7. \A i \in 1..1 : g.paket[i] = Bytes(p)[i]
    BY <1>1, <2>1, <2>5, <2>6
  <2>8. k + 1 = 2 /\ (k + 1) - 1 = 1
    BY <1>3
  <2>9. Follows(g, p, 2)
    BY <2>5, <2>6, <2>7 DEF Follows
  <2> QED
    BY <2>8, <2>9 DEF g
<1>4. CASE k # 1
  <2>1. /\ f.state = "COLLECT" /\ f.index = k - 1
        /\ f.paket \in Seq(Byte) /\ Len(f.paket) = k - 1
        /\ \A i \in 1..k-1 : f.paket[i] = Bytes(p)[i]
        /\ f.crc = Remainder(f.paket)
    BY <1>4 DEF Follows
  <2>2. k \in 2..n+1 /\ 1 \in 1..k-1
    <3> HIDE DEF n
    <3> QED
      BY <1>1, <1>4 DEF n
  <2>3. f.paket[1] = n
    BY <1>1, <2>1, <2>2
  <2>4. g = Collected(f, c)
    BY <2>1 DEF Taken
  <2> HIDE DEF g, n
  <2>5. ~(f.index > f.paket[1]) /\ f.index < PaketSize
    BY <1>1, <2>1, <2>2, <2>3
  <2>6. g = [state |-> "COLLECT", paket |-> t, index |-> f.index + 1, crc |-> crc8_update(f.crc, b)]
    BY <2>4, <2>5 DEF Collected
  <2>7. /\ g.state = "COLLECT" /\ g.paket = t /\ g.index = f.index + 1
        /\ g.crc = crc8_update(f.crc, b)
    BY <2>6
  <2>8. Remainder(t) = crc8_update(Remainder(f.paket), b)
    BY <1>2, <2>1, RemainderStep
  <2>9. /\ t \in Seq(Byte) /\ Len(t) = k /\ t[k] = b
        /\ \A i \in 1..k-1 : t[i] = f.paket[i]
    <3>1. /\ t \in Seq(Byte) /\ Len(t) = Len(f.paket) + 1 /\ t[Len(f.paket) + 1] = b
          /\ \A i \in 1..Len(f.paket) : t[i] = f.paket[i]
      BY <1>2, <2>1, AppendProperties
    <3>2. (k - 1) + 1 = k
      BY <2>2
    <3> QED
      BY <2>1, <3>1, <3>2
  <2> HIDE DEF t
  <2>10. \A i \in 1..k : t[i] = Bytes(p)[i]
    <3>1. \A i \in 1..k : i \in 1..k-1 \/ i = k
      BY <2>2
    <3> QED
      BY <2>1, <2>9, <3>1
  <2>11. (k + 1) - 1 = k /\ k + 1 # 1 /\ f.index + 1 = k
    BY <2>1, <2>2
  <2>12. g.crc = Remainder(g.paket)
    BY <2>1, <2>7, <2>8
  <2> QED
    BY <2>7, <2>9, <2>10, <2>11, <2>12 DEF Follows, g
<1> QED
  BY <1>3, <1>4

\* The packet before its CRC.
LEMMA FollowsLast ==
  ASSUME ShortAssumed, NEW p \in Sent, NEW f, Follows(f, p, Len(Data(p)) + 2)
  PROVE  /\ f.state = "COLLECT" /\ f.index > f.paket[1]
         /\ f.paket = Bytes(p) /\ f.crc = Checksum[p]
         /\ \A c : Taken(f, c).state = "IDLE"
<1> DEFINE n == Len(Data(p))
<1>1. /\ n \in 2..127 /\ p \in Packets
      /\ Bytes(p) \in Seq(Byte) /\ Len(Bytes(p)) = n + 1 /\ Bytes(p)[1] = n
  BY SentFacts
<1>2. n + 2 # 1 /\ (n + 2) - 1 = n + 1 /\ n + 1 > n /\ 1 \in 1..n+1
  BY <1>1
<1> HIDE DEF n
<1>3. /\ f.state = "COLLECT" /\ f.index = n + 1
      /\ f.paket \in Seq(Byte) /\ Len(f.paket) = n + 1
      /\ \A i \in 1..n+1 : f.paket[i] = Bytes(p)[i]
      /\ f.crc = Remainder(f.paket)
  BY <1>2 DEF Follows, n
<1>4. f.paket = Bytes(p)
  BY <1>1, <1>3, SeqEqual
<1>5. f.paket[1] = n /\ f.index > f.paket[1]
  BY <1>1, <1>2, <1>3
<1>6. f.crc = Checksum[p]
  BY <1>1, <1>3, <1>4, ChecksumAssumption DEF Bytes
<1>7. ASSUME NEW c PROVE Taken(f, c).state = "IDLE"
  BY <1>3, <1>5 DEF Taken, Collected, Fresh
<1> QED
  BY <1>3, <1>4, <1>5, <1>6, <1>7

\* A packet that is cut short keeps the assembler no longer than any other.
LEMMA FollowsAstray ==
  ASSUME ShortAssumed, NEW p \in Sent, NEW k \in 1..Len(Data(p))+2, NEW f, Follows(f, p, k)
  PROVE  Astray(f, InStep)
<1> DEFINE n == Len(Data(p))
<1>1. n \in 2..127 /\ n + 2 <= InStep /\ InStep \in Nat /\ Bytes(p)[1] = n
  BY SentFacts, FrameFacts, InStepFacts
<1>2. CASE k = 1
  BY <1>2 DEF Follows, Astray
<1>3. CASE k # 1
  <2>1. /\ f.state = "COLLECT" /\ f.index = k - 1
        /\ f.paket \in Seq(Byte) /\ Len(f.paket) = k - 1
        /\ \A i \in 1..k-1 : f.paket[i] = Bytes(p)[i]
    BY <1>3 DEF Follows
  <2>2. k \in 2..n+2 /\ 1 \in 1..k-1
    <3> HIDE DEF n
    <3> QED
      BY <1>1, <1>3 DEF n
  <2>3. f.paket[1] = n /\ f.paket # <<>>
    <3>1. f.paket[1] = n
      BY <1>1, <2>1, <2>2
    <3>2. Len(f.paket) # 0
      BY <2>1, <2>2
    <3> QED
      BY <2>1, <3>1, <3>2, EmptySeq
  <2> HIDE DEF n
  <2>4. n \in 1..254 /\ k - 1 \in 1..n+1 /\ n + 2 - (k - 1) <= InStep
    BY <1>1, <2>2
  <2>5. Collects(f, InStep)
    BY <2>1, <2>3, <2>4 DEF Collects
  <2> QED
    BY <2>5 DEF Astray
<1> QED
  BY <1>2, <1>3

-----------------------------------------------------------------------------
\* A word leaves the line.
LEMMA LineGoesOn ==
  ASSUME ShortAssumed, NEW p \in Sent, NEW k \in Nat,
         NEW l \in Seq(BusWords), l # <<>>, Leaves(l, p, k)
  PROVE  /\ k \in 0..Len(Data(p))+2
         /\ Head(l) = Frame(p)[k + 1] /\ Leaves(Tail(l), p, k + 1)
         /\ Tail(l) = <<>> <=> k = Len(Data(p)) + 2
         /\ k # 0 => Head(l).id = 0
         /\ k = 0 => Head(l) = Word(1, 0)
         /\ k \in 1..Len(Data(p))+1 => Head(l).byte = Bytes(p)[k]
         /\ k = Len(Data(p)) + 2 => Head(l).byte = Checksum[p]
<1> DEFINE n == Len(Data(p))
<1>1. /\ n \in 2..127 /\ Len(Frame(p)) = n + 3 /\ Frame(p)[1] = Word(1, 0)
      /\ \A i \in 1..n+1 : Frame(p)[i + 1] = Word(0, Bytes(p)[i])
      /\ Frame(p)[n + 3] = Word(0, Checksum[p])
  BY FrameFacts
<1>2. /\ Len(l) \in Nat /\ Len(l) # 0
      /\ Len(l) = n + 3 - k /\ \A i \in 1..Len(l) : l[i] = Frame(p)[k + i]
  BY <1>1, EmptySeq, LenProperties DEF Leaves
<1> HIDE DEF n
<1>3. k \in 0..n+2 /\ 1 \in 1..Len(l)
  BY <1>1, <1>2
<1>4. Head(l) = l[1] /\ l[1] = Frame(p)[k + 1]
  BY <1>2, <1>3
<1>5. /\ Tail(l) \in Seq(BusWords) /\ Len(Tail(l)) = Len(l) - 1
      /\ \A i \in 1..Len(l)-1 : Tail(l)[i] = l[i + 1]
  BY HeadTailProperties
<1>6. Leaves(Tail(l), p, k + 1)
  <2>1. Len(Tail(l)) = Len(Frame(p)) - (k + 1)
    BY <1>1, <1>2, <1>5
  <2>2. \A i \in 1..Len(l)-1 : i + 1 \in 1..Len(l) /\ k + (i + 1) = (k + 1) + i
    BY <1>2
  <2>3. \A i \in 1..Len(Tail(l)) : Tail(l)[i] = Frame(p)[(k + 1) + i]
    BY <1>2, <1>5, <2>2
  <2> QED
    BY <2>1, <2>3 DEF Leaves
<1>7. Tail(l) = <<>> <=> k = n + 2
  <2>1. Len(Tail(l)) = 0 <=> k = n + 2
    <3>1. Len(Tail(l)) = (n + 3 - k) - 1
      BY <1>2, <1>5
    <3>2. (n + 3 - k) - 1 = 0 <=> k = n + 2
      BY <1>1, <1>3
    <3> QED
      BY <3>1, <3>2
  <2> QED
    BY <1>5, <2>1, EmptySeq
<1>8. k \in 1..n+1 => Head(l) = Word(0, Bytes(p)[k])
  BY <1>1, <1>4
<1>9. k = n + 2 => Head(l) = Word(0, Checksum[p])
  <2>1. k = n + 2 => k + 1 = n + 3
    BY <1>1
  <2> QED
    BY <1>1, <1>4, <2>1
<1>10. k = 0 => Head(l) = Word(1, 0)
  BY <1>1, <1>4
<1>11. k = 0 \/ k \in 1..n+1 \/ k = n + 2
  BY <1>1, <1>3
<1>12. k # 0 => Head(l).id = 0
  BY <1>8, <1>9, <1>11 DEF Word
<1>13. k \in 1..n+1 => Head(l).byte = Bytes(p)[k]
  BY <1>8 DEF Word
<1>14. k = n + 2 => Head(l).byte = Checksum[p]
  BY <1>9 DEF Word
<1> QED
  BY <1>3, <1>4, <1>6, <1>7, <1>10, <1>12, <1>13, <1>14 DEF n

-----------------------------------------------------------------------------
\* What is on the bus: a packet's words from one of them on, or an answer.
LinePart(p, l) ==
  /\ l \in Seq(BusWords)
  /\ p \in Sent \cup {<<>>}
  /\ p = <<>> => \A i \in 1..Len(l) : l[i] # Word(1, 0)
  /\ p # <<>> /\ l # <<>> => \E k \in Nat : Leaves(l, p, k)

\* Where the assembler stands once it has taken all words there are; n words
\* more and it is in step whatever happened before.
InPlace(f, p, l, n, whole) ==
  /\ n \in 0..InStep /\ (whole => n = 0)
  /\ Astray(f, n) \/ Synced(f, p, l)
  /\ whole /\ p # <<>> /\ l # <<>> =>
       \/ f.state = "LOST"
       \/ f.state = "IDLE" /\ Leaves(l, p, 0)
       \/ Synced(f, p, l)

\* The word that ends a whole packet meets the assembler at the packet's end.
Completes(f, c) ==
  c.whole # <<>> =>
    \/ f.state = "LOST"
    \/ /\ c.whole \in Sent
       /\ Follows(f, c.whole, Len(Data(c.whole)) + 2)
       /\ c.byte = Checksum[c.whole]

LEMMA SentNotEmpty ==
  ASSUME ShortAssumed, NEW p \in Sent
  PROVE  p # <<>> /\ Len(Data(p)) \in Nat /\ Len(Frame(p)) - 1 = Len(Data(p)) + 2
<1>1. Len(Data(p)) \in 2..127 /\ Len(Frame(p)) = Len(Data(p)) + 3
  BY FrameFacts
<1> QED
  BY <1>1, SentFacts

\* The next word of the packet the assembler is in.
LEMMA SyncedWord ==
  ASSUME ShortAssumed, NEW p, NEW l \in Seq(BusWords), l # <<>>, NEW f, Synced(f, p, l),
         NEW c, c.id = Head(l).id, c.byte = Head(l).byte
  PROVE  /\ p \in Sent
         /\ IF Tail(l) = <<>>
            THEN /\ Follows(f, p, Len(Data(p)) + 2) /\ c.byte = Checksum[p]
                 /\ Taken(f, c).state = "IDLE"
            ELSE Synced(Taken(f, c), p, Tail(l))
<1> DEFINE n == Len(Data(p))
<1>1. p \in Sent /\ n \in Nat /\ Len(Frame(p)) - 1 = n + 2
  BY SentNotEmpty DEF Synced
<1>2. PICK k \in 1..n+2 : Follows(f, p, k) /\ Leaves(l, p, k)
  BY <1>1 DEF Synced
<1>3. k \in Nat /\ k # 0 /\ k + 1 \in Nat
  BY <1>1, <1>2
<1>4. /\ Leaves(Tail(l), p, k + 1) /\ (Tail(l) = <<>> <=> k = n + 2)
      /\ Head(l).id = 0
      /\ k \in 1..n+1 => Head(l).byte = Bytes(p)[k]
      /\ k = n + 2 => Head(l).byte = Checksum[p]
  BY <1>1, <1>2, <1>3, LineGoesOn
<1>5. CASE k = n + 2
  <2>1. Follows(f, p, n + 2)
    BY <1>2, <1>5
  <2>2. Taken(f, c).state = "IDLE"
    BY <1>1, <2>1, FollowsLast
  <2> QED
    BY <1>1, <1>4, <1>5, <2>1, <2>2
<1>6. CASE k # n + 2
  <2>1. k \in 1..n+1 /\ k + 1 \in 1..n+2
    BY <1>1, <1>6
  <2>2. Follows(Taken(f, c), p, k + 1)
    BY <1>1, <1>2, <1>4, <2>1, FollowsOn
  <2>3. Synced(Taken(f, c), p, Tail(l))
    BY <1>1, <1>4, <2>1, <2>2 DEF Synced
  <2> QED
    BY <1>1, <1>4, <1>6, <2>3
<1> QED
  BY <1>5, <1>6

\* A start word is the first of a packet.
LEMMA StartWord ==
  ASSUME ShortAssumed, NEW p, NEW l, LinePart(p, l), l # <<>>,
         Head(l).id = 1, Head(l).byte = 0, NEW f, f.state = "GET_LEN"
  PROVE  Synced(f, p, Tail(l))
<1>1. l \in Seq(BusWords) /\ p \in Sent \cup {<<>>}
  BY DEF LinePart
<1>2. Head(l) = l[1] /\ 1 \in 1..Len(l) /\ Head(l) \in BusWords
  <2>1. Len(l) \in Nat /\ Len(l) # 0
    BY <1>1, EmptySeq, LenProperties
  <2> QED
    BY <1>1, <2>1, LenProperties
<1>3. Head(l) = Word(1, 0)
  BY <1>2 DEF BusWords, Word
<1>4. p # <<>>
  BY <1>2, <1>3 DEF LinePart
<1>5. p \in Sent
  BY <1>1, <1>4
<1>6. PICK k \in Nat : Leaves(l, p, k)
  BY <1>4 DEF LinePart
<1>7. k = 0 /\ Leaves(Tail(l), p, k + 1)
  BY <1>1, <1>5, <1>6, LineGoesOn
<1>8. 1 \in 1..Len(Frame(p))-1
  BY <1>5, SentNotEmpty
<1>9. Follows(f, p, 1) /\ Leaves(Tail(l), p, 1)
  BY <1>7 DEF Follows
<1> QED
  BY <1>5, <1>8, <1>9 DEF Synced

LEMMA SyncedAstray ==
  ASSUME ShortAssumed, NEW p, NEW l, NEW f, Synced(f, p, l)
  PROVE  Astray(f, InStep)
<1>1. p \in Sent
  BY DEF Synced
<1>2. \E k \in 1..Len(Data(p))+2 : Follows(f, p, k)
  BY <1>1, SentNotEmpty DEF Synced
<1> QED
  BY <1>1, <1>2, FollowsAstray

LEMMA InPlaceAstray ==
  ASSUME ShortAssumed, NEW f, NEW p, NEW l, NEW n, NEW whole, InPlace(f, p, l, n, whole)
  PROVE  Astray(f, InStep)
  BY SyncedAstray, AstrayLonger DEF InPlace

LEMMA LineTail ==
  ASSUME ShortAssumed, NEW p, NEW l, LinePart(p, l), l # <<>>
  PROVE  LinePart(p, Tail(l)) /\ BusWord(Head(l))
<1>1. l \in Seq(BusWords) /\ p \in Sent \cup {<<>>}
  BY DEF LinePart
<1>2. /\ Tail(l) \in Seq(BusWords) /\ Len(Tail(l)) = Len(l) - 1 /\ Len(l) \in Nat
      /\ \A i \in 1..Len(l)-1 : Tail(l)[i] = l[i + 1]
      /\ Head(l) \in BusWords
  BY <1>1, HeadTailProperties, LenProperties
<1>3. p = <<>> => \A i \in 1..Len(Tail(l)) : Tail(l)[i] # Word(1, 0)
  <2>1. \A i \in 1..Len(Tail(l)) : i \in 1..Len(l)-1 /\ i + 1 \in 1..Len(l)
    BY <1>2
  <2> QED
    BY <1>2, <2>1 DEF LinePart
<1>4. ASSUME p # <<>> PROVE \E k \in Nat : Leaves(Tail(l), p, k)
  <2>1. p \in Sent
    BY <1>1, <1>4
  <2>2. PICK k \in Nat : Leaves(l, p, k)
    BY <1>4 DEF LinePart
  <2>3. Leaves(Tail(l), p, k + 1) /\ k + 1 \in Nat
    BY <1>1, <2>1, <2>2, LineGoesOn
  <2> QED
    BY <2>3
<1>5. BusWord(Head(l))
  BY <1>2 DEF BusWords, BusWord
<1> QED
  BY <1>1, <1>2, <1>3, <1>4, <1>5 DEF LinePart

-----------------------------------------------------------------------------
\* The word on the bus comes through.
LEMMA ArrivesIntact ==
  ASSUME ShortAssumed, NEW f, NEW p, NEW l, NEW n, NEW whole \in BOOLEAN,
         LinePart(p, l), l # <<>>, InPlace(f, p, l, n, whole),
         NEW c, c.id = Head(l).id, c.byte = Head(l).byte,
         c.whole = IF Tail(l) = <<>> /\ whole THEN p ELSE <<>>
  PROVE  InPlace(Taken(f, c), p, Tail(l), Sooner(n), whole) /\ Completes(f, c)
<1> DEFINE g == Taken(f, c)
<1>1. /\ LinePart(p, Tail(l)) /\ BusWord(c) /\ l \in Seq(BusWords) /\ p \in Sent \cup {<<>>}
  <2>1. LinePart(p, Tail(l)) /\ BusWord(Head(l))
    BY LineTail
  <2> QED
    BY <2>1 DEF BusWord, LinePart
<1>2. n \in 0..InStep /\ (whole => n = 0) /\ InStep \in Nat
  BY InStepFacts DEF InPlace
<1>3. Sooner(n) \in 0..InStep /\ (whole => Sooner(n) = 0)
  BY <1>2 DEF Sooner
<1>4. CASE Synced(f, p, l)
  <2>1. /\ p \in Sent
        /\ IF Tail(l) = <<>>
           THEN /\ Follows(f, p, Len(Data(p)) + 2) /\ c.byte = Checksum[p]
                /\ Taken(f, c).state = "IDLE"
           ELSE Synced(Taken(f, c), p, Tail(l))
    BY <1>1, <1>4, SyncedWord
  <2>2. CASE Tail(l) = <<>>
    <3>1. Astray(g, Sooner(n))
      BY <2>1, <2>2 DEF Astray
    <3>2. InPlace(g, p, Tail(l), Sooner(n), whole)
      BY <1>3, <2>2, <3>1 DEF InPlace
    <3>3. Completes(f, c)
      BY <2>1, <2>2 DEF Completes
    <3> QED
      BY <3>2, <3>3
  <2>3. CASE Tail(l) # <<>>
    <3>1. InPlace(g, p, Tail(l), Sooner(n), whole)
      BY <1>3, <2>1, <2>3 DEF InPlace
    <3>2. Completes(f, c)
      BY <2>3 DEF Completes
    <3> QED
      BY <3>1, <3>2
  <2> QED
    BY <2>2, <2>3
<1>5. CASE ~Synced(f, p, l)
  <2>1. Astray(f, n)
    BY <1>5 DEF InPlace
  <2>2. IF Starts(f, c) THEN g.state = "GET_LEN" ELSE Astray(g, Sooner(n))
    BY <1>1, <1>2, <2>1, StrayedWord
  <2>3. Starts(f, c) => Synced(g, p, Tail(l))
    <3>1. Starts(f, c) => Head(l).id = 1 /\ Head(l).byte = 0 /\ g.state = "GET_LEN"
      BY <2>2 DEF Starts
    <3> HIDE DEF g
    <3> QED
      BY <3>1, StartWord
  <2>4. Astray(g, Sooner(n)) \/ Synced(g, p, Tail(l))
    BY <2>2, <2>3
  <2>5. CASE whole /\ p # <<>>
    <3>1. f.state = "LOST" \/ (f.state = "IDLE" /\ Leaves(l, p, 0))
      BY <1>5, <2>5 DEF InPlace
    <3>2. CASE f.state = "LOST"
      <4>1. g = f
        BY <3>2 DEF Taken
      <4>2. InPlace(g, p, Tail(l), Sooner(n), whole)
        BY <1>3, <2>4, <3>2, <4>1 DEF InPlace
      <4> QED
        BY <3>2, <4>2 DEF Completes
    <3>3. CASE f.state = "IDLE" /\ Leaves(l, p, 0)
      <4>1. Head(l) = Word(1, 0) /\ Tail(l) # <<>>
        <5>1. p \in Sent /\ Len(Data(p)) \in Nat /\ 0 \in Nat
          BY <1>1, <2>5, SentNotEmpty
        <5>2. Head(l) = Word(1, 0) /\ (Tail(l) = <<>> <=> 0 = Len(Data(p)) + 2)
          BY <1>1, <3>3, <5>1, LineGoesOn
        <5>3. 0 # Len(Data(p)) + 2
          BY <5>1
        <5> QED
          BY <5>2, <5>3
      <4>2. Starts(f, c)
        BY <3>3, <4>1 DEF Starts, Word
      <4>3. InPlace(g, p, Tail(l), Sooner(n), whole)
        BY <1>3, <2>3, <4>2 DEF InPlace
      <4>4. Completes(f, c)
        BY <4>1 DEF Completes
      <4> QED
        BY <4>3, <4>4
    <3> QED
      BY <3>1, <3>2, <3>3
  <2>6. CASE ~(whole /\ p # <<>>)
    <3>1. InPlace(g, p, Tail(l), Sooner(n), whole)
      BY <1>3, <2>4, <2>6 DEF InPlace
    <3>2. c.whole = <<>>
      BY <2>6
    <3>3. Completes(f, c)
      BY <3>2 DEF Completes
    <3> QED
      BY <3>1, <3>3
  <2> QED
    BY <2>5, <2>6
<1> QED
  BY <1>4, <1>5

\* It is damaged.
LEMMA ArrivesDamaged ==
  ASSUME ShortAssumed, NEW f, NEW p, NEW l, NEW n, NEW whole, InPlace(f, p, l, n, whole),
         NEW c, BusWord(c), c.whole = <<>>, NEW r
  PROVE  InPlace(Taken(f, c), p, r, InStep, FALSE) /\ Completes(f, c)
<1>1. Astray(f, InStep)
  BY InPlaceAstray
<1>2. Astray(Taken(f, c), InStep)
  BY <1>1, AnyWord
<1>3. InStep \in 0..InStep
  BY InStepFacts
<1> QED
  BY <1>2, <1>3 DEF InPlace, Completes

\* It is lost, or everything is forgotten.
LEMMA NothingArrives ==
  ASSUME NEW f, Astray(f, InStep), NEW p, NEW r
  PROVE  InPlace(f, p, r, InStep, FALSE)
<1>1. InStep \in 0..InStep
  BY InStepFacts
<1> QED
  BY <1>1 DEF InPlace

\* The next transmission begins.
LEMMA NextTransmission ==
  ASSUME ShortAssumed, NEW f, NEW p, NEW l, l = <<>>, NEW n, NEW whole, InPlace(f, p, l, n, whole),
         NEW q, NEW r, q # <<>> => Leaves(r, q, 0)
  PROVE  InPlace(f, q, r, n, n = 0)
<1>1. ~Synced(f, p, l)
  <2> SUFFICES ASSUME Synced(f, p, l) PROVE FALSE
    OBVIOUS
  <2>1. p \in Sent /\ Len(Data(p)) \in Nat /\ Len(Frame(p)) - 1 = Len(Data(p)) + 2
    BY SentNotEmpty DEF Synced
  <2>2. PICK k \in 1..Len(Data(p))+2 : Leaves(l, p, k)
    BY <2>1 DEF Synced
  <2>3. Len(l) = 0 /\ Len(Frame(p)) = Len(Data(p)) + 3
    BY <2>1, FrameFacts
  <2>4. 0 = Len(Data(p)) + 3 - k
    BY <2>2, <2>3 DEF Leaves
  <2> QED
    BY <2>1, <2>4
<1>2. Astray(f, n) /\ n \in 0..InStep
  BY <1>1 DEF InPlace
<1>3. n = 0 => f.state \in {"LOST", "IDLE"}
  <2>1. InStep # 0
    BY InStepFacts
  <2>2. ~Collects(f, 0)
    <3>1. BusWord(Word(0, 0))
      BY BusAssumption DEF BusWord, Word
    <3>2. 0 \in Nat
      OBVIOUS
    <3> QED
      BY <3>1, <3>2, StrayedCollects
  <2> QED
    BY <1>2, <2>1, <2>2 DEF Astray
<1> QED
  BY <1>2, <1>3 DEF InPlace

-----------------------------------------------------------------------------
\* Words put into the ring and not yet assembled.
Ahead == IF pc = "wrap" THEN raw \o RxWords ELSE RxWords

LEMMA RawWord ==
  ASSUME RxTypes, pc = "wrap"
  PROVE  raw \in Seq(Cells) /\ Len(raw) = 1 /\ raw[1] \in Cells /\ raw = <<raw[1]>>
<1>1. raw \in [1..1 -> Cells]
  BY DEF RxTypes, RawPart
<1>2. raw[1] \in Cells /\ raw = <<raw[1]>>
  BY <1>1
<1>3. raw \in Seq(Cells) /\ Len(raw) = 1
  BY <1>1, ArraySeq
<1> QED
  BY <1>2, <1>3

LEMMA AheadIsSequence == RxTypes => Ahead \in Seq(Cells) /\ RxWords \in Seq(Cells)
<1> SUFFICES ASSUME RxTypes PROVE Ahead \in Seq(Cells) /\ RxWords \in Seq(Cells)
  OBVIOUS
<1>1. RxWords \in Seq(Cells)
  BY WordsAreSequence DEF RxTypes, WordsFromFirst
<1>2. CASE pc = "wrap"
  BY <1>1, <1>2, RawWord, ConcatProperties DEF Ahead
<1>3. CASE pc # "wrap"
  BY <1>1, <1>3 DEF Ahead
<1> QED
  BY <1>1, <1>2, <1>3

LEMMA AheadGrows ==
  ASSUME RoomAssumed, RxTypes, RingInv', WordArrives \/ WordDamaged,
         NEW c \in Cells, bidib_rx_buf_put(c)
  PROVE  Ahead' = IF HasRoom THEN Ahead \o <<c>> ELSE Ahead
<1>1. UNCHANGED <<pc, raw>> /\ IsrRuns /\ RingInv /\ RxWords \in Seq(Cells)
  BY AheadIsSequence DEF WordArrives, WordDamaged, Transmit, RxTypes
<1>2. rxRead = N => NextWrite # 0
  <2>1. rxRead = N => pc = "wrap"
    BY <1>1, RxSizesAssumption DEF RingInv, Slots, N
  <2> QED
    BY <1>1, <2>1 DEF IsrRuns, RoomAssumed
<1>3. CASE HasRoom
  <2>1. RxWords' = RxWords \o <<c>>
    BY <1>1, <1>2, <1>3, WordAppended
  <2>2. CASE pc = "wrap"
    <3>1. raw \in Seq(Cells) /\ <<c>> \in Seq(Cells)
      BY <2>2, RawWord
    <3>2. raw \o (RxWords \o <<c>>) = (raw \o RxWords) \o <<c>>
      BY <1>1, <3>1, ConcatAssociative
    <3> QED
      BY <1>1, <1>3, <2>1, <2>2, <3>2 DEF Ahead
  <2>3. CASE pc # "wrap"
    BY <1>1, <1>3, <2>1, <2>3 DEF Ahead
  <2> QED
    BY <2>2, <2>3
<1>4. CASE ~HasRoom
  <2>1. UNCHANGED <<rxBuf, rxRead, rxWrite>>
    BY <1>4 DEF bidib_rx_buf_put, ringVars
  <2>2. RxWords' = RxWords
    BY <2>1, WordsSame DEF First
  <2> QED
    BY <1>1, <1>4, <2>2 DEF Ahead
<1> QED
  BY <1>3, <1>4

LEMMA AheadTaken ==
  ASSUME RxTypes, RingInv', ReadWord \/ WrapRead
  PROVE  /\ Ahead # <<>> /\ Ahead' = Tail(Ahead) /\ raw' = <<Head(Ahead)>> /\ Head(Ahead) \in Cells
         /\ Assemble(Head(Ahead).id, Head(Ahead).byte) /\ pc' = "loop" /\ pc # "reset"
         /\ UNCHANGED busVars
<1>1. RingInv /\ RxWords \in Seq(Cells)
  BY AheadIsSequence DEF RxTypes
<1>2. CASE ReadWord
  <2>1. RxWords # <<>> /\ Head(RxWords) = rxBuf[rxRead] /\ RxWords' = Tail(RxWords)
    BY <1>1, <1>2, WordsRead
  <2>2. Ahead = RxWords /\ Ahead' = RxWords'
    BY <1>2 DEF Ahead, ReadWord
  <2>3. Head(RxWords) \in Cells
    BY <1>1, <2>1, HeadTailProperties
  <2> QED
    BY <1>2, <2>1, <2>2, <2>3 DEF ReadWord
<1>3. CASE WrapRead
  <2>1. pc = "wrap" /\ pc' = "loop" /\ UNCHANGED raw /\ RxWords' = RxWords
    BY <1>1, <1>3, WordsWrapped DEF WrapRead
  <2> DEFINE c == raw[1]
  <2>2. c \in Cells /\ raw = <<c>>
    BY <2>1, RawWord
  <2>3. Ahead = <<c>> \o RxWords /\ Ahead' = RxWords
    BY <2>1, <2>2 DEF Ahead
  <2>4. Ahead # <<>> /\ Head(Ahead) = c /\ Tail(Ahead) = RxWords
    <3> HIDE DEF c
    <3> DEFINE s == <<c>> \o RxWords
    <3>1. /\ s \in Seq(Cells) /\ Len(s) = Len(RxWords) + 1 /\ s[1] = c /\ Len(RxWords) \in Nat
          /\ \A i \in 1..Len(RxWords) : s[i + 1] = RxWords[i]
      BY <1>1, <2>2, InFront, LenProperties
    <3> HIDE DEF s
    <3>2. s # <<>>
      BY <3>1
    <3>3. /\ Head(s) = s[1] /\ Tail(s) \in Seq(Cells) /\ Len(Tail(s)) = Len(s) - 1
          /\ \A i \in 1..Len(s)-1 : Tail(s)[i] = s[i + 1]
      BY <3>1, <3>2, HeadTailProperties
    <3>4. Len(s) - 1 = Len(RxWords)
      BY <3>1
    <3>5. Tail(s) = RxWords
      BY <1>1, <3>1, <3>3, <3>4, SeqEqual
    <3> QED
      BY <2>3, <3>1, <3>2, <3>3, <3>5 DEF s
  <2> QED
    BY <1>3, <2>1, <2>2, <2>3, <2>4 DEF WrapRead
<1> QED
  BY <1>2, <1>3

LEMMA AheadSame ==
  ASSUME RxTypes, RingInv', Talk \/ ReadLast \/ ResetAssembler \/ UNCHANGED vars
  PROVE  Ahead' = Ahead
<1>1. RingInv /\ RxWords \in Seq(Cells)
  BY AheadIsSequence DEF RxTypes
<1>2. CASE ReadLast
  <2>1. RxWords # <<>> /\ Head(RxWords) = rxBuf[rxRead] /\ RxWords' = Tail(RxWords)
    BY <1>1, <1>2, WordsRead
  <2>2. Ahead = RxWords /\ Ahead' = <<Head(RxWords)>> \o Tail(RxWords)
    BY <1>2, <2>1 DEF Ahead, ReadLast
  <2>3. <<Head(RxWords)>> \o Tail(RxWords) = RxWords
    <3> DEFINE s == RxWords
               c == Head(s)
               t == Tail(s)
    <3>1. /\ c \in Cells /\ c = s[1] /\ t \in Seq(Cells) /\ Len(t) = Len(s) - 1 /\ Len(s) \in Nat
          /\ \A i \in 1..Len(s)-1 : t[i] = s[i + 1]
      BY <1>1, <2>1, HeadTailProperties, LenProperties
    <3> HIDE DEF c, t
    <3>2. /\ <<c>> \o t \in Seq(Cells) /\ Len(<<c>> \o t) = Len(t) + 1 /\ (<<c>> \o t)[1] = c
          /\ \A i \in 1..Len(t) : (<<c>> \o t)[i + 1] = t[i]
      BY <3>1, InFront
    <3> HIDE DEF s
    <3>3. Len(<<c>> \o t) = Len(s)
      BY <3>1, <3>2
    <3>4. ASSUME NEW i \in 1..Len(s) PROVE (<<c>> \o t)[i] = s[i]
      <4>1. CASE i = 1
        BY <3>1, <3>2, <4>1
      <4>2. CASE i # 1
        <5>1. i - 1 \in 1..Len(t) /\ i - 1 \in 1..Len(s)-1 /\ (i - 1) + 1 = i
          BY <3>1, <4>2
        <5>2. (<<c>> \o t)[(i - 1) + 1] = t[i - 1] /\ t[i - 1] = s[(i - 1) + 1]
          BY <3>1, <3>2, <5>1
        <5> QED
          BY <5>1, <5>2
      <4> QED
        BY <4>1, <4>2
    <3>5. s \in Seq(Cells)
      BY <1>1 DEF s
    <3>6. <<c>> \o t = s
      BY <3>2, <3>3, <3>4, <3>5, SeqEqual
    <3> QED
      BY <3>6 DEF s, c, t
  <2> QED
    BY <2>2, <2>3
<1>3. CASE Talk \/ ResetAssembler \/ UNCHANGED vars
  <2>1. /\ UNCHANGED <<rxBuf, rxRead, rxWrite, raw>>
        /\ UNCHANGED pc \/ (pc # "wrap" /\ pc' # "wrap")
    BY <1>3 DEF Talk, ResetAssembler, vars, ringVars
  <2>2. RxWords' = RxWords
    BY <2>1, WordsSame DEF First
  <2> QED
    BY <2>1, <2>2 DEF Ahead
<1> QED
  BY <1>2, <1>3

LEMMA AheadFlushed ==
  ASSUME RingInv', FlushRx
  PROVE  Ahead' = <<>>
  BY WordsFlushed DEF Ahead, FlushRx

-----------------------------------------------------------------------------
\* v is the way of the assembler from a through the words w.
Path(v, a, w) ==
  /\ v[0] = a
  /\ \A i \in 1..Len(w) : v[i] = Taken(v[i-1], w[i]) /\ Completes(v[i-1], w[i])

\* The assembler comes by w from a to z.
Leads(a, w, z) == \E v : Path(v, a, w) /\ v[Len(w)] = z

LEMMA LeadsNowhere == \A a : Leads(a, <<>>, a)
<1> SUFFICES ASSUME NEW a PROVE Leads(a, <<>>, a)
  OBVIOUS
<1> DEFINE v == [i \in {0} |-> a]
<1>1. v[0] = a /\ Len(<<>>) = 0
  OBVIOUS
<1> HIDE DEF v
<1>2. Path(v, a, <<>>)
  BY <1>1 DEF Path
<1> QED
  BY <1>1, <1>2 DEF Leads

LEMMA LeadsOn ==
  ASSUME NEW V, NEW w \in Seq(V), NEW a, NEW z, Leads(a, w, z), NEW c \in V, Completes(z, c)
  PROVE  Leads(a, w \o <<c>>, Taken(z, c))
<1> DEFINE m == Len(w)
           x == w \o <<c>>
<1>1. PICK v : Path(v, a, w) /\ v[m] = z
  BY DEF Leads
<1>2. /\ m \in Nat /\ Len(x) = m + 1 /\ x[m + 1] = c /\ \A i \in 1..m : x[i] = w[i]
  <2>1. x = Append(w, c)
    BY AppendIsConcat
  <2> HIDE DEF x
  <2> QED
    BY <2>1, AppendProperties
<1> HIDE DEF m, x
<1> DEFINE u == [i \in 0..m+1 |-> IF i <= m THEN v[i] ELSE Taken(z, c)]
<1>3. \A i \in 0..m : u[i] = v[i]
  BY <1>2
<1>4. u[m + 1] = Taken(z, c)
  BY <1>2
<1> HIDE DEF u
<1>5. v[0] = a /\ \A i \in 1..m : v[i] = Taken(v[i-1], w[i]) /\ Completes(v[i-1], w[i])
  BY <1>1 DEF Path, m
<1>6. ASSUME NEW i \in 1..m+1 PROVE u[i] = Taken(u[i-1], x[i]) /\ Completes(u[i-1], x[i])
  <2>1. CASE i = m + 1
    <3>1. i - 1 = m /\ m \in 0..m
      BY <1>2, <2>1
    <3>2. u[i - 1] = z /\ x[i] = c /\ u[i] = Taken(z, c)
      BY <1>1, <1>2, <1>3, <1>4, <2>1, <3>1
    <3> QED
      BY <3>2
  <2>2. CASE i # m + 1
    <3>1. i \in 1..m /\ i \in 0..m /\ i - 1 \in 0..m
      BY <1>2, <2>2
    <3>2. u[i - 1] = v[i - 1] /\ u[i] = v[i] /\ x[i] = w[i]
      BY <1>2, <1>3, <3>1
    <3> QED
      BY <1>5, <3>1, <3>2
  <2> QED
    BY <2>1, <2>2
<1>7. u[0] = a
  BY <1>2, <1>3, <1>5
<1>8. Path(u, a, x) /\ u[Len(x)] = Taken(z, c)
  BY <1>2, <1>4, <1>6, <1>7 DEF Path
<1> QED
  BY <1>8 DEF Leads, x

LEMMA LeadsFrom ==
  ASSUME NEW V, NEW w \in Seq(V), w # <<>>, NEW a, NEW z, Leads(a, w, z)
  PROVE  Completes(a, Head(w)) /\ Leads(Taken(a, Head(w)), Tail(w), z)
<1> DEFINE m == Len(w) - 1
           x == Tail(w)
           c == Head(w)
<1>1. PICK v : Path(v, a, w) /\ v[Len(w)] = z
  BY DEF Leads
<1>2. /\ m \in Nat /\ Len(w) = m + 1 /\ c = w[1]
      /\ Len(x) = m /\ \A i \in 1..m : x[i] = w[i + 1]
  <2>1. /\ Len(w) \in Nat /\ Len(w) # 0 /\ c = w[1]
        /\ Len(x) = m /\ \A i \in 1..m : x[i] = w[i + 1]
    BY EmptySeq, LenProperties, HeadTailProperties
  <2>2. m \in Nat /\ Len(w) = m + 1
    BY <2>1
  <2> QED
    BY <2>1, <2>2
<1> HIDE DEF m, x, c
<1>3. v[0] = a /\ \A i \in 1..m+1 : v[i] = Taken(v[i-1], w[i]) /\ Completes(v[i-1], w[i])
  BY <1>1, <1>2 DEF Path
<1> DEFINE u == [i \in 0..m |-> v[i + 1]]
<1>4. \A i \in 0..m : u[i] = v[i + 1]
  OBVIOUS
<1> HIDE DEF u
<1>5. v[1] = Taken(a, c) /\ Completes(a, c)
  <2>1. 1 \in 1..m+1 /\ 1 - 1 = 0
    BY <1>2
  <2> QED
    BY <1>2, <1>3, <2>1
<1>6. u[0] = Taken(a, c) /\ u[m] = z
  <2>1. 0 \in 0..m /\ m \in 0..m /\ 0 + 1 = 1
    BY <1>2
  <2> QED
    BY <1>1, <1>2, <1>4, <1>5, <2>1
<1>7. ASSUME NEW i \in 1..m PROVE u[i] = Taken(u[i-1], x[i]) /\ Completes(u[i-1], x[i])
  <2>1. i \in 0..m /\ i - 1 \in 0..m /\ i + 1 \in 1..m+1 /\ (i + 1) - 1 = i /\ (i - 1) + 1 = i
    BY <1>2
  <2>2. u[i] = v[i + 1] /\ u[i - 1] = v[i] /\ x[i] = w[i + 1]
    BY <1>2, <1>4, <2>1
  <2>3. v[i + 1] = Taken(v[i], w[i + 1]) /\ Completes(v[i], w[i + 1])
    BY <1>3, <2>1
  <2> QED
    BY <2>2, <2>3
<1>8. Path(u, Taken(a, c), x) /\ u[Len(x)] = z
  BY <1>2, <1>6, <1>7 DEF Path
<1> QED
  BY <1>5, <1>8 DEF Leads, c, x

-----------------------------------------------------------------------------
AsFrame ==
  IF pc = "reset" THEN Fresh
  ELSE [state |-> state, paket |-> paket, index |-> index, crc |-> crc]

LEMMA AssembleTaken ==
  ASSUME FramePart, RegisterPart, Below255, Below255', pc # "reset", pc' # "reset",
         NEW c \in Cells, Assemble(c.id, c.byte)
  PROVE  AsFrame' = Taken(AsFrame, c)
<1> DEFINE b == c.byte
           f == AsFrame
<1>1. /\ f.state = state /\ f.paket = paket /\ f.index = index /\ f.crc = crc
      /\ f = [state |-> state, paket |-> paket, index |-> index, crc |-> crc]
      /\ AsFrame' = [state |-> state', paket |-> paket', index |-> index', crc |-> crc']
  BY DEF AsFrame
<1>2. b \in Byte /\ c.id \in {0, 1}
  BY CellsHoldBytes DEF CellByte
<1> HIDE DEF f
<1>3. CASE Idle(c.id, b)
  <2>1. /\ state = "IDLE" /\ UNCHANGED <<paket, index, crc>>
        /\ state' = IF c.id = 1 /\ b = 0 THEN "GET_LEN" ELSE "IDLE"
    BY <1>3 DEF Idle
  <2>2. Taken(f, c) = Started(f, c)
    BY <1>1, <2>1 DEF Taken
  <2> QED
    BY <1>1, <2>1, <2>2 DEF Started, Becomes, f
<1>4. CASE GetLength(c.id, b)
  <2>1. /\ state = "GET_LEN" /\ c.id = 0 /\ b > 0 /\ state' = "COLLECT"
        /\ paket' = <<b>> /\ index' = 1 /\ crc' = crc_array[b + 1]
    BY <1>4 DEF GetLength
  <2>2. b # 255
    <3>1. paket'[1] # 255
      BY <2>1 DEF Below255, P_LENGTH
    <3> QED
      BY <2>1, <3>1
  <2>3. Taken(f, c) = Measured(f, c)
    BY <1>1, <2>1 DEF Taken
  <2>4. b # 0 /\ c.id # 1
    BY <1>2, <2>1
  <2>5. Measured(f, c) = [state |-> "COLLECT", paket |-> <<b>>, index |-> 1, crc |-> crc_array[b + 1]]
    BY <2>2, <2>4 DEF Measured
  <2> QED
    BY <1>1, <2>1, <2>3, <2>5 DEF f
<1>5. CASE NoLength(c.id, b)
  <2>1. /\ state = "GET_LEN" /\ (c.id = 1 \/ b = 0) /\ state' = "IDLE" /\ UNCHANGED <<paket, index, crc>>
    BY <1>5 DEF NoLength
  <2>2. Taken(f, c) = Becomes("IDLE", f)
    BY <1>1, <2>1 DEF Taken, Measured
  <2> QED
    BY <1>1, <2>1, <2>2 DEF Becomes, f
<1>6. CASE CollectByte(b)
  <2>1. /\ state = "COLLECT" /\ state' = "COLLECT" /\ index <= paket[1]
        /\ paket' = IF index < PaketSize THEN Stored(b) ELSE paket
        /\ crc' = crc8_update(crc, b) /\ index' = (index + 1) % 256
    BY <1>6 DEF CollectByte, P_LENGTH
  <2>2. /\ paket[1] \in 1..255 /\ paket[1] # 255 /\ index \in 1..paket[1]+1
        /\ Len(paket) = IF index < PaketSize THEN index ELSE PaketSize
    BY <2>1 DEF RegisterPart, Below255, P_LENGTH
  <2>3. index \in 1..254 /\ ~(index > paket[1])
    <3> DEFINE n == paket[1]
    <3>1. n \in 1..255 /\ n # 255 /\ index \in 1..n+1 /\ index <= n
      BY <2>1, <2>2
    <3> HIDE DEF n
    <3>2. index \in 1..254 /\ ~(index > n)
      BY <3>1
    <3> QED
      BY <3>2 DEF n
  <2>4. index' = index + 1
    BY <2>1, <2>3, NoWrap
  <2>5. paket' = IF index < PaketSize THEN Append(paket, b) ELSE paket
    BY <2>1, <2>2, <2>3, RxSizesAssumption DEF Stored
  <2>6. Taken(f, c) = Collected(f, c)
    BY <1>1, <2>1 DEF Taken
  <2>7. Collected(f, c) = [state |-> "COLLECT",
                           paket |-> IF index < PaketSize THEN Append(paket, b) ELSE paket,
                           index |-> index + 1, crc |-> crc8_update(crc, b)]
    BY <1>1, <2>3 DEF Collected
  <2> QED
    BY <1>1, <2>1, <2>4, <2>5, <2>6, <2>7 DEF f
<1>7. CASE PacketDone(b) \/ PacketDropped(b)
  <2>1. /\ state = "COLLECT" /\ index > paket[1]
        /\ state' = "IDLE" /\ paket' = <<>> /\ index' = 0 /\ crc' = 0
    BY <1>7 DEF PacketDone, PacketDropped, FrameEnds, P_LENGTH
  <2>2. Taken(f, c) = Fresh
    BY <1>1, <2>1 DEF Taken, Collected
  <2> QED
    BY <1>1, <2>1, <2>2 DEF Fresh, f
<1> QED
  BY <1>3, <1>4, <1>5, <1>6, <1>7 DEF Assemble

\* The word after a whole packet gives its messages out.
LEMMA CompletedDelivered ==
  ASSUME ShortAssumed, FramePart, pc # "reset", NEW c \in Cells, Assemble(c.id, c.byte),
         Completes(AsFrame, c)
  PROVE  c.whole \in {<<>>, delivered'}
<1> SUFFICES ASSUME c.whole # <<>> PROVE c.whole = delivered'
  OBVIOUS
<1> DEFINE p == c.whole
           f == AsFrame
<1>1. f.state = state /\ f.paket = paket /\ f.index = index /\ f.crc = crc
  BY DEF AsFrame
<1>2. p \in Sent /\ Follows(f, p, Len(Data(p)) + 2) /\ c.byte = Checksum[p]
  <2>1. state # "LOST"
    BY DEF FramePart
  <2> QED
    BY <1>1, <2>1 DEF Completes
<1> HIDE DEF f
<1>3. state = "COLLECT" /\ index > paket[1] /\ paket = Bytes(p) /\ crc = Checksum[p]
  BY <1>1, <1>2, FollowsLast
<1>4. crc8_update(crc, c.byte) = 0
  <2>1. crc = c.byte /\ crc \in Byte
    BY <1>2, <1>3 DEF FramePart
  <2>2. Xor(crc, c.byte) = 0
    BY <2>1, XorSame
  <2>3. crc_array[1] = 0
    BY DEF crc_array
  <2> QED
    BY <2>2, <2>3 DEF crc8_update
<1>5. ~(index <= paket[1])
  <2>1. paket[1] \in Nat /\ index \in Nat
    <3>1. paket[1] \in 2..127
      BY <1>2, <1>3, SentFacts
    <3> DEFINE n == paket[1]
    <3> HIDE DEF n
    <3>2. n \in 2..127
      BY <3>1 DEF n
    <3>3. n \in Nat
      BY <3>2
    <3> QED
      BY <3>3 DEF n, FramePart, Byte
  <2> QED
    BY <1>3, <2>1
<1>6. PacketDone(c.byte)
  BY <1>3, <1>4, <1>5
     DEF Assemble, Idle, GetLength, NoLength, CollectByte, PacketDropped, P_LENGTH
<1>7. PICK foreign \in NoiseBytes : delivered' = Messages(foreign)
  BY <1>6 DEF PacketDone
<1> QED
  BY <1>2, <1>3, <1>7, MessagesFound

-----------------------------------------------------------------------------
FollowInv ==
  /\ LinePart(packet, line)
  /\ \E z : Leads(AsFrame, Ahead, z) /\ InPlace(z, packet, line, InStep - calm, clean)

LEMMA FollowInit == RxTypes /\ Init => FollowInv
<1> SUFFICES ASSUME RxTypes, Init PROVE FollowInv
  OBVIOUS
<1>1. Ahead = <<>>
  <2>1. RingInv /\ rxRead = 0 /\ rxWrite = 0 /\ pc = "loop"
    BY DEF Init, RxTypes
  <2>2. Waiting = 0
    BY <2>1, WaitingValue, RxSizesAssumption DEF WaitingFacts, N
  <2>3. RxWords = <<>>
    BY <2>1, <2>2, WordsAreSequence, EmptySeq DEF WordsFromFirst
  <2> QED
    BY <2>1, <2>3 DEF Ahead
<1>2. Leads(AsFrame, Ahead, AsFrame)
  BY <1>1, LeadsNowhere
<1>3. AsFrame.state = "IDLE"
  BY DEF AsFrame, Init
<1>4. InPlace(AsFrame, packet, line, InStep - calm, clean)
  <2>1. clean = FALSE /\ InStep - calm \in 0..InStep
    BY InStepFacts DEF Init
  <2> QED
    BY <1>3, <2>1 DEF InPlace, Astray
<1>5. LinePart(packet, line)
  <2>1. line = <<>> /\ packet = <<>> /\ Len(<<>>) = 0 /\ <<>> \in Seq(BusWords)
    BY DEF Init
  <2> QED
    BY <2>1 DEF LinePart
<1> QED
  BY <1>2, <1>4, <1>5 DEF FollowInv

\* What a transmission puts on the line.
LEMMA TransmissionLine ==
  ASSUME ShortAssumed, NEW t \in Transmissions
  PROVE  LinePart(t.packet, t.words) /\ (t.packet # <<>> => Leaves(t.words, t.packet, 0))
<1>1. t.words \in Seq(BusWords)
  BY BusAssumption DEF BusWords
<1>2. CASE t.packet # <<>>
  <2>1. PICK p \in Sent : t = [words |-> Frame(p), packet |-> p]
    BY <1>2 DEF Transmissions
  <2>2. t.words = Frame(p) /\ t.packet = p
    BY <2>1
  <2>3. Leaves(Frame(p), p, 0)
    <3>1. Len(Frame(p)) \in Nat
      BY <1>1, <2>2, LenProperties
    <3>2. Len(Frame(p)) = Len(Frame(p)) - 0 /\ \A i \in 1..Len(Frame(p)) : 0 + i = i
      BY <3>1
    <3> QED
      BY <3>2 DEF Leaves
  <2>4. 0 \in Nat
    OBVIOUS
  <2> QED
    BY <1>1, <1>2, <2>2, <2>3, <2>4 DEF LinePart
<1>3. CASE t.packet = <<>>
  <2>1. PICK a \in Answers : t = [words |-> a, packet |-> <<>>]
    <3>1. \A p \in Sent : p # <<>>
      BY SentNotEmpty
    <3>2. \A p \in Sent : [words |-> Frame(p), packet |-> p].packet = p
      OBVIOUS
    <3> QED
      BY <1>3, <3>1, <3>2 DEF Transmissions
  <2>2. t.words = a /\ \A i \in DOMAIN a : a[i] # Word(1, 0)
    BY <2>1, BusAssumption
  <2>3. \A i \in 1..Len(t.words) : t.words[i] # Word(1, 0)
    BY <1>1, <2>2, LenProperties
  <2> QED
    BY <1>1, <1>3, <2>3 DEF LinePart
<1> QED
  BY <1>2, <1>3

\* What WordArrives and WordDamaged do.
Intact(c) ==
  /\ c.id = Head(line).id /\ c.byte = Head(line).byte
  /\ c.whole = IF Tail(line) = <<>> /\ clean THEN packet ELSE <<>>
  /\ calm' = IF ~HasRoom THEN 0 ELSE IF calm < InStep THEN calm + 1 ELSE calm
  /\ clean' = (clean /\ HasRoom)

Damaged(c) == c.whole = <<>> /\ calm' = 0 /\ clean' = FALSE

LEMMA ArrivalFacts ==
  ASSUME RxTypes, WordArrives \/ WordDamaged
  PROVE  /\ line # <<>> /\ line' = Tail(line) /\ UNCHANGED <<pc, packet, frameVars>>
         /\ \E c \in Cells : bidib_rx_buf_put(c) /\ (Intact(c) \/ Damaged(c))
<1>1. line # <<>> /\ line' = Tail(line) /\ UNCHANGED <<pc, packet, frameVars>>
  BY DEF WordArrives, WordDamaged, Transmit
<1>2. Head(line) \in BusWords
  BY <1>1, HeadTailProperties DEF RxTypes, RingInv
<1>3. CASE WordArrives
  <2> DEFINE whole == IF Tail(line) = <<>> /\ clean THEN packet ELSE <<>>
             c == Cell(Head(line), whole)
  <2>1. whole \in Sent \cup {<<>>}
    BY DEF RxTypes, RingInv
  <2>2. Transmit(c, HasRoom)
    BY <1>3 DEF WordArrives
  <2> HIDE DEF whole
  <2>3. c \in Cells /\ c.id = Head(line).id /\ c.byte = Head(line).byte /\ c.whole = whole
    BY <1>2, <2>1 DEF Cell, Cells, BusWords
  <2> HIDE DEF c
  <2>4. bidib_rx_buf_put(c)
    BY <2>2 DEF Transmit
  <2>5. calm' = IF ~HasRoom THEN 0 ELSE IF calm < InStep THEN calm + 1 ELSE calm
    BY <2>2 DEF Transmit
  <2>6. clean' = (clean /\ HasRoom)
    BY <2>2 DEF Transmit
  <2>7. Intact(c)
    BY <2>3, <2>5, <2>6 DEF Intact, whole
  <2> QED
    BY <1>1, <2>3, <2>4, <2>7
<1>4. CASE WordDamaged
  <2>1. PICK b \in NoiseBytes : Transmit(Cell(Word(Head(line).id, b), <<>>), FALSE)
    BY <1>4 DEF WordDamaged
  <2> DEFINE c == Cell(Word(Head(line).id, b), <<>>)
  <2>2. c \in Cells /\ c.whole = <<>>
    BY <1>2, BusAssumption DEF Cell, Word, Cells, BusWords
  <2> HIDE DEF c
  <2>3. bidib_rx_buf_put(c) /\ calm' = 0 /\ clean' = FALSE
    BY <2>1 DEF Transmit, c
  <2>4. Damaged(c)
    BY <2>2, <2>3 DEF Damaged
  <2> QED
    BY <1>1, <2>2, <2>3, <2>4
<1> QED
  BY <1>3, <1>4

LEMMA CalmFacts ==
  ASSUME RxTypes
  PROVE  /\ clean \in BOOLEAN /\ calm \in 0..InStep /\ InStep \in Nat
         /\ InStep - 0 = InStep
         /\ InStep - (IF calm < InStep THEN calm + 1 ELSE calm) = Sooner(InStep - calm)
         /\ (InStep - calm = 0) = (calm = InStep)
<1>1. clean \in BOOLEAN /\ calm \in 0..InStep /\ InStep \in Nat
  BY InStepFacts DEF RxTypes, BusPart
<1>2. /\ InStep - 0 = InStep
      /\ InStep - (IF calm < InStep THEN calm + 1 ELSE calm) = Sooner(InStep - calm)
      /\ (InStep - calm = 0) <=> (calm = InStep)
  BY <1>1 DEF Sooner
<1> QED
  BY <1>1, <1>2

LEMMA FollowArrival ==
  ASSUME ShortAssumed, RoomAssumed, RxTypes, RxTypes', FollowInv, WordArrives \/ WordDamaged
  PROVE  FollowInv'
<1> DEFINE n == InStep - calm
<1>1. PICK z : Leads(AsFrame, Ahead, z) /\ InPlace(z, packet, line, n, clean)
  BY DEF FollowInv
<1>2. /\ line # <<>> /\ line' = Tail(line) /\ UNCHANGED <<pc, packet, frameVars>>
      /\ \E c \in Cells : bidib_rx_buf_put(c) /\ (Intact(c) \/ Damaged(c))
  BY ArrivalFacts
<1>3. PICK c \in Cells : bidib_rx_buf_put(c) /\ (Intact(c) \/ Damaged(c))
  BY <1>2
<1>4. AsFrame' = AsFrame
  BY <1>2 DEF AsFrame, frameVars
<1>5. LinePart(packet, line) /\ LinePart(packet', line')
  BY <1>2, LineTail DEF FollowInv
<1>6. Ahead' = IF HasRoom THEN Ahead \o <<c>> ELSE Ahead
  BY <1>3, AheadGrows DEF RxTypes
<1>7. Ahead \in Seq(Cells) /\ BusWord(c)
  BY AheadIsSequence, CellsHoldBytes DEF CellByte, BusWord
<1>8. Astray(z, InStep)
  BY <1>1, InPlaceAstray
<1>9. CASE ~HasRoom
  <2>1. calm' = 0 /\ clean' = FALSE
    BY <1>3, <1>9 DEF Intact, Damaged
  <2>2. InPlace(z, packet', line', InStep, FALSE)
    BY <1>8, NothingArrives
  <2>3. InStep - calm' = InStep
    BY <2>1, CalmFacts
  <2>4. Leads(AsFrame', Ahead', z) /\ InPlace(z, packet', line', InStep - calm', clean')
    BY <1>1, <1>4, <1>6, <1>9, <2>1, <2>2, <2>3
  <2> QED
    BY <1>5, <2>4 DEF FollowInv
<1>10. CASE HasRoom
  <2>1. InPlace(Taken(z, c), packet', line', InStep - calm', clean') /\ Completes(z, c)
    <3>1. CASE Intact(c)
      <4>1. /\ c.id = Head(line).id /\ c.byte = Head(line).byte
            /\ c.whole = IF Tail(line) = <<>> /\ clean THEN packet ELSE <<>>
            /\ calm' = IF calm < InStep THEN calm + 1 ELSE calm
        BY <1>10, <3>1 DEF Intact
      <4>2. clean' = clean
        BY <1>10, <3>1, CalmFacts DEF Intact
      <4>3. InStep - calm' = Sooner(n) /\ clean \in BOOLEAN
        BY <4>1, CalmFacts
      <4> HIDE DEF n
      <4>4. InPlace(Taken(z, c), packet, Tail(line), Sooner(n), clean) /\ Completes(z, c)
        BY <1>1, <1>2, <1>5, <4>1, <4>3, ArrivesIntact
      <4> QED
        BY <1>2, <4>2, <4>3, <4>4
    <3>2. CASE Damaged(c)
      <4>1. c.whole = <<>> /\ calm' = 0 /\ clean' = FALSE
        BY <3>2 DEF Damaged
      <4>2. InPlace(Taken(z, c), packet', line', InStep, FALSE) /\ Completes(z, c)
        <5>1. InPlace(Taken(z, c), packet, line', InStep, FALSE) /\ Completes(z, c)
          BY <1>1, <1>7, <4>1, ArrivesDamaged
        <5> QED
          BY <1>2, <5>1
      <4>3. InStep - calm' = InStep
        BY <4>1, CalmFacts
      <4> QED
        BY <4>1, <4>2, <4>3
    <3> QED
      BY <1>3, <3>1, <3>2
  <2>2. Leads(AsFrame, Ahead \o <<c>>, Taken(z, c))
    BY <1>1, <1>7, <2>1, LeadsOn
  <2>3. Leads(AsFrame', Ahead', Taken(z, c))
    BY <1>4, <1>6, <1>10, <2>2
  <2> QED
    BY <1>5, <2>1, <2>3 DEF FollowInv
<1> QED
  BY <1>9, <1>10

LEMMA FollowStep ==
  ASSUME ShortAssumed, RoomAssumed, RxTypes, RxTypes', RegisterPart, Below255, Below255',
         FollowInv, [Next]_vars
  PROVE  FollowInv'
<1> DEFINE n == InStep - calm
<1>1. PICK z : Leads(AsFrame, Ahead, z) /\ InPlace(z, packet, line, n, clean)
  BY DEF FollowInv
<1>2. LinePart(packet, line) /\ RingInv'
  BY DEF FollowInv, RxTypes
<1>3. CASE Talk
  <2>1. PICK t \in Transmissions : line' = t.words /\ packet' = t.packet
    BY <1>3 DEF Talk
  <2>2. LinePart(packet', line') /\ (packet' # <<>> => Leaves(line', packet', 0))
    BY <2>1, TransmissionLine
  <2>3. line = <<>> /\ UNCHANGED <<pc, frameVars, calm>>
    BY <1>3 DEF Talk
  <2>4. clean' = (calm = InStep)
    BY <1>3 DEF Talk
  <2>5. clean' = (n = 0)
    BY <2>4, CalmFacts
  <2>6. InStep - calm' = n
    BY <2>3
  <2> HIDE DEF n
  <2>7. InPlace(z, packet', line', n, n = 0)
    BY <1>1, <2>2, <2>3, NextTransmission
  <2>8. AsFrame' = AsFrame /\ Ahead' = Ahead
    BY <1>2, <1>3, <2>3, AheadSame DEF AsFrame, frameVars
  <2>9. Leads(AsFrame', Ahead', z) /\ InPlace(z, packet', line', InStep - calm', clean')
    BY <1>1, <2>5, <2>6, <2>7, <2>8
  <2> QED
    BY <2>2, <2>9 DEF FollowInv
<1>4. CASE WordArrives \/ WordDamaged
  BY <1>4, FollowArrival
<1>5. CASE ReadWord \/ WrapRead
  <2> DEFINE c == Head(Ahead)
  <2>1. /\ Ahead # <<>> /\ Ahead' = Tail(Ahead) /\ c \in Cells
        /\ Assemble(c.id, c.byte) /\ pc' = "loop" /\ pc # "reset" /\ UNCHANGED busVars
    BY <1>2, <1>5, AheadTaken
  <2>2. Ahead \in Seq(Cells)
    BY AheadIsSequence
  <2>3. Leads(Taken(AsFrame, c), Ahead', z)
    BY <1>1, <2>1, <2>2, LeadsFrom
  <2>4. AsFrame' = Taken(AsFrame, c)
    BY <2>1, AssembleTaken DEF RxTypes
  <2>5. UNCHANGED <<packet, line, calm, clean>>
    BY <2>1 DEF busVars
  <2>6. Leads(AsFrame', Ahead', z) /\ InPlace(z, packet', line', InStep - calm', clean')
    BY <1>1, <2>3, <2>4, <2>5
  <2> QED
    BY <1>2, <2>5, <2>6 DEF FollowInv
<1>6. CASE ReadLast \/ ResetAssembler \/ UNCHANGED vars
  <2>1. AsFrame' = AsFrame /\ UNCHANGED <<packet, line, calm, clean>>
    BY <1>6 DEF ReadLast, ResetAssembler, vars, busVars, frameVars, AsFrame, Fresh
  <2>2. Ahead' = Ahead
    BY <1>2, <1>6, AheadSame
  <2>3. Leads(AsFrame', Ahead', z) /\ InPlace(z, packet', line', InStep - calm', clean')
    BY <1>1, <2>1, <2>2
  <2> QED
    BY <1>2, <2>1, <2>3 DEF FollowInv
<1>7. CASE FlushRx
  <2>1. calm' = 0 /\ clean' = FALSE /\ UNCHANGED <<packet, line>> /\ AsFrame' = Fresh
    BY <1>7 DEF FlushRx, AsFrame
  <2>2. Ahead' = <<>>
    BY <1>2, <1>7, AheadFlushed
  <2>3. Leads(AsFrame', Ahead', Fresh)
    BY <2>1, <2>2, LeadsNowhere
  <2>4. Astray(Fresh, InStep)
    BY DEF Fresh, Astray
  <2>5. InPlace(Fresh, packet', line', InStep, FALSE)
    BY <2>4, NothingArrives
  <2>6. InStep - calm' = InStep
    BY <2>1, CalmFacts
  <2>7. InPlace(Fresh, packet', line', InStep - calm', clean')
    BY <2>1, <2>5, <2>6
  <2> QED
    BY <1>2, <2>1, <2>3, <2>7 DEF FollowInv
<1> QED
  BY <1>3, <1>4, <1>5, <1>6, <1>7 DEF Next, Bus, Loop

LEMMA ReadDelivers ==
  ASSUME ShortAssumed, RxTypes, RxTypes', FollowInv, ReadWord \/ WrapRead
  PROVE  raw'[1].whole \in {<<>>, delivered'}
<1> DEFINE c == Head(Ahead)
<1>1. /\ Ahead # <<>> /\ c \in Cells /\ Assemble(c.id, c.byte) /\ pc # "reset" /\ raw' = <<c>>
  BY AheadTaken DEF RxTypes
<1>2. Ahead \in Seq(Cells)
  BY AheadIsSequence
<1>3. Completes(AsFrame, c)
  BY <1>1, <1>2, LeadsFrom DEF FollowInv
<1> HIDE DEF c
<1>4. c.whole \in {<<>>, delivered'}
  BY <1>1, <1>3, CompletedDelivered DEF RxTypes
<1> QED
  BY <1>1, <1>4

(***************************************************************************)
(* As long as the master keeps its packets shorter than the buffer, no      *)
(* length on the bus is 255 and the ring has room at its wrap, a packet     *)
(* whose words all arrive is given to process_bidib_message, message by     *)
(* message, in the step that reads its CRC, once as many words as the       *)
(* longest length asks for went by without a loss - whatever was lost,      *)
(* damaged or taken for a length before (bidib_client_parser.c:814-888).    *)
(***************************************************************************)
THEOREM WholePacketsPass ==
  RoomAssumed /\ ShortAssumed => (Spec /\ []Below255 => WholePacketsDelivered)
<1> SUFFICES ASSUME RoomAssumed, ShortAssumed
             PROVE  Spec /\ []Below255 => WholePacketsDelivered
  OBVIOUS
<1>1. Init => RegisterPart
  BY DEF Init, RegisterPart
<1>2. RxTypes /\ Below255 /\ RegisterPart /\ [Next]_vars => RegisterPart'
  BY RegisterStep
<1>3. RxTypes /\ Init => FollowInv
  BY FollowInit
<1>4. RxTypes /\ RxTypes' /\ RegisterPart /\ Below255 /\ Below255' /\ FollowInv /\ [Next]_vars
        => FollowInv'
  BY FollowStep
<1>5. RxTypes /\ RxTypes' /\ FollowInv
        => [ReadWord \/ WrapRead => raw'[1].whole \in {<<>>, delivered'}]_vars
  BY ReadDelivers
<1> QED
  BY <1>1, <1>2, <1>3, <1>4, <1>5, RxTypesInvariant, PTL DEF Spec, WholePacketsDelivered
=============================================================================
