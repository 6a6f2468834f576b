--------------------------- MODULE BidibLink_proofs ---------------------------
(***************************************************************************)
(* Proofs about BidibLink, for every ring size, message set and bus timing. *)
(***************************************************************************)
EXTENDS BidibLink, TLAPS, SequenceTheorems

(* Masking an index yields a slot of the ring. *)
LEMMA WrapInSlots ==
  ASSUME NEW x \in Nat
  PROVE  Wrap(x) \in Slots
  BY SizesAssumption DEF Wrap, Slots

LEMMA WrapOnce ==
  ASSUME NEW x \in TxBufSize..2*TxBufSize-1
  PROVE  Wrap(x) = x - TxBufSize
  BY SizesAssumption DEF Wrap

LEMMA WrapSlot ==
  ASSUME NEW x \in Slots
  PROVE  Wrap(x) = x
  BY SizesAssumption DEF Wrap, Slots

-----------------------------------------------------------------------------
(* Type correctness: every index stays inside its ring, every counter in its *)
(* width, whatever the bus does (no timing assumed).                         *)

LEMMA WordsOfTheBus ==
  /\ {Idle, Nak, Crc, LogonWord} \subseteq Words
  /\ \A n \in 1..TxBufSize : LengthWord(n) \in Words
  /\ \A b \in Cells : DataWord(b) \in Words
  BY DEF Words

LEMMA TypeInit == Init => TypeOK
<1> SUFFICES ASSUME Init PROVE TypeOK
  OBVIOUS
<1>1. buf \in [Slots -> Cells]
  BY DEF Init, Cells
<1>2. /\ 0 \in Slots
      /\ 0 \in 0..TxBufSize
      /\ 0 \in 0..BackoffRange-1
      /\ 0 \in 0..LogonMsgSize-1
  BY SizesAssumption DEF Slots
<1>3. /\ wire \in Words
      /\ pc \in MainSteps /\ conn \in ConnStates
  BY WordsOfTheBus DEF Init, MainSteps, BootSteps, ConnStates
<1>4. rx \in Seq(Answers)
  BY DEF Init
<1> QED
  BY <1>1, <1>2, <1>3, <1>4 DEF Init, TypeOK

LEMMA TypeReceive == TypeOK /\ (LogonToken \/ Poll) => TypeOK'
<1> SUFFICES ASSUME TypeOK, LogonToken \/ Poll PROVE TypeOK'
  OBVIOUS
<1> USE DEF ringVars, isrVars, linkVars
<1>1. CASE LogonBackoff
  <2>1. backoff' \in 0..BackoffRange-1
    BY <1>1, SizesAssumption DEF LogonBackoff, TypeOK
  <2> QED
    BY <1>1, <2>1 DEF TypeOK, LogonBackoff
<1>2. CASE LogonStart
  BY <1>2, SizesAssumption, WordsOfTheBus DEF TypeOK, LogonStart, ConnStates
<1>3. CASE LogonRetry
  <2>1. backoff' \in 0..BackoffRange-1
    BY <1>3, SizesAssumption DEF LogonRetry, TypeOK
  <2> QED
    BY <1>3, <2>1 DEF TypeOK, LogonRetry, ConnStates
<1>4. CASE PollWithData
  <2>1. read + ahead \in Nat
    BY DEF TypeOK, Slots
  <2>2. read' \in Slots
    BY <1>4, <2>1, WrapInSlots DEF PollWithData
  <2>3. ahead \in 1..TxBufSize
    BY <1>4 DEF PollWithData, TypeOK
  <2>4. wire' \in Words
    BY <1>4, <2>3, WordsOfTheBus DEF PollWithData
  <2>5. pRem' \in 0..TxBufSize /\ ahead' \in 0..TxBufSize
    BY <1>4, SizesAssumption DEF PollWithData, TypeOK
  <2> QED
    BY <1>4, <2>2, <2>4, <2>5 DEF TypeOK, PollWithData, PollArrives
<1>5. CASE PollWithoutData
  BY <1>5, WordsOfTheBus DEF TypeOK, PollWithoutData, PollArrives
<1> QED
  BY <1>1, <1>2, <1>3, <1>4, <1>5 DEF LogonToken, Poll

LEMMA TypeTransmit == TypeOK /\ TxIsr => TypeOK'
<1> SUFFICES ASSUME TypeOK, TxIsr PROVE TypeOK'
  OBVIOUS
<1> USE DEF ringVars, isrVars, linkVars
<1>1. CASE SendLogonWord
  <2>1. logonRem' \in 0..LogonMsgSize-1
    BY <1>1, SizesAssumption DEF SendLogonWord, TypeOK
  <2> QED
    BY <1>1, <2>1, WordsOfTheBus DEF TypeOK, SendLogonWord
<1>2. CASE LogonEnd
  <2>1. Reserve \in Slots /\ 0 \in 0..TxBufSize
    BY SizesAssumption DEF Slots
  <2>2. heard' \in BOOLEAN
    BY <1>2 DEF LogonEnd, TypeOK
  <2> QED
    BY <1>2, <2>1, <2>2 DEF TypeOK, LogonEnd
<1>3. CASE NakEnd
  BY <1>3 DEF TypeOK, NakEnd
<1>4. CASE SendByte
  <2>1. pIndex + 1 \in Nat
    BY DEF TypeOK, Slots
  <2>2. pIndex' \in Slots
    BY <1>4, <2>1, WrapInSlots DEF SendByte
  <2>3. wire' \in Words
    BY <1>4, WordsOfTheBus DEF SendByte, TypeOK
  <2>4. pRem' \in 0..TxBufSize
    BY <1>4, SizesAssumption DEF SendByte, TypeOK
  <2> QED
    BY <1>4, <2>2, <2>3, <2>4 DEF TypeOK, SendByte
<1>5. CASE SendCrc
  BY <1>5, WordsOfTheBus DEF TypeOK, SendCrc
<1> QED
  BY <1>1, <1>2, <1>3, <1>4, <1>5 DEF TxIsr

LEMMA TypeMain == TypeOK /\ MainStep => TypeOK'
<1> SUFFICES ASSUME TypeOK, MainStep PROVE TypeOK'
  OBVIOUS
<1> USE DEF ringVars, isrVars, linkVars, MainSteps, BootSteps, FlushSteps, ConnStates
<1>1. CASE BootReset
  BY <1>1 DEF TypeOK, BootReset
<1>2. CASE SetBidibToReceive
  BY <1>2 DEF TypeOK, SetBidibToReceive
<1>3. CASE CheckTimeout
  BY <1>3 DEF TypeOK, CheckTimeout
<1>4. CASE Disconnect
  BY <1>4 DEF TypeOK, Disconnect
<1>5. CASE Unaddress
  BY <1>5 DEF TypeOK, Unaddress
<1>6. CASE FlushRx
  BY <1>6 DEF TypeOK, FlushRx
<1>7. CASE FlushTx
  BY <1>7, SizesAssumption DEF TypeOK, FlushTx, Slots
<1>8. CASE PrepareTxLogon
  <2>1. buf' \in [Slots -> Cells]
    BY <1>8 DEF TypeOK, PrepareTxLogon, Cells
  <2> QED
    BY <1>8, <2>1 DEF TypeOK, PrepareTxLogon
<1>9. CASE ParseAck
  <2>1. rx' \in Seq(Answers)
    BY <1>9 DEF TypeOK, ParseAck
  <2>2. addressed' \in BOOLEAN /\ overdue' \in BOOLEAN
    BY <1>9 DEF TypeOK, ParseAck
  <2> QED
    BY <1>9, <2>1, <2>2 DEF TypeOK, ParseAck
<1>10. CASE ParseRejected
  <2>1. rx' \in Seq(Answers)
    BY <1>10 DEF TypeOK, ParseRejected
  <2> QED
    BY <1>10, <2>1 DEF TypeOK, ParseRejected
<1> QED
  BY <1>1, <1>2, <1>3, <1>4, <1>5, <1>6, <1>7, <1>8, <1>9, <1>10 DEF MainStep

(* What put stores is made of the message's bytes and of what was there. *)
LEMMA PutBytes ==
  ASSUME TypeOK, NEW m \in Messages, Put(m)
  PROVE  buf' \in [Slots -> Cells]
<1>1. ASSUME NEW i \in Slots, NEW offset \in Nat, offset < Len(m)
      PROVE  m[offset + 1] \in Cells
  <2>1. m \in Seq(Bytes)
    BY MessagesAssumption
  <2>2. offset + 1 \in 1..Len(m)
    BY <1>1, <2>1
  <2> QED
    BY <2>1, <2>2 DEF Cells
<1>2. ASSUME NEW i \in Slots
      PROVE  Wrap(i + TxBufSize - write) \in Nat
  <2>1. i + TxBufSize - write \in Nat
    BY SizesAssumption DEF TypeOK, Slots
  <2> QED
    BY <2>1, WrapInSlots DEF Slots
<1> QED
  BY <1>1, <1>2 DEF Put, TypeOK

LEMMA TypePut ==
  ASSUME TypeOK, NEW m \in Messages, Put(m)
  PROVE  TypeOK'
<1> USE DEF ringVars, isrVars, linkVars
<1>1. Len(m) \in Nat
  BY MessagesAssumption
<1>2. write' \in Slots
  <2>1. write + Len(m) \in Nat
    BY <1>1 DEF TypeOK, Slots
  <2> QED
    BY <2>1, WrapInSlots DEF Put
<1>3. ahead' \in 0..TxBufSize
  BY <1>1, SizesAssumption DEF Put, TypeOK
<1> QED
  BY <1>2, <1>3, PutBytes DEF TypeOK, Put

LEMMA TypeMaster ==
  TypeOK /\ ((\E a \in Answers : MasterAnswers(a)) \/ MasterIgnores \/ PollOverdue) => TypeOK'
<1> USE DEF ringVars, isrVars, linkVars
<1>1. ASSUME TypeOK, NEW a \in Answers, MasterAnswers(a) PROVE TypeOK'
  <2>1. rx' \in Seq(Answers)
    BY <1>1 DEF TypeOK, MasterAnswers
  <2> QED
    BY <1>1, <2>1 DEF TypeOK, MasterAnswers
<1>2. ASSUME TypeOK, MasterIgnores PROVE TypeOK'
  BY <1>2 DEF TypeOK, MasterIgnores
<1>3. ASSUME TypeOK, PollOverdue PROVE TypeOK'
  BY <1>3 DEF TypeOK, PollOverdue
<1> QED
  BY <1>1, <1>2, <1>3

(***************************************************************************)
(* Every reachable state is well typed.                                     *)
(***************************************************************************)
THEOREM TypeCorrect == Spec => []TypeOK
<1>1. TypeOK /\ [Next]_vars => TypeOK'
  <2> SUFFICES ASSUME TypeOK, [Next]_vars PROVE TypeOK'
    OBVIOUS
  <2>1. CASE UNCHANGED vars
    BY <2>1 DEF TypeOK, vars, ringVars, isrVars, linkVars
  <2>2. CASE Next
    BY <2>2, TypeReceive, TypeTransmit, TypeMain, TypePut, TypeMaster DEF Next
  <2> QED
    BY <2>1, <2>2
<1> QED
  BY TypeInit, <1>1, PTL DEF Spec

-----------------------------------------------------------------------------
(* What holds whatever the timing. *)

(***************************************************************************)
(* The bus is never driven without the transmit interrupt that will release *)
(* it.                                                                      *)
(***************************************************************************)
THEOREM DriverOwned == Spec => []DriverHasOwner
<1>1. Init => DriverHasOwner
  BY DEF Init, DriverHasOwner
<1>2. DriverHasOwner /\ [Next]_vars => DriverHasOwner'
  <2> SUFFICES ASSUME DriverHasOwner, [Next]_vars PROVE DriverHasOwner'
    OBVIOUS
  <2> USE DEF DriverHasOwner, isrVars
  <2>1. CASE LogonToken
    BY <2>1 DEF LogonToken, LogonBackoff, LogonStart, LogonRetry
  <2>2. CASE Poll
    BY <2>2 DEF Poll, PollWithData, PollWithoutData, PollArrives
  <2>3. CASE TxIsr
    BY <2>3 DEF TxIsr, SendLogonWord, LogonEnd, NakEnd, SendByte, SendCrc
  <2>4. CASE MainStep
    BY <2>4 DEF MainStep, BootReset, SetBidibToReceive, CheckTimeout, Disconnect,
                Unaddress, FlushRx, FlushTx, PrepareTxLogon, ParseAck, ParseRejected
  <2>5. CASE \E m \in Messages : Put(m)
    BY <2>5 DEF Put
  <2>6. CASE (\E a \in Answers : MasterAnswers(a)) \/ MasterIgnores \/ PollOverdue
    BY <2>6 DEF MasterAnswers, MasterIgnores, PollOverdue
  <2>7. CASE UNCHANGED vars
    BY <2>7 DEF vars
  <2> QED
    BY <2>1, <2>2, <2>3, <2>4, <2>5, <2>6, <2>7 DEF Next
<1> QED
  BY <1>1, <1>2, PTL DEF Spec

(* The back-off is only raised in APPLIED, which is entered with it at 0. *)
BackoffInv == BackoffStaysLow /\ (conn = "APPLIED" => backoff = 0)

(***************************************************************************)
(* The back-off never exceeds 1, for every range of the counter.            *)
(***************************************************************************)
THEOREM BackoffLow == Spec => []BackoffStaysLow
<1>1. Init => BackoffInv
  BY DEF Init, BackoffInv, BackoffStaysLow
<1>2. TypeOK /\ BackoffInv /\ [Next]_vars => BackoffInv'
  <2> SUFFICES ASSUME TypeOK, BackoffInv, [Next]_vars PROVE BackoffInv'
    OBVIOUS
  <2> USE DEF BackoffInv, BackoffStaysLow, linkVars
  <2>1. CASE LogonBackoff
    BY <2>1 DEF LogonBackoff, TypeOK
  <2>2. CASE LogonStart
    BY <2>2 DEF LogonStart
  <2>3. CASE LogonRetry
    <3>1. (0 + 1) % BackoffRange = 1
      BY SizesAssumption
    <3> QED
      BY <2>3, <3>1 DEF LogonRetry
  <2>4. CASE Poll
    BY <2>4 DEF Poll, PollWithData, PollWithoutData
  <2>5. CASE TxIsr
    BY <2>5 DEF TxIsr, SendLogonWord, LogonEnd, NakEnd, SendByte, SendCrc
  <2>6. CASE MainStep
    BY <2>6 DEF MainStep, BootReset, SetBidibToReceive, CheckTimeout, Disconnect,
                Unaddress, FlushRx, FlushTx, PrepareTxLogon, ParseAck, ParseRejected
  <2>7. CASE \E m \in Messages : Put(m)
    BY <2>7 DEF Put
  <2>8. CASE (\E a \in Answers : MasterAnswers(a)) \/ MasterIgnores \/ PollOverdue
    BY <2>8 DEF MasterAnswers, MasterIgnores, PollOverdue
  <2>9. CASE UNCHANGED vars
    BY <2>9 DEF vars
  <2> QED
    BY <2>1, <2>2, <2>3, <2>4, <2>5, <2>6, <2>7, <2>8, <2>9 DEF Next, LogonToken
<1>3. BackoffInv => BackoffStaysLow
  BY DEF BackoffInv
<1> QED
  BY <1>1, <1>2, <1>3, TypeCorrect, PTL DEF Spec

-----------------------------------------------------------------------------
(* What holds when the bus and the loop keep to the timing of a logon, and  *)
(* what when they keep to every timing assumption.                          *)

LogonTimed == {"quiet_boot", "prompt_ack", "short_flush"} \subseteq Assumed

AllTimed == Assumed = Assumptions

LEMMA LogonGuards ==
  ASSUME LogonTimed
  PROVE  "quiet_boot" \in Assumed /\ "prompt_ack" \in Assumed /\ "short_flush" \in Assumed
  BY DEF LogonTimed

LEMMA TimedGuards ==
  ASSUME AllTimed
  PROVE  LogonTimed /\ "paced_puts" \in Assumed /\ "no_late_poll" \in Assumed
  BY DEF AllTimed, Assumptions, LogonTimed

LEMMA NothingAhead == \A x \in Slots : Wrap(x + 0) = x
<1> SUFFICES ASSUME NEW x \in Slots PROVE Wrap(x + 0) = x
  OBVIOUS
<1>1. x + 0 = x
  BY SizesAssumption DEF Slots
<1> QED
  BY <1>1, WrapSlot

(* Moving an index by n after moving it by a is moving it by a + n.  The sum *)
(* stays below twice the ring, so one wrap is all the mask ever does.        *)
LEMMA WrapAdd ==
  ASSUME NEW r \in Slots, NEW a \in 0..TxBufSize, NEW n \in 1..TxBufSize, a + n <= TxBufSize
  PROVE  Wrap(Wrap(r + a) + n) = Wrap(r + (a + n))
<1> DEFINE x == r + a
           y == x + n
<1>1. x \in Nat /\ y \in 0..2*TxBufSize-1 /\ x < y /\ r + (a + n) = y
  BY SizesAssumption DEF Slots
<1>2. n \in 1..TxBufSize
  OBVIOUS
<1> HIDE DEF x, y
<1>3. CASE y < TxBufSize
  <2>1. x \in Slots /\ y \in Slots
    BY <1>1, <1>3, SizesAssumption DEF Slots
  <2> QED
    BY <1>1, <2>1, WrapSlot DEF y
<1>4. CASE y >= TxBufSize /\ x < TxBufSize
  <2>1. x \in Slots /\ y \in TxBufSize..2*TxBufSize-1
    BY <1>1, <1>4, SizesAssumption DEF Slots
  <2> QED
    BY <1>1, <2>1, WrapSlot, WrapOnce DEF y
<1>5. CASE x >= TxBufSize
  <2>1. x \in TxBufSize..2*TxBufSize-1 /\ y \in TxBufSize..2*TxBufSize-1
    BY <1>1, <1>5, SizesAssumption
  <2>2. Wrap(x) = x - TxBufSize /\ Wrap(y) = y - TxBufSize
    BY <2>1, WrapOnce
  <2>3. (x - TxBufSize) + n = y - TxBufSize /\ y - TxBufSize \in Slots
    BY <1>1, <1>2, <2>1, SizesAssumption DEF y, Slots
  <2> QED
    BY <1>1, <2>2, <2>3, WrapSlot DEF x
<1> QED
  BY <1>1, <1>3, <1>4, <1>5, SizesAssumption DEF x

(* The parser takes the only answer there is. *)
LEMMA LastAnswer ==
  ASSUME TypeOK, rx # <<>>, Len(rx) <= 1
  PROVE  Tail(rx) = <<>>
<1>1. rx \in Seq(Answers)
  BY DEF TypeOK
<1>2. Tail(rx) \in Seq(Answers) /\ Len(Tail(rx)) = Len(rx) - 1
  BY <1>1
<1>3. Len(Tail(rx)) = 0
  BY <1>1, <1>2, Len(rx) \in Nat
<1> QED
  BY <1>2, <1>3

LEMMA LinkInit == Init => LinkInv
  BY DEF Init, LinkInv, ConnectedPart, UnconnectedPart, AnswerPart, DriverPart,
         Unflushed, BootSteps

LEMMA LinkReceive ==
  ASSUME LogonTimed, TypeOK, LinkInv, LogonToken \/ Poll
  PROVE  LinkInv'
<1> USE LogonGuards DEF LinkInv, ConnectedPart, UnconnectedPart, AnswerPart, DriverPart,
        Unflushed, BootSteps, FlushSteps, ringVars, isrVars, linkVars
<1>1. CASE LogonBackoff
  BY <1>1 DEF LogonBackoff
<1>2. CASE LogonStart
  BY <1>2 DEF LogonStart, LogonTokenArrives
<1>3. CASE LogonRetry
  BY <1>3 DEF LogonRetry
<1>4. CASE PollWithData
  <2>1. (conn = "CONNECTED" \/ pc = "unaddress") /\ ~de
    BY <1>4 DEF PollWithData, PollArrives
  <2>2. conn = "CONNECTED" => write' = Wrap(read' + ahead')
    <3> SUFFICES ASSUME conn = "CONNECTED" PROVE write' = Wrap(read' + ahead')
      OBVIOUS
    <3>1. write' = read' /\ read' \in Slots /\ ahead' = 0
      BY <1>4, TypeReceive DEF PollWithData, TypeOK, Poll
    <3> QED
      BY <3>1, NothingAhead
  <2>3. /\ UNCHANGED <<pc, conn, addressed, rx, heard, write, logonMode, logonRem, nak>>
        /\ ~logonMode /\ de' /\ txIrq' /\ ahead' = 0
    BY <1>4 DEF PollWithData, PollArrives
  <2>4. CASE conn = "CONNECTED"
    BY <2>1, <2>2, <2>3, <2>4
  <2>5. CASE conn # "CONNECTED" /\ pc = "unaddress"
    BY <2>1, <2>3, <2>5
  <2> QED
    BY <2>1, <2>4, <2>5
<1>5. CASE PollWithoutData
  <2>1. (conn = "CONNECTED" \/ pc = "unaddress") /\ ~de
    BY <1>5 DEF PollWithoutData, PollArrives
  <2> QED
    BY <1>5, <2>1 DEF PollWithoutData, PollArrives
<1> QED
  BY <1>1, <1>2, <1>3, <1>4, <1>5 DEF LogonToken, Poll

LEMMA LinkTransmit ==
  ASSUME LogonTimed, TypeOK, LinkInv, TxIsr
  PROVE  LinkInv'
<1> USE LogonGuards DEF LinkInv, ConnectedPart, UnconnectedPart, AnswerPart, DriverPart,
        Unflushed, BootSteps, FlushSteps, ringVars, isrVars, linkVars
<1>1. CASE SendLogonWord
  <2>1. logonRem' \in 0..LogonMsgSize-1 /\ (logonRem' > 0 => logonRem > 0)
    BY <1>1, SizesAssumption DEF SendLogonWord, TypeOK
  <2> QED
    BY <1>1, <2>1 DEF SendLogonWord
<1>2. CASE LogonEnd
  <2>1. conn # "CONNECTED" /\ pc = "loop"
    BY <1>2 DEF LogonEnd, TypeOK, MainSteps
  <2> QED
    BY <1>2, <2>1 DEF LogonEnd
<1>3. CASE NakEnd
  BY <1>3 DEF NakEnd
<1>4. CASE SendByte
  BY <1>4 DEF SendByte
<1>5. CASE SendCrc
  BY <1>5 DEF SendCrc
<1> QED
  BY <1>1, <1>2, <1>3, <1>4, <1>5 DEF TxIsr

LEMMA LinkMain ==
  ASSUME LogonTimed, TypeOK, LinkInv, MainStep
  PROVE  LinkInv'
<1> USE LogonGuards DEF LinkInv, ConnectedPart, UnconnectedPart, AnswerPart, DriverPart,
        Unflushed, BootSteps, FlushSteps, ringVars, isrVars, linkVars
<1>1. CASE BootReset
  BY <1>1 DEF BootReset
<1>2. CASE SetBidibToReceive
  BY <1>2 DEF SetBidibToReceive
<1>3. CASE CheckTimeout
  BY <1>3 DEF CheckTimeout
<1>4. CASE Disconnect
  BY <1>4 DEF Disconnect
<1>5. CASE Unaddress
  BY <1>5 DEF Unaddress
<1>6. CASE FlushRx
  BY <1>6 DEF FlushRx
<1>7. CASE FlushTx
  BY <1>7 DEF FlushTx
<1>8. CASE PrepareTxLogon
  BY <1>8 DEF PrepareTxLogon
<1>9. CASE ParseAck
  <2>1. rx # <<>> /\ rx' = Tail(rx)
    BY <1>9 DEF ParseAck
  <2>2. rx' = <<>> /\ Len(rx') <= 1
    BY <2>1, LastAnswer
  <2>3. conn # "CONNECTED" /\ read = Reserve /\ write = Reserve /\ ahead = 0
    BY <2>1
  <2>4. write' = Wrap(read' + ahead')
    <3>1. Reserve \in Slots
      BY SizesAssumption DEF Slots
    <3> QED
      BY <1>9, <2>3, <3>1, NothingAhead DEF ParseAck
  <2> QED
    BY <1>9, <2>1, <2>2, <2>3, <2>4 DEF ParseAck
<1>10. CASE ParseRejected
  <2>1. rx # <<>> /\ rx' = Tail(rx)
    BY <1>10 DEF ParseRejected
  <2>2. rx' = <<>> /\ Len(rx') <= 1
    BY <2>1, LastAnswer
  <2> QED
    BY <1>10, <2>1, <2>2 DEF ParseRejected
<1> QED
  BY <1>1, <1>2, <1>3, <1>4, <1>5, <1>6, <1>7, <1>8, <1>9, <1>10 DEF MainStep

(* A put keeps the write index as far ahead of the read index as there are *)
(* bytes waiting.                                                           *)
LEMMA LinkPut ==
  ASSUME LogonTimed, TypeOK, LinkInv, NEW m \in Messages, Put(m)
  PROVE  LinkInv'
<1> USE DEF LinkInv, ConnectedPart, UnconnectedPart, AnswerPart, DriverPart,
        Unflushed, BootSteps, FlushSteps, ringVars, isrVars, linkVars
<1>1. Len(m) \in 1..TxBufSize
  BY MessagesAssumption
<1>2. conn = "CONNECTED" => write' = Wrap(read' + ahead')
  <2>1. /\ conn = "CONNECTED" /\ write = Wrap(read + ahead)
        /\ write' = Wrap(write + Len(m))
        /\ ahead' = ahead + Len(m) /\ ahead + Len(m) <= TxBufSize
        /\ read' = read
    BY DEF Put
  <2>2. read \in Slots /\ ahead \in 0..TxBufSize
    BY DEF TypeOK
  <2> QED
    BY <1>1, <2>1, <2>2, WrapAdd
<1> QED
  BY <1>2 DEF Put

LEMMA LinkMaster ==
  ASSUME LogonTimed, TypeOK, LinkInv,
         (\E a \in Answers : MasterAnswers(a)) \/ MasterIgnores \/ PollOverdue
  PROVE  LinkInv'
<1> USE DEF LinkInv, ConnectedPart, UnconnectedPart, AnswerPart, DriverPart,
        Unflushed, BootSteps, FlushSteps, ringVars, isrVars, linkVars
<1>1. ASSUME NEW a \in Answers, MasterAnswers(a)
      PROVE  LinkInv'
  <2>1. heard /\ rx = <<>>
    BY <1>1 DEF MasterAnswers
  <2>2. rx' = <<a>>
    BY <1>1, <2>1, SizesAssumption DEF MasterAnswers
  <2> QED
    BY <1>1, <2>1, <2>2 DEF MasterAnswers
<1>2. CASE MasterIgnores
  BY <1>2 DEF MasterIgnores
<1>3. CASE PollOverdue
  BY <1>3 DEF PollOverdue
<1> QED
  BY <1>1, <1>2, <1>3

LEMMA LinkStep == LogonTimed /\ TypeOK /\ LinkInv /\ [Next]_vars => LinkInv'
<1> SUFFICES ASSUME LogonTimed, TypeOK, LinkInv, [Next]_vars PROVE LinkInv'
  OBVIOUS
<1>1. CASE UNCHANGED vars
  BY <1>1 DEF LinkInv, ConnectedPart, UnconnectedPart, AnswerPart, DriverPart,
              Unflushed, vars, ringVars, isrVars, linkVars
<1>2. CASE Next
  BY <1>2, LinkReceive, LinkTransmit, LinkMain, LinkPut, LinkMaster DEF Next
<1> QED
  BY <1>1, <1>2

LEMMA LinkInvariant == LogonTimed => (Spec => []LinkInv)
<1> SUFFICES ASSUME LogonTimed PROVE Spec => []LinkInv
  OBVIOUS
<1>1. TypeOK /\ LinkInv /\ [Next]_vars => LinkInv'
  BY LinkStep
<1> QED
  BY <1>1, LinkInit, TypeCorrect, PTL DEF Spec

(***************************************************************************)
(* If the timing of a logon holds, a connected node's write index is always *)
(* ahead bytes beyond its read index, for every ring size and message set.  *)
(***************************************************************************)
THEOREM Aligned == LogonTimed => (Spec => []RingAligned)
<1> SUFFICES ASSUME LogonTimed PROVE Spec => []RingAligned
  OBVIOUS
<1>1. LinkInv => RingAligned
  BY DEF LinkInv, ConnectedPart, RingAligned
<1> QED
  BY <1>1, LinkInvariant, PTL

(***************************************************************************)
(* If the timing of a logon holds, no frame is cut: the driver is released  *)
(* only when the logon, or the packet, is out to its last byte.             *)
(***************************************************************************)
THEOREM FramesComplete == LogonTimed => (Spec => FrameNeverCut)
<1> SUFFICES ASSUME LogonTimed PROVE Spec => FrameNeverCut
  OBVIOUS
<1> DEFINE Complete == de /\ ~de' => pRem = 0 /\ logonRem = 0
<1>1. TypeOK /\ LinkInv /\ [Next]_vars => [Complete]_vars
  <2> SUFFICES ASSUME TypeOK, LinkInv, [Next]_vars, de, ~de'
               PROVE  pRem = 0 /\ logonRem = 0
    OBVIOUS
  <2>1. logonRem > 0 \/ logonRem = 0
    BY SizesAssumption DEF TypeOK
  <2>2. LogonEnd \/ NakEnd \/ SendCrc \/ SetBidibToReceive
    BY DEF Next, vars, isrVars, LogonToken, LogonBackoff, LogonStart, LogonRetry,
           Poll, PollWithData, PollWithoutData, PollArrives, TxIsr, SendLogonWord,
           SendByte, MainStep, BootReset, CheckTimeout, Disconnect, Unaddress,
           FlushRx, FlushTx, PrepareTxLogon, ParseAck, ParseRejected, Put,
           MasterAnswers, MasterIgnores, PollOverdue
  <2>3. CASE LogonEnd
    BY <2>3 DEF LogonEnd, LinkInv, DriverPart
  <2>4. CASE NakEnd
    BY <2>1, <2>4 DEF NakEnd, LinkInv, DriverPart
  <2>5. CASE SendCrc
    BY <2>1, <2>5 DEF SendCrc, LinkInv, DriverPart
  <2>6. CASE SetBidibToReceive
    BY <2>6 DEF SetBidibToReceive, LinkInv, DriverPart, UnconnectedPart, BootSteps
  <2> QED
    BY <2>2, <2>3, <2>4, <2>5, <2>6
<1> QED
  BY <1>1, TypeCorrect, LinkInvariant, PTL DEF Spec, FrameNeverCut

-----------------------------------------------------------------------------
(***************************************************************************)
(* BidibLink implements TxQueue when all timing assumptions hold: ring,     *)
(* interrupts and link state together are one queue that a poll turns into  *)
(* a packet.  The proof adds to LinkInv what connects the words on the bus  *)
(* with the transmit modes and the bytes in flight with the ring.           *)
(***************************************************************************)

B == TxBufSize

LEMMA BIsSize == B \in Nat /\ B >= 1
  BY SizesAssumption DEF B

LEMMA WrapValue ==
  \A x \in 0..2*B-1 : Wrap(x) = (IF x < B THEN x ELSE x - B) /\ Wrap(x) \in 0..B-1
<1> SUFFICES ASSUME NEW x \in 0..2*B-1
             PROVE  Wrap(x) = (IF x < B THEN x ELSE x - B) /\ Wrap(x) \in 0..B-1
  OBVIOUS
<1>1. CASE x < B
  <2>1. x \in Slots
    BY <1>1, BIsSize DEF Slots, B
  <2> QED
    BY <1>1, <2>1, WrapSlot, BIsSize DEF Slots, B
<1>2. CASE ~(x < B)
  <2>1. x \in TxBufSize..2*TxBufSize-1
    BY <1>2, BIsSize DEF B
  <2>2. Wrap(x) = x - B
    BY <2>1, WrapOnce DEF B
  <2> QED
    BY <1>2, <2>2, BIsSize
<1> QED
  BY <1>1, <1>2

(* How far the slot j places behind p is behind the one t places behind it. *)
LEMMA Behind ==
  ASSUME NEW n \in Nat, n >= 1, NEW p \in 0..n-1, NEW t \in 0..n, NEW j \in 0..n-1,
         NEW s \in 0..n-1, s = p + j \/ s = p + j - n,
         NEW w \in 0..n-1, w = p + t \/ w = p + t - n,
         NEW x, x = IF s + n - w < n THEN s + n - w ELSE s + n - w - n
  PROVE  x = IF j >= t THEN j - t ELSE j + n - t
  OBVIOUS

LEMMA OffsetOf ==
  ASSUME NEW p \in 0..B-1, NEW t \in 0..B, NEW j \in 0..B-1
  PROVE  Wrap(Wrap(p + j) + B - Wrap(p + t)) = IF j >= t THEN j - t ELSE j + B - t
<1> DEFINE s == Wrap(p + j)
           w == Wrap(p + t)
           x == Wrap(s + B - w)
<1>1. p + j \in 0..2*B-1 /\ p + t \in 0..2*B-1
  BY BIsSize
<1>2. s \in 0..B-1 /\ (s = p + j \/ s = p + j - B)
  BY <1>1, WrapValue, BIsSize
<1>3. w \in 0..B-1 /\ (w = p + t \/ w = p + t - B)
  BY <1>1, WrapValue, BIsSize
<1>4. x = IF s + B - w < B THEN s + B - w ELSE s + B - w - B
  <2> HIDE DEF s, w
  <2>1. s \in 0..B-1 /\ w \in 0..B-1
    BY <1>2, <1>3
  <2>2. s + B - w \in 0..2*B-1
    BY <2>1, BIsSize
  <2> QED
    BY <2>1, <2>2, WrapValue, BIsSize
<1> HIDE DEF s, w, x
<1>5. x = IF j >= t THEN j - t ELSE j + B - t
  BY <1>2, <1>3, <1>4, BIsSize, Behind
<1> QED
  BY <1>5 DEF s, w, x

-----------------------------------------------------------------------------
(* The invariant. *)

PacketOpen == txIrq /\ ~logonMode /\ ~nak

Open == wire \notin {Idle, Nak, Crc, LogonWord}

\* A packet is open on the bus exactly while the transmit ISR has one.
WirePart == PacketOpen <=> Open

\* The bytes in flight end where the queued ones begin, and none is in flight
\* when the ring is flushed or the reserved area rewritten.
FlightPart ==
  /\ pRem > 0 => read = Wrap(pIndex + pRem)
  /\ overdue \/ pc \in {"disconnect"} \cup FlushSteps \cup BootSteps => pRem = 0

FlightPlace == pRem > 0 /\ conn = "CONNECTED" => read = Wrap(pIndex + pRem)

QueueInv == TypeOK /\ LinkInv /\ WirePart /\ FlightPart

LEMMA WordsDiffer ==
  /\ \A n : LengthWord(n) \notin {Idle, Nak, Crc, LogonWord}
  /\ \A b : DataWord(b) \notin {Idle, Nak, Crc, LogonWord}
  BY DEF LengthWord, DataWord, Idle, Nak, Crc, LogonWord

LEMMA WireInit == Init => WirePart /\ FlightPart
  BY DEF Init, WirePart, FlightPart, PacketOpen, Open

LEMMA WireStep ==
  ASSUME QueueInv, [Next]_vars
  PROVE  WirePart'
<1> USE DEF QueueInv, LinkInv, DriverPart, WirePart, PacketOpen, Open, isrVars
<1>1. CASE LogonBackoff \/ LogonRetry
  BY <1>1 DEF LogonBackoff, LogonRetry
<1>2. CASE LogonStart
  BY <1>2 DEF LogonStart
<1>3. CASE PollWithData
  BY <1>3, WordsDiffer DEF PollWithData, PollArrives
<1>4. CASE PollWithoutData
  BY <1>4 DEF PollWithoutData, PollArrives
<1>5. CASE SendLogonWord
  BY <1>5 DEF SendLogonWord
<1>6. CASE LogonEnd
  BY <1>6 DEF LogonEnd
<1>7. CASE NakEnd
  BY <1>7 DEF NakEnd
<1>8. CASE SendByte
  BY <1>8, WordsDiffer DEF SendByte
<1>9. CASE SendCrc
  BY <1>9 DEF SendCrc
<1>10. CASE MainStep
  BY <1>10 DEF MainStep, BootReset, SetBidibToReceive, CheckTimeout, Disconnect,
               Unaddress, FlushRx, FlushTx, PrepareTxLogon, ParseAck, ParseRejected
<1>11. CASE \E m \in Messages : Put(m)
  BY <1>11 DEF Put
<1>12. CASE (\E a \in Answers : MasterAnswers(a)) \/ MasterIgnores \/ PollOverdue
  BY <1>12 DEF MasterAnswers, MasterIgnores, PollOverdue
<1>13. CASE UNCHANGED vars
  BY <1>13 DEF vars
<1> QED
  BY <1>1, <1>2, <1>3, <1>4, <1>5, <1>6, <1>7, <1>8, <1>9, <1>10, <1>11, <1>12, <1>13
     DEF Next, LogonToken, Poll, TxIsr

LEMMA SlotsAreIndices == Slots = 0..B-1
  BY DEF Slots, B

(* A byte sent moves the index by one and shortens the rest by one. *)
LEMMA ByteMoves ==
  ASSUME NEW p \in 0..B-1, NEW n \in 1..B
  PROVE  Wrap(Wrap(p + 1) + (n - 1)) = Wrap(p + n)
<1>1. CASE n = 1
  <2>1. p + 1 \in 0..2*B-1
    BY BIsSize
  <2>2. Wrap(p + 1) \in Slots
    BY <2>1, WrapValue, BIsSize, SlotsAreIndices
  <2>3. n - 1 = 0
    BY <1>1
  <2> QED
    BY <1>1, <2>2, <2>3, NothingAhead
<1>2. CASE n > 1
  <2>1. p \in Slots /\ 1 \in 0..TxBufSize /\ n - 1 \in 1..TxBufSize /\ 1 + (n - 1) <= TxBufSize
    BY <1>2, BIsSize, SlotsAreIndices DEF B
  <2>2. 1 + (n - 1) = n
    OBVIOUS
  <2> QED
    BY <2>1, <2>2, WrapAdd
<1> QED
  BY <1>1, <1>2

LEMMA FlightStep ==
  ASSUME AllTimed, QueueInv, [Next]_vars
  PROVE  FlightPart'
<1> USE TimedGuards, LogonGuards DEF QueueInv, LinkInv, DriverPart, FlightPart, ringVars, isrVars, linkVars,
        BootSteps, FlushSteps
<1>1. CASE LogonToken
  BY <1>1 DEF LogonToken, LogonBackoff, LogonStart, LogonRetry
<1>2. CASE PollWithData
  <2>1. /\ ~overdue' /\ pc' \notin {"disconnect"} \cup FlushSteps
        /\ read' = Wrap(pIndex' + pRem') /\ addressed /\ pc' = pc
    BY <1>2 DEF PollWithData, PollArrives
  <2>2. pc \notin BootSteps
    BY <2>1 DEF UnconnectedPart, ConnectedPart
  <2> QED
    BY <2>1, <2>2
<1>3. CASE PollWithoutData
  BY <1>3 DEF PollWithoutData, PollArrives
<1>4. CASE SendLogonWord \/ NakEnd \/ SendCrc
  BY <1>4 DEF SendLogonWord, NakEnd, SendCrc
<1>5. CASE LogonEnd
  BY <1>5 DEF LogonEnd, TypeOK
<1>6. CASE SendByte
  <2>1. pIndex \in 0..B-1 /\ pRem \in 1..B
    BY <1>6, SlotsAreIndices, BIsSize DEF SendByte, TypeOK, B
  <2>2. Wrap(pIndex' + pRem') = Wrap(pIndex + pRem)
    BY <1>6, <2>1, ByteMoves DEF SendByte
  <2>3. UNCHANGED <<read, overdue, pc>> /\ pRem > 0 /\ read = Wrap(pIndex + pRem)
    BY <1>6 DEF SendByte
  <2> QED
    BY <2>2, <2>3
<1>7. CASE BootReset \/ SetBidibToReceive \/ Unaddress \/ FlushRx \/ FlushTx \/ Disconnect
  BY <1>7 DEF BootReset, SetBidibToReceive, Unaddress, FlushRx, FlushTx, Disconnect
<1>8. CASE CheckTimeout
  BY <1>8 DEF CheckTimeout
<1>9. CASE PrepareTxLogon
  BY <1>9 DEF PrepareTxLogon
<1>10. CASE ParseAck
  BY <1>10 DEF ParseAck, TypeOK
<1>11. CASE ParseRejected
  BY <1>11 DEF ParseRejected
<1>12. CASE \E m \in Messages : Put(m)
  BY <1>12 DEF Put
<1>13. CASE (\E a \in Answers : MasterAnswers(a)) \/ MasterIgnores \/ PollOverdue
  BY <1>13 DEF MasterAnswers, MasterIgnores, PollOverdue
<1>14. CASE UNCHANGED vars
  BY <1>14 DEF vars
<1> QED
  BY <1>1, <1>2, <1>3, <1>4, <1>5, <1>6, <1>7, <1>8, <1>9, <1>10, <1>11, <1>12, <1>13, <1>14
     DEF Next, Poll, TxIsr, MainStep

LEMMA QueueInvariant == AllTimed => (Spec => []QueueInv)
<1> SUFFICES ASSUME AllTimed PROVE Spec => []QueueInv
  OBVIOUS
<1> DEFINE Rest == WirePart /\ FlightPart
<1>1. Init => Rest
  BY WireInit
<1>2. TypeOK /\ LinkInv /\ Rest /\ [Next]_vars => Rest'
  BY WireStep, FlightStep DEF QueueInv
<1>3. TypeOK /\ LinkInv /\ Rest => QueueInv
  BY DEF QueueInv
<1> HIDE DEF Rest
<1> QED
  BY <1>1, <1>2, <1>3, TimedGuards, TypeCorrect, LinkInvariant, PTL DEF Spec

-----------------------------------------------------------------------------
(* The queued bytes and those in flight as sequences. *)

QueuedFacts ==
  /\ Queued \in Seq(Cells) /\ Len(Queued) = ahead
  /\ \A i \in 1..ahead : Queued[i] = buf[Wrap(read + i - 1)]

InFlightFacts ==
  /\ InFlight \in Seq(Cells) /\ Len(InFlight) = pRem
  /\ \A i \in 1..pRem : InFlight[i] = buf[Wrap(pIndex + i - 1)]

LEMMA BytesInRing ==
  ASSUME TypeOK, NEW r \in Slots, NEW i \in 1..B
  PROVE  Wrap(r + i - 1) \in Slots /\ buf[Wrap(r + i - 1)] \in Cells
<1>1. r + i - 1 \in 0..2*B-1
  BY BIsSize, SlotsAreIndices
<1>2. Wrap(r + i - 1) \in Slots
  BY <1>1, WrapValue, BIsSize, SlotsAreIndices
<1> QED
  BY <1>2 DEF TypeOK

LEMMA QueuedIsSequence == TypeOK => QueuedFacts
<1> SUFFICES ASSUME TypeOK PROVE QueuedFacts
  OBVIOUS
<1>1. read \in Slots /\ ahead \in Nat /\ \A i \in 1..ahead : i \in 1..B
  BY BIsSize DEF TypeOK, B
<1>2. \A i \in 1..ahead : buf[Wrap(read + i - 1)] \in Cells
  BY <1>1, BytesInRing
<1> QED
  BY <1>1, <1>2 DEF QueuedFacts, Queued

LEMMA InFlightIsSequence == TypeOK => InFlightFacts
<1> SUFFICES ASSUME TypeOK PROVE InFlightFacts
  OBVIOUS
<1>1. pIndex \in Slots /\ pRem \in Nat /\ \A i \in 1..pRem : i \in 1..B
  BY BIsSize DEF TypeOK, B
<1>2. \A i \in 1..pRem : buf[Wrap(pIndex + i - 1)] \in Cells
  BY <1>1, BytesInRing
<1> QED
  BY <1>1, <1>2 DEF InFlightFacts, InFlight

LEMMA QueuedNext == TypeOK' => QueuedFacts'
  BY QueuedIsSequence, PTL

LEMMA InFlightNext == TypeOK' => InFlightFacts'
  BY InFlightIsSequence, PTL

-----------------------------------------------------------------------------
(* What a put does to the two sequences. *)

(* A cell t places or more behind base p gets the message's bytes, one before keeps its own. *)
LEMMA PutCell ==
  ASSUME TypeOK, NEW m \in Messages, Put(m),
         NEW p \in 0..B-1, NEW t \in 0..B, NEW j \in 0..B-1,
         write = Wrap(p + t), t + Len(m) <= B
  PROVE  buf'[Wrap(p + j)] = IF j < t THEN buf[Wrap(p + j)]
                             ELSE IF j < t + Len(m) THEN m[j - t + 1] ELSE buf[Wrap(p + j)]
<1> DEFINE s == Wrap(p + j)
           offset == Wrap(s + B - write)
<1>1. s \in Slots
  <2>1. p + j \in 0..2*B-1
    BY BIsSize
  <2> QED
    BY <2>1, WrapValue, BIsSize, SlotsAreIndices
<1>2. offset = IF j >= t THEN j - t ELSE j + B - t
  BY OffsetOf
<1>3. buf'[s] = IF offset < Len(m) THEN m[offset + 1] ELSE buf[s]
  BY <1>1 DEF Put, B
<1>4. Len(m) \in Nat
  BY MessagesAssumption
<1> HIDE DEF s, offset
<1>5. CASE j < t
  <2>1. ~(offset < Len(m))
    BY <1>2, <1>4, <1>5, BIsSize
  <2> QED
    BY <1>3, <1>5, <2>1 DEF s
<1>6. CASE ~(j < t)
  <2>1. offset = j - t
    BY <1>2, <1>6, BIsSize
  <2>2. offset < Len(m) <=> j < t + Len(m)
    BY <2>1, <1>4, BIsSize
  <2> QED
    BY <1>3, <1>6, <2>1, <2>2 DEF s
<1> QED
  BY <1>5, <1>6

LEMMA PutQueued ==
  ASSUME TypeOK, TypeOK', LinkInv, NEW m \in Messages, Put(m)
  PROVE  Queued' = Queued \o m
<1>1. m \in Seq(Bytes) /\ Len(m) \in 1..B
  BY MessagesAssumption DEF B
<1>2. /\ read \in 0..B-1 /\ ahead \in 0..B /\ read' = read
      /\ ahead' = ahead + Len(m) /\ ahead + Len(m) <= B
      /\ write = Wrap(read + ahead)
  BY SlotsAreIndices DEF TypeOK, Put, LinkInv, ConnectedPart, B
<1>3. Queued \in Seq(Cells) /\ Len(Queued) = ahead
  BY QueuedIsSequence DEF QueuedFacts
<1>4. /\ Queued' \in Seq(Cells) /\ Len(Queued') = ahead + Len(m)
      /\ \A i \in 1..ahead+Len(m) : Queued'[i] = buf'[Wrap(read + i - 1)]
  BY <1>2, QueuedNext DEF QueuedFacts
<1>5. m \in Seq(Cells)
  BY <1>1 DEF Cells
<1>6. /\ Queued \o m \in Seq(Cells) /\ Len(Queued \o m) = ahead + Len(m)
      /\ \A i \in 1..ahead : (Queued \o m)[i] = Queued[i]
      /\ \A i \in 1..Len(m) : (Queued \o m)[ahead + i] = m[i]
  <2> DEFINE q == Queued
  <2>1. q \in Seq(Cells) /\ Len(q) = ahead /\ ahead \in Nat /\ Len(m) \in Nat
    BY <1>1, <1>2, <1>3, BIsSize
  <2> HIDE DEF q
  <2>2. /\ q \o m \in Seq(Cells)
        /\ Len(q \o m) = ahead + Len(m)
        /\ \A i \in 1..ahead+Len(m) : (q \o m)[i] = IF i <= ahead THEN q[i] ELSE m[i - ahead]
    BY <1>5, <2>1, ConcatProperties
  <2>3. \A i \in 1..ahead : (q \o m)[i] = q[i]
    BY <2>1, <2>2
  <2>4. ASSUME NEW i \in 1..Len(m) PROVE (q \o m)[ahead + i] = m[i]
    <3>1. /\ ahead + i \in 1..ahead+Len(m) /\ ~(ahead + i <= ahead) /\ (ahead + i) - ahead = i
      BY <2>1
    <3> QED
      BY <2>2, <3>1
  <2> QED
    BY <2>2, <2>3, <2>4 DEF q
<1>7. ASSUME NEW i \in 1..ahead+Len(m) PROVE Queued'[i] = (Queued \o m)[i]
  <2>1. i - 1 \in 0..B-1 /\ read + i - 1 = read + (i - 1)
    BY <1>1, <1>2, BIsSize
  <2> DEFINE j == i - 1
  <2>2. j \in 0..B-1 /\ i = j + 1
    BY <1>1, <1>2, <2>1, BIsSize
  <2>3. buf'[Wrap(read + j)] = IF j < ahead THEN buf[Wrap(read + j)]
                               ELSE IF j < ahead + Len(m) THEN m[j - ahead + 1] ELSE buf[Wrap(read + j)]
    BY <1>1, <1>2, <2>2, PutCell
  <2>4. Queued'[i] = buf'[Wrap(read + j)]
    BY <1>4, <2>1
  <2>5. CASE i \in 1..ahead
    <3>1. j < ahead
      BY <1>2, <2>5, BIsSize
    <3>2. Queued[i] = buf[Wrap(read + j)]
      BY <2>1, <2>5, QueuedIsSequence DEF QueuedFacts
    <3> QED
      BY <1>6, <2>3, <2>4, <2>5, <3>1, <3>2
  <2>6. CASE i \notin 1..ahead
    <3> DEFINE k == i - ahead
    <3>1. ~(j < ahead) /\ j < ahead + Len(m) /\ j - ahead + 1 = k /\ k \in 1..Len(m) /\ ahead + k = i
      BY <1>1, <1>2, <2>6, BIsSize
    <3>2. Queued'[i] = m[k]
      BY <2>3, <2>4, <3>1
    <3>3. (Queued \o m)[ahead + k] = m[k]
      BY <1>6, <3>1
    <3> QED
      BY <3>1, <3>2, <3>3
  <2> QED
    BY <2>5, <2>6
<1> QED
  BY <1>4, <1>6, <1>7, SeqEqual

(* A put for which there is room behind the bytes in flight spares them. *)
LEMMA PutInFlight ==
  ASSUME TypeOK, LinkInv, FlightPlace, NEW m \in Messages, Put(m),
         ahead + Len(m) + pRem <= TxBufSize
  PROVE  InFlight' = InFlight
<1>1. m \in Seq(Bytes) /\ Len(m) \in 1..B
  BY MessagesAssumption DEF B
<1>2. /\ pIndex \in 0..B-1 /\ ahead \in 0..B /\ pRem \in 0..B
      /\ pIndex' = pIndex /\ pRem' = pRem
      /\ ahead + Len(m) + pRem <= B
      /\ write = Wrap(read + ahead)
  BY SlotsAreIndices
     DEF TypeOK, Put, LinkInv, ConnectedPart, isrVars, B
<1>3. ASSUME NEW i \in 1..pRem
      PROVE  buf'[Wrap(pIndex + i - 1)] = buf[Wrap(pIndex + i - 1)]
  <2>1. pRem > 0 /\ pRem + ahead \in 0..B /\ pRem + ahead + Len(m) <= B
    BY <1>1, <1>2, BIsSize
  <2>2. write = Wrap(pIndex + (pRem + ahead))
    <3>1. read = Wrap(pIndex + pRem)
      BY <2>1 DEF FlightPlace, Put
    <3>2. CASE ahead = 0
      <4>1. read \in Slots /\ pRem + ahead = pRem
        BY <1>2, <3>2 DEF TypeOK
      <4> QED
        BY <1>2, <3>1, <3>2, <4>1, NothingAhead
    <3>3. CASE ahead # 0
      <4>1. pIndex \in Slots /\ ahead \in 1..TxBufSize /\ pRem \in 0..TxBufSize /\ pRem + ahead <= TxBufSize
        BY <1>2, <2>1, <3>3, SlotsAreIndices DEF B
      <4> QED
        BY <1>2, <3>1, <4>1, WrapAdd
    <3> QED
      BY <3>2, <3>3
  <2> DEFINE j == i - 1
  <2>3. j \in 0..B-1 /\ j < pRem + ahead /\ pIndex + i - 1 = pIndex + j
    BY <1>2, BIsSize
  <2> HIDE DEF j
  <2>4. buf'[Wrap(pIndex + j)] = buf[Wrap(pIndex + j)]
    BY <1>1, <1>2, <2>1, <2>2, <2>3, PutCell
  <2> QED
    BY <2>3, <2>4
<1> QED
  BY <1>2, <1>3 DEF InFlight

-----------------------------------------------------------------------------
(* Every step of the link is a step of the queue or none. *)

LEMMA RefineInit == Init => Promise!Init
<1> SUFFICES ASSUME Init PROVE Promise!Init
  OBVIOUS
<1>1. ahead = 0 /\ pRem = 0 /\ wire = Idle
  BY DEF Init
<1>2. Queued = <<>> /\ InFlight = <<>>
  BY <1>1 DEF Queued, InFlight
<1> QED
  BY <1>1, <1>2 DEF Promise!Init, Promise!Idle, Idle

(* Neither sequence changes when nothing it is read from does. *)
LEMMA RingUntouched ==
  /\ UNCHANGED ringVars => Queued' = Queued
  /\ UNCHANGED <<buf, pIndex, pRem>> => InFlight' = InFlight
  BY DEF ringVars, Queued, InFlight

LEMMA NothingQueued == ahead = 0 => Queued = <<>>
  BY DEF Queued

LEMMA NothingQueuedNext == ahead' = 0 => Queued' = <<>>
  BY DEF Queued

LEMMA NothingInFlight == pRem = 0 => InFlight = <<>>
  BY DEF InFlight

LEMMA NothingInFlightNext == pRem' = 0 => InFlight' = <<>>
  BY DEF InFlight

(* A packet is closed in the queue when none is open in the link. *)
LEMMA ClosedIsOpen == Promise!Closed <=> ~Open
  BY DEF Promise!Closed, Open, Promise!Idle, Promise!Nak, Promise!Crc, Promise!LogonWord,
         Idle, Nak, Crc, LogonWord

(* A poll with data takes the whole queue as the packet. *)
LEMMA PollAnswers ==
  ASSUME AllTimed, QueueInv, TypeOK', PollWithData
  PROVE  Promise!Answer
<1>1. /\ pIndex' = read /\ pRem' = ahead /\ ahead' = 0 /\ buf' = buf
      /\ ahead > 0 /\ wire' = LengthWord(ahead) /\ ~de
  BY DEF PollWithData, PollArrives
<1>2. Queued \in Seq(Cells) /\ Len(Queued) = ahead /\ ahead \in Nat
  BY QueuedIsSequence, BIsSize DEF QueueInv, QueuedFacts, TypeOK, B
<1>3. Queued # <<>>
  BY <1>1, <1>2
<1>4. InFlight' = Queued
  BY <1>1 DEF InFlight, Queued
<1>5. Queued' = <<>>
  BY <1>1, NothingQueuedNext
<1>6. Promise!Closed
  BY <1>1, ClosedIsOpen DEF QueueInv, LinkInv, DriverPart, WirePart, PacketOpen
<1> QED
  BY <1>1, <1>2, <1>3, <1>4, <1>5, <1>6 DEF Promise!Answer, Promise!LengthWord, LengthWord

(* The transmit ISR sends the packet's first byte and keeps the rest. *)
LEMMA ByteSent ==
  ASSUME TypeOK, TypeOK', SendByte
  PROVE  InFlight # <<>> /\ buf[pIndex] = Head(InFlight) /\ InFlight' = Tail(InFlight)
<1>1. /\ pRem \in 1..B /\ pIndex \in 0..B-1 /\ buf' = buf
      /\ pIndex' = Wrap(pIndex + 1) /\ pRem' = pRem - 1
  BY BIsSize, SlotsAreIndices DEF SendByte, TypeOK, ringVars, B
<1>2. /\ InFlight \in Seq(Cells) /\ Len(InFlight) = pRem
      /\ \A i \in 1..pRem : InFlight[i] = buf[Wrap(pIndex + i - 1)]
  BY InFlightIsSequence DEF InFlightFacts
<1>3. /\ InFlight' \in Seq(Cells) /\ Len(InFlight') = pRem - 1
      /\ \A i \in 1..pRem-1 : InFlight'[i] = buf[Wrap(Wrap(pIndex + 1) + i - 1)]
  BY <1>1, InFlightNext DEF InFlightFacts
<1>4. InFlight # <<>>
  BY <1>1, <1>2, BIsSize
<1>5. buf[pIndex] = Head(InFlight)
  <2>1. pIndex \in 0..2*B-1 /\ pIndex + 1 - 1 = pIndex /\ pIndex < B /\ 1 \in 1..pRem
    BY <1>1, BIsSize
  <2>2. Wrap(pIndex) = pIndex
    BY <2>1, WrapValue
  <2>3. InFlight[1] = buf[pIndex]
    BY <1>2, <2>1, <2>2
  <2> QED
    BY <1>2, <1>4, <2>3
<1>6. Tail(InFlight) \in Seq(Cells) /\ Len(Tail(InFlight)) = pRem - 1
  BY <1>1, <1>2, <1>4, BIsSize, HeadTailProperties
<1>7. ASSUME NEW i \in 1..pRem-1 PROVE InFlight'[i] = Tail(InFlight)[i]
  <2>1. i \in 1..B /\ i + 1 \in 1..pRem /\ i + 1 - 1 = i /\ i \in 1..Len(InFlight)-1
    BY <1>1, <1>2, BIsSize
  <2>2. Tail(InFlight)[i] = InFlight[i + 1]
    BY <1>2, <1>4, <2>1, HeadTailProperties
  <2>3. InFlight[i + 1] = buf[Wrap(pIndex + i)]
    <3>1. pIndex + (i + 1) - 1 = pIndex + i
      BY <1>1, <2>1, BIsSize
    <3> QED
      BY <1>2, <2>1, <3>1
  <2>4. Wrap(Wrap(pIndex + 1) + (i - 1)) = Wrap(pIndex + i)
    BY <1>1, <2>1, ByteMoves
  <2>5. Wrap(pIndex + 1) + i - 1 = Wrap(pIndex + 1) + (i - 1)
    <3>1. Wrap(pIndex + 1) \in 0..B-1
      BY <1>1, WrapValue, BIsSize
    <3> QED
      BY <2>1, <3>1, BIsSize
  <2> QED
    BY <1>3, <2>2, <2>3, <2>4, <2>5
<1> QED
  BY <1>3, <1>4, <1>5, <1>6, <1>7, SeqEqual

(* What each step of the receive ISR, the transmit ISR, the loop and the    *)
(* environment is to the queue.                                             *)
QueueStays == UNCHANGED <<Queued, InFlight, wire>>

LEMMA StaysIsStutter == QueueStays => UNCHANGED Promise!vars
  BY DEF QueueStays, Promise!vars

LEMMA ReceiveRefines ==
  ASSUME AllTimed, QueueInv, TypeOK', LogonToken \/ Poll
  PROVE  Promise!Next \/ QueueStays
<1> USE DEF QueueInv, LinkInv, DriverPart, WirePart, PacketOpen
<1>1. CASE LogonBackoff \/ LogonRetry
  BY <1>1, RingUntouched DEF LogonBackoff, LogonRetry, QueueStays, ringVars, isrVars
<1>2. CASE LogonStart
  <2>1. UNCHANGED ringVars /\ UNCHANGED <<buf, pIndex, pRem>> /\ wire' = LogonWord /\ ~de
    BY <1>2 DEF LogonStart, LogonTokenArrives, ringVars
  <2>2. Promise!Closed
    BY <2>1, ClosedIsOpen
  <2>3. Promise!SendLogonWord
    BY <2>1, <2>2, RingUntouched DEF Promise!SendLogonWord, Promise!LogonWord, LogonWord
  <2> QED
    BY <2>3 DEF Promise!Next
<1>3. CASE PollWithData
  BY <1>3, PollAnswers DEF Promise!Next
<1>4. CASE PollWithoutData
  <2>1. UNCHANGED ringVars /\ UNCHANGED <<buf, pIndex, pRem>> /\ wire' = Nak /\ ~de
    BY <1>4 DEF PollWithoutData, PollArrives, ringVars
  <2>2. Promise!Closed
    BY <2>1, ClosedIsOpen
  <2>3. Promise!SendNak
    BY <2>1, <2>2, RingUntouched DEF Promise!SendNak, Promise!Nak, Nak
  <2> QED
    BY <2>3 DEF Promise!Next
<1> QED
  BY <1>1, <1>2, <1>3, <1>4 DEF LogonToken, Poll

LEMMA TransmitRefines ==
  ASSUME AllTimed, QueueInv, TypeOK', TxIsr
  PROVE  Promise!Next \/ QueueStays
<1> USE DEF QueueInv, LinkInv, DriverPart, WirePart, PacketOpen
<1>1. CASE SendLogonWord
  <2>1. UNCHANGED ringVars /\ UNCHANGED <<buf, pIndex, pRem>> /\ wire' = LogonWord /\ logonMode
    BY <1>1 DEF SendLogonWord, ringVars
  <2>2. Promise!Closed
    BY <2>1, ClosedIsOpen
  <2>3. Promise!SendLogonWord
    BY <2>1, <2>2, RingUntouched DEF Promise!SendLogonWord, Promise!LogonWord, LogonWord
  <2> QED
    BY <2>3 DEF Promise!Next
<1>2. CASE LogonEnd
  <2>1. UNCHANGED <<buf, pIndex, pRem, wire>> /\ ahead' = 0
    BY <1>2 DEF LogonEnd
  <2>2. Promise!Clear
    BY <2>1, RingUntouched, NothingQueuedNext DEF Promise!Clear
  <2> QED
    BY <2>2 DEF Promise!Next
<1>3. CASE NakEnd
  BY <1>3, RingUntouched DEF NakEnd, QueueStays, ringVars
<1>4. CASE SendByte
  <2>1. UNCHANGED ringVars /\ wire' = DataWord(buf[pIndex])
    BY <1>4 DEF SendByte
  <2>2. Promise!SendByte
    BY <1>4, <2>1, ByteSent, RingUntouched DEF Promise!SendByte, Promise!DataWord, DataWord
  <2> QED
    BY <2>2 DEF Promise!Next
<1>5. CASE SendCrc
  <2>1. /\ UNCHANGED ringVars /\ UNCHANGED <<buf, pIndex, pRem>> /\ wire' = Crc
        /\ txIrq /\ ~logonMode /\ ~nak /\ pRem = 0
    BY <1>5 DEF SendCrc, ringVars
  <2>2. ~Promise!Closed
    BY <2>1, ClosedIsOpen
  <2>3. Promise!SendCrc
    BY <2>1, <2>2, RingUntouched, NothingInFlight DEF Promise!SendCrc, Promise!Crc, Crc
  <2> QED
    BY <2>3 DEF Promise!Next
<1> QED
  BY <1>1, <1>2, <1>3, <1>4, <1>5 DEF TxIsr

LEMMA MainRefines ==
  ASSUME AllTimed, QueueInv, TypeOK', MainStep
  PROVE  Promise!Next \/ QueueStays
<1>1. CASE FlushTx
  <2>1. UNCHANGED <<buf, pIndex, pRem, wire>> /\ ahead' = 0
    BY <1>1 DEF FlushTx, isrVars
  <2>2. Promise!Clear
    BY <2>1, RingUntouched, NothingQueuedNext DEF Promise!Clear
  <2> QED
    BY <2>2 DEF Promise!Next
<1>2. CASE PrepareTxLogon
  <2>1. pc = "prepare" /\ UNCHANGED <<ahead, pRem, wire>>
    BY <1>2 DEF PrepareTxLogon, isrVars
  <2>2. pRem = 0
    BY <2>1 DEF QueueInv, FlightPart, FlushSteps
  <2>3. ahead = 0
    BY <2>1 DEF QueueInv, LinkInv, UnconnectedPart, ConnectedPart, Unflushed, BootSteps
  <2>4. Queued = <<>> /\ Queued' = <<>> /\ InFlight = <<>>
    BY <2>1, <2>2, <2>3, NothingQueued, NothingQueuedNext, NothingInFlight
  <2>5. InFlight' = <<>>
    BY <2>1, <2>2, NothingInFlightNext
  <2> QED
    BY <2>1, <2>4, <2>5 DEF QueueStays
<1>3. CASE ~FlushTx /\ ~PrepareTxLogon
  <2>1. UNCHANGED ringVars /\ UNCHANGED <<buf, pIndex, pRem, wire>>
    BY <1>3 DEF MainStep, BootReset, SetBidibToReceive, CheckTimeout, Disconnect, Unaddress,
                FlushRx, ParseAck, ParseRejected, ringVars, isrVars
  <2> QED
    BY <2>1, RingUntouched DEF QueueStays
<1> QED
  BY <1>1, <1>2, <1>3

LEMMA PutRefines ==
  ASSUME AllTimed, QueueInv, TypeOK', NEW m \in Messages, Put(m)
  PROVE  Promise!Next
<1>1. Queued' = Queued \o m /\ InFlight' = InFlight /\ wire' = wire
  <2>1. ahead + Len(m) + pRem <= TxBufSize
    BY TimedGuards DEF Put
  <2>2. FlightPlace
    BY DEF QueueInv, FlightPart, FlightPlace
  <2> QED
    BY <2>1, <2>2, PutQueued, PutInFlight DEF QueueInv, Put, isrVars
<1>2. Len(Queued) + Len(m) <= TxBufSize
  BY QueuedIsSequence DEF QueueInv, QueuedFacts, Put
<1>3. Promise!Enqueue(m)
  BY <1>1, <1>2 DEF Promise!Enqueue
<1> QED
  BY <1>3 DEF Promise!Next

LEMMA RefineStep ==
  ASSUME AllTimed, QueueInv, TypeOK', [Next]_vars
  PROVE  Promise!Next \/ QueueStays
<1>1. CASE LogonToken \/ Poll
  BY <1>1, ReceiveRefines
<1>2. CASE TxIsr
  BY <1>2, TransmitRefines
<1>3. CASE MainStep
  BY <1>3, MainRefines
<1>4. CASE \E m \in Messages : Put(m)
  BY <1>4, PutRefines
<1>5. CASE (\E a \in Answers : MasterAnswers(a)) \/ MasterIgnores \/ PollOverdue \/ UNCHANGED vars
  <2>1. UNCHANGED ringVars /\ UNCHANGED <<buf, pIndex, pRem, wire>>
    BY <1>5 DEF MasterAnswers, MasterIgnores, PollOverdue, vars, ringVars, isrVars
  <2> QED
    BY <2>1, RingUntouched DEF QueueStays
<1> QED
  BY <1>1, <1>2, <1>3, <1>4, <1>5 DEF Next

(***************************************************************************)
(* Whatever the size of the ring and the messages, and with all timing      *)
(* assumptions, the ring, the two ISRs and the link state (bidib.c:92-277,  *)
(* bidib_client_if.c:156-248) are one bounded queue that each poll turns    *)
(* into a packet of exactly the queued bytes, in their order.               *)
(***************************************************************************)
THEOREM QueueRefined == AllTimed => (Spec => ImplementsTxQueue)
<1> SUFFICES ASSUME AllTimed PROVE Spec => ImplementsTxQueue
  OBVIOUS
<1>1. Init => Promise!Init
  BY RefineInit
<1>2. QueueInv /\ TypeOK' /\ [Next]_vars => [Promise!Next]_(Promise!vars)
  BY RefineStep, StaysIsStutter
<1>3. QueueInv => TypeOK
  BY DEF QueueInv
<1> QED
  BY <1>1, <1>2, <1>3, QueueInvariant, PTL DEF Spec, ImplementsTxQueue, Promise!Spec

-----------------------------------------------------------------------------
(* What may rewrite a byte the transmit ISR has still to send. *)

\* The bytes of the open packet stay, or the first of them was sent.
FlightFollows == InFlight' \in {InFlight, Tail(InFlight)}

\* A put writes into a cell the transmit ISR has still to send.
Hits(m) == \E i \in 1..pRem : Wrap(Wrap(pIndex + i - 1) + TxBufSize - write) < Len(m)

LEMMA PutElsewhere ==
  ASSUME TypeOK, NEW m \in Messages, Put(m), ~Hits(m)
  PROVE  InFlight' = InFlight
<1>1. pIndex' = pIndex /\ pRem' = pRem
  BY DEF Put, isrVars
<1>2. ASSUME NEW i \in 1..pRem
      PROVE  buf'[Wrap(pIndex + i - 1)] = buf[Wrap(pIndex + i - 1)]
  <2> DEFINE s == Wrap(pIndex + i - 1)
  <2>1. s \in Slots
    <3>1. pIndex \in Slots /\ i \in 1..B
      BY BIsSize DEF TypeOK, B
    <3> QED
      BY <3>1, BytesInRing
  <2>2. ~(Wrap(s + TxBufSize - write) < Len(m))
    BY DEF Hits
  <2> HIDE DEF s
  <2>3. buf'[s] = buf[s]
    BY <2>1, <2>2 DEF Put
  <2> QED
    BY <2>3 DEF s
<1> QED
  BY <1>1, <1>2 DEF InFlight

LEMMA FlightMoves ==
  ASSUME TypeOK, TypeOK', [Next]_vars
  PROVE  \/ FlightFollows
         \/ PollWithData \/ PrepareTxLogon
         \/ \E m \in Messages : Put(m) /\ Hits(m)
<1>1. CASE LogonToken \/ PollWithoutData \/ (TxIsr /\ ~SendByte) \/ (MainStep /\ ~PrepareTxLogon)
  <2>1. UNCHANGED <<buf, pIndex, pRem>>
    BY <1>1 DEF LogonToken, LogonBackoff, LogonStart, LogonRetry, PollWithoutData, ringVars, isrVars,
                TxIsr, SendLogonWord, LogonEnd, NakEnd, SendCrc,
                MainStep, BootReset, SetBidibToReceive, CheckTimeout, Disconnect, Unaddress,
                FlushRx, FlushTx, ParseAck, ParseRejected
  <2> QED
    BY <2>1, RingUntouched DEF FlightFollows
<1>2. CASE SendByte
  BY <1>2, ByteSent DEF FlightFollows
<1>3. ASSUME NEW m \in Messages, Put(m), ~Hits(m)
      PROVE  FlightFollows
  BY <1>3, PutElsewhere DEF FlightFollows
<1>4. CASE (\E a \in Answers : MasterAnswers(a)) \/ MasterIgnores \/ PollOverdue \/ UNCHANGED vars
  <2>1. UNCHANGED <<buf, pIndex, pRem>>
    BY <1>4 DEF MasterAnswers, MasterIgnores, PollOverdue, vars, ringVars, isrVars
  <2> QED
    BY <2>1, RingUntouched DEF FlightFollows
<1> QED
  BY <1>1, <1>2, <1>3, <1>4 DEF Next, Poll

(***************************************************************************)
(* Whatever the timing, only three steps of the program can change a byte   *)
(* of an open packet: a put that writes into it, the logon message written  *)
(* into the reserved area, and a poll answered while a packet that was cut  *)
(* is still open (bidib.c:258-262, bidib_client_if.c:156-248).              *)
(***************************************************************************)
THEOREM FlightRewritten ==
  Spec => [][pRem > 0 => \/ FlightFollows
                         \/ PollWithData \/ PrepareTxLogon
                         \/ \E m \in Messages : Put(m) /\ Hits(m)]_vars
<1> DEFINE Rewritten == pRem > 0 => \/ FlightFollows
                                    \/ PollWithData \/ PrepareTxLogon
                                    \/ \E m \in Messages : Put(m) /\ Hits(m)
<1>1. TypeOK /\ TypeOK' /\ [Next]_vars => [Rewritten]_vars
  BY FlightMoves
<1> HIDE DEF Rewritten
<1>2. Spec => [][Rewritten]_vars
  BY <1>1, TypeCorrect, PTL DEF Spec
<1> QED
  BY <1>2 DEF Rewritten

\* When the logon keeps its timing the bytes in flight of a connected node end
\* where the queued ones begin, and none is in flight when a logon is answered.
FlightQuiet == heard \/ rx # <<>> => pRem = 0

LEMMA PlaceInit == Init => FlightPlace /\ FlightQuiet
  BY DEF Init, FlightPlace, FlightQuiet

LEMMA PlaceStep ==
  ASSUME LogonTimed, TypeOK, LinkInv, FlightPlace, FlightQuiet, [Next]_vars
  PROVE  FlightPlace' /\ FlightQuiet'
<1> USE LogonGuards DEF LinkInv, ConnectedPart, AnswerPart, DriverPart, FlightPlace, FlightQuiet,
        ringVars, isrVars, linkVars, BootSteps, FlushSteps
<1>1. CASE LogonToken
  BY <1>1 DEF LogonToken, LogonBackoff, LogonStart, LogonRetry
<1>2. CASE PollWithData
  <2>1. conn = "CONNECTED" \/ pc = "unaddress"
    BY <1>2 DEF PollWithData, PollArrives, UnconnectedPart
  <2>2. ~heard /\ rx = <<>>
    BY <2>1
  <2> QED
    BY <1>2, <2>2 DEF PollWithData, PollArrives
<1>3. CASE PollWithoutData
  BY <1>3 DEF PollWithoutData, PollArrives
<1>4. CASE SendLogonWord \/ NakEnd \/ SendCrc
  BY <1>4 DEF SendLogonWord, NakEnd, SendCrc
<1>5. CASE LogonEnd
  BY <1>5 DEF LogonEnd, TypeOK
<1>6. CASE SendByte
  <2>1. pIndex \in 0..B-1 /\ pRem \in 1..B
    BY <1>6, SlotsAreIndices, BIsSize DEF SendByte, TypeOK, B
  <2>2. Wrap(pIndex' + pRem') = Wrap(pIndex + pRem)
    BY <1>6, <2>1, ByteMoves DEF SendByte
  <2>3. UNCHANGED <<read, conn, heard, rx>> /\ pRem > 0
    BY <1>6 DEF SendByte
  <2> QED
    BY <2>2, <2>3
<1>7. CASE MainStep /\ ~ParseAck
  BY <1>7 DEF MainStep, BootReset, SetBidibToReceive, CheckTimeout, Disconnect, Unaddress,
              FlushRx, FlushTx, PrepareTxLogon, ParseRejected
<1>8. CASE ParseAck
  BY <1>8, LastAnswer DEF ParseAck, TypeOK
<1>9. CASE \E m \in Messages : Put(m)
  BY <1>9 DEF Put
<1>10. CASE \E a \in Answers : MasterAnswers(a)
  BY <1>10 DEF MasterAnswers
<1>11. CASE MasterIgnores \/ PollOverdue \/ UNCHANGED vars
  BY <1>11 DEF MasterIgnores, PollOverdue, vars
<1> QED
  BY <1>1, <1>2, <1>3, <1>4, <1>5, <1>6, <1>7, <1>8, <1>9, <1>10, <1>11 DEF Next, Poll, TxIsr

LEMMA PlaceInvariant == LogonTimed => (Spec => [](FlightPlace /\ FlightQuiet))
<1> SUFFICES ASSUME LogonTimed PROVE Spec => [](FlightPlace /\ FlightQuiet)
  OBVIOUS
<1> DEFINE Place == FlightPlace /\ FlightQuiet
<1>1. Init => Place
  BY PlaceInit
<1>2. TypeOK /\ LinkInv /\ Place /\ [Next]_vars => Place'
  BY PlaceStep
<1> HIDE DEF Place
<1>3. Spec => []Place
  BY <1>1, <1>2, TypeCorrect, LinkInvariant, PTL DEF Spec
<1> QED
  BY <1>3 DEF Place

\* The test of free space counts the bytes queued and not those in flight.
Overrun(m) == Put(m) /\ ahead + Len(m) + pRem > TxBufSize

LEMMA FlightLost ==
  ASSUME LogonTimed, TypeOK, TypeOK', LinkInv, FlightPlace, [Next]_vars, pRem > 0
  PROVE  FlightFollows \/ PrepareTxLogon \/ \E m \in Messages : Overrun(m)
<1>1. CASE PollWithData
  BY <1>1 DEF PollWithData, PollArrives, LinkInv, DriverPart, TypeOK
<1>2. ASSUME NEW m \in Messages, Put(m), ~Overrun(m)
      PROVE  FlightFollows
  <2>1. ahead + Len(m) + pRem <= TxBufSize
    BY <1>2, MessagesAssumption, SizesAssumption DEF Overrun, TypeOK
  <2> QED
    BY <1>2, <2>1, PutInFlight DEF FlightFollows
<1> QED
  BY <1>1, <1>2, FlightMoves

(***************************************************************************)
(* With nothing assumed of polls and puts, only of a logon, a byte of an    *)
(* open packet is changed by two steps alone: a put that the free-space     *)
(* test lets through although, with the bytes in flight, the ring has no    *)
(* room for it (bidib_client_if.c:175), and the logon message written at    *)
(* the end of a disconnection while a packet is open, for a poll that came  *)
(* after the timeout test (bidib_client_parser.c:791).  No cut frame, no    *)
(* flush and no other put does it.                                          *)
(***************************************************************************)
THEOREM FlightKept ==
  LogonTimed =>
    (Spec => [][pRem > 0 => \/ FlightFollows
                            \/ PrepareTxLogon
                            \/ \E m \in Messages : Overrun(m)]_vars)
<1> DEFINE Kept == pRem > 0 => \/ FlightFollows
                               \/ PrepareTxLogon
                               \/ \E m \in Messages : Overrun(m)
<1> SUFFICES ASSUME LogonTimed PROVE Spec => [][Kept]_vars
  OBVIOUS
<1>1. TypeOK /\ TypeOK' /\ LinkInv /\ FlightPlace /\ [Next]_vars => [Kept]_vars
  BY FlightLost
<1>2. FlightPlace /\ FlightQuiet => FlightPlace
  OBVIOUS
<1> HIDE DEF Kept
<1> QED
  BY <1>1, <1>2, TypeCorrect, LinkInvariant, PlaceInvariant, PTL DEF Spec

(***************************************************************************)
(* What the run checks: neither happens when puts are paced and no poll is  *)
(* late, and then every byte of an open packet reaches the bus unchanged.   *)
(***************************************************************************)
COROLLARY FlightKeptPaced == AllTimed => (Spec => InFlightKept)
<1> SUFFICES ASSUME AllTimed PROVE Spec => InFlightKept
  OBVIOUS
<1> DEFINE Kept == pRem > 0 => InFlight' \in {InFlight, Tail(InFlight)}
<1>1. ASSUME QueueInv, TypeOK', [Next]_vars, pRem > 0
      PROVE  InFlight' \in {InFlight, Tail(InFlight)}
  <2>1. FlightPlace
    BY <1>1 DEF FlightPart, FlightPlace, QueueInv
  <2>2. ~PrepareTxLogon
    BY <1>1 DEF PrepareTxLogon, QueueInv, FlightPart, FlushSteps
  <2>3. ASSUME NEW m \in Messages PROVE ~Overrun(m)
    <3>1. ahead \in Nat /\ pRem \in Nat /\ Len(m) \in Nat /\ TxBufSize \in Nat
      BY <1>1, MessagesAssumption, SizesAssumption DEF QueueInv, TypeOK
    <3> QED
      BY <3>1, TimedGuards DEF Overrun, Put
  <2> QED
    BY <1>1, <2>1, <2>2, <2>3, FlightLost, TimedGuards DEF QueueInv, FlightFollows
<1>2. QueueInv => TypeOK
  BY DEF QueueInv
<1>3. QueueInv /\ TypeOK' /\ [Next]_vars => [Kept]_vars
  BY <1>1
<1> HIDE DEF Kept
<1>4. Spec => [][Kept]_vars
  BY <1>2, <1>3, QueueInvariant, PTL DEF Spec
<1> QED
  BY <1>4 DEF Kept, InFlightKept
=============================================================================
