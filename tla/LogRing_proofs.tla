---------------------------- MODULE LogRing_proofs ----------------------------
(***************************************************************************)
(* Proofs about LogRing, for every ring size, budget, FIFO and set of       *)
(* texts: the types, and that the ring is the queue LossyQueue describes.   *)
(***************************************************************************)
EXTENDS LogRing, SequenceTheorems, TLAPS

(* The remainder of what is less than twice the ring's size. *)
LEMMA WrapValue ==
  \A x \in 0..2*LogRingSize-1 :
    /\ Wrap(x) = IF x < LogRingSize THEN x ELSE x - LogRingSize
    /\ Wrap(x) \in Slots
<1> SUFFICES ASSUME NEW x \in 0..2*LogRingSize-1
             PROVE  /\ Wrap(x) = IF x < LogRingSize THEN x ELSE x - LogRingSize
                    /\ Wrap(x) \in Slots
  OBVIOUS
<1>1. CASE x < LogRingSize
  BY <1>1, LogSizesAssumption DEF Wrap, Slots
<1>2. CASE x >= LogRingSize
  BY <1>2, LogSizesAssumption DEF Wrap, Slots
<1> QED
  BY <1>1, <1>2, LogSizesAssumption

(* Positions that are one turn of the ring apart are the same slot. *)
LEMMA WrapSame ==
  \A x, y \in 0..2*LogRingSize-1 :
    x = y \/ x = y + LogRingSize \/ y = x + LogRingSize => Wrap(x) = Wrap(y)
  BY WrapValue, LogSizesAssumption

(* Bytes between the tail and the head. *)
LEMMA UsedValue ==
  ASSUME head \in Slots, tail \in Slots
  PROVE  /\ log_ring_used \in 0..LogRingSize-1
         /\ log_ring_used = IF head >= tail THEN head - tail ELSE head + LogRingSize - tail
<1>1. head + LogRingSize - tail \in 0..2*LogRingSize-1
  BY LogSizesAssumption DEF Slots
<1> QED
  BY <1>1, WrapValue, LogSizesAssumption DEF log_ring_used, Slots

-----------------------------------------------------------------------------
(* What log_poll knows at each of its steps, whatever is pushed meanwhile: a *)
(* push leaves the ring non-empty, and only log_poll fills the FIFO.         *)

PollKnows ==
  /\ pc = "take" => head # tail
  /\ pc \in {"take", "write"} => fifo < UartDepth
  /\ pc # "out" => sent < Budget

LogInv == TypeOK /\ PollKnows

(* A push leaves both indices in the ring, apart from one another. *)
LEMMA PushMoves ==
  ASSUME TypeOK, NEW text \in Texts, log_push(text)
  PROVE  /\ head' \in Slots /\ tail' \in Slots /\ head' # tail'
         /\ ring' \in [Slots -> Chars \cup {Blank}]
<1> DEFINE n == Len(text)
<1>1. n \in 1..LogRingSize-1 /\ text \in Seq(Chars)
  BY TextsAssumption
<1>2. head \in Slots /\ tail \in Slots
  BY DEF TypeOK
<1>3. /\ head + n \in 0..2*LogRingSize-1
      /\ head + n + 1 \in 0..2*LogRingSize-1
  BY <1>1, <1>2, LogSizesAssumption DEF Slots
<1> HIDE DEF n
<1>4. head' = Wrap(head + n) /\ tail' = TailAfter(n)
  BY DEF log_push, n
<1>5. head' \in Slots
  BY <1>3, <1>4, WrapValue
<1>6. tail' \in Slots /\ head' # tail'
  <2>1. CASE log_ring_used + n < LogRingSize
    <3> DEFINE u == log_ring_used
    <3>1. u = IF head >= tail THEN head - tail ELSE head + LogRingSize - tail
      BY <1>2, UsedValue
    <3>2. u + n < LogRingSize
      BY <2>1
    <3>3. tail' = tail
      BY <2>1, <1>4 DEF TailAfter
    <3>4. head' = IF head + n < LogRingSize THEN head + n ELSE head + n - LogRingSize
      BY <1>1, <1>2, <1>3, <1>4, WrapValue, LogSizesAssumption DEF Slots
    <3> HIDE DEF u
    <3> QED
      BY <3>1, <3>2, <3>3, <3>4, <1>1, <1>2, LogSizesAssumption DEF Slots
  <2>2. CASE ~(log_ring_used + n < LogRingSize)
    BY <2>2, <1>3, <1>4, WrapValue, LogSizesAssumption DEF TailAfter, Slots
  <2> QED
    BY <2>1, <2>2
<1>7. ring' \in [Slots -> Chars \cup {Blank}]
  <2>1. \A i \in Slots : i + LogRingSize - head \in 0..2*LogRingSize-1
    BY <1>2, LogSizesAssumption DEF Slots
  <2>2. \A i \in Slots : Wrap(i + LogRingSize - head) \in Slots
    BY <2>1, WrapValue
  <2>3. \A p \in Slots : p < n => text[p + 1] \in Chars
    BY <1>1, LogSizesAssumption DEF Slots, n
  <2>4. ring' = [i \in Slots |-> IF Wrap(i + LogRingSize - head) < n
                                 THEN text[Wrap(i + LogRingSize - head) + 1] ELSE ring[i]]
    BY DEF log_push, n
  <2>5. ring \in [Slots -> Chars \cup {Blank}]
    BY DEF TypeOK
  <2> QED
    BY <2>2, <2>3, <2>4, <2>5
<1> QED
  BY <1>5, <1>6, <1>7

LEMMA LogInit == Init => LogInv
<1> SUFFICES ASSUME Init PROVE LogInv
  OBVIOUS
<1>1. 0 \in Slots /\ 0 \in 0..Budget /\ 0 \in 0..UartDepth
  BY LogSizesAssumption DEF Slots
<1> QED
  BY <1>1 DEF Init, LogInv, TypeOK, PollKnows

LEMMA LogStep == LogInv /\ [Next]_vars => LogInv'
<1> SUFFICES ASSUME LogInv, [Next]_vars PROVE LogInv'
  OBVIOUS
<1>0. TypeOK /\ PollKnows
  BY DEF LogInv
<1>1. ASSUME NEW text \in Texts, log_push(text) PROVE LogInv'
  <2>1. UNCHANGED <<pc, sent, b, fifo>>
    BY <1>1 DEF log_push
  <2> QED
    BY <1>0, <1>1, <2>1, PushMoves DEF LogInv, TypeOK, PollKnows
<1>2. CASE PollStarts
  <2>1. 0 \in 0..Budget /\ 0 < Budget
    BY LogSizesAssumption
  <2> QED
    BY <1>0, <1>2, <2>1 DEF PollStarts, ringVars, LogInv, TypeOK, PollKnows
<1>3. CASE PollTests
  <2>1. pc' = "take" => head # tail /\ fifo < UartDepth
    BY <1>3 DEF PollTests, MayTake
  <2> QED
    BY <1>0, <1>3, <2>1 DEF PollTests, ringVars, LogInv, TypeOK, PollKnows
<1>4. CASE PollTakes
  <2>1. tail + 1 \in 0..2*LogRingSize-1
    BY <1>0, LogSizesAssumption DEF TypeOK, Slots
  <2>2. tail' \in Slots
    BY <1>4, <2>1, WrapValue DEF PollTakes
  <2>3. b' \in {<<c>> : c \in Chars \cup {Blank}}
    BY <1>0, <1>4 DEF PollTakes, TypeOK
  <2> QED
    BY <1>0, <1>4, <2>2, <2>3 DEF PollTakes, LogInv, TypeOK, PollKnows
<1>5. CASE PollWrites
  <2>1. sent + 1 \in 0..Budget /\ (pc' # "out" => sent + 1 < Budget)
    BY <1>0, <1>5, LogSizesAssumption DEF PollWrites, TypeOK, PollKnows
  <2>2. fifo + 1 \in 0..UartDepth
    BY <1>0, <1>5, LogSizesAssumption DEF PollWrites, TypeOK, PollKnows
  <2> QED
    BY <1>0, <1>5, <2>1, <2>2 DEF PollWrites, ringVars, LogInv, TypeOK, PollKnows
<1>6. CASE UartShifts
  BY <1>0, <1>6, LogSizesAssumption DEF UartShifts, ringVars, LogInv, TypeOK, PollKnows
<1>7. CASE UNCHANGED vars
  BY <1>0, <1>7 DEF vars, ringVars, LogInv, TypeOK, PollKnows
<1> QED
  BY <1>1, <1>2, <1>3, <1>4, <1>5, <1>6, <1>7 DEF Next, log_poll

LEMMA LogInvariant == Spec => []LogInv
  BY LogInit, LogStep, PTL DEF Spec

(* Every index stays in the ring, every count in its bound: log_poll never   *)
(* writes to a full FIFO, so it never waits for the UART (log.c:82-90).      *)
THEOREM TypeCorrect == Spec => []TypeOK
<1>1. LogInv => TypeOK
  BY DEF LogInv
<1> QED
  BY <1>1, LogInvariant, PTL

-----------------------------------------------------------------------------
(* The queue of the last bytes. *)

Cells == Chars \cup {Blank}

(* LogBytes is a sequence: the bytes from the tail to the head. *)
BytesFromTail ==
  /\ log_ring_used \in 0..LogRingSize-1
  /\ LogBytes \in Seq(Cells)
  /\ Len(LogBytes) = log_ring_used
  /\ \A i \in 1..log_ring_used : LogBytes[i] = ring[Wrap(tail + i - 1)]

LEMMA BytesAreSequence == TypeOK => BytesFromTail
<1> SUFFICES ASSUME TypeOK PROVE BytesFromTail
  OBVIOUS
<1>1. head \in Slots /\ tail \in Slots /\ ring \in [Slots -> Cells]
  BY DEF TypeOK, Cells
<1>2. log_ring_used \in 0..LogRingSize-1
  BY <1>1, UsedValue
<1>3. \A i \in 1..log_ring_used : tail + i - 1 \in 0..2*LogRingSize-1
  BY <1>1, <1>2, LogSizesAssumption DEF Slots
<1>4. \A i \in 1..log_ring_used : ring[Wrap(tail + i - 1)] \in Cells
  BY <1>1, <1>3, WrapValue
<1>5. log_ring_used \in Nat
  BY <1>2, LogSizesAssumption
<1> QED
  BY <1>2, <1>4, <1>5 DEF LogBytes, BytesFromTail

LEMMA BytesAreSequenceNext == TypeOK' => BytesFromTail'
  BY BytesAreSequence, PTL

(* The slots by their distance from the head: a push writes the first ones. *)
LEMMA PushWrites ==
  ASSUME TypeOK, NEW text \in Texts, log_push(text), NEW j \in Slots
  PROVE  ring'[Wrap(head + j)] =
           IF j < Len(text) THEN text[j + 1] ELSE ring[Wrap(head + j)]
<1>1. head \in Slots
  BY DEF TypeOK
<1>2. head + j \in 0..2*LogRingSize-1
  BY <1>1, LogSizesAssumption DEF Slots
<1>3. /\ Wrap(head + j) \in Slots
      /\ Wrap(head + j) = IF head + j < LogRingSize THEN head + j ELSE head + j - LogRingSize
  BY <1>1, <1>2, WrapValue, LogSizesAssumption DEF Slots
<1>4. Wrap(Wrap(head + j) + LogRingSize - head) = j
  <2> DEFINE x == Wrap(head + j) + LogRingSize - head
  <2>1. /\ x \in 0..2*LogRingSize-1
        /\ j = IF x < LogRingSize THEN x ELSE x - LogRingSize
    BY <1>1, <1>3, LogSizesAssumption DEF Slots
  <2> QED
    BY <2>1, WrapValue
<1> QED
  BY <1>3, <1>4 DEF log_push

(* The i-th byte from the tail by its distance from the head. *)
LEMMA FromTheHead ==
  ASSUME TypeOK, NEW i \in 1..2*LogRingSize-1,
         i <= log_ring_used + LogRingSize - 1, i <= LogRingSize
  PROVE  Wrap(tail + i - 1) =
           IF i <= log_ring_used THEN Wrap(head + (LogRingSize - log_ring_used + i - 1))
                                 ELSE Wrap(head + (i - log_ring_used - 1))
<1> DEFINE u == log_ring_used
<1>1. head \in Slots /\ tail \in Slots
  BY DEF TypeOK
<1>2. /\ u \in 0..LogRingSize-1
      /\ u = IF head >= tail THEN head - tail ELSE head + LogRingSize - tail
  BY <1>1, UsedValue
<1> HIDE DEF u
<1> DEFINE x == tail + i - 1
           y == IF i <= u THEN head + (LogRingSize - u + i - 1) ELSE head + (i - u - 1)
<1>3. x \in 0..2*LogRingSize-1 /\ y \in 0..2*LogRingSize-1
  BY <1>1, <1>2, LogSizesAssumption DEF Slots
<1>4. x = y \/ x = y + LogRingSize \/ y = x + LogRingSize
  BY <1>1, <1>2, LogSizesAssumption DEF Slots
<1>5. Wrap(x) = Wrap(y)
  BY <1>3, <1>4, WrapSame
<1> QED
  BY <1>5 DEF u

-----------------------------------------------------------------------------
(* Every step of the log is a step of the queue. *)

(* A text that fits is appended. *)
LEMMA TextAppended ==
  ASSUME TypeOK, TypeOK', NEW text \in Texts, log_push(text),
         log_ring_used + Len(text) < LogRingSize
  PROVE  LogBytes' = LogBytes \o text
<1> DEFINE u == log_ring_used
           n == Len(text)
           s == LogBytes \o text
<1>1. /\ head \in Slots /\ tail \in Slots
      /\ u \in 0..LogRingSize-1 /\ n \in 1..LogRingSize-1 /\ u + n < LogRingSize
      /\ text \in Seq(Cells)
  BY BytesAreSequence, TextsAssumption DEF TypeOK, BytesFromTail, Cells
<1>2. tail' = tail /\ head' = Wrap(head + n)
  BY DEF log_push, TailAfter
<1>3. u' = u + n
  <2>1. u = IF head >= tail THEN head - tail ELSE head + LogRingSize - tail
    BY <1>1, UsedValue
  <2>2. u' = Wrap(head' + LogRingSize - tail')
    BY DEF log_ring_used
  <2> HIDE DEF u, n
  <2>3. head' = IF head + n < LogRingSize THEN head + n ELSE head + n - LogRingSize
    <3>1. head + n \in 0..2*LogRingSize-1
      BY <1>1, LogSizesAssumption DEF Slots
    <3> QED
      BY <1>1, <1>2, <3>1, WrapValue, LogSizesAssumption DEF Slots
  <2> DEFINE x == head' + LogRingSize - tail
  <2>4. /\ x \in 0..2*LogRingSize-1
        /\ u + n = IF x < LogRingSize THEN x ELSE x - LogRingSize
    BY <1>1, <2>1, <2>3, LogSizesAssumption DEF Slots
  <2> QED
    BY <1>2, <2>2, <2>4, WrapValue
<1>4. s \in Seq(Cells) /\ Len(s) = u + n
  BY <1>1, BytesAreSequence, ConcatProperties DEF BytesFromTail
<1>5. LogBytes' \in Seq(Cells) /\ Len(LogBytes') = u + n
  BY <1>3, BytesAreSequenceNext DEF BytesFromTail
<1>6. ASSUME NEW i \in 1..u+n PROVE LogBytes'[i] = s[i]
  <2>1. LogBytes'[i] = ring'[Wrap(tail + i - 1)]
    BY <1>2, <1>3, BytesAreSequenceNext DEF BytesFromTail
  <2>2. i \in 1..2*LogRingSize-1 /\ i <= u + LogRingSize - 1 /\ i <= LogRingSize
    BY <1>1, LogSizesAssumption
  <2>3. CASE i <= u
    <3> DEFINE j == LogRingSize - u + i - 1
    <3>1. j \in Slots /\ ~(j < n)
      BY <1>1, <2>3, LogSizesAssumption DEF Slots
    <3>2. Wrap(tail + i - 1) = Wrap(head + j)
      BY <2>2, <2>3, FromTheHead
    <3>3. ring'[Wrap(head + j)] = ring[Wrap(head + j)]
      BY <3>1, PushWrites
    <3>4. LogBytes[i] = ring[Wrap(tail + i - 1)] /\ s[i] = LogBytes[i]
      BY <1>1, <2>3, BytesAreSequence, ConcatProperties DEF BytesFromTail
    <3> QED
      BY <2>1, <3>2, <3>3, <3>4
  <2>4. CASE ~(i <= u)
    <3> DEFINE j == i - u - 1
    <3>1. j \in Slots /\ j < n /\ j + 1 = i - u
      BY <1>1, <2>4, LogSizesAssumption DEF Slots
    <3>2. Wrap(tail + i - 1) = Wrap(head + j)
      BY <2>2, <2>4, FromTheHead
    <3>3. ring'[Wrap(head + j)] = text[j + 1]
      BY <3>1, PushWrites
    <3>4. s[i] = text[i - u]
      BY <1>1, <2>4, BytesAreSequence, ConcatProperties DEF BytesFromTail
    <3> QED
      BY <2>1, <3>1, <3>2, <3>3, <3>4
  <2> QED
    BY <2>3, <2>4
<1> QED
  BY <1>4, <1>5, <1>6, SeqEqual

(* A text that does not fit pushes the oldest bytes out. *)
LEMMA OldestForgotten ==
  ASSUME TypeOK, TypeOK', NEW text \in Texts, log_push(text),
         ~(log_ring_used + Len(text) < LogRingSize)
  PROVE  LogBytes' = SubSeq(LogBytes \o text, log_ring_used + Len(text) - LogRingSize + 2,
                            log_ring_used + Len(text))
<1> DEFINE u == log_ring_used
           n == Len(text)
           s == LogBytes \o text
           first == u + n - LogRingSize + 2
           t == SubSeq(s, first, u + n)
<1>1. /\ head \in Slots /\ tail \in Slots
      /\ u \in 0..LogRingSize-1 /\ n \in 1..LogRingSize-1 /\ u + n >= LogRingSize
      /\ text \in Seq(Cells)
  BY BytesAreSequence, TextsAssumption, LogSizesAssumption DEF TypeOK, BytesFromTail, Cells
<1>2. tail' = Wrap(head + n + 1) /\ head' = Wrap(head + n)
  BY DEF log_push, TailAfter
<1>3. /\ u' = LogRingSize - 1
      /\ tail' \in Slots
      /\ tail' = IF head + n + 1 < LogRingSize THEN head + n + 1 ELSE head + n + 1 - LogRingSize
  <2>1. u' = Wrap(head' + LogRingSize - tail')
    BY DEF log_ring_used
  <2> HIDE DEF u, n
  <2>2. head + n \in 0..2*LogRingSize-1 /\ head + n + 1 \in 0..2*LogRingSize-1
    BY <1>1, LogSizesAssumption DEF Slots
  <2>3. head' = IF head + n < LogRingSize THEN head + n ELSE head + n - LogRingSize
    BY <1>1, <1>2, <2>2, WrapValue, LogSizesAssumption DEF Slots
  <2>4. tail' = IF head + n + 1 < LogRingSize THEN head + n + 1 ELSE head + n + 1 - LogRingSize
    BY <1>1, <1>2, <2>2, WrapValue, LogSizesAssumption DEF Slots
  <2> DEFINE x == head' + LogRingSize - tail'
  <2>5. /\ x \in 0..2*LogRingSize-1
        /\ LogRingSize - 1 = IF x < LogRingSize THEN x ELSE x - LogRingSize
        /\ tail' \in Slots
    BY <1>1, <2>3, <2>4, LogSizesAssumption DEF Slots
  <2> QED
    BY <2>1, <2>4, <2>5, WrapValue
<1>4. s \in Seq(Cells) /\ Len(s) = u + n
  BY <1>1, BytesAreSequence, ConcatProperties DEF BytesFromTail
<1>5. LogBytes' \in Seq(Cells) /\ Len(LogBytes') = LogRingSize - 1
  BY <1>3, BytesAreSequenceNext DEF BytesFromTail
<1>6. /\ t \in Seq(Cells) /\ Len(t) = LogRingSize - 1
      /\ \A i \in 1..LogRingSize-1 : t[i] = s[first + i - 1]
  <2>1. first \in Int /\ u + n \in Int /\ first <= u + n
    BY <1>1, LogSizesAssumption
  <2>2. \A k \in first..u+n : s[k] \in Cells
    BY <1>1, <1>4, LogSizesAssumption
  <2>3. (u + n) - first + 1 = LogRingSize - 1
    BY <1>1, LogSizesAssumption
  <2> HIDE DEF s, first, u, n
  <2> QED
    BY <2>1, <2>2, <2>3, SubSeqProperties
<1>7. ASSUME NEW i \in 1..LogRingSize-1 PROVE LogBytes'[i] = t[i]
  <2>1. LogBytes'[i] = ring'[Wrap(tail' + i - 1)]
    BY <1>3, BytesAreSequenceNext DEF BytesFromTail
  <2>2. t[i] = s[first + i - 1]
    BY <1>6
  <2>3. CASE n + i < LogRingSize
    <3> DEFINE j == n + i
               k == first + i - 1
    <3>1. Wrap(tail' + i - 1) = Wrap(head + j)
      <4> DEFINE x == tail' + i - 1
                 y == head + j
      <4>1. /\ x \in 0..2*LogRingSize-1 /\ y \in 0..2*LogRingSize-1
            /\ x = y \/ x = y + LogRingSize \/ y = x + LogRingSize
        BY <1>1, <1>3, <2>3, LogSizesAssumption DEF Slots
      <4> QED
        BY <4>1, WrapSame
    <3>2. j \in Slots /\ ~(j < n)
      BY <1>1, <2>3, LogSizesAssumption DEF Slots
    <3>3. ring'[Wrap(head + j)] = ring[Wrap(head + j)]
      BY <3>2, PushWrites
    <3>4. k \in 1..u /\ LogRingSize - u + k - 1 = j
      BY <1>1, <2>3, LogSizesAssumption
    <3>5. s[k] = LogBytes[k] /\ LogBytes[k] = ring[Wrap(tail + k - 1)]
      BY <1>1, <3>4, BytesAreSequence, ConcatProperties DEF BytesFromTail
    <3>6. Wrap(tail + k - 1) = Wrap(head + j)
      <4>1. k \in 1..2*LogRingSize-1 /\ k <= u + LogRingSize - 1 /\ k <= LogRingSize /\ k <= u
        BY <1>1, <3>4, LogSizesAssumption
      <4> QED
        BY <3>4, <4>1, FromTheHead
    <3> QED
      BY <2>1, <2>2, <3>1, <3>3, <3>5, <3>6
  <2>4. CASE ~(n + i < LogRingSize)
    <3> DEFINE j == n + i - LogRingSize
               k == first + i - 1
    <3>1. Wrap(tail' + i - 1) = Wrap(head + j)
      <4> DEFINE x == tail' + i - 1
                 y == head + j
      <4>1. /\ x \in 0..2*LogRingSize-1 /\ y \in 0..2*LogRingSize-1
            /\ x = y \/ x = y + LogRingSize \/ y = x + LogRingSize
        BY <1>1, <1>3, <2>4, LogSizesAssumption DEF Slots
      <4> QED
        BY <4>1, WrapSame
    <3>2. j \in Slots /\ j < n
      BY <1>1, <2>4, LogSizesAssumption DEF Slots
    <3>3. ring'[Wrap(head + j)] = text[j + 1]
      BY <3>2, PushWrites
    <3>4. k \in u+1..u+n /\ k - u = j + 1
      BY <1>1, <2>4, LogSizesAssumption
    <3>5. s[k] = text[k - u]
      BY <1>1, <3>4, BytesAreSequence, ConcatProperties DEF BytesFromTail
    <3> QED
      BY <2>1, <2>2, <3>1, <3>3, <3>4, <3>5
  <2> QED
    BY <2>3, <2>4
<1> QED
  BY <1>5, <1>6, <1>7, SeqEqual

LEMMA PushIsPut ==
  ASSUME TypeOK, TypeOK', NEW text \in Texts, log_push(text)
  PROVE  LastBytes!Put(text)
<1> DEFINE s == LogBytes \o text
<1>1. /\ LogBytes \in Seq(Cells) /\ Len(LogBytes) = log_ring_used
      /\ text \in Seq(Cells) /\ Len(text) \in 1..LogRingSize-1
      /\ log_ring_used \in 0..LogRingSize-1
  BY BytesAreSequence, TextsAssumption DEF BytesFromTail, Cells
<1>2. Len(s) = log_ring_used + Len(text)
  BY <1>1
<1>3. LogBytes' = LastBytes!Newest(s)
  <2>1. CASE log_ring_used + Len(text) < LogRingSize
    BY <2>1, <1>1, <1>2, TextAppended, LogSizesAssumption DEF LastBytes!Newest
  <2>2. CASE ~(log_ring_used + Len(text) < LogRingSize)
    <3>1. LogBytes' = SubSeq(s, log_ring_used + Len(text) - LogRingSize + 2,
                                log_ring_used + Len(text))
      BY <2>2, OldestForgotten
    <3>2. /\ ~(Len(s) <= LogRingSize - 1)
          /\ Len(s) - (LogRingSize - 1) + 1 = log_ring_used + Len(text) - LogRingSize + 2
      BY <2>2, <1>1, <1>2, LogSizesAssumption
    <3> QED
      BY <3>1, <3>2, <1>2 DEF LastBytes!Newest
  <2> QED
    BY <2>1, <2>2
<1> QED
  BY <1>3 DEF LastBytes!Put, log_push

LEMMA TakeIsTake ==
  ASSUME LogInv, LogInv', PollTakes
  PROVE  LastBytes!Take
<1> DEFINE u == log_ring_used
<1>1. /\ TypeOK /\ TypeOK' /\ head # tail
      /\ head \in Slots /\ tail \in Slots
  BY DEF LogInv, PollKnows, TypeOK, PollTakes
<1>2. u \in 1..LogRingSize-1
  BY <1>1, UsedValue, LogSizesAssumption DEF Slots
<1>3. /\ UNCHANGED <<head, ring>> /\ tail' = Wrap(tail + 1)
      /\ tail' = IF tail + 1 < LogRingSize THEN tail + 1 ELSE tail + 1 - LogRingSize
      /\ b' = <<ring[tail]>>
  <2>1. tail + 1 \in 0..2*LogRingSize-1
    BY <1>1, LogSizesAssumption DEF Slots
  <2> QED
    BY <1>1, <2>1, WrapValue, LogSizesAssumption DEF PollTakes, Slots
<1>4. LogBytes \in Seq(Cells) /\ Len(LogBytes) = u /\ LogBytes # <<>>
  BY <1>1, <1>2, BytesAreSequence DEF BytesFromTail
<1>5. LogBytes[1] = ring[tail]
  <2>1. LogBytes[1] = ring[Wrap(tail + 1 - 1)]
    BY <1>1, <1>2, BytesAreSequence DEF BytesFromTail
  <2>2. tail + 1 - 1 = tail /\ Wrap(tail) = tail
    BY <1>1, WrapValue, LogSizesAssumption DEF Slots
  <2> QED
    BY <2>1, <2>2
<1>6. u' = u - 1
  <2>1. u = IF head >= tail THEN head - tail ELSE head + LogRingSize - tail
    BY <1>1, UsedValue
  <2>2. u' = Wrap(head + LogRingSize - tail')
    BY <1>3 DEF log_ring_used
  <2> HIDE DEF u
  <2> DEFINE x == head + LogRingSize - tail'
  <2>3. /\ x \in 0..2*LogRingSize-1
        /\ u - 1 = IF x < LogRingSize THEN x ELSE x - LogRingSize
    BY <1>1, <1>3, <2>1, LogSizesAssumption DEF Slots
  <2> QED
    BY <2>2, <2>3, WrapValue
<1>7. LogBytes' = Tail(LogBytes)
  <2>1. LogBytes' \in Seq(Cells) /\ Len(LogBytes') = u - 1
    BY <1>1, <1>6, BytesAreSequenceNext DEF BytesFromTail
  <2>2. /\ Tail(LogBytes) \in Seq(Cells) /\ Len(Tail(LogBytes)) = u - 1
        /\ \A i \in 1..u-1 : Tail(LogBytes)[i] = LogBytes[i + 1]
    BY <1>4, HeadTailProperties
  <2>3. ASSUME NEW i \in 1..u-1 PROVE LogBytes'[i] = Tail(LogBytes)[i]
    <3>1. LogBytes'[i] = ring[Wrap(tail' + i - 1)]
      BY <1>1, <1>3, <1>6, BytesAreSequenceNext DEF BytesFromTail
    <3>2. LogBytes[i + 1] = ring[Wrap(tail + (i + 1) - 1)]
      BY <1>1, <1>2, BytesAreSequence DEF BytesFromTail
    <3>3. Wrap(tail' + i - 1) = Wrap(tail + (i + 1) - 1)
      <4> DEFINE x == tail' + i - 1
                 y == tail + (i + 1) - 1
      <4>1. /\ x \in 0..2*LogRingSize-1 /\ y \in 0..2*LogRingSize-1
            /\ x = y \/ y = x + LogRingSize
        BY <1>1, <1>2, <1>3, LogSizesAssumption DEF Slots
      <4> QED
        BY <4>1, WrapSame
    <3> QED
      BY <2>2, <3>1, <3>2, <3>3
  <2> QED
    BY <2>1, <2>2, <2>3, SeqEqual
<1> QED
  BY <1>3, <1>4, <1>5, <1>7 DEF LastBytes!Take

LEMMA QueueInit == Init => LastBytes!Init
<1> SUFFICES ASSUME Init PROVE LastBytes!Init
  OBVIOUS
<1>1. TypeOK
  BY LogInit DEF LogInv
<1>2. log_ring_used = 0
  BY <1>1, UsedValue, LogSizesAssumption DEF Init, TypeOK, Slots
<1>3. LogBytes = <<>>
  BY <1>1, <1>2, BytesAreSequence, EmptySeq DEF BytesFromTail
<1> QED
  BY <1>3 DEF Init, LastBytes!Init

LEMMA QueueStep ==
  ASSUME LogInv, LogInv', [Next]_vars
  PROVE  [LastBytes!Next]_(LastBytes!vars)
<1>0. TypeOK /\ TypeOK'
  BY DEF LogInv
<1>1. ASSUME NEW text \in Texts, log_push(text) PROVE LastBytes!Next
  BY <1>0, <1>1, PushIsPut DEF LastBytes!Next
<1>2. CASE PollTakes
  BY <1>2, TakeIsTake DEF LastBytes!Next
<1>3. CASE PollStarts \/ PollTests \/ PollWrites \/ UartShifts \/ UNCHANGED vars
  <2>1. UNCHANGED <<ring, head, tail, b>>
    BY <1>3 DEF PollStarts, PollTests, PollWrites, UartShifts, vars, ringVars
  <2>2. log_ring_used' = log_ring_used
    BY <2>1 DEF log_ring_used
  <2>3. LogBytes' = LogBytes
    BY <2>1, <2>2 DEF LogBytes
  <2> QED
    BY <2>1, <2>3 DEF LastBytes!vars
<1> QED
  BY <1>1, <1>2, <1>3 DEF Next, log_poll

(***************************************************************************)
(* The ring, with pushes at every point of log_poll, is a queue that gives  *)
(* out what was pushed, in its order and once, and forgets its oldest bytes *)
(* when it is full, never others (log.c:38-93).                             *)
(***************************************************************************)
THEOREM RingIsQueue == Spec => ImplementsLastBytes
  BY LogInvariant, QueueInit, QueueStep, PTL DEF Spec, ImplementsLastBytes, LastBytes!Spec
=============================================================================
