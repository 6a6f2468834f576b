-------------------------- MODULE BidibClient_proofs --------------------------
(***************************************************************************)
(* What holds of the messages between gateway and master for every number   *)
(* of features, every range of values, every ring and every range of        *)
(* message numbers.                                                         *)
(***************************************************************************)
EXTENDS BidibClient, SequenceTheorems, TLAPS

(***************************************************************************)
(* Message numbers.                                                         *)
(***************************************************************************)

LEMMA NumberSizes == NumSize \in Nat /\ MaxMissing \in Nat /\ NumSize > MaxMissing + 3
  BY QueueAssumption

LEMMA ModBelow ==
  ASSUME NEW n \in Nat, NEW x \in 0..n-1
  PROVE  x % n = x
  BY SMT

LEMMA ModOnce ==
  ASSUME NEW n \in Nat, NEW x \in n..2*n-1
  PROVE  x % n = x - n
  BY SMT

\* The numbers the master expects, without the modulus: behind the last one
\* comes 1.
LEMMA MasterCounts ==
  ASSUME NEW n \in Numbers, NEW k \in 0..NumSize-2
  PROVE  MasterNum(n, k) = IF n + k < NumSize THEN n + k ELSE n + k - NumSize + 1
<1> DEFINE N == NumSize
           x == n + k - 1
<1>0. N \in Nat /\ N > 3 /\ n \in 0..N-1 /\ k \in 0..N-2
  BY NumberSizes DEF Numbers
<1>1. CASE n + k = 0
  BY <1>0, <1>1 DEF MasterNum
<1>2. CASE n + k # 0 /\ n + k < N
  <2>1. N - 1 \in Nat /\ x \in 0..(N - 1) - 1
    BY <1>0, <1>2
  <2>2. x % (N - 1) = x
    BY <2>1, ModBelow
  <2>3. MasterNum(n, k) = (x % (N - 1)) + 1
    BY <1>2 DEF MasterNum
  <2> QED
    BY <1>0, <1>2, <2>2, <2>3
<1>3. CASE n + k # 0 /\ ~(n + k < N)
  <2>1. N - 1 \in Nat /\ x \in (N - 1)..2 * (N - 1) - 1
    BY <1>0, <1>3
  <2>2. x % (N - 1) = x - (N - 1)
    BY <2>1, ModOnce
  <2>3. MasterNum(n, k) = (x % (N - 1)) + 1
    BY <1>3 DEF MasterNum
  <2> QED
    BY <1>0, <1>3, <2>2, <2>3
<1> QED
  BY <1>1, <1>2, <1>3

\* The node counts as the master does.
LEMMA NodeCounts ==
  ASSUME NEW n \in Numbers, NEW k \in 0..NumSize-2
  PROVE  NumAfter(n, k) = MasterNum(n, k)
  BY MasterCounts DEF NumAfter

LEMMA NumberIsNumber ==
  ASSUME NEW n \in Numbers, NEW k \in 0..NumSize-2
  PROVE  MasterNum(n, k) \in Numbers
  BY MasterCounts, NumberSizes DEF Numbers

\* Counting on.
LEMMA NumbersAdd ==
  ASSUME NEW n \in Numbers, NEW j \in Nat, NEW k \in Nat, j + k \in 0..NumSize-2
  PROVE  MasterNum(MasterNum(n, j), k) = MasterNum(n, j + k)
<1>0. NumSize \in Nat /\ NumSize > 3 /\ n \in 0..NumSize-1
  BY NumberSizes DEF Numbers
<1>1. j \in 0..NumSize-2 /\ k \in 0..NumSize-2
  BY <1>0
<1> DEFINE m == MasterNum(n, j)
<1>2. m \in Numbers /\ m = IF n + j < NumSize THEN n + j ELSE n + j - NumSize + 1
  BY <1>1, MasterCounts, NumberIsNumber
<1>3. MasterNum(m, k) = IF m + k < NumSize THEN m + k ELSE m + k - NumSize + 1
  BY <1>1, <1>2, MasterCounts
<1>4. MasterNum(n, j + k) = IF n + (j + k) < NumSize THEN n + (j + k) ELSE n + (j + k) - NumSize + 1
  BY MasterCounts
<1> HIDE DEF m
<1>5. MasterNum(m, k) = MasterNum(n, j + k)
  BY <1>0, <1>1, <1>2, <1>3, <1>4 DEF Numbers
<1> QED
  BY <1>5 DEF m

LEMMA NumbersStart == 0 \in Numbers /\ 1 \in Numbers /\ \A n \in Numbers : MasterNum(n, 0) = n
<1>1. 0 \in 0..NumSize-2 /\ 0 \in Numbers /\ 1 \in Numbers
  BY NumberSizes DEF Numbers
<1> QED
  BY <1>1, MasterCounts, NumberSizes DEF Numbers

-----------------------------------------------------------------------------
(* What Send does, with the sizes named. *)

Fits(b) == LET room == IF connect = "CONNECTED" THEN Room - Len(queue) ELSE 0
           IN IF b <= room THEN b ELSE room

LEMMA RoomLeft ==
  ASSUME TypeOK, NEW b \in {1, 2}
  PROVE  /\ Fits(b) \in 0..b
         /\ connect # "CONNECTED" => Fits(b) = 0
         /\ Len(queue) + Fits(b) <= Room
<1>1. Len(queue) \in Nat /\ Len(queue) <= Room /\ Room \in Nat
  BY QueueAssumption, LenProperties DEF TypeOK
<1> QED
  BY <1>1 DEF Fits

\* What is appended.
Appended(bodies, t) ==
  [k \in 1..t |-> [num |-> NumAfter(txNum, k - 1), gap |-> IF k = 1 THEN missing ELSE 0,
                   body |-> bodies[k]]]

Refused(b, t) == (IF t = 0 THEN missing ELSE 0) + b - t

LEMMA SendEffect ==
  ASSUME NEW bodies, Send(bodies)
  PROVE  LET t == Fits(Len(bodies)) IN
         /\ queue' = queue \o Appended(bodies, t)
         /\ txNum' = NumAfter(txNum, Len(bodies))
         /\ missing' = IF connect # "CONNECTED" THEN 0
                       ELSE IF Refused(Len(bodies), t) > MaxMissing THEN MaxMissing
                            ELSE Refused(Len(bodies), t)
         /\ "room" \in Assumed /\ connect = "CONNECTED" => t = Len(bodies)
  BY DEF Send, Fits, Appended, Refused

\* The messages of a send are one or two.
Sendable == {bodies \in Seq(Bodies) : Len(bodies) \in {1, 2}}

LEMMA FewCounted ==
  ASSUME NEW b \in {1, 2}
  PROVE  /\ b \in 0..NumSize-2
         /\ \A t \in 0..b : \A k \in 1..t : k \in 1..b /\ k - 1 \in 0..NumSize-2
  BY NumberSizes

LEMMA AppendedType ==
  ASSUME TypeOK, NEW bodies \in Sendable, NEW t \in 0..Len(bodies)
  PROVE  Appended(bodies, t) \in Seq(Sent) /\ Len(Appended(bodies, t)) = t
<1>1. Len(bodies) \in {1, 2} /\ bodies \in Seq(Bodies)
  BY DEF Sendable
<1>2. t \in Nat /\ t <= Len(bodies) /\ txNum \in Numbers /\ missing \in 0..MaxMissing /\ 0 \in 0..MaxMissing
  BY <1>1, NumberSizes DEF TypeOK
<1>3. ASSUME NEW k \in 1..t
      PROVE  [num |-> NumAfter(txNum, k - 1), gap |-> IF k = 1 THEN missing ELSE 0,
              body |-> bodies[k]] \in Sent
  <2>1. k \in 1..Len(bodies) /\ k - 1 \in 0..NumSize-2
    BY <1>1, <1>3, FewCounted
  <2>2. bodies[k] \in Bodies
    BY <1>1, <2>1, ElementOfSeq
  <2>3. NumAfter(txNum, k - 1) \in Numbers
    BY <1>2, <2>1, NodeCounts, NumberIsNumber
  <2> QED
    BY <1>2, <2>2, <2>3 DEF Sent
<1> QED
  BY <1>2, <1>3 DEF Appended

\* The types of what is kept for sending.
SendType == /\ queue \in Seq(Sent) /\ Len(queue) <= Room
            /\ txNum \in Numbers /\ missing \in 0..MaxMissing

LEMMA SendKeepsType ==
  ASSUME TypeOK, NEW bodies \in Sendable, Send(bodies)
  PROVE  SendType'
<1> DEFINE t == Fits(Len(bodies))
           a == Appended(bodies, t)
<1>1. Len(bodies) \in {1, 2}
  BY DEF Sendable
<1>2. t \in 0..Len(bodies) /\ Len(queue) + t <= Room
  BY <1>1, RoomLeft
<1>3. a \in Seq(Sent) /\ Len(a) = t
  BY <1>2, AppendedType
<1>4. queue \in Seq(Sent)
  BY DEF TypeOK
<1>5. queue' = queue \o a /\ txNum' = NumAfter(txNum, Len(bodies))
  BY SendEffect
<1>6. queue' \in Seq(Sent) /\ Len(queue') = Len(queue) + t
  <2> HIDE DEF a, t
  <2> QED
    BY <1>3, <1>4, <1>5, ConcatProperties
<1>7. txNum' \in Numbers
  <2>1. Len(bodies) \in 0..NumSize-2
    BY <1>1, FewCounted
  <2>2. txNum \in Numbers
    BY DEF TypeOK
  <2> QED
    BY <1>5, <2>1, <2>2, NodeCounts, NumberIsNumber
<1>8. missing' \in 0..MaxMissing
  <2>1. missing' = IF connect # "CONNECTED" THEN 0
                   ELSE IF Refused(Len(bodies), t) > MaxMissing THEN MaxMissing
                        ELSE Refused(Len(bodies), t)
    BY SendEffect
  <2>2. Refused(Len(bodies), t) \in Nat
    <3> HIDE DEF t
    <3> QED
      BY <1>1, <1>2, NumberSizes DEF Refused, TypeOK
  <2> QED
    BY <2>1, <2>2, NumberSizes
<1> QED
  BY <1>2, <1>6, <1>7, <1>8 DEF SendType

-----------------------------------------------------------------------------
(* The type invariant. *)

LinkType == /\ connect \in {"DISCONNECTED", "APPLIED", "CONNECTED", "REJECTED"}
            /\ nodeAddr \in Addresses /\ addrStack \in Addresses \cup {Broadcast}
GuestType == spontan \in BOOLEAN /\ guestEnabled \in BOOLEAN /\ guestSubscribed \in BOOLEAN
ValueType == /\ DOMAIN value = Features
             /\ \A f \in Features : value[f] \in FeatureMin[f]..FeatureMax[f]
StreamType == feature2send \in 0..NumFeatures /\ streaming \in BOOLEAN
MasterType == /\ expected \in Numbers /\ listed \subseteq Features
              /\ told \in [Features -> SUBSET Values]
              /\ askedFor \subseteq Targets

LEMMA TypeParts ==
  TypeOK <=> LinkType /\ GuestType /\ ValueType /\ StreamType /\ SendType /\ MasterType
  BY DEF TypeOK, LinkType, GuestType, ValueType, StreamType, SendType, MasterType

LEMMA PartsTyped ==
  LinkType' /\ GuestType' /\ ValueType' /\ StreamType' /\ SendType' /\ MasterType' => TypeOK'
  BY TypeParts, PTL

LEMMA StreamStarts == 0 \in 0..NumFeatures /\ NumFeatures \in 0..NumFeatures
<1>1. NumFeatures \in Nat
  BY FeatureAssumption
<1> QED
  BY <1>1

LEMMA ValuesInBounds ==
  ASSUME NEW f \in Features, NEW v \in FeatureMin[f]..FeatureMax[f]
  PROVE  v \in Values
  BY DEF Values

LEMMA ClampedInBounds ==
  ASSUME NEW f \in Features, NEW v \in Asked
  PROVE  Clamped(f, v) \in FeatureMin[f]..FeatureMax[f]
<1>1. /\ v \in Nat /\ FeatureMin[f] \in Nat /\ FeatureMax[f] \in Nat
      /\ FeatureDefault[f] \in FeatureMin[f]..FeatureMax[f]
  BY FeatureAssumption
<1> QED
  BY <1>1 DEF Clamped

LEMMA OneSendable ==
  ASSUME NEW body \in Bodies
  PROVE  <<body>> \in Sendable /\ Len(<<body>>) = 1
  BY DEF Sendable

LEMMA PlainSendable ==
  ASSUME NEW kind \in {"answer", "feature_na", "feature_count", "boost"}
  PROVE  Plain(kind) \in Bodies /\ <<Plain(kind)>> \in Sendable
<1>1. Plain(kind) \in Bodies
  BY DEF Plain, Bodies
<1> QED
  BY <1>1, OneSendable

LEMMA OrderSendable ==
  ASSUME NEW order \in Orders
  PROVE  DriveOrder(order) \in Bodies /\ <<DriveOrder(order)>> \in Sendable
<1>1. DriveOrder(order) \in Bodies
  BY DEF DriveOrder, Bodies
<1> QED
  BY <1>1, OneSendable

LEMMA FeatureSendable ==
  ASSUME NEW f \in Features, NEW v \in FeatureMin[f]..FeatureMax[f]
  PROVE  Feature(f, v) \in Bodies /\ <<Feature(f, v)>> \in Sendable
<1>1. Feature(f, v) \in Bodies
  BY ValuesInBounds DEF Feature, Bodies
<1> QED
  BY <1>1, OneSendable

LEMMA SubscribeSendable == <<Subscribe("DCCGEN"), Subscribe("BOOSTER")>> \in Sendable
<1>1. Subscribe("DCCGEN") \in Bodies /\ Subscribe("BOOSTER") \in Bodies
  BY DEF Subscribe, Bodies, Targets
<1> QED
  BY <1>1 DEF Sendable

\* What is queued.
LEMMA QueuedTyped ==
  ASSUME TypeOK, NEW i \in DOMAIN queue
  PROVE  /\ queue[i] \in Sent /\ i \in 1..Len(queue)
         /\ queue[i].body.kind = "feature"
              => queue[i].body.feature \in Features /\ queue[i].body.value \in Values
         /\ queue[i].body.kind = "subscribe" => queue[i].body.target \in Targets
<1>1. queue \in Seq(Sent) /\ i \in 1..Len(queue)
  BY LenProperties DEF TypeOK
<1>2. queue[i] \in Sent
  BY <1>1, ElementOfSeq
<1>3. queue[i].body \in Bodies
  BY <1>2 DEF Sent
<1> QED
  BY <1>1, <1>2, <1>3 DEF Bodies

LEMMA ReadingTyped ==
  ASSUME TypeOK
  PROVE  /\ NumExpected \in Numbers
         /\ \A f \in Features : ValueTold(f) \in SUBSET Values
         /\ FeaturesListed \subseteq Features
         /\ TargetsAskedFor \subseteq Targets
<1>1. NumExpected \in Numbers
  <2>1. CASE queue = <<>>
    BY <2>1 DEF NumExpected, TypeOK
  <2>2. CASE queue # <<>>
    <3>1. Len(queue) \in DOMAIN queue
      BY <2>2, EmptySeq, LenProperties DEF TypeOK
    <3>2. queue[Len(queue)].num \in Numbers
      BY <3>1, QueuedTyped DEF Sent
    <3>3. 1 \in 0..NumSize-2
      BY FewCounted
    <3> QED
      BY <2>2, <3>2, <3>3, NumberIsNumber DEF NumExpected
  <2> QED
    BY <2>1, <2>2
<1>2. \A f \in Features : ValueTold(f) \in SUBSET Values
  <2>1. ASSUME NEW f \in Features, NEW i \in Reports(f)
        PROVE  queue[i].body.value \in Values
    <3>1. i \in DOMAIN queue /\ queue[i].body.kind = "feature"
      BY <2>1 DEF Reports, Entries
    <3> QED
      BY <3>1, QueuedTyped
  <2> QED
    BY <2>1 DEF ValueTold, Newest, TypeOK
<1>3. FeaturesListed \subseteq Features
  BY DEF FeaturesListed
<1>4. TargetsAskedFor \subseteq Targets
  <2>1. ASSUME NEW i \in Entries("subscribe")
        PROVE  queue[i].body.target \in Targets
    <3>1. i \in DOMAIN queue /\ queue[i].body.kind = "subscribe"
      BY <2>1 DEF Entries
    <3> QED
      BY <3>1, QueuedTyped
  <2> QED
    BY <2>1 DEF TargetsAskedFor, TypeOK
<1> QED
  BY <1>1, <1>2, <1>3, <1>4

LEMMA InitType == Init => TypeOK
<1> SUFFICES ASSUME Init PROVE TypeOK
  OBVIOUS
<1>1. LinkType /\ GuestType
  BY AddressAssumption DEF Init, LinkType, GuestType
<1>2. ValueType /\ StreamType
  BY StreamStarts, FeatureAssumption DEF Init, ValueType, StreamType
<1>3. SendType
  <2>1. Room \in Nat /\ MaxMissing \in Nat
    BY QueueAssumption
  <2> QED
    BY <2>1, NumbersStart, EmptySeq DEF Init, SendType
<1>4. MasterType
  BY NumbersStart DEF Init, MasterType
<1> QED
  BY <1>1, <1>2, <1>3, <1>4, TypeParts

LEMMA NextFeatureType ==
  ASSUME TypeOK, NextFeature
  PROVE  SendType' /\ feature2send' \in 0..NumFeatures
<1>1. NumFeatures \in Nat /\ feature2send \in 0..NumFeatures
  BY FeatureAssumption DEF TypeOK
<1>2. CASE feature2send < NumFeatures
  <2>1. feature2send + 1 \in Features
    BY <1>1, <1>2, FeatureAssumption
  <2>2. <<Feature(feature2send + 1, value[feature2send + 1])>> \in Sendable
    BY <2>1, FeatureSendable DEF TypeOK
  <2>3. /\ Send(<<Feature(feature2send + 1, value[feature2send + 1])>>)
        /\ feature2send' = feature2send + 1
    BY <1>2 DEF NextFeature
  <2> QED
    BY <1>1, <1>2, <2>2, <2>3, SendKeepsType
<1>3. CASE ~(feature2send < NumFeatures)
  <2>1. Send(<<Plain("feature_na")>>) /\ feature2send' = feature2send
    BY <1>3 DEF NextFeature
  <2> QED
    BY <1>1, <2>1, PlainSendable, SendKeepsType
<1> QED
  BY <1>2, <1>3

LEMMA LinkKeepsType ==
  ASSUME TypeOK, Link
  PROVE  TypeOK'
<1> USE DEF linkVars, guestVars, featureVars, sendVars, masterVars
<1>0. /\ LinkType /\ GuestType /\ ValueType /\ StreamType /\ SendType /\ MasterType
      /\ NumFeatures \in Nat /\ Room \in Nat /\ MaxMissing \in Nat
      /\ Highest \in Addresses
  BY TypeParts, FeatureAssumption, QueueAssumption, AddressAssumption
<1>1. CASE LogonToken
  BY <1>0, <1>1 DEF LogonToken, TypeOK
<1>2. CASE LogonRejected
  BY <1>0, <1>2 DEF LogonRejected, TypeOK
<1>3. CASE Timeout
  <2>1. SendType' /\ MasterType'
    BY <1>0, <1>3, EmptySeq, NumbersStart DEF Timeout, SendType, MasterType
  <2>2. LinkType' /\ GuestType' /\ ValueType'
    BY <1>0, <1>3 DEF Timeout, LinkType, GuestType, ValueType
  <2>3. StreamType'
    <3>1. feature2send' = NumFeatures /\ streaming' = FALSE
      BY <1>3 DEF Timeout
    <3> QED
      BY <3>1, StreamStarts DEF StreamType
  <2> QED
    BY <2>1, <2>2, <2>3, PartsTyped
<1>4. CASE Poll
  <2>1. (SendType /\ LinkType /\ GuestType /\ ValueType /\ StreamType)'
    BY <1>0, <1>4, EmptySeq
    DEF Poll, SendType, LinkType, GuestType, ValueType, StreamType
  <2>2. MasterType'
    BY <1>4, ReadingTyped DEF Poll, MasterType
  <2> QED
    BY <2>1, <2>2, PartsTyped
<1>5. ASSUME NEW a \in Addresses, LogonAck(a)
      PROVE  TypeOK'
  <2>1. SendType' /\ MasterType'
    BY <1>0, <1>5, NumbersStart DEF LogonAck, SendType, MasterType
  <2>2. LinkType' /\ GuestType' /\ ValueType'
    BY <1>0, <1>5 DEF LogonAck, LinkType, GuestType, ValueType
  <2>3. StreamType'
    <3>1. feature2send' = 0 /\ streaming' = FALSE
      BY <1>5 DEF LogonAck
    <3> QED
      BY <3>1, StreamStarts DEF StreamType
  <2> QED
    BY <2>1, <2>2, <2>3, PartsTyped
<1> QED
  BY <1>1, <1>2, <1>3, <1>4, <1>5 DEF Link

LEMMA RequestKeepsType ==
  ASSUME TypeOK, NEW to, Request(to)
  PROVE  TypeOK'
<1> USE DEF linkVars, guestVars, featureVars, sendVars, masterVars
<1>0. LinkType /\ GuestType /\ ValueType /\ StreamType /\ SendType /\ MasterType
  BY TypeParts
<1>1. CASE Query(to)
  <2>1. SendType'
    BY <1>1, PlainSendable, SendKeepsType DEF Query
  <2> QED
    BY <1>0, <1>1, <2>1, PartsTyped
    DEF Query, LinkType, GuestType, ValueType, StreamType, MasterType
<1>2. CASE FeatureGetNext(to)
  <2>1. SendType' /\ StreamType'
    BY <1>0, <1>2, NextFeatureType DEF FeatureGetNext, StreamType
  <2> QED
    BY <1>0, <1>2, <2>1, PartsTyped DEF FeatureGetNext, LinkType, GuestType, ValueType, MasterType
<1>3. CASE SysEnable(to)
  <2>1. SendType'
    <3>1. CASE guestSubscribed
      BY <1>0, <1>3, <3>1 DEF SysEnable, SendType
    <3>2. CASE ~guestSubscribed
      BY <1>3, <3>2, SubscribeSendable, SendKeepsType DEF SysEnable
    <3> QED
      BY <3>1, <3>2
  <2> QED
    BY <1>0, <1>3, <2>1, PartsTyped
    DEF SysEnable, LinkType, GuestType, ValueType, StreamType, MasterType
<1>4. CASE SysDisable(to)
  <2>1. SendType' /\ MasterType' /\ LinkType' /\ GuestType' /\ ValueType'
    BY <1>0, <1>4 DEF SysDisable, LinkType, GuestType, ValueType, SendType, MasterType
  <2>2. feature2send' = NumFeatures /\ streaming' = FALSE
    BY <1>4 DEF SysDisable
  <2> QED
    BY <2>1, <2>2, StreamStarts, PartsTyped DEF StreamType
<1>5. CASE SysReset(to)
  BY <1>0, <1>5, PartsTyped
  DEF SysReset, vars, LinkType, GuestType, ValueType, StreamType, SendType, MasterType
<1>6. ASSUME NEW mode \in BOOLEAN, FeatureGetAll(to, mode)
      PROVE  TypeOK'
  <2>1. SendType'
    BY <1>6, PlainSendable, SendKeepsType DEF FeatureGetAll
  <2>2. StreamType'
    BY <1>6, StreamStarts DEF FeatureGetAll, StreamType
  <2> QED
    BY <1>0, <1>6, <2>1, <2>2, PartsTyped
    DEF FeatureGetAll, LinkType, GuestType, ValueType, MasterType
<1>7. ASSUME NEW f \in Features \cup {0}, FeatureGet(to, f)
      PROVE  TypeOK'
  <2>1. CASE f \in Features
    <3>1. <<Feature(f, value[f])>> \in Sendable
      BY <1>0, <2>1, FeatureSendable DEF ValueType
    <3> QED
      BY <1>7, <2>1, <3>1, SendKeepsType, <1>0, PartsTyped
      DEF FeatureGet, LinkType, GuestType, ValueType, StreamType, MasterType
  <2>2. CASE f \notin Features
    <3>1. SendType'
      BY <1>7, <2>2, PlainSendable, SendKeepsType DEF FeatureGet
    <3> QED
      BY <1>0, <1>7, <3>1, PartsTyped
      DEF FeatureGet, LinkType, GuestType, ValueType, StreamType, MasterType
  <2> QED
    BY <2>1, <2>2
<1>8. ASSUME NEW f \in Features, NEW v \in Asked, FeatureSet(to, f, v)
      PROVE  TypeOK'
  <2> DEFINE w == Clamped(f, v)
  <2>1. w \in FeatureMin[f]..FeatureMax[f]
    BY ClampedInBounds
  <2>2. /\ DOMAIN value = Features /\ value' = [value EXCEPT ![f] = w]
        /\ \A g \in Features : value[g] \in FeatureMin[g]..FeatureMax[g]
    BY <1>0, <1>8 DEF FeatureSet, ValueType
  <2>3. value'[f] = w /\ ValueType'
    BY <2>1, <2>2 DEF ValueType
  <2>4. SendType'
    BY <1>8, <2>1, <2>3, FeatureSendable, SendKeepsType DEF FeatureSet
  <2> QED
    BY <1>0, <1>8, <2>3, <2>4, PartsTyped
    DEF FeatureSet, LinkType, GuestType, StreamType, MasterType
<1>9. ASSUME NEW t \in Targets, NEW accepted \in BOOLEAN, SubscriptionAnswer(to, t, accepted)
      PROVE  TypeOK'
  BY <1>0, <1>9, PartsTyped
  DEF SubscriptionAnswer, LinkType, GuestType, ValueType, StreamType, SendType, MasterType
<1> QED
  BY <1>1, <1>2, <1>3, <1>4, <1>5, <1>6, <1>7, <1>8, <1>9 DEF Request

LEMMA OwnStepKeepsType ==
  ASSUME TypeOK, StreamStep \/ BoostState \/ \E order \in Orders : CsDrive(order)
  PROVE  TypeOK'
<1> USE DEF linkVars, guestVars, featureVars, masterVars
<1>0. LinkType /\ GuestType /\ ValueType /\ StreamType /\ SendType /\ MasterType
  BY TypeParts
<1>1. CASE StreamStep
  <2>1. SendType' /\ StreamType'
    BY <1>0, <1>1, NextFeatureType DEF StreamStep, StreamType
  <2> QED
    BY <1>0, <1>1, <2>1, PartsTyped DEF StreamStep, LinkType, GuestType, ValueType, MasterType
<1>2. CASE BoostState \/ \E order \in Orders : CsDrive(order)
  <2>1. SendType'
    BY <1>2, PlainSendable, OrderSendable, SendKeepsType DEF CsDrive, BoostState
  <2> QED
    BY <1>0, <1>2, <2>1, PartsTyped
    DEF CsDrive, BoostState, LinkType, GuestType, ValueType, StreamType, MasterType
<1> QED
  BY <1>1, <1>2

LEMMA NextKeepsType == TypeOK /\ [Next]_vars => TypeOK'
<1> SUFFICES ASSUME TypeOK, [Next]_vars PROVE TypeOK'
  OBVIOUS
<1>1. CASE Next
  BY <1>1, LinkKeepsType, RequestKeepsType, OwnStepKeepsType DEF Next
<1>2. CASE UNCHANGED vars
  BY <1>2 DEF vars, linkVars, guestVars, featureVars, sendVars, masterVars, TypeOK
<1> QED
  BY <1>1, <1>2

(***************************************************************************)
(* The state is well-typed: the features stay between their bounds whatever *)
(* the master asks for, the queue never holds more than the ring does, and  *)
(* every number on it is a message number (bidib_client_parser.c:227-235,   *)
(* bidib_client_if.c:156-198).                                              *)
(***************************************************************************)
THEOREM TypeCorrect == Spec => []TypeOK
  BY InitType, NextKeepsType, PTL DEF Spec

-----------------------------------------------------------------------------
(* The messages in the queue after a send. *)

\* A step outside the link sends nothing, answers, tells a feature, or asks for
\* the subscriptions.
Quiet ==
  /\ UNCHANGED <<linkVars, sendVars, value, expected, told, listed>>
  /\ UNCHANGED <<feature2send, streaming>> \/ streaming' = FALSE
  /\ UNCHANGED <<guestSubscribed, askedFor>> \/ guestSubscribed' = FALSE

Answers ==
  /\ UNCHANGED <<linkVars, value, guestSubscribed, masterVars>>
  /\ \/ \E kind \in {"answer", "feature_na", "boost"} : Send(<<Plain(kind)>>)
        /\ UNCHANGED <<feature2send, streaming>>
     \/ Send(<<Plain("feature_count")>>) /\ feature2send' = 0

TellsValue(f, v) ==
  /\ UNCHANGED <<linkVars, guestSubscribed, streaming, masterVars>>
  /\ Send(<<Feature(f, v)>>)
  /\ v \in FeatureMin[f]..FeatureMax[f] /\ v = value'[f]
  /\ \A g \in Features \ {f} : value'[g] = value[g]
  /\ feature2send' = feature2send \/ (feature2send' = f /\ f = feature2send + 1)
Tells == \E f \in Features : \E v \in FeatureMin[f]..FeatureMax[f] : TellsValue(f, v)

Subscribes ==
  /\ UNCHANGED <<linkVars, featureVars, masterVars>>
  /\ Send(<<Subscribe("DCCGEN"), Subscribe("BOOSTER")>>)

Commands ==
  /\ UNCHANGED <<linkVars, featureVars, guestSubscribed, masterVars>>
  /\ \E order \in Orders : Send(<<DriveOrder(order)>>)

AnswerStep == Quiet \/ Answers \/ Tells \/ Subscribes
OtherStep == AnswerStep \/ Commands

LEMMA FeatureSteps ==
  ASSUME TypeOK, NextFeature,
         UNCHANGED <<linkVars, guestVars, value, streaming, masterVars>>
  PROVE  AnswerStep
<1> USE DEF guestVars
<1>1. NumFeatures \in Nat /\ feature2send \in 0..NumFeatures /\ ValueType
  BY FeatureAssumption, TypeParts DEF TypeOK
<1>2. CASE feature2send < NumFeatures
  <2> DEFINE f == feature2send + 1
  <2>1. f \in Features
    BY <1>1, <1>2, FeatureAssumption
  <2>2. value[f] \in FeatureMin[f]..FeatureMax[f]
    BY <1>1, <2>1 DEF ValueType
  <2>3. Send(<<Feature(f, value[f])>>) /\ feature2send' = f /\ value' = value
    BY <1>2 DEF NextFeature
  <2> HIDE DEF f
  <2>4. TellsValue(f, value[f])
    BY <2>2, <2>3 DEF TellsValue, f
  <2> QED
    BY <2>1, <2>2, <2>4 DEF AnswerStep, Tells
<1>3. CASE ~(feature2send < NumFeatures)
  BY <1>3 DEF NextFeature, AnswerStep, Answers
<1> QED
  BY <1>2, <1>3

LEMMA RequestSteps ==
  ASSUME TypeOK, NEW to, Request(to)
  PROVE  AnswerStep
<1> USE DEF linkVars, guestVars, featureVars, sendVars, masterVars, AnswerStep
<1>0. ValueType
  BY TypeParts
<1>1. CASE Query(to)
  BY <1>1 DEF Query, Answers
<1>2. CASE FeatureGetNext(to)
  BY <1>2, FeatureSteps DEF FeatureGetNext
<1>3. CASE SysEnable(to)
  <2>1. CASE guestSubscribed
    BY <1>3, <2>1 DEF SysEnable, Quiet, TypeOK
  <2>2. CASE ~guestSubscribed
    BY <1>3, <2>2 DEF SysEnable, Subscribes
  <2> QED
    BY <2>1, <2>2
<1>4. CASE SysDisable(to) \/ SysReset(to)
  BY <1>4 DEF SysDisable, SysReset, Quiet, vars
<1>5. ASSUME NEW mode \in BOOLEAN, FeatureGetAll(to, mode)
      PROVE  AnswerStep
  BY <1>5 DEF FeatureGetAll, Answers
<1>6. ASSUME NEW f \in Features \cup {0}, FeatureGet(to, f)
      PROVE  AnswerStep
  <2>1. CASE f \in Features
    <3>1. value[f] \in FeatureMin[f]..FeatureMax[f]
      BY <1>0, <2>1 DEF ValueType
    <3>2. TellsValue(f, value[f])
      BY <1>6, <2>1, <3>1 DEF FeatureGet, TellsValue
    <3> QED
      BY <2>1, <3>1, <3>2 DEF Tells
  <2>2. CASE f \notin Features
    BY <1>6, <2>2 DEF FeatureGet, Answers
  <2> QED
    BY <2>1, <2>2
<1>7. ASSUME NEW f \in Features, NEW v \in Asked, FeatureSet(to, f, v)
      PROVE  AnswerStep
  <2>1. value' = [value EXCEPT ![f] = Clamped(f, v)] /\ DOMAIN value = Features
    BY <1>0, <1>7 DEF FeatureSet, ValueType
  <2>2. value'[f] \in FeatureMin[f]..FeatureMax[f]
    BY <2>1, ClampedInBounds
  <2>3. \A g \in Features \ {f} : value'[g] = value[g]
    BY <2>1
  <2>4. TellsValue(f, value'[f])
    BY <1>7, <2>2, <2>3 DEF FeatureSet, TellsValue
  <2> QED
    BY <2>2, <2>4 DEF Tells
<1>8. ASSUME NEW t \in Targets, NEW accepted \in BOOLEAN, SubscriptionAnswer(to, t, accepted)
      PROVE  AnswerStep
  BY <1>8 DEF SubscriptionAnswer, Quiet
<1> QED
  BY <1>1, <1>2, <1>3, <1>4, <1>5, <1>6, <1>7, <1>8 DEF Request

LEMMA StepKinds ==
  ASSUME TypeOK, Next
  PROVE  Link \/ OtherStep
<1>1. CASE StreamStep
  BY <1>1, FeatureSteps DEF StreamStep, OtherStep
<1>2. CASE BoostState \/ \E order \in Orders : CsDrive(order)
  BY <1>2 DEF CsDrive, BoostState, OtherStep, AnswerStep, Answers, Commands, guestVars, featureVars
<1> QED
  BY <1>1, <1>2, RequestSteps DEF Next, OtherStep

\* Either way the node sends, or leaves what is sent and counted alone.
LEMMA StepShape ==
  ASSUME TypeOK, Next
  PROVE  \/ Link
         \/ UNCHANGED <<linkVars, sendVars, expected>>
         \/ /\ \E bodies \in Sendable : Send(bodies)
            /\ UNCHANGED <<linkVars, expected>>
<1>1. CASE Quiet
  BY <1>1 DEF Quiet
<1>2. CASE Answers
  BY <1>2, PlainSendable DEF Answers, masterVars
<1>3. CASE Tells
  BY <1>3, FeatureSendable DEF Tells, TellsValue, masterVars
<1>4. CASE Subscribes
  BY <1>4, SubscribeSendable DEF Subscribes, masterVars
<1>5. CASE Commands
  BY <1>5, OrderSendable DEF Commands, masterVars
<1> QED
  BY <1>1, <1>2, <1>3, <1>4, <1>5, StepKinds DEF OtherStep, AnswerStep

\* The queue keeps what it held, and what is taken follows.
LEMMA QueueAfterSend ==
  ASSUME TypeOK, NEW bodies \in Sendable, Send(bodies)
  PROVE  LET t == Fits(Len(bodies)) IN
         /\ t \in 0..Len(bodies)
         /\ Len(queue) \in Nat /\ Len(queue') = Len(queue) + t
         /\ DOMAIN queue = 1..Len(queue) /\ DOMAIN queue' = 1..Len(queue')
         /\ \A i \in 1..Len(queue) : queue'[i] = queue[i]
         /\ \A k \in 1..t : queue'[Len(queue) + k] =
              [num |-> MasterNum(txNum, k - 1), gap |-> IF k = 1 THEN missing ELSE 0,
               body |-> bodies[k]]
         /\ t = 0 => queue' = queue
<1> DEFINE t == Fits(Len(bodies))
           a == Appended(bodies, t)
<1>1. Len(bodies) \in {1, 2}
  BY DEF Sendable
<1>2. t \in 0..Len(bodies)
  BY <1>1, RoomLeft
<1>3. a \in Seq(Sent) /\ Len(a) = t
  BY <1>2, AppendedType
<1>4. queue \in Seq(Sent) /\ txNum \in Numbers
  BY DEF TypeOK
<1>5. queue' = queue \o a
  BY SendEffect
<1>6. ASSUME NEW k \in 1..t
      PROVE  a[k] = [num |-> MasterNum(txNum, k - 1), gap |-> IF k = 1 THEN missing ELSE 0,
                     body |-> bodies[k]]
  <2>1. k - 1 \in 0..NumSize-2
    BY <1>1, <1>2, <1>6, FewCounted
  <2>2. NumAfter(txNum, k - 1) = MasterNum(txNum, k - 1)
    BY <1>4, <2>1, NodeCounts
  <2> QED
    BY <2>2 DEF Appended
<1> HIDE DEF t, a
<1>7. t \in Nat /\ Len(queue) \in Nat /\ DOMAIN queue = 1..Len(queue)
  BY <1>2, <1>4, LenProperties
<1>8. queue' \in Seq(Sent) /\ Len(queue') = Len(queue) + t /\ DOMAIN queue' = 1..Len(queue')
  BY <1>3, <1>4, <1>5, ConcatProperties, LenProperties
<1>9. \A i \in 1..Len(queue) : queue'[i] = queue[i]
  BY <1>3, <1>4, <1>5, <1>7, ConcatProperties
<1>10. \A k \in 1..t : queue'[Len(queue) + k] = a[k]
  BY <1>3, <1>4, <1>5, <1>7, ConcatProperties
<1>11. t = 0 => queue' = queue
  BY <1>3, <1>4, <1>5, EmptySeq, ConcatEmptySeq
<1> QED
  BY <1>2, <1>6, <1>7, <1>8, <1>9, <1>10, <1>11 DEF t

-----------------------------------------------------------------------------
(* The numbers. *)

\* The number the master expects of message i of queue q when it expects e of
\* the first; the first L messages follow, and n follows them with m missing.
Before(q, e, i) == IF i = 1 THEN e ELSE MasterNum(q[i - 1].num, 1)
Follow(q, e, L) == \A i \in 1..L : q[i].gap < MaxMissing =>
                                     q[i].num = MasterNum(Before(q, e, i), q[i].gap)
NextFollows(q, e, L, n, m) == m < MaxMissing => n = MasterNum(Before(q, e, L + 1), m)

LEMMA FollowParts ==
  ASSUME TypeOK
  PROVE  NumbersFollow <=>
           (connect = "CONNECTED" => /\ Follow(queue, expected, Len(queue))
                                     /\ NextFollows(queue, expected, Len(queue), txNum, missing))
<1>1. DOMAIN queue = 1..Len(queue)
  BY LenProperties DEF TypeOK
<1> QED
  BY <1>1 DEF NumbersFollow, Follow, NextFollows, Before

LEMMA BeforeTyped ==
  ASSUME TypeOK, NEW i \in 1..Len(queue)+1
  PROVE  Before(queue, expected, i) \in Numbers
<1>1. Len(queue) \in Nat /\ DOMAIN queue = 1..Len(queue)
  BY LenProperties DEF TypeOK
<1>2. CASE i = 1
  BY <1>2 DEF Before, TypeOK
<1>3. CASE i # 1
  <2>1. i - 1 \in DOMAIN queue
    BY <1>1, <1>3
  <2>2. queue[i - 1].num \in Numbers
    BY <2>1, QueuedTyped DEF Sent
  <2>3. 1 \in 0..NumSize-2
    BY FewCounted
  <2> QED
    BY <1>3, <2>2, <2>3, NumberIsNumber DEF Before
<1> QED
  BY <1>2, <1>3

\* b messages numbered from n, of which the ring takes t.
LEMMA FollowOn ==
  ASSUME NEW q, NEW e, NEW L \in Nat, NEW n \in Numbers, NEW m \in 0..MaxMissing,
         Before(q, e, L + 1) \in Numbers,
         Follow(q, e, L), NextFollows(q, e, L, n, m),
         NEW b \in {1, 2}, NEW t \in 0..b, NEW r, NEW mm,
         \A i \in 1..L : r[i] = q[i],
         \A k \in 1..t : /\ r[L + k].num = MasterNum(n, k - 1)
                         /\ r[L + k].gap = IF k = 1 THEN m ELSE 0,
         mm < MaxMissing => mm = (IF t = 0 THEN m ELSE 0) + b - t
  PROVE  Follow(r, e, L + t) /\ NextFollows(r, e, L + t, MasterNum(n, b), mm)
<1>1. NumSize \in Nat /\ MaxMissing \in Nat /\ NumSize > MaxMissing + 3
  BY NumberSizes
<1>2. MasterNum(n, 0) = n
  BY NumbersStart
<1>3. ASSUME NEW i \in 1..L+1 PROVE Before(r, e, i) = Before(q, e, i)
  <2>1. CASE i = 1
    BY <2>1 DEF Before
  <2>2. CASE i # 1
    <3>1. i - 1 \in 1..L
      BY <1>3, <2>2
    <3> QED
      BY <2>2, <3>1 DEF Before
  <2> QED
    BY <2>1, <2>2
<1>4. ASSUME NEW k \in 1..t PROVE Before(r, e, L + k + 1) = MasterNum(n, k)
  <2>1. k \in Nat /\ k - 1 \in Nat /\ (k - 1) + 1 \in 0..NumSize-2
        /\ L + k + 1 # 1 /\ (L + k + 1) - 1 = L + k /\ (k - 1) + 1 = k
    BY <1>1, <1>4
  <2>2. Before(r, e, L + k + 1) = MasterNum(r[L + k].num, 1)
    BY <2>1 DEF Before
  <2>3. MasterNum(MasterNum(n, k - 1), 1) = MasterNum(n, k)
    BY <2>1, NumbersAdd
  <2> QED
    BY <2>2, <2>3
<1>5. Follow(r, e, L + t)
  <2> SUFFICES ASSUME NEW i \in 1..L + t, r[i].gap < MaxMissing
               PROVE  r[i].num = MasterNum(Before(r, e, i), r[i].gap)
    BY DEF Follow
  <2>1. CASE i \in 1..L
    <3>1. i \in 1..L+1
      BY <2>1
    <3> QED
      BY <1>3, <2>1, <3>1 DEF Follow
  <2>2. CASE i = L + 1
    <3>1. 1 \in 1..t /\ L + 1 \in 1..L+1 /\ 1 - 1 = 0
      BY <2>2
    <3>2. r[i].num = n /\ r[i].gap = m
      BY <1>2, <2>2, <3>1
    <3> QED
      BY <1>3, <2>2, <3>1, <3>2 DEF NextFollows
  <2>3. CASE i = L + 2
    <3>1. 1 \in 1..t /\ 2 \in 1..t /\ i = L + 1 + 1 /\ 2 - 1 = 1
      BY <2>3
    <3>2. r[i].num = MasterNum(n, 1) /\ r[i].gap = 0
      BY <2>3, <3>1
    <3>3. Before(r, e, i) = MasterNum(n, 1)
      BY <1>4, <3>1
    <3>4. MasterNum(n, 1) \in Numbers
      BY FewCounted, NumberIsNumber
    <3> QED
      BY <3>2, <3>3, <3>4, NumbersStart
  <2> QED
    BY <2>1, <2>2, <2>3
<1>6. NextFollows(r, e, L + t, MasterNum(n, b), mm)
  <2> SUFFICES ASSUME mm < MaxMissing
               PROVE  MasterNum(n, b) = MasterNum(Before(r, e, L + t + 1), mm)
    BY DEF NextFollows
  <2>1. CASE t = 0
    <3>1. mm = m + b /\ m < MaxMissing /\ m + b \in 0..NumSize-2
          /\ m \in Nat /\ b \in Nat /\ L + 1 \in 1..L+1 /\ L + t + 1 = L + 1
      BY <1>1, <2>1
    <3>2. n = MasterNum(Before(q, e, L + 1), m)
      BY <3>1 DEF NextFollows
    <3>3. MasterNum(n, b) = MasterNum(Before(q, e, L + 1), m + b)
      BY <3>1, <3>2, NumbersAdd
    <3> QED
      BY <1>3, <3>1, <3>3
  <2>2. CASE t # 0
    <3>1. mm = b - t /\ b - t \in Nat /\ t \in Nat /\ t \in 1..t /\ t + (b - t) = b
          /\ b \in 0..NumSize-2
      BY <1>1, <2>2
    <3>2. MasterNum(n, b) = MasterNum(MasterNum(n, t), b - t)
      BY <3>1, NumbersAdd
    <3> QED
      BY <1>4, <3>1, <3>2
  <2> QED
    BY <2>1, <2>2
<1> QED
  BY <1>5, <1>6

LEMMA SendFollows ==
  ASSUME TypeOK, connect = "CONNECTED", NumbersFollow,
         NEW bodies \in Sendable, Send(bodies), expected' = expected
  PROVE  /\ Follow(queue', expected', Len(queue'))
         /\ NextFollows(queue', expected', Len(queue'), txNum', missing')
<1> DEFINE L == Len(queue)
           b == Len(bodies)
           t == Fits(b)
<1>1. b \in {1, 2}
  BY DEF Sendable
<1>2. /\ t \in 0..b /\ L \in Nat /\ Len(queue') = L + t
      /\ \A i \in 1..L : queue'[i] = queue[i]
      /\ \A k \in 1..t : queue'[L + k] =
           [num |-> MasterNum(txNum, k - 1), gap |-> IF k = 1 THEN missing ELSE 0,
            body |-> bodies[k]]
  BY QueueAfterSend
<1>3. txNum \in Numbers /\ missing \in 0..MaxMissing
  BY DEF TypeOK
<1>4. txNum' = MasterNum(txNum, b)
  BY <1>1, <1>3, FewCounted, NodeCounts, SendEffect
<1>5. missing' < MaxMissing => missing' = (IF t = 0 THEN missing ELSE 0) + b - t
  <2>1. MaxMissing \in Nat
    BY NumberSizes
  <2>2. missing' = IF Refused(b, t) > MaxMissing THEN MaxMissing ELSE Refused(b, t)
    BY SendEffect
  <2> QED
    BY <2>1, <2>2 DEF Refused
<1>6. Follow(queue, expected, L) /\ NextFollows(queue, expected, L, txNum, missing)
  BY FollowParts
<1>7. Before(queue, expected, L + 1) \in Numbers
  <2>1. L + 1 \in 1..Len(queue)+1
    BY <1>2
  <2> QED
    BY <2>1, BeforeTyped
<1> HIDE DEF L, b, t
<1>8. \A k \in 1..t : /\ queue'[L + k].num = MasterNum(txNum, k - 1)
                      /\ queue'[L + k].gap = IF k = 1 THEN missing ELSE 0
  <2> TAKE k \in 1..t
  <2>1. queue'[L + k] =
          [num |-> MasterNum(txNum, k - 1), gap |-> IF k = 1 THEN missing ELSE 0,
           body |-> bodies[k]]
    BY <1>2
  <2> QED
    BY <2>1
<1>9. Follow(queue', expected, L + t) /\ NextFollows(queue', expected, L + t, txNum', missing')
  <2>1. \A i \in 1..L : queue'[i] = queue[i]
    BY <1>2
  <2>2. t \in 0..b /\ L \in Nat
    BY <1>2
  <2>3. /\ Follow(queue', expected, L + t)
        /\ NextFollows(queue', expected, L + t, MasterNum(txNum, b), missing')
    BY <1>1, <1>3, <1>5, <1>6, <1>7, <1>8, <2>1, <2>2, FollowOn
  <2> QED
    BY <1>4, <2>3
<1> QED
  BY <1>2, <1>9

\* Without a connection nothing waits; a rejected node never gets one again.
EmptyWithoutConnection == connect \in {"DISCONNECTED", "APPLIED"} => queue = <<>>

LEMMA StaysEmpty ==
  ASSUME TypeOK, EmptyWithoutConnection, Next
  PROVE  EmptyWithoutConnection'
<1> USE DEF linkVars, sendVars, EmptyWithoutConnection
<1>1. CASE Link
  <2>1. CASE LogonToken \/ LogonRejected \/ Timeout \/ Poll
    BY <2>1 DEF LogonToken, LogonRejected, Timeout, Poll
  <2>2. ASSUME NEW a \in Addresses, LogonAck(a)
        PROVE  EmptyWithoutConnection'
    BY <2>2 DEF LogonAck
  <2> QED
    BY <1>1, <2>1, <2>2 DEF Link
<1>2. CASE UNCHANGED <<linkVars, sendVars>>
  BY <1>2
<1>3. ASSUME NEW bodies \in Sendable, Send(bodies), UNCHANGED linkVars
      PROVE  EmptyWithoutConnection'
  <2>1. Len(bodies) \in {1, 2}
    BY DEF Sendable
  <2>2. connect # "CONNECTED" => Fits(Len(bodies)) = 0
    BY <2>1, RoomLeft
  <2>3. connect # "CONNECTED" => queue' = queue
    BY <1>3, <2>2, QueueAfterSend
  <2> QED
    BY <1>3, <2>3
<1> QED
  BY <1>1, <1>2, <1>3, StepShape

Following == connect = "CONNECTED" => /\ Follow(queue, expected, Len(queue))
                                      /\ NextFollows(queue, expected, Len(queue), txNum, missing)

LEMMA FollowPartsAfter == TypeOK' => (NumbersFollow' <=> Following')
<1>1. TypeOK => (NumbersFollow <=> Following)
  BY FollowParts DEF Following
<1> QED
  BY <1>1, PTL

LEMMA KeepsFollowing ==
  ASSUME "single_ack" \in Assumed, TypeOK, TypeOK', EmptyWithoutConnection, NumbersFollow, Next
  PROVE  NumbersFollow'
<1> USE DEF Following
<1>1. NumbersFollow <=> Following
  BY FollowParts
<1>2. NumbersFollow' <=> Following'
  BY FollowPartsAfter
<1>3. CASE Link
  <2>1. CASE LogonToken \/ LogonRejected \/ Timeout
    BY <1>2, <2>1 DEF LogonToken, LogonRejected, Timeout
  <2>2. CASE Poll
    <3>1. /\ connect = "CONNECTED" /\ queue # <<>> /\ queue' = <<>>
          /\ expected' = NumExpected /\ txNum' = txNum /\ missing' = missing
      BY <2>2 DEF Poll
    <3>2. Len(queue) \in Nat \ {0} /\ Len(queue') = 0
      BY <3>1, EmptySeq DEF TypeOK
    <3>3. Len(queue) + 1 # 1 /\ Len(queue) + 1 - 1 = Len(queue) /\ Len(queue') + 1 = 1
      BY <3>2
    <3>4. Before(queue, expected, Len(queue) + 1) = Before(queue', expected', Len(queue') + 1)
      BY <3>1, <3>3 DEF Before, NumExpected
    <3>5. NextFollows(queue', expected', Len(queue'), txNum', missing')
      BY <1>1, <3>1, <3>4 DEF NextFollows
    <3>6. Follow(queue', expected', Len(queue'))
      BY <3>2 DEF Follow
    <3> QED
      BY <1>2, <3>5, <3>6
  <2>3. ASSUME NEW a \in Addresses, LogonAck(a)
        PROVE  NumbersFollow'
    <3>1. queue' = <<>> /\ txNum' = 0 /\ missing' = 0 /\ expected' = 0
      <4>1. connect \in {"DISCONNECTED", "APPLIED"}
        BY <2>3 DEF LogonAck, TypeOK
      <4> QED
        BY <2>3, <4>1 DEF LogonAck, EmptyWithoutConnection
    <3>2. Len(queue') = 0 /\ Len(queue') + 1 = 1
      BY <3>1, EmptySeq
    <3>3. Follow(queue', expected', Len(queue'))
      BY <3>2 DEF Follow
    <3>4. Before(queue', expected', Len(queue') + 1) = 0 /\ MasterNum(0, 0) = 0
      BY <3>1, <3>2, NumbersStart DEF Before
    <3>5. NextFollows(queue', expected', Len(queue'), txNum', missing')
      BY <3>1, <3>4 DEF NextFollows
    <3> QED
      BY <1>2, <3>3, <3>5
  <2> QED
    BY <1>3, <2>1, <2>2, <2>3 DEF Link
<1>4. CASE UNCHANGED <<linkVars, sendVars, expected>>
  <2>1. /\ connect' = connect /\ queue' = queue /\ txNum' = txNum
        /\ missing' = missing /\ expected' = expected
    BY <1>4 DEF linkVars, sendVars
  <2> QED
    BY <1>1, <1>2, <2>1
<1>5. ASSUME NEW bodies \in Sendable, Send(bodies), UNCHANGED <<linkVars, expected>>
      PROVE  NumbersFollow'
  <2>1. connect' = connect /\ expected' = expected
    BY <1>5 DEF linkVars
  <2>2. Following'
    BY <1>5, <2>1, SendFollows
  <2> QED
    BY <1>2, <2>1, <2>2
<1> QED
  BY <1>3, <1>4, <1>5, StepShape

(***************************************************************************)
(* As long as no second answer to a logon reaches a connected node, the     *)
(* numbers tell the master how many messages a full ring refused, and       *)
(* where: over the wrap from the last number to 1 and through logons,       *)
(* flushes and polls (bidib_client_if.c:156-198, bidib_client_parser.c:     *)
(* 379-383, 644-645).                                                       *)
(***************************************************************************)
THEOREM NumbersFollowAlways == "single_ack" \in Assumed => (Spec => []NumbersFollow)
<1> SUFFICES ASSUME "single_ack" \in Assumed PROVE Spec => []NumbersFollow
  OBVIOUS
<1>1. Init => EmptyWithoutConnection /\ NumbersFollow
  BY DEF Init, EmptyWithoutConnection, NumbersFollow
<1>2. /\ TypeOK /\ TypeOK' /\ EmptyWithoutConnection /\ NumbersFollow /\ [Next]_vars
      => EmptyWithoutConnection' /\ NumbersFollow'
  <2> SUFFICES ASSUME TypeOK, TypeOK', EmptyWithoutConnection, NumbersFollow, [Next]_vars
               PROVE  EmptyWithoutConnection' /\ NumbersFollow'
    OBVIOUS
  <2>1. CASE Next
    BY <2>1, StaysEmpty, KeepsFollowing
  <2>2. CASE UNCHANGED vars
    BY <2>2 DEF vars, linkVars, sendVars, masterVars, EmptyWithoutConnection, NumbersFollow
  <2> QED
    BY <2>1, <2>2
<1> QED
  BY <1>1, <1>2, TypeCorrect, PTL DEF Spec

-----------------------------------------------------------------------------
(* What the master knows. *)

\* When the ring takes every message, what a connected node sends is queued.
LEMMA TakesAll ==
  ASSUME "room" \in Assumed, connect = "CONNECTED", TypeOK,
         NEW bodies \in Sendable, Send(bodies)
  PROVE  /\ Len(queue) \in Nat /\ Len(bodies) \in {1, 2}
         /\ DOMAIN queue = 1..Len(queue) /\ DOMAIN queue' = 1..Len(queue)+Len(bodies)
         /\ \A i \in 1..Len(queue) : queue'[i] = queue[i]
         /\ \A k \in 1..Len(bodies) : queue'[Len(queue) + k].body = bodies[k]
<1>1. Fits(Len(bodies)) = Len(bodies) /\ Len(bodies) \in {1, 2}
  BY SendEffect DEF Sendable
<1>2. ASSUME NEW k \in 1..Len(bodies)
      PROVE  queue'[Len(queue) + k].body = bodies[k]
  <2>1. queue'[Len(queue) + k] =
          [num |-> MasterNum(txNum, k - 1), gap |-> IF k = 1 THEN missing ELSE 0,
           body |-> bodies[k]]
    BY <1>1, QueueAfterSend
  <2> QED
    BY <2>1
<1> QED
  BY <1>1, <1>2, QueueAfterSend

\* One message more.
LEMMA OneMore ==
  ASSUME "room" \in Assumed, connect = "CONNECTED", TypeOK,
         NEW x \in Bodies, Send(<<x>>)
  PROVE  /\ Len(queue) \in Nat /\ DOMAIN queue = 1..Len(queue)
         /\ queue'[Len(queue) + 1].body = x
         /\ \A i \in 1..Len(queue) : queue'[i] = queue[i]
         /\ \A kind : Entries(kind)' = Entries(kind) \cup (IF x.kind = kind THEN {Len(queue) + 1} ELSE {})
<1> DEFINE bodies == <<x>>
<1>1. bodies \in Sendable /\ Len(bodies) = 1 /\ bodies[1] = x /\ Send(bodies)
  BY OneSendable
<1> HIDE DEF bodies
<1>2. /\ Len(queue) \in Nat /\ DOMAIN queue = 1..Len(queue)
      /\ DOMAIN queue' = 1..Len(queue)+1
      /\ \A i \in 1..Len(queue) : queue'[i] = queue[i]
      /\ queue'[Len(queue) + 1].body = x
  <2>1. /\ Len(queue) \in Nat
        /\ DOMAIN queue = 1..Len(queue) /\ DOMAIN queue' = 1..Len(queue)+Len(bodies)
        /\ \A i \in 1..Len(queue) : queue'[i] = queue[i]
        /\ \A k \in 1..Len(bodies) : queue'[Len(queue) + k].body = bodies[k]
    BY <1>1, TakesAll
  <2> QED
    BY <1>1, <2>1
<1>3. DOMAIN queue' = DOMAIN queue \cup {Len(queue) + 1}
  BY <1>2
<1>4. ASSUME NEW kind
      PROVE  Entries(kind)' = Entries(kind) \cup (IF x.kind = kind THEN {Len(queue) + 1} ELSE {})
  BY <1>2, <1>3 DEF Entries
<1> QED
  BY <1>2, <1>4

LEMMA NewestIsLast ==
  ASSUME NEW n \in Nat, NEW S \in SUBSET (1..n)
  PROVE  Newest(S \cup {n + 1}) = {n + 1}
<1> DEFINE m == n + 1
<1>1. m <= m /\ \A i \in S : i <= m /\ ~(m <= i)
  OBVIOUS
<1> HIDE DEF m
<1>2. m \in Newest(S \cup {m})
  BY <1>1 DEF Newest
<1>3. \A i \in Newest(S \cup {m}) : i = m
  BY <1>1 DEF Newest
<1>4. Newest(S \cup {m}) = {m}
  BY <1>2, <1>3
<1> QED
  BY <1>4 DEF m

LEMMA OneMoreRead ==
  ASSUME "room" \in Assumed, connect = "CONNECTED", TypeOK,
         NEW x \in Bodies, Send(<<x>>), UNCHANGED masterVars
  PROVE  /\ \A f \in Features : ValueTold(f)' =
              IF x.kind = "feature" /\ x.feature = f THEN {x.value} ELSE ValueTold(f)
         /\ x.kind # "feature_count" => FeaturesListed \subseteq FeaturesListed'
         /\ x.kind = "feature" => x.feature \in FeaturesListed'
         /\ TargetsAskedFor \subseteq TargetsAskedFor'
<1> DEFINE L == Len(queue)
<1>1. /\ L \in Nat /\ DOMAIN queue = 1..L
      /\ queue'[L + 1].body = x
      /\ \A i \in 1..L : queue'[i] = queue[i]
      /\ \A kind : Entries(kind)' = Entries(kind) \cup (IF x.kind = kind THEN {L + 1} ELSE {})
  BY OneMore
<1>2. told' = told /\ listed' = listed /\ askedFor' = askedFor
  BY DEF masterVars
<1>3. \A kind : Entries(kind) \subseteq 1..L
  BY <1>1 DEF Entries
<1> HIDE DEF L
<1>4. ASSUME NEW f
      PROVE  Reports(f)' = Reports(f) \cup
                             (IF x.kind = "feature" /\ x.feature = f THEN {L + 1} ELSE {})
  BY <1>1, <1>3 DEF Reports
<1>5. ASSUME NEW f \in Features
      PROVE  ValueTold(f)' = IF x.kind = "feature" /\ x.feature = f THEN {x.value}
                                                                   ELSE ValueTold(f)
  <2>1. CASE x.kind = "feature" /\ x.feature = f
    <3>1. Reports(f)' = Reports(f) \cup {L + 1} /\ Reports(f) \subseteq 1..L
      BY <1>3, <1>4, <2>1 DEF Reports
    <3>2. Newest(Reports(f)') = {L + 1}
      BY <1>1, <3>1, NewestIsLast
    <3>3. ValueTold(f)' = {queue'[i].body.value : i \in Newest(Reports(f)')}
      BY <3>1 DEF ValueTold
    <3> QED
      BY <1>1, <2>1, <3>2, <3>3
  <2>2. CASE ~(x.kind = "feature" /\ x.feature = f)
    <3>1. Reports(f)' = Reports(f) /\ Reports(f) \subseteq 1..L
      BY <1>3, <1>4, <2>2 DEF Reports
    <3>2. Newest(Reports(f))' = Newest(Reports(f)) /\ Newest(Reports(f)) \subseteq 1..L
      BY <3>1 DEF Newest
    <3> QED
      BY <1>1, <1>2, <2>2, <3>1, <3>2 DEF ValueTold
  <2> QED
    BY <2>1, <2>2
<1>6. ASSUME x.kind # "feature_count"
      PROVE  FeaturesListed \subseteq FeaturesListed'
  <2>1. Entries("feature_count")' = Entries("feature_count")
    BY <1>1, <1>6
  <2>2. \A f : Reports(f) \subseteq Reports(f)'
    BY <1>4
  <2> QED
    BY <1>2, <2>1, <2>2 DEF FeaturesListed
<1>7. ASSUME x.kind = "feature"
      PROVE  x.feature \in FeaturesListed'
  <2>1. Entries("feature_count")' = Entries("feature_count")
    BY <1>1, <1>7
  <2>2. L + 1 \in Reports(x.feature)' /\ \A j \in Entries("feature_count") : j < L + 1
    BY <1>1, <1>3, <1>4, <1>7
  <2>3. x.feature \in Features
    BY <1>7 DEF Bodies
  <2> QED
    BY <2>1, <2>2, <2>3 DEF FeaturesListed
<1>8. TargetsAskedFor \subseteq TargetsAskedFor'
  <2>1. \A i \in Entries("subscribe") : i \in Entries("subscribe")' /\ queue'[i] = queue[i]
    BY <1>1, <1>3
  <2> QED
    BY <1>2, <2>1 DEF TargetsAskedFor
<1> QED
  BY <1>5, <1>6, <1>7, <1>8

\* The two requests for a subscription.
LEMMA SubscribedRead ==
  ASSUME "room" \in Assumed, connect = "CONNECTED", TypeOK, Subscribes
  PROVE  /\ \A f \in Features : ValueTold(f)' = ValueTold(f)
         /\ FeaturesListed' = FeaturesListed
         /\ Targets \subseteq TargetsAskedFor'
<1> DEFINE L == Len(queue)
           bodies == <<Subscribe("DCCGEN"), Subscribe("BOOSTER")>>
<1>1. /\ bodies \in Sendable /\ Send(bodies) /\ Len(bodies) = 2
      /\ bodies[1] = Subscribe("DCCGEN") /\ bodies[2] = Subscribe("BOOSTER")
  BY SubscribeSendable DEF Subscribes
<1>2. told' = told /\ listed' = listed /\ askedFor' = askedFor
  BY DEF Subscribes, masterVars
<1> HIDE DEF bodies
<1>3. /\ L \in Nat /\ DOMAIN queue = 1..L /\ DOMAIN queue' = 1..L + 2
      /\ \A i \in 1..L : queue'[i] = queue[i]
      /\ queue'[L + 1].body = Subscribe("DCCGEN") /\ queue'[L + 2].body = Subscribe("BOOSTER")
  <2>1. /\ L \in Nat
        /\ DOMAIN queue = 1..L /\ DOMAIN queue' = 1..L + Len(bodies)
        /\ \A i \in 1..L : queue'[i] = queue[i]
        /\ \A k \in 1..Len(bodies) : queue'[L + k].body = bodies[k]
    BY <1>1, TakesAll
  <2> QED
    BY <1>1, <2>1
<1> HIDE DEF L
<1>4. /\ DOMAIN queue' = DOMAIN queue \cup {L + 1, L + 2}
      /\ queue'[L + 1].body.kind = "subscribe" /\ queue'[L + 2].body.kind = "subscribe"
      /\ queue'[L + 1].body.target = "DCCGEN" /\ queue'[L + 2].body.target = "BOOSTER"
  BY <1>3 DEF Subscribe
<1>5. /\ Entries("feature")' = Entries("feature")
      /\ Entries("feature_count")' = Entries("feature_count")
      /\ {L + 1, L + 2} \subseteq Entries("subscribe")'
      /\ Entries("feature") \subseteq 1..L
  BY <1>3, <1>4 DEF Entries
<1>6. \A f : Reports(f)' = Reports(f) /\ Reports(f) \subseteq 1..L
  BY <1>3, <1>5 DEF Reports
<1>7. ASSUME NEW f \in Features
      PROVE  ValueTold(f)' = ValueTold(f)
  <2>1. Reports(f)' = Reports(f) /\ Reports(f) \subseteq 1..L
    BY <1>6
  <2>2. Newest(Reports(f))' = Newest(Reports(f)) /\ Newest(Reports(f)) \subseteq 1..L
    BY <2>1 DEF Newest
  <2> QED
    BY <1>2, <1>3, <2>1, <2>2 DEF ValueTold
<1>8. FeaturesListed' = FeaturesListed
  BY <1>2, <1>5, <1>6 DEF FeaturesListed
<1>9. Targets \subseteq TargetsAskedFor'
  BY <1>4, <1>5 DEF TargetsAskedFor, Targets
<1> QED
  BY <1>7, <1>8, <1>9

Knows == MasterKnowsValues /\ StreamSkipsNone /\ SubscribedMeansAsked

LEMMA TargetsAfter == TypeOK' => TargetsAskedFor' \subseteq Targets
<1>1. TypeOK => TargetsAskedFor \subseteq Targets
  BY ReadingTyped
<1>2. TypeOK' => (TargetsAskedFor \subseteq Targets)'
  BY <1>1, PTL
<1> QED
  BY <1>2

LEMMA OtherStepKeepsKnowledge ==
  ASSUME "room" \in Assumed, TypeOK, TypeOK', Knows, OtherStep
  PROVE  Knows'
<1> USE DEF linkVars, masterVars
<1>0. /\ connect = "CONNECTED" => \A f \in Features : ValueTold(f) \subseteq {value[f]}
      /\ connect = "CONNECTED" /\ streaming => 1..feature2send \subseteq FeaturesListed
      /\ connect = "CONNECTED" /\ guestSubscribed => TargetsAskedFor = Targets
      /\ TargetsAskedFor' \subseteq Targets
      /\ feature2send \in Nat
  <2>1. TargetsAskedFor' \subseteq Targets
    BY TargetsAfter
  <2>2. feature2send \in Nat
    BY FeatureAssumption DEF TypeOK
  <2> QED
    BY <2>1, <2>2 DEF Knows, MasterKnowsValues, StreamSkipsNone, SubscribedMeansAsked
<1>1. connect' = connect
  BY DEF OtherStep, AnswerStep, Quiet, Answers, Commands, Tells, TellsValue, Subscribes
<1>2. SUFFICES ASSUME connect = "CONNECTED"
               PROVE  /\ \A f \in Features : ValueTold(f)' \subseteq {value'[f]}
                      /\ streaming' => 1..feature2send' \subseteq FeaturesListed'
                      /\ guestSubscribed' => TargetsAskedFor' = Targets
  BY <1>1 DEF Knows, MasterKnowsValues, StreamSkipsNone, SubscribedMeansAsked
<1>3. CASE Quiet
  <2>1. queue' = queue /\ told' = told /\ listed' = listed /\ value' = value
    BY <1>3 DEF Quiet, sendVars
  <2>2. /\ \A f \in Features : ValueTold(f)' = ValueTold(f)
        /\ FeaturesListed' = FeaturesListed
        /\ askedFor' = askedFor => TargetsAskedFor' = TargetsAskedFor
    BY <2>1 DEF ValueTold, FeaturesListed, TargetsAskedFor, Reports, Entries, Newest
  <2> QED
    BY <1>0, <1>2, <1>3, <2>1, <2>2 DEF Quiet
<1>4. CASE Answers
  <2>1. PICK kind \in {"answer", "feature_na", "feature_count", "boost"} :
          /\ Send(<<Plain(kind)>>)
          /\ \/ kind # "feature_count" /\ UNCHANGED <<feature2send, streaming>>
             \/ feature2send' = 0
    BY <1>4 DEF Answers
  <2> DEFINE x == Plain(kind)
  <2>2. x \in Bodies /\ x.kind = kind /\ kind # "feature"
    BY PlainSendable DEF Plain
  <2>3. Send(<<x>>) /\ value' = value /\ guestSubscribed' = guestSubscribed /\ UNCHANGED masterVars
    BY <1>4, <2>1 DEF Answers
  <2> HIDE DEF x
  <2>4. /\ \A f \in Features : ValueTold(f)' = ValueTold(f)
        /\ kind # "feature_count" => FeaturesListed \subseteq FeaturesListed'
        /\ TargetsAskedFor \subseteq TargetsAskedFor'
    BY <1>2, <2>2, <2>3, OneMoreRead
  <2>5. 1..0 = {}
    OBVIOUS
  <2>6. streaming' => 1..feature2send' \subseteq FeaturesListed'
    BY <1>0, <1>2, <2>1, <2>4, <2>5
  <2> QED
    BY <1>0, <1>2, <2>3, <2>4, <2>6
<1>5. CASE Tells
  <2>0. PICK f \in Features : \E v \in FeatureMin[f]..FeatureMax[f] : TellsValue(f, v)
    BY <1>5 DEF Tells
  <2>1. PICK v \in FeatureMin[f]..FeatureMax[f] : TellsValue(f, v)
    BY <2>0
  <2> DEFINE x == Feature(f, v)
  <2>2. x \in Bodies /\ x.kind = "feature" /\ x.feature = f /\ x.value = v
    BY FeatureSendable DEF Feature
  <2>3. /\ Send(<<x>>) /\ UNCHANGED masterVars
        /\ streaming' = streaming /\ guestSubscribed' = guestSubscribed
        /\ v = value'[f] /\ \A g \in Features \ {f} : value'[g] = value[g]
        /\ feature2send' = feature2send \/ (feature2send' = f /\ f = feature2send + 1)
    BY <2>1 DEF TellsValue
  <2> HIDE DEF x
  <2>4. /\ \A g \in Features : ValueTold(g)' = IF f = g THEN {v} ELSE ValueTold(g)
        /\ FeaturesListed \subseteq FeaturesListed' /\ f \in FeaturesListed'
        /\ TargetsAskedFor \subseteq TargetsAskedFor'
    BY <1>2, <2>2, <2>3, OneMoreRead
  <2>5. \A g \in Features : ValueTold(g)' \subseteq {value'[g]}
    BY <1>0, <1>2, <2>3, <2>4
  <2>6. 1..feature2send' \subseteq 1..feature2send \cup {f}
    BY <1>0, <2>3
  <2> QED
    BY <1>0, <1>2, <2>3, <2>4, <2>5, <2>6
<1>6. CASE Subscribes
  <2>1. value' = value /\ feature2send' = feature2send /\ streaming' = streaming
    BY <1>6 DEF Subscribes, featureVars
  <2> QED
    BY <1>0, <1>2, <1>6, <2>1, SubscribedRead
<1>7. CASE Commands
  <2>1. PICK order \in Orders : Send(<<DriveOrder(order)>>)
    BY <1>7 DEF Commands
  <2> DEFINE x == DriveOrder(order)
  <2>2. x \in Bodies /\ x.kind = "drive"
    BY OrderSendable DEF DriveOrder
  <2>3. /\ Send(<<x>>) /\ UNCHANGED masterVars /\ value' = value
        /\ guestSubscribed' = guestSubscribed /\ UNCHANGED <<feature2send, streaming>>
    BY <1>7, <2>1 DEF Commands, featureVars
  <2> HIDE DEF x
  <2>4. /\ \A f \in Features : ValueTold(f)' = ValueTold(f)
        /\ FeaturesListed \subseteq FeaturesListed'
        /\ TargetsAskedFor \subseteq TargetsAskedFor'
    BY <1>2, <2>2, <2>3, OneMoreRead
  <2> QED
    BY <1>0, <1>2, <2>3, <2>4
<1> QED
  BY <1>3, <1>4, <1>5, <1>6, <1>7 DEF OtherStep, AnswerStep

LEMMA LinkKeepsKnowledge ==
  ASSUME "single_ack" \in Assumed, TypeOK, EmptyWithoutConnection, Knows, Link
  PROVE  Knows'
<1> USE DEF linkVars, guestVars, featureVars, masterVars
<1>1. /\ connect = "CONNECTED" => \A f \in Features : ValueTold(f) \subseteq {value[f]}
      /\ connect = "CONNECTED" /\ streaming => 1..feature2send \subseteq FeaturesListed
      /\ connect = "CONNECTED" /\ guestSubscribed => TargetsAskedFor = Targets
  BY DEF Knows, MasterKnowsValues, StreamSkipsNone, SubscribedMeansAsked
<1>2. Knows' <=>
        (connect' = "CONNECTED" =>
           /\ \A f \in Features : ValueTold(f)' \subseteq {value'[f]}
           /\ streaming' => 1..feature2send' \subseteq FeaturesListed'
           /\ guestSubscribed' => TargetsAskedFor' = Targets)
  BY DEF Knows, MasterKnowsValues, StreamSkipsNone, SubscribedMeansAsked
<1>3. queue' = <<>> => /\ \A f \in Features : ValueTold(f)' = told'[f]
                       /\ FeaturesListed' = Features \cap listed'
                       /\ TargetsAskedFor' = askedFor'
  <2> SUFFICES ASSUME queue' = <<>>
               PROVE  /\ \A f \in Features : ValueTold(f)' = told'[f]
                      /\ FeaturesListed' = Features \cap listed'
                      /\ TargetsAskedFor' = askedFor'
    OBVIOUS
  <2>1. DOMAIN queue' = {}
    BY EmptySeq
  <2>2. /\ Entries("feature_count")' = {} /\ Entries("subscribe")' = {}
        /\ \A f : Reports(f)' = {}
    BY <2>1 DEF Entries, Reports
  <2> QED
    BY <2>2 DEF ValueTold, FeaturesListed, TargetsAskedFor
<1>4. CASE LogonToken \/ LogonRejected \/ Timeout
  BY <1>2, <1>4 DEF LogonToken, LogonRejected, Timeout
<1>5. CASE Poll
  <2>1. /\ connect = "CONNECTED" /\ queue' = <<>> /\ listed' = FeaturesListed
        /\ told' = [f \in Features |-> ValueTold(f)] /\ askedFor' = TargetsAskedFor
        /\ value' = value /\ streaming' = streaming /\ feature2send' = feature2send
        /\ guestSubscribed' = guestSubscribed
    BY <1>5 DEF Poll
  <2>2. FeaturesListed \subseteq Features
    BY ReadingTyped
  <2>3. \A f \in Features : ValueTold(f)' \subseteq {value'[f]}
    BY <1>1, <1>3, <2>1
  <2> QED
    BY <1>1, <1>2, <1>3, <2>1, <2>2, <2>3
<1>6. ASSUME NEW a \in Addresses, LogonAck(a)
      PROVE  Knows'
  <2>1. connect \in {"DISCONNECTED", "APPLIED"}
    BY <1>6 DEF LogonAck, TypeOK
  <2>2. /\ queue' = <<>> /\ told' = [f \in Features |-> {}] /\ streaming' = FALSE
        /\ guestSubscribed' = FALSE
    BY <1>6, <2>1 DEF LogonAck, EmptyWithoutConnection
  <2>3. \A f \in Features : ValueTold(f)' \subseteq {value'[f]}
    BY <1>3, <2>2
  <2> QED
    BY <1>2, <2>2, <2>3
<1> QED
  BY <1>4, <1>5, <1>6 DEF Link

LEMMA KnowledgeKept ==
  ASSUME "room" \in Assumed, "single_ack" \in Assumed
  PROVE  Spec => []Knows
<1>1. Init => EmptyWithoutConnection /\ Knows
  BY DEF Init, EmptyWithoutConnection, Knows, MasterKnowsValues, StreamSkipsNone,
         SubscribedMeansAsked
<1>2. /\ TypeOK /\ TypeOK' /\ EmptyWithoutConnection /\ Knows /\ [Next]_vars
      => EmptyWithoutConnection' /\ Knows'
  <2> SUFFICES ASSUME TypeOK, TypeOK', EmptyWithoutConnection, Knows, [Next]_vars
               PROVE  EmptyWithoutConnection' /\ Knows'
    OBVIOUS
  <2>1. CASE Next
    BY <2>1, StaysEmpty, StepKinds, LinkKeepsKnowledge, OtherStepKeepsKnowledge
  <2>2. CASE UNCHANGED vars
    <3>1. OtherStep
      BY <2>2 DEF vars, linkVars, guestVars, featureVars, sendVars, masterVars, OtherStep, AnswerStep, Quiet
    <3>2. EmptyWithoutConnection'
      BY <2>2 DEF vars, linkVars, sendVars, EmptyWithoutConnection
    <3> QED
      BY <3>1, <3>2, OtherStepKeepsKnowledge
  <2> QED
    BY <2>1, <2>2
<1> QED
  BY <1>1, <1>2, TypeCorrect, PTL DEF Spec

(***************************************************************************)
(* As long as the ring takes every message and no second answer to a logon  *)
(* reaches a connected node, the master never holds on to an old value of a *)
(* feature: what it has read last of it, or will read, is the value in      *)
(* force (bidib_client_parser.c:204-225, 227-235).                          *)
(***************************************************************************)
THEOREM ValuesKnown ==
  "room" \in Assumed /\ "single_ack" \in Assumed => (Spec => []MasterKnowsValues)
<1> SUFFICES ASSUME "room" \in Assumed, "single_ack" \in Assumed
             PROVE  Spec => []MasterKnowsValues
  OBVIOUS
<1>1. Spec => []Knows
  BY KnowledgeKept
<1>2. Knows => MasterKnowsValues
  BY DEF Knows
<1> QED
  BY <1>1, <1>2, PTL

(***************************************************************************)
(* Under the same assumptions a stream leaves out no feature its cursor has *)
(* passed (bidib_client_parser.c:522-526, 798-806).                         *)
(***************************************************************************)
THEOREM StreamComplete ==
  "room" \in Assumed /\ "single_ack" \in Assumed => (Spec => []StreamSkipsNone)
<1> SUFFICES ASSUME "room" \in Assumed, "single_ack" \in Assumed
             PROVE  Spec => []StreamSkipsNone
  OBVIOUS
<1>1. Spec => []Knows
  BY KnowledgeKept
<1>2. Knows => StreamSkipsNone
  BY DEF Knows
<1> QED
  BY <1>1, <1>2, PTL

(***************************************************************************)
(* Under the same assumptions a connected node that takes itself for        *)
(* subscribed has asked for both targets (bidib_client_parser.c:559-590,    *)
(* 648).                                                                    *)
(***************************************************************************)
THEOREM SubscriptionAsked ==
  "room" \in Assumed /\ "single_ack" \in Assumed => (Spec => []SubscribedMeansAsked)
<1> SUFFICES ASSUME "room" \in Assumed, "single_ack" \in Assumed
             PROVE  Spec => []SubscribedMeansAsked
  OBVIOUS
<1>1. Spec => []Knows
  BY KnowledgeKept
<1>2. Knows => SubscribedMeansAsked
  BY DEF Knows
<1> QED
  BY <1>1, <1>2, PTL

-----------------------------------------------------------------------------
(* The drive commands in the queue. *)

\* A drive command is refused, or becomes the last message of the queue.
LEMMA OrderQueued ==
  ASSUME TypeOK, NEW order \in Orders, CsDrive(order)
  PROVE  /\ Len(queue) \in Nat /\ DOMAIN queue = 1..Len(queue)
         /\ \/ Len(queue') = Len(queue) /\ queue' = queue
            \/ /\ Len(queue') = Len(queue) + 1 /\ DOMAIN queue' = 1..Len(queue)+1
               /\ queue'[Len(queue) + 1].body = DriveOrder(order)
               /\ \A i \in 1..Len(queue) : queue'[i] = queue[i]
<1> DEFINE bodies == <<DriveOrder(order)>>
           t == Fits(Len(bodies))
<1>1. bodies \in Sendable /\ Len(bodies) = 1 /\ bodies[1] = DriveOrder(order) /\ Send(bodies)
  BY OrderSendable DEF CsDrive
<1> HIDE DEF bodies
<1>2. /\ t \in 0..Len(bodies)
      /\ Len(queue) \in Nat /\ Len(queue') = Len(queue) + t
      /\ DOMAIN queue = 1..Len(queue) /\ DOMAIN queue' = 1..Len(queue')
      /\ \A i \in 1..Len(queue) : queue'[i] = queue[i]
      /\ \A k \in 1..t : queue'[Len(queue) + k] =
           [num |-> MasterNum(txNum, k - 1), gap |-> IF k = 1 THEN missing ELSE 0,
            body |-> bodies[k]]
      /\ t = 0 => queue' = queue
  BY <1>1, QueueAfterSend
<1> HIDE DEF t
<1>3. CASE t = 0
  BY <1>2, <1>3
<1>4. CASE t = 1
  <2>1. queue'[Len(queue) + 1] =
          [num |-> MasterNum(txNum, 0), gap |-> missing, body |-> bodies[1]]
    BY <1>2, <1>4
  <2>2. queue'[Len(queue) + 1].body = DriveOrder(order)
    BY <1>1, <2>1
  <2> QED
    BY <1>2, <1>4, <2>2
<1>5. t = 0 \/ t = 1
  BY <1>1, <1>2
<1> QED
  BY <1>3, <1>4, <1>5

\* No other step adds a drive command or moves one; polls and lost connections
\* empty the queue.
LEMMA OrdersStay ==
  ASSUME TypeOK,
         \/ LogonToken \/ LogonRejected \/ \E a \in Addresses : LogonAck(a)
         \/ \E to \in Addresses \cup {Broadcast} : Request(to)
         \/ StreamStep \/ BoostState
  PROVE  /\ Entries("drive")' = Entries("drive")
         /\ \A i \in Entries("drive") : queue'[i] = queue[i]
         /\ Len(queue) \in Nat /\ DOMAIN queue = 1..Len(queue)
         /\ Len(queue') \in Nat /\ DOMAIN queue' = 1..Len(queue')
<1>0. Len(queue) \in Nat /\ DOMAIN queue = 1..Len(queue)
  BY LenProperties DEF TypeOK
<1>1. CASE UNCHANGED queue
  BY <1>0, <1>1 DEF Entries
<1>2. ASSUME NEW bodies \in Sendable, Send(bodies),
             \A k \in 1..Len(bodies) : bodies[k].kind # "drive"
      PROVE  /\ Entries("drive")' = Entries("drive")
             /\ \A i \in Entries("drive") : queue'[i] = queue[i]
             /\ Len(queue') \in Nat /\ DOMAIN queue' = 1..Len(queue')
  <2> DEFINE t == Fits(Len(bodies))
  <2>1. /\ t \in 0..Len(bodies) /\ Len(bodies) \in Nat
        /\ Len(queue') = Len(queue) + t /\ DOMAIN queue' = 1..Len(queue')
        /\ \A i \in 1..Len(queue) : queue'[i] = queue[i]
        /\ \A k \in 1..t : queue'[Len(queue) + k] =
             [num |-> MasterNum(txNum, k - 1), gap |-> IF k = 1 THEN missing ELSE 0,
              body |-> bodies[k]]
    BY <1>2, QueueAfterSend DEF Sendable
  <2> HIDE DEF t
  <2>2. ASSUME NEW i \in 1..Len(queue'), ~(i \in 1..Len(queue)) PROVE queue'[i].body.kind # "drive"
    <3> DEFINE k == i - Len(queue)
    <3>1. k \in 1..t /\ k \in 1..Len(bodies) /\ i = Len(queue) + k
      BY <1>0, <2>1, <2>2
    <3> HIDE DEF k
    <3>2. queue'[Len(queue) + k] =
            [num |-> MasterNum(txNum, k - 1), gap |-> IF k = 1 THEN missing ELSE 0,
             body |-> bodies[k]]
      BY <2>1, <3>1
    <3>3. queue'[i].body = bodies[k]
      BY <3>1, <3>2
    <3> QED
      BY <1>2, <3>1, <3>3
  <2>3. 1..Len(queue) \subseteq 1..Len(queue')
    BY <1>0, <2>1
  <2> QED
    BY <1>0, <2>1, <2>2, <2>3 DEF Entries
<1>3. CASE AnswerStep
  <2>1. CASE Quiet
    BY <1>1, <2>1 DEF Quiet, sendVars
  <2>2. ASSUME NEW kind \in {"answer", "feature_na", "feature_count", "boost"}, Send(<<Plain(kind)>>)
        PROVE  \E bodies \in Sendable : /\ Send(bodies)
                                        /\ \A k \in 1..Len(bodies) : bodies[k].kind # "drive"
    <3> DEFINE bodies == <<Plain(kind)>>
    <3>1. bodies \in Sendable /\ Len(bodies) = 1 /\ bodies[1].kind = kind /\ Send(bodies)
      BY <2>2, PlainSendable DEF Plain
    <3> HIDE DEF bodies
    <3> QED
      BY <3>1
  <2>3. CASE Answers
    <3>1. \E kind \in {"answer", "feature_na", "feature_count", "boost"} : Send(<<Plain(kind)>>)
      BY <2>3 DEF Answers
    <3> QED
      BY <1>0, <1>2, <2>2, <3>1
  <2>4. CASE Tells
    <3>1. PICK f \in Features : \E v \in FeatureMin[f]..FeatureMax[f] : TellsValue(f, v)
      BY <2>4 DEF Tells
    <3>2. PICK v \in FeatureMin[f]..FeatureMax[f] : TellsValue(f, v)
      BY <3>1
    <3> DEFINE bodies == <<Feature(f, v)>>
    <3>3. bodies \in Sendable /\ Len(bodies) = 1 /\ bodies[1].kind = "feature" /\ Send(bodies)
      BY <3>2, FeatureSendable DEF Feature, TellsValue
    <3> HIDE DEF bodies
    <3> QED
      BY <1>0, <1>2, <3>3
  <2>5. CASE Subscribes
    <3> DEFINE bodies == <<Subscribe("DCCGEN"), Subscribe("BOOSTER")>>
    <3>1. /\ bodies \in Sendable /\ Len(bodies) = 2 /\ Send(bodies)
          /\ bodies[1].kind = "subscribe" /\ bodies[2].kind = "subscribe"
      BY <2>5, SubscribeSendable DEF Subscribes, Subscribe
    <3> HIDE DEF bodies
    <3> QED
      BY <1>0, <1>2, <3>1
  <2> QED
    BY <1>3, <2>1, <2>3, <2>4, <2>5 DEF AnswerStep
<1>4. CASE LogonToken \/ LogonRejected \/ \E a \in Addresses : LogonAck(a)
  BY <1>1, <1>4 DEF LogonToken, LogonRejected, LogonAck, sendVars
<1>5. CASE \E to \in Addresses \cup {Broadcast} : Request(to)
  BY <1>3, <1>5, RequestSteps
<1>6. CASE StreamStep
  BY <1>3, <1>6, FeatureSteps DEF StreamStep
<1>7. CASE BoostState
  BY <1>3, <1>7 DEF BoostState, AnswerStep, Answers, guestVars, featureVars
<1> QED
  BY <1>4, <1>5, <1>6, <1>7

=============================================================================
