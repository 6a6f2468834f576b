----------------------------- MODULE BidibClient -----------------------------
(***************************************************************************)
(* The BiDiB messages of the gateway (bidib_client_parser.c): what each     *)
(* message from the master changes and answers, the features and their      *)
(* streaming, the subscriptions of the guest, and the commands the          *)
(* throttles send.  The link below is reduced to connections that come and  *)
(* go and to polls that take everything the queue holds; BidibLink and      *)
(* TxQueue describe it.  The user string and its flash are left out.        *)
(*                                                                          *)
(* The master is part of the model as far as it reads what it is sent.      *)
(***************************************************************************)
EXTENDS Naturals, Sequences

CONSTANTS
  Addresses,   (* node addresses                                          *)
  Highest,     (* 63: what 0xFF reads as when only six bits are compared  *)
  Broadcast,   (* address 0                                               *)
  Features,    (* indices of g_features: 1..NUM_OF_FEATURES               *)
  FeatureMin, FeatureMax, FeatureDefault,
  Asked,       (* values the master asks for                              *)
  Room,        (* messages the transmit ring holds                        *)
  NumSize,     (* message numbers: 256                                    *)
  MaxMissing,  (* bound: refused messages are counted up to here          *)
  Requests,    (* the messages the master sends in a run                  *)
  Orders,      (* what drive commands carry                               *)
  Assumed

(***************************************************************************)
(* What the code relies on and does not enforce:                            *)
(*   room        the queue takes every message the node sends               *)
(*   single_ack  no second answer to a logon reaches a connected node       *)
(***************************************************************************)
Assumptions == {"room", "single_ack"}

NumFeatures == Len(FeatureDefault)
Targets == {"DCCGEN", "BOOSTER"}
RequestKinds == {"query", "getall", "getnext", "get", "set", "enable", "disable", "reset", "drive"}

ASSUME AddressAssumption == Highest \in Addresses /\ Broadcast \notin Addresses
ASSUME FeatureAssumption ==
  /\ NumFeatures \in Nat \ {0} /\ Features = 1..NumFeatures
  /\ Asked \subseteq Nat
  /\ FeatureMin \in [Features -> Nat] /\ FeatureMax \in [Features -> Nat]
  /\ FeatureDefault \in [Features -> Nat]
  /\ \A f \in Features : FeatureDefault[f] \in FeatureMin[f]..FeatureMax[f]
ASSUME QueueAssumption ==
  /\ Room \in Nat \ {0, 1}
  /\ NumSize \in Nat
  /\ MaxMissing \in Nat
  /\ NumSize > MaxMissing + 3
ASSUME RequestAssumption == Requests \subseteq RequestKinds
ASSUME AssumedAssumption == Assumed \subseteq Assumptions

VARIABLES
  connect,          (* g_bidib_connect                                    *)
  nodeAddr,         (* my_bidib_node_addr & 0x3F                          *)
  addrStack,        (* my_addr_stack[0]: what the master assigned last    *)
  spontan,          (* g_bidib_spontan_enabled                            *)
  guestEnabled,     (* g_bidib_guest_enabled                              *)
  guestSubscribed,  (* guest_subscribed                                   *)
  value,            (* g_features[].value                                 *)
  feature2send,     (* features of the stream already sent                *)
  streaming,        (* featureStreaming = 1                               *)
  txNum,            (* bidib_tx0_msg_num                                  *)
  queue,            (* messages waiting for a poll                        *)
  missing,          (* messages refused since the last one queued         *)
  expected,         (* master: number of the next message                 *)
  told,             (* master: last value read of each feature, or {}      *)
  listed,           (* master: features read since the last count         *)
  askedFor          (* master: targets it was asked to subscribe          *)

linkVars == <<connect, nodeAddr, addrStack>>
guestVars == <<spontan, guestEnabled, guestSubscribed>>
featureVars == <<value, feature2send, streaming>>
sendVars == <<txNum, queue, missing>>
masterVars == <<expected, told, listed, askedFor>>
vars == <<linkVars, guestVars, featureVars, sendVars, masterVars>>

Init ==
  /\ connect = "DISCONNECTED" /\ nodeAddr = Highest /\ addrStack = Broadcast
  /\ spontan = FALSE /\ guestEnabled = FALSE /\ guestSubscribed = FALSE
  /\ value = FeatureDefault /\ feature2send = 0 /\ streaming = FALSE
  /\ txNum = 1 /\ queue = <<>> /\ missing = 0
  /\ expected = 0 /\ told = [f \in Features |-> {}] /\ listed = {} /\ askedFor = {}

-----------------------------------------------------------------------------
(* Messages to the master. *)

Feature(f, v) == [kind |-> "feature", feature |-> f, value |-> v]
Subscribe(t) == [kind |-> "subscribe", target |-> t]
DriveOrder(order) == [kind |-> "drive", order |-> order]
Plain(kind) == [kind |-> kind]

\* Fault: 0 follows the last number.
NumAfterZero(n, k) == (n + k) % NumSize

\* bidib_get_tx_num called k times: after the last number comes 1, not 0.
NumAfter(n, k) == IF n + k < NumSize THEN n + k ELSE n + k - NumSize + 1

\* Fault: a message that does not fit overruns the ring, which then reads as empty.
SendOverruns(bodies) ==
  /\ queue' = IF connect = "CONNECTED" /\ Len(queue) + Len(bodies) <= Room
              THEN queue \o [k \in 1..Len(bodies) |->
                               [num |-> NumAfter(txNum, k - 1), gap |-> 0, body |-> bodies[k]]]
              ELSE <<>>
  /\ txNum' = NumAfter(txNum, Len(bodies))
  /\ UNCHANGED missing

\* bidib_build_header and send_bidib_message, for each body in turn.  A number
\* is used up even if the ring refuses the message.  Without a connection the
\* message is dropped and reported as sent.
Send(bodies) ==
  LET room == IF connect = "CONNECTED" THEN Room - Len(queue) ELSE 0
      taken == IF Len(bodies) <= room THEN Len(bodies) ELSE room
  IN /\ "room" \in Assumed /\ connect = "CONNECTED" => taken = Len(bodies)
     /\ queue' = queue \o [k \in 1..taken |-> [num |-> NumAfter(txNum, k - 1),
                                              gap |-> IF k = 1 THEN missing ELSE 0,
                                              body |-> bodies[k]]]
     /\ txNum' = NumAfter(txNum, Len(bodies))
     /\ missing' = IF connect # "CONNECTED" THEN 0
                   ELSE LET n == (IF taken = 0 THEN missing ELSE 0) + Len(bodies) - taken
                        IN IF n > MaxMissing THEN MaxMissing ELSE n

\* Fault: the cursor stays where it is.
NextFeatureStays ==
  /\ Send(<<IF feature2send < NumFeatures THEN Feature(feature2send + 1, value[feature2send + 1])
                                          ELSE Plain("feature_na")>>)
  /\ UNCHANGED feature2send

\* bidib_send_next_feature.
NextFeature ==
  IF feature2send < NumFeatures
  THEN /\ Send(<<Feature(feature2send + 1, value[feature2send + 1])>>)
       /\ feature2send' = feature2send + 1
  ELSE /\ Send(<<Plain("feature_na")>>)
       /\ UNCHANGED feature2send

-----------------------------------------------------------------------------
(* The link. *)

\* A LOGON token starts a logon, or takes back one that was not answered.
LogonToken ==
  /\ connect \in {"DISCONNECTED", "APPLIED"}
  /\ connect' = IF connect = "DISCONNECTED" THEN "APPLIED" ELSE "DISCONNECTED"
  /\ UNCHANGED <<nodeAddr, addrStack, guestVars, featureVars, sendVars, masterVars>>

\* MSG_LOCAL_LOGON_ACK with our unique ID.  set_bidib_state does nothing if the
\* node is connected; the rest of the handler runs all the same.
LogonAck(a) ==
  /\ connect # "REJECTED"      \* which ignores LOGON tokens
  /\ connect = "CONNECTED" => "single_ack" \notin Assumed
  /\ connect' = "CONNECTED"
  /\ nodeAddr' = IF connect = "CONNECTED" THEN nodeAddr ELSE a
  /\ addrStack' = a
  /\ txNum' = 0
  /\ guestEnabled' = FALSE /\ guestSubscribed' = FALSE
  /\ feature2send' = 0 /\ streaming' = FALSE
  /\ missing' = 0 /\ expected' = 0
  /\ told' = [f \in Features |-> {}] /\ listed' = {} /\ askedFor' = {}
  /\ UNCHANGED <<spontan, value, queue>>

\* MSG_LOGON_REJECTED with our unique ID.
LogonRejected ==
  /\ connect' = "REJECTED"
  /\ connect # "REJECTED"
  /\ nodeAddr' = Highest
  /\ spontan' = FALSE
  /\ UNCHANGED <<addrStack, guestEnabled, guestSubscribed, featureVars, sendVars, masterVars>>

\* No poll for 500 ms: set_bidib_state(BIDIB_DISCONNECTED).
Timeout ==
  /\ connect = "CONNECTED"
  /\ connect' = "DISCONNECTED"
  /\ nodeAddr' = Highest
  /\ spontan' = FALSE
  /\ feature2send' = NumFeatures /\ streaming' = FALSE
  /\ queue' = <<>> /\ missing' = 0
  /\ UNCHANGED <<addrStack, guestEnabled, guestSubscribed, value, txNum, masterVars>>

\* The number the master expects k messages after number n: 0, 1, ..., 255, 1, ...
MasterNum(n, k) == IF n + k = 0 THEN 0 ELSE ((n + k - 1) % (NumSize - 1)) + 1

\* What the master will know when it has read the queue: the number it then
\* expects, the value last reported of each feature, the features reported
\* since the last count, and the targets it was asked to subscribe.
Entries(kind) == {i \in DOMAIN queue : queue[i].body.kind = kind}
Reports(f) == {i \in Entries("feature") : queue[i].body.feature = f}
Newest(S) == {i \in S : \A j \in S : j <= i}

NumExpected == IF queue = <<>> THEN expected ELSE MasterNum(queue[Len(queue)].num, 1)

ValueTold(f) == IF Reports(f) = {} THEN told[f]
                ELSE {queue[i].body.value : i \in Newest(Reports(f))}

FeaturesListed ==
  {f \in Features : \/ \E i \in Reports(f) : \A j \in Entries("feature_count") : j < i
                    \/ f \in listed /\ Entries("feature_count") = {}}

TargetsAskedFor == askedFor \cup {queue[i].body.target : i \in Entries("subscribe")}

\* The master polls the address it assigned, and reads the packet.
Poll ==
  /\ connect = "CONNECTED" /\ nodeAddr = addrStack /\ queue # <<>>
  /\ queue' = <<>>
  /\ expected' = NumExpected
  /\ told' = [f \in Features |-> ValueTold(f)]
  /\ listed' = FeaturesListed
  /\ askedFor' = TargetsAskedFor
  /\ UNCHANGED <<linkVars, guestVars, featureVars, txNum, missing>>

-----------------------------------------------------------------------------
(* Messages from the master: process_bidib_message.  A message to another    *)
(* address is dropped.                                                      *)

Accepts(to) == to \in {Broadcast, nodeAddr}

\* Magic, versions, ping, unique ID, error, capacity, strings: one answer.
Query(to) ==
  /\ "query" \in Requests /\ Accepts(to)
  /\ Send(<<Plain("answer")>>)
  /\ UNCHANGED <<linkVars, guestVars, featureVars, masterVars>>

\* MSG_FEATURE_GETALL.
FeatureGetAll(to, mode) ==
  /\ "getall" \in Requests /\ Accepts(to)
  /\ feature2send' = 0
  /\ streaming' = mode
  /\ Send(<<Plain("feature_count")>>)
  /\ UNCHANGED <<linkVars, guestVars, value, masterVars>>

FeatureGetNext(to) ==
  /\ "getnext" \in Requests /\ Accepts(to)
  /\ NextFeature
  /\ UNCHANGED <<linkVars, guestVars, value, streaming, masterVars>>

\* f is 0 for a feature the gateway does not have.
FeatureGet(to, f) ==
  /\ "get" \in Requests /\ Accepts(to)
  /\ Send(<<IF f \in Features THEN Feature(f, value[f]) ELSE Plain("feature_na")>>)
  /\ UNCHANGED <<linkVars, guestVars, featureVars, masterVars>>

\* The value a request for v gives feature f.
Clamped(f, v) ==
  CASE v < FeatureMin[f] -> FeatureMin[f]
    [] v > FeatureMax[f] -> FeatureMax[f]
    [] OTHER -> v

\* Fault: the value asked for is echoed.
FeatureSetEchoes(to, f, v) ==
  /\ "set" \in Requests /\ Accepts(to) /\ to # Broadcast
  /\ f \in Features
  /\ value' = [value EXCEPT ![f] = Clamped(f, v)]
  /\ Send(<<Feature(f, v)>>)
  /\ UNCHANGED <<linkVars, guestVars, feature2send, streaming, masterVars>>

\* MSG_FEATURE_SET, which the master never broadcasts.
FeatureSet(to, f, v) ==
  /\ "set" \in Requests /\ Accepts(to) /\ to # Broadcast
  /\ f \in Features
  /\ value' = [value EXCEPT ![f] = Clamped(f, v)]
  /\ Send(<<Feature(f, value'[f])>>)
  /\ UNCHANGED <<linkVars, guestVars, feature2send, streaming, masterVars>>

SysEnable(to) ==
  /\ "enable" \in Requests /\ Accepts(to)
  /\ connect = "CONNECTED"
  /\ spontan' = TRUE
  /\ guestSubscribed' = TRUE
  /\ IF guestSubscribed THEN UNCHANGED sendVars
     ELSE Send(<<Subscribe("DCCGEN"), Subscribe("BOOSTER")>>)
  /\ UNCHANGED <<linkVars, guestEnabled, featureVars, masterVars>>

\* Fault: the subscription is not forgotten.
SysDisableKeepsSubscription(to) ==
  /\ "disable" \in Requests /\ Accepts(to)
  /\ spontan' = FALSE
  /\ feature2send' = NumFeatures /\ streaming' = FALSE
  /\ askedFor' = {}
  /\ UNCHANGED <<linkVars, guestEnabled, guestSubscribed, value, sendVars, expected, told, listed>>

\* MSG_SYS_DISABLE; the master forgets the subscriptions.
SysDisable(to) ==
  /\ "disable" \in Requests /\ Accepts(to)
  /\ spontan' = FALSE
  /\ guestSubscribed' = FALSE
  /\ feature2send' = NumFeatures /\ streaming' = FALSE
  /\ askedFor' = {}
  /\ UNCHANGED <<linkVars, guestEnabled, value, sendVars, expected, told, listed>>

\* MSG_SYS_RESET: the handler waits half a second and returns.
SysReset(to) ==
  /\ "reset" \in Requests /\ Accepts(to)
  /\ UNCHANGED vars

\* MSG_GUEST_RESP_SUBSCRIPTION, for a target the master was asked to subscribe.
SubscriptionAnswer(to, t, accepted) ==
  /\ t \in askedFor /\ Accepts(to)
  /\ connect = "CONNECTED"
  /\ guestEnabled' = (accepted \/ guestEnabled)
  /\ UNCHANGED <<linkVars, spontan, guestSubscribed, featureVars, sendVars, masterVars>>

-----------------------------------------------------------------------------
(* The gateway itself. *)

\* Fault: the stream starts behind the first feature.
StreamStepAhead ==
  /\ streaming /\ feature2send < NumFeatures
  /\ Send(<<Feature(feature2send + 1, value[feature2send + 1])>>)
  /\ feature2send' = IF feature2send + 2 > NumFeatures THEN NumFeatures ELSE feature2send + 2
  /\ UNCHANGED <<linkVars, guestVars, value, streaming, masterVars>>

\* One pass of run_bidib_client with a stream to send.  bidib_tx_fifo_okay is
\* always true: bidib_tx_fill and bidib_tx_remaining are never raised.
StreamStep ==
  /\ streaming /\ feature2send < NumFeatures
  /\ NextFeature
  /\ UNCHANGED <<linkVars, guestVars, value, streaming, masterVars>>

\* bidib_send_cs_drive.
CsDrive(order) ==
  /\ "drive" \in Requests
  /\ connect = "CONNECTED" /\ spontan /\ guestEnabled
  /\ Send(<<DriveOrder(order)>>)
  /\ UNCHANGED <<linkVars, guestVars, featureVars, masterVars>>

\* bidib_send_boost_state.
BoostState ==
  /\ "drive" \in Requests
  /\ connect = "CONNECTED"
  /\ Send(<<Plain("boost")>>)
  /\ UNCHANGED <<linkVars, guestVars, featureVars, masterVars>>

Link == LogonToken \/ LogonRejected \/ Timeout \/ Poll \/ \E a \in Addresses : LogonAck(a)

Request(to) ==
  \/ Query(to) \/ FeatureGetNext(to) \/ SysEnable(to) \/ SysDisable(to) \/ SysReset(to)
  \/ \E mode \in BOOLEAN : FeatureGetAll(to, mode)
  \/ \E f \in Features \cup {0} : FeatureGet(to, f)
  \/ \E f \in Features, v \in Asked : FeatureSet(to, f, v)
  \/ \E t \in Targets, accepted \in BOOLEAN : SubscriptionAnswer(to, t, accepted)

Next ==
  \/ Link
  \/ \E to \in Addresses \cup {Broadcast} : Request(to)
  \/ StreamStep \/ BoostState \/ \E order \in Orders : CsDrive(order)

Spec == Init /\ [][Next]_vars

(* The main loop keeps running. *)
LiveSpec == Spec /\ WF_vars(StreamStep)

-----------------------------------------------------------------------------
Numbers == 0..NumSize-1
Values == Asked \cup UNION {FeatureMin[f]..FeatureMax[f] : f \in Features}
Bodies ==
  [kind : {"answer", "feature_na", "feature_count", "boost"}]
    \cup [kind : {"drive"}, order : Orders]
    \cup [kind : {"feature"}, feature : Features, value : Values]
    \cup [kind : {"subscribe"}, target : Targets]
Sent == [num : Numbers, gap : 0..MaxMissing, body : Bodies]

(* Type invariant; the features stay between their bounds. *)
TypeOK ==
  /\ connect \in {"DISCONNECTED", "APPLIED", "CONNECTED", "REJECTED"}
  /\ nodeAddr \in Addresses /\ addrStack \in Addresses \cup {Broadcast}
  /\ spontan \in BOOLEAN /\ guestEnabled \in BOOLEAN /\ guestSubscribed \in BOOLEAN
  /\ DOMAIN value = Features
  /\ \A f \in Features : value[f] \in FeatureMin[f]..FeatureMax[f]
  /\ feature2send \in 0..NumFeatures /\ streaming \in BOOLEAN
  /\ txNum \in Numbers /\ missing \in 0..MaxMissing
  /\ queue \in Seq(Sent) /\ Len(queue) <= Room
  /\ expected \in Numbers /\ listed \subseteq Features
  /\ told \in [Features -> SUBSET Values]
  /\ askedFor \subseteq Targets

(***************************************************************************)
(* From the numbers of the messages it reads the master can tell how many   *)
(* were refused by a full ring, and where: each number is as far from the   *)
(* one before as messages were lost between, over the wrap from 255 to 1    *)
(* and through logons, flushes and polls, as long as fewer than MaxMissing  *)
(* are lost in a row (bidib_client_if.c:156-198, bidib_client_parser.c:     *)
(* 379-383, 644-645).                                                       *)
(***************************************************************************)
NumbersFollow ==
  connect = "CONNECTED" =>
    LET before(i) == IF i = 1 THEN expected ELSE MasterNum(queue[i - 1].num, 1)
    IN /\ \A i \in DOMAIN queue : queue[i].gap < MaxMissing =>
                                   queue[i].num = MasterNum(before(i), queue[i].gap)
       /\ missing < MaxMissing => txNum = MasterNum(before(Len(queue) + 1), missing)

(***************************************************************************)
(* What the master knows of a feature, or will know when it has polled, is  *)
(* the value in force: echoes, answers and streamed features never leave it *)
(* with an old one (bidib_client_parser.c:204-225, 227-235).                *)
(***************************************************************************)
MasterKnowsValues ==
  connect = "CONNECTED" =>
    \A f \in Features : ValueTold(f) \subseteq {value[f]}

(***************************************************************************)
(* While a stream runs, the master has read, or will read, the count and    *)
(* then every feature the cursor has passed (bidib_client_parser.c:522-526, *)
(* 798-806; README.md:12).                                                  *)
(***************************************************************************)
StreamSkipsNone ==
  connect = "CONNECTED" /\ streaming => 1..feature2send \subseteq FeaturesListed

(***************************************************************************)
(* A stream the master does not start again runs to its end or is stopped   *)
(* (bidib_client_parser.c:798-806).                                         *)
(***************************************************************************)
StreamEnds ==
  <>[][~(\E to \in Addresses \cup {Broadcast}, mode \in BOOLEAN : FeatureGetAll(to, mode))]_vars
    => []<>(~streaming \/ feature2send = NumFeatures)

(***************************************************************************)
(* A connected node that takes itself for subscribed has asked the master   *)
(* for both targets, or the request is still queued: no disable, logon or   *)
(* disconnection leaves it waiting for an answer nobody will send           *)
(* (bidib_client_parser.c:559-590, 648).                                    *)
(***************************************************************************)
SubscribedMeansAsked ==
  connect = "CONNECTED" /\ guestSubscribed => TargetsAskedFor = Targets

=============================================================================
