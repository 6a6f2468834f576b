-------------------------------- MODULE Gateway --------------------------------
(***************************************************************************)
(* The throttles and the BiDiB client put together: what a phone does       *)
(* becomes a drive command in the node's queue, which the master reads when *)
(* it polls and passes on to the command station.  What WiThrottle takes as *)
(* one flag, ready, is here the state of the client; what BidibClient takes *)
(* as any order is here what a line of a phone tells a locomotive.          *)
(*                                                                          *)
(* An order is a speed and a direction.  The functions a command carries    *)
(* are left out: the station merges them by its active bits.                *)
(***************************************************************************)
EXTENDS WiThrottle, Sequences, FiniteSetsExt

CONSTANTS
  Addresses, Highest, Broadcast, Features, FeatureMin, FeatureMax, FeatureDefault, Asked,
  Room, NumSize, MaxMissing, Requests,   (* see BidibClient *)
  LinkAssumed            (* what is assumed of the link: Assumed of BidibClient *)

ASSUME GatewayAssumption == "drive" \in Requests /\ LinkAssumed \subseteq {"room", "single_ack"}

\* What BidibClient asks of its constants.
ASSUME ClientAssumption ==
  /\ Highest \in Addresses /\ Broadcast \notin Addresses
  /\ Len(FeatureDefault) \in Nat \ {0} /\ Features = 1..Len(FeatureDefault)
  /\ Asked \subseteq Nat
  /\ FeatureMin \in [Features -> Nat] /\ FeatureMax \in [Features -> Nat]
  /\ FeatureDefault \in [Features -> Nat]
  /\ \A f \in Features : FeatureDefault[f] \in FeatureMin[f]..FeatureMax[f]
  /\ Room \in Nat \ {0, 1}
  /\ NumSize \in Nat /\ MaxMissing \in Nat /\ NumSize > MaxMissing + 3
  /\ Requests \subseteq {"query", "getall", "getnext", "get", "set", "enable", "disable", "reset",
                         "drive"}

VARIABLES
  connect, nodeAddr, addrStack, spontan, guestEnabled, guestSubscribed, value, feature2send,
  streaming, txNum, queue, missing, expected, told, listed, askedFor,   (* see BidibClient *)
  station,   (* history: the last order for each locomotive that was read *)
  lost       (* history: the locomotives whose last order was not taken   *)

DriveOrders == [loco : Locos, speed : 0..127, fwd : BOOLEAN]

Client == INSTANCE BidibClient
          WITH Orders <- DriveOrders, Assumed <- LinkAssumed

clientVars ==
  <<connect, nodeAddr, addrStack, spontan, guestEnabled, guestSubscribed, value, feature2send,
    streaming, txNum, queue, missing, expected, told, listed, askedFor>>
historyVars == <<station, lost>>
gatewayVars == <<vars, clientVars, historyVars>>

\* bidib_send_cs_drive passes its commands on.
Ready == connect = "CONNECTED" /\ spontan /\ guestEnabled

\* What the throttles last told a locomotive.
Wanted(l) == [speed |-> bus[l].speed, fwd |-> bus[l].fwd]

\* The drive commands for a locomotive that wait for a poll, and the last the
\* station has been given, or will have when it has read the queue.
Waiting(l) == {i \in Client!Entries("drive") : queue[i].body.order.loco = l}
Order(i) == [speed |-> queue[i].body.order.speed, fwd |-> queue[i].body.order.fwd]
StationTold(l) == IF Waiting(l) = {} THEN station[l] ELSE Order(Max(Waiting(l)))

GatewayInit ==
  /\ Init /\ Client!Init
  /\ ready = FALSE
  /\ station = [l \in Locos |-> Wanted(l)]
  /\ lost = {}

-----------------------------------------------------------------------------
\* The command for locomotive l goes to the client, which drops it, queues it,
\* or has it refused by a full ring; the result of send_bidib_message is not
\* looked at.
PassOn(l) ==
  IF Ready
  THEN /\ Client!CsDrive([loco |-> l, speed |-> bus'[l].speed, fwd |-> bus'[l].fwd])
       /\ lost' = IF Len(queue') > Len(queue) THEN lost \ {l} ELSE lost \cup {l}
  ELSE UNCHANGED <<clientVars, lost>>

DrivingLine(c) ==
  \/ SpeedLine(c)
  \/ \E f \in Functions, down \in BOOLEAN :
       Function(c, f, down) /\ ~Ignored(dccAdress[arg[c]], f, down)

Steer(c) ==
  /\ DrivingLine(c)
  /\ PassOn(dccAdress[arg[c]])
  /\ UNCHANGED station

\* Lines and events of the throttles of which the client hears nothing.
Unheard(c) ==
  \/ Connection(c) \/ QuietLine(c)
  \/ \E f \in Functions : Function(c, f, FALSE) /\ Ignored(dccAdress[arg[c]], f, FALSE)

ThrottleOnly ==
  /\ Tick \/ \E c \in Conns : Unheard(c)
  /\ UNCHANGED <<clientVars, historyVars>>

\* PPA0 and PPA1.
Power(c) == OtherLine(c) /\ Client!BoostState /\ UNCHANGED historyVars

\* A step of the client as the throttles see it.
ClientStep(step) ==
  step /\ ready' = Ready' /\ UNCHANGED <<tableVars, watchVars, locoVars, phoneVars, bus>>

Read ==
  /\ ClientStep(Client!Poll)
  /\ station' = [l \in Locos |-> StationTold(l)]
  /\ UNCHANGED lost

\* The connection is lost, and with it what waits: in the ring that is
\* flushed, or behind a master that reads no more.
Disconnect ==
  /\ ClientStep(Client!Timeout \/ Client!LogonRejected)
  /\ lost' = lost \cup {l \in Locos : Waiting(l) # {}}
  /\ UNCHANGED station

Serve ==
  /\ ClientStep(\/ Client!LogonToken
                \/ \E a \in Addresses : Client!LogonAck(a)
                \/ \E to \in Addresses \cup {Broadcast} : Client!Request(to)
                \/ Client!StreamStep)
  /\ UNCHANGED historyVars

GatewayNext ==
  \/ \E c \in Conns : Steer(c) \/ Power(c)
  \/ ThrottleOnly
  \/ Read \/ Disconnect \/ Serve

GatewaySpec == GatewayInit /\ [][GatewayNext]_gatewayVars

-----------------------------------------------------------------------------
(***************************************************************************)
(* What the station has read of a locomotive, or will have when it has      *)
(* polled, is what the throttles last told it, unless the ring refused that *)
(* order or it went with the connection: no order is overtaken by an older  *)
(* one, doubled or taken for another locomotive's (bidib_client_parser.c:   *)
(* 926-962, 355-372).                                                       *)
(***************************************************************************)
OrdersArrive == \A l \in Locos \ lost : StationTold(l) = Wanted(l)

(***************************************************************************)
(* End to end: the speed a phone shows is the one the command station has,  *)
(* or has waiting, for its locomotive, or both are at rest, unless that     *)
(* order was lost on the way (withrottle_if.c:385-440,                      *)
(* bidib_client_parser.c:926-962).                                          *)
(***************************************************************************)
PhoneSeesStation ==
  \A c \in Conns :
    LET l == dccAdress[arg[c]]
    IN tcp[c] = "open" /\ l # NoLoco /\ l \notin lost =>
         \/ SpeedWord(shown[c]) = StationTold(l).speed
         \/ ~Moving(SpeedWord(shown[c])) /\ ~Moving(StationTold(l).speed)

(***************************************************************************)
(* From one order to the next, in the sequence the station carries them     *)
(* out, no locomotive is reversed that moves before and after: the stop     *)
(* that comes with a change of direction is neither overtaken nor left out. *)
(* The order that follows a lost one is the exception: it is the one that   *)
(* takes its locomotive out of lost (withrottle_if.c:404-411,               *)
(* bidib_client_parser.c:926-962).                                          *)
(***************************************************************************)
GentleOrders ==
  [][\A l \in Locos \ (lost \cup lost') :
       StationTold(l)'.fwd # StationTold(l).fwd =>
         ~Moving(StationTold(l).speed) \/ ~Moving(StationTold(l)'.speed)]_gatewayVars
=============================================================================
