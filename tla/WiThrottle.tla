------------------------------ MODULE WiThrottle ------------------------------
(***************************************************************************)
(* The throttles' side of the gateway (tcp_server.c, smartphone_if.c,       *)
(* withrottle_if.c): TCP connections take slots of the throttle table, each *)
(* slot drives one locomotive, each line of the WiThrottle protocol is one  *)
(* step, and what is sent to the command station is kept per locomotive.    *)
(* All of it runs in lwIP callbacks from the main loop, one at a time.      *)
(*                                                                          *)
(* Replies are kept only as far as they change what the phone shows.  Lines *)
(* that only ask for a reply, and those of throttle IDs above 5, which are  *)
(* ignored, are OtherLine and nothing.                                      *)
(***************************************************************************)
EXTENDS Integers

CONSTANTS
  Conns,             (* TCP connections (lwIP protocol control blocks)     *)
  NoConn,            (* NULL                                               *)
  Slots,             (* 0..MAX_THROTTLES-1                                 *)
  Locos,             (* DCC addresses                                      *)
  NoLoco,            (* address 0                                          *)
  Speeds,            (* speeds the phones send: -1 is emergency stop       *)
  Functions,         (* function numbers, 0..28                            *)
  Roster,            (* kind of each function of each locomotive           *)
  HeartbeatTimeout,  (* HEARTBEAT_TIMEOUT_S, in ticks                      *)
  PatienceFactor,    (* the 5 of heartbeatTimeout * 5000 (milliseconds)    *)
  ClockSize,         (* values of now_ms()                                 *)
  Assumed            (* what a run or a theorem assumes of the environment *)

(***************************************************************************)
(* What the code relies on and does not enforce:                            *)
(*   clean_close   lwIP reports no error for a connection already closed    *)
(*   short_uptime  now_ms() does not come near its wrap                     *)
(*   link_ready    the phones drive only while the BiDiB client takes drive *)
(*                 commands                                                 *)
(*   one_driver    no locomotive is in two slots                            *)
(*   stop_first    a client stops its locomotive and lets go of the keys    *)
(*                 before it takes another, gives it up or leaves           *)
(*   beating       a client whose watchdog is on never stays silent long    *)
(***************************************************************************)
Assumptions ==
  {"clean_close", "short_uptime", "link_ready", "one_driver", "stop_first", "beating"}

\* How long checkHeartbeat waits.
Patience == PatienceFactor * HeartbeatTimeout

Kinds == {"lockable", "momentary", "unlisted"}

ASSUME ConnsAssumption ==
  /\ NoConn \notin Conns
  /\ NoLoco \notin Locos
ASSUME SlotsAssumption == Slots \subseteq Nat /\ Slots # {}
ASSUME FunctionsAssumption == Functions \subseteq 0..28
ASSUME RosterAssumption == Roster \in [Locos -> [Functions -> Kinds]]
ASSUME SpeedsAssumption == Speeds \subseteq -1..126
ASSUME ClockAssumption ==
  /\ HeartbeatTimeout \in Nat \ {0}
  /\ PatienceFactor \in Nat \ {0}
  /\ ClockSize \in Nat
  /\ ClockSize > 2 * Patience
ASSUME AssumedAssumption == Assumed \subseteq Assumptions

VARIABLES
  tcp,              (* "none", "open", or "closing": closed by us, errors still reported *)
  arg,              (* the slot lwIP passes to a connection's callbacks  *)
  pcb,              (* throttle[slot].pcb                                *)
  heartbeatEnable,  (* per slot                                          *)
  heartbeat,        (* per slot: time of the last '*' line, 0 is none    *)
  dccAdress,        (* Loco[slot]                                        *)
  newSpeed,
  dir,
  LocoState,        (* the functions that are on                         *)
  now,              (* now_ms()                                          *)
  ready,            (* connected, enabled and subscribed on the BiDiBus  *)
  bus,              (* what was last sent for each locomotive            *)
  shown,            (* per connection: speed on the phone's display      *)
  held,             (* per connection: function keys held down           *)
  age               (* per slot: true time since the last '*' line,      *)
                    (* up to a whole round of the clock                  *)

tableVars == <<tcp, arg, pcb>>
watchVars == <<heartbeatEnable, heartbeat, now, age>>
locoVars == <<dccAdress, newSpeed, dir, LocoState>>
phoneVars == <<shown, held>>
busVars == <<ready, bus>>
vars == <<tableVars, watchVars, locoVars, phoneVars, busVars>>

\* The speed byte of MSG_CS_DRIVE without its direction bit.
SpeedWord(v) == IF v < 0 THEN 1 ELSE v % 128

\* An emergency stop carries no direction bit, which reads as reverse.
Forward(v, d) == v >= 0 /\ d = 1

Stopped(l) == bus[l].speed \in {0, 1}

\* The functions MSG_CS_DRIVE carries together, by its active bits.
Group(f) ==
  {g \in Functions : \/ f <= 4 /\ g <= 4
                     \/ f \in 5..8 /\ g \in 5..8
                     \/ f \in 9..12 /\ g \in 9..12
                     \/ f \in 13..20 /\ g \in 13..20
                     \/ f > 20 /\ g > 20}

Init ==
  /\ tcp = [c \in Conns |-> "none"]
  /\ arg = [c \in Conns |-> CHOOSE s \in Slots : TRUE]
  /\ pcb = [s \in Slots |-> NoConn]
  /\ heartbeatEnable = [s \in Slots |-> FALSE]
  /\ heartbeat = [s \in Slots |-> 0]
  /\ dccAdress = [s \in Slots |-> NoLoco]
  /\ newSpeed = [s \in Slots |-> 0]
  /\ dir = [s \in Slots |-> 0]
  /\ LocoState = [s \in Slots |-> {}]
  /\ now = 1
  /\ ready \in BOOLEAN
  /\ bus = [l \in Locos |-> [speed |-> 0, fwd |-> FALSE, on |-> {}]]
  /\ shown = [c \in Conns |-> 0]
  /\ held = [c \in Conns |-> {}]
  /\ age = [s \in Slots |-> 0]

-----------------------------------------------------------------------------
(* Connections. *)

Free == {s \in Slots : pcb[s] = NoConn}
FirstFree(s) == s \in Free /\ \A t \in Free : s <= t

\* What a client that keeps to stop_first has done before it lets go.
MayLetGo(c) ==
  "stop_first" \in Assumed =>
    /\ held[c] = {}
    /\ dccAdress[arg[c]] # NoLoco => Stopped(dccAdress[arg[c]])

\* Fault: the slot is not checked to be free.
AcceptAnywhere(c) ==
  /\ tcp[c] = "none"
  /\ tcp' = [tcp EXCEPT ![c] = "open"]
  /\ \E s \in Slots : /\ pcb' = [pcb EXCEPT ![s] = c]
                      /\ arg' = [arg EXCEPT ![c] = s]
  /\ UNCHANGED <<watchVars, locoVars, phoneVars, busVars>>

\* tcp_server_accept_cb; with no free slot the connection is refused.
\* Loco[slot] keeps what the last client of the slot left in it.
Accept(c) ==
  /\ tcp[c] = "none"
  /\ tcp' = [tcp EXCEPT ![c] = "open"]
  /\ \E s \in Slots : /\ FirstFree(s)
                      /\ pcb' = [pcb EXCEPT ![s] = c]
                      /\ arg' = [arg EXCEPT ![c] = s]
  /\ UNCHANGED <<watchVars, locoVars, phoneVars, busVars>>

\* throttle_stop: nothing is sent for the locomotive.
ThrottleStop(s) ==
  /\ heartbeatEnable' = [heartbeatEnable EXCEPT ![s] = FALSE]
  /\ heartbeat' = [heartbeat EXCEPT ![s] = 0]
  /\ age' = [age EXCEPT ![s] = 0]
  /\ newSpeed' = [newSpeed EXCEPT ![s] = 0]
  /\ UNCHANGED <<now, dccAdress, dir, LocoState, busVars>>

\* The phone is gone.
PhoneLeaves(c) ==
  /\ shown' = [shown EXCEPT ![c] = 0]
  /\ held' = [held EXCEPT ![c] = {}]

\* Fault: the slot is freed and its watchdog left armed.
PeerClosesArmed(c) ==
  /\ tcp[c] = "open"
  /\ MayLetGo(c)
  /\ pcb' = [pcb EXCEPT ![arg[c]] = NoConn]
  /\ tcp' = [tcp EXCEPT ![c] = "closing"]
  /\ PhoneLeaves(c)
  /\ UNCHANGED <<arg, watchVars, locoVars, busVars>>

\* tcp_server_recv_cb without data: the client has closed.  tcp_close leaves
\* the error callback registered, with the slot as its argument.
PeerCloses(c) ==
  /\ tcp[c] = "open"
  /\ MayLetGo(c)
  /\ ThrottleStop(arg[c])
  /\ pcb' = [pcb EXCEPT ![arg[c]] = NoConn]
  /\ tcp' = [tcp EXCEPT ![c] = "closing"]
  /\ PhoneLeaves(c)
  /\ UNCHANGED arg

\* tcp_server_err_cb: reset or timeout, of an open connection or of one that
\* was closed and whose last segments are not acknowledged.
ErrorReported(c) ==
  /\ tcp[c] # "none"
  /\ tcp[c] = "open" => MayLetGo(c)
  /\ "clean_close" \in Assumed => tcp[c] = "open"
  /\ ThrottleStop(arg[c])
  /\ pcb' = [pcb EXCEPT ![arg[c]] = NoConn]
  /\ tcp' = [tcp EXCEPT ![c] = "none"]
  /\ PhoneLeaves(c)
  /\ UNCHANGED arg

\* A closed connection leaves lwIP without an error.
ClosingEnds(c) ==
  /\ tcp[c] = "closing"
  /\ tcp' = [tcp EXCEPT ![c] = "none"]
  /\ UNCHANGED <<arg, pcb, watchVars, locoVars, phoneVars, busVars>>

-----------------------------------------------------------------------------
(* Lines.  The slot is the one lwIP passes to the callback; replies go to    *)
(* the connection the slot holds.                                            *)

\* The test of checkHeartbeat, in 32-bit milliseconds.
Expired(h) == h > 0 /\ (h + Patience) % ClockSize < now

\* bidib_send_cs_drive for slot s, dropped unless the BiDiB side is ready.
Drive(s, v, d, on) ==
  bus' = IF ready
         THEN [bus EXCEPT ![dccAdress[s]] =
                 [speed |-> SpeedWord(v), fwd |-> Forward(v, d), on |-> on]]
         ELSE bus

\* V<v> reaches the phone of the slot.
Reply(display, s, v) ==
  IF pcb[s] = NoConn THEN display ELSE [display EXCEPT ![pcb[s]] = v]

\* The end of process_rx_withrottle: the slot's speed becomes v and the
\* displays show, then the watchdog is checked with the last heartbeat h.
Checked(s, v, show, h, enabled) ==
  LET fires == enabled /\ Expired(h)
  IN /\ newSpeed' = [newSpeed EXCEPT ![s] = IF fires THEN 0 ELSE v]
     /\ heartbeat' = [heartbeat EXCEPT ![s] = IF fires THEN 0 ELSE h]
     /\ heartbeatEnable' = [heartbeatEnable EXCEPT ![s] = enabled]
     /\ shown' = IF fires THEN Reply(show, s, 0) ELSE show
     /\ UNCHANGED now

Finish(s, v, show) == Checked(s, v, show, heartbeat[s], heartbeatEnable[s]) /\ UNCHANGED age

Speaks(c) == tcp[c] = "open" /\ UNCHANGED <<tableVars, ready>>
Drives(c) == Speaks(c) /\ dccAdress[arg[c]] # NoLoco
Steers(c) == Drives(c) /\ ("link_ready" \in Assumed => ready)

\* Fault: '*' starts the watchdog but does not restart it.
BeatOnce(c, plus) ==
  /\ Speaks(c)
  /\ LET s == arg[c]
     IN /\ Checked(s, newSpeed[s], shown, IF heartbeat[s] = 0 THEN now ELSE heartbeat[s],
                   plus \/ heartbeatEnable[s])
        /\ age' = [age EXCEPT ![s] = 0]
  /\ UNCHANGED <<dccAdress, dir, LocoState, held, bus>>

\* '*' and '*+'.
Beat(c, plus) ==
  /\ Speaks(c)
  /\ LET s == arg[c]
     IN /\ Checked(s, newSpeed[s], shown, now, plus \/ heartbeatEnable[s])
        /\ age' = [age EXCEPT ![s] = 0]
  /\ UNCHANGED <<dccAdress, dir, LocoState, held, bus>>

\* 'Q'.
Quit(c) ==
  /\ Speaks(c)
  /\ MayLetGo(c)
  /\ ThrottleStop(arg[c])
  /\ UNCHANGED <<shown, held>>

\* 'N', 'H', 'P' and the query of the direction.
OtherLine(c) ==
  /\ Speaks(c)
  /\ Finish(arg[c], newSpeed[arg[c]], shown)
  /\ UNCHANGED <<dccAdress, dir, LocoState, held, bus>>

\* M0+: locoAdd.  An address that is no number is 0.
Take(c, l) ==
  /\ Speaks(c)
  /\ MayLetGo(c)
  /\ "stop_first" \in Assumed /\ l # NoLoco => Stopped(l)
  /\ "one_driver" \in Assumed /\ l # NoLoco => \A t \in Slots \ {arg[c]} : dccAdress[t] # l
  /\ dccAdress' = [dccAdress EXCEPT ![arg[c]] = l]
  /\ LocoState' = [LocoState EXCEPT ![arg[c]] = {}]
  /\ dir' = [dir EXCEPT ![arg[c]] = 1]
  /\ Finish(arg[c], 0, Reply(shown, arg[c], 0))
  /\ UNCHANGED <<held, bus>>

\* M0-: locoRelease.
Release(c) ==
  /\ Speaks(c)
  /\ MayLetGo(c)
  /\ LET s == arg[c]
     IN /\ dccAdress' = [dccAdress EXCEPT ![s] = NoLoco]
        /\ Checked(s, 0, shown, 0, heartbeatEnable[s])
  /\ UNCHANGED <<age, dir, LocoState, held, bus>>

\* M0A...V<v>.
SetSpeed(c, v) ==
  /\ Steers(c)
  /\ LET s == arg[c]
     IN /\ Drive(s, v, dir[s], bus[dccAdress[s]].on)
        /\ Finish(s, v, [shown EXCEPT ![c] = v])
  /\ UNCHANGED <<dccAdress, dir, LocoState, held>>

\* Fault: the new direction is sent with the old speed.
ReverseAtSpeed(c, d) ==
  /\ Steers(c)
  /\ LET s == arg[c]
     IN /\ dir' = [dir EXCEPT ![s] = d]
        /\ Drive(s, newSpeed[s], d, bus[dccAdress[s]].on)
        /\ Finish(s, newSpeed[s], shown)
  /\ UNCHANGED <<dccAdress, LocoState, held>>

\* M0A...R<d>: a change of direction stops the locomotive.
Reverse(c, d) ==
  /\ Steers(c)
  /\ LET s == arg[c]
     IN /\ dir' = [dir EXCEPT ![s] = d]
        /\ Drive(s, 0, d, bus[dccAdress[s]].on)
        /\ Finish(s, 0, Reply(shown, s, 0))
  /\ UNCHANGED <<dccAdress, LocoState, held>>

\* Fault: the idle command is not sent.
IdleUnsent(c) ==
  /\ Steers(c)
  /\ Finish(arg[c], 0, [shown EXCEPT ![c] = 0])
  /\ UNCHANGED <<dccAdress, dir, LocoState, held, bus>>

\* M0A...I.
Idle(c) ==
  /\ Steers(c)
  /\ LET s == arg[c]
     IN /\ Drive(s, 0, dir[s], bus[dccAdress[s]].on)
        /\ Finish(s, 0, [shown EXCEPT ![c] = 0])
  /\ UNCHANGED <<dccAdress, dir, LocoState, held>>

\* M0A...Q: the speed is forgotten, nothing is sent.
QuitLoco(c) ==
  /\ Drives(c)
  /\ MayLetGo(c)
  /\ Finish(arg[c], 0, shown)
  /\ UNCHANGED <<dccAdress, dir, LocoState, held, bus>>

\* M0A...X: the code for it is commented out.
Emergency(c) ==
  /\ Drives(c)
  /\ Finish(arg[c], newSpeed[arg[c]], shown)
  /\ UNCHANGED <<dccAdress, dir, LocoState, held, bus>>

\* M0A...qV.
QuerySpeed(c) ==
  /\ Drives(c)
  /\ Finish(arg[c], newSpeed[arg[c]], Reply(shown, arg[c], newSpeed[arg[c]]))
  /\ UNCHANGED <<dccAdress, dir, LocoState, held, bus>>

\* A function the roster does not list is taken as lockable, F2 excepted.
Kind(l, f) ==
  IF Roster[l][f] # "unlisted" THEN Roster[l][f] ELSE IF f = 2 THEN "direct" ELSE "lockable"

\* Fault: every function is taken as lockable.
SwitchedLockable(l, f, down, on) ==
  IF ~down THEN on ELSE IF f \in on THEN on \ {f} ELSE on \cup {f}

\* The state the key of function f gives it; a lockable function ignores
\* the release of its key, all but F2 toggle.
Switched(l, f, down, on) ==
  CASE Kind(l, f) = "lockable" -> IF ~down THEN on
                                  ELSE IF f \in on THEN on \ {f} ELSE on \cup {f}
    [] Kind(l, f) = "momentary" -> IF f \in on THEN on \ {f} ELSE on \cup {f}
    [] Kind(l, f) = "direct" -> IF down THEN on \cup {f} ELSE on \ {f}

\* The release of a lockable function's key, of which nothing is sent.
Ignored(l, f, down) == Kind(l, f) = "lockable" /\ ~down

\* M0A...F<0|1><f>, from a key of the phone.
Function(c, f, down) ==
  /\ Steers(c)
  /\ down <=> f \notin held[c]
  /\ held' = [held EXCEPT ![c] = IF down THEN @ \cup {f} ELSE @ \ {f}]
  /\ LET s == arg[c]
         l == dccAdress[s]
         on == Switched(l, f, down, LocoState[s])
     IN /\ LocoState' = [LocoState EXCEPT ![s] = on]
        /\ IF Ignored(l, f, down)
           THEN UNCHANGED bus
           ELSE Drive(s, newSpeed[s], dir[s],
                      (bus[l].on \ Group(f)) \cup (on \cap Group(f)))
        /\ Finish(s, newSpeed[s], shown)
  /\ UNCHANGED <<dccAdress, dir>>

-----------------------------------------------------------------------------
(* Time and the BiDiB side. *)

Tick ==
  /\ "short_uptime" \in Assumed => now + 1 + Patience < ClockSize
  /\ "beating" \in Assumed =>
       \A s \in Slots : heartbeatEnable[s] => age[s] < HeartbeatTimeout
  /\ now' = (now + 1) % ClockSize
  /\ age' = [s \in Slots |-> IF (heartbeatEnable[s] \/ heartbeat[s] > 0) /\ age[s] < ClockSize
                             THEN age[s] + 1 ELSE age[s]]
  /\ UNCHANGED <<tableVars, heartbeatEnable, heartbeat, locoVars, phoneVars, busVars>>

\* The node is disconnected, disabled or not subscribed, or is so again.
LinkChanges ==
  /\ ready' = ~ready
  /\ UNCHANGED <<tableVars, watchVars, locoVars, phoneVars, bus>>

Connection(c) == Accept(c) \/ PeerCloses(c) \/ ErrorReported(c) \/ ClosingEnds(c)

QuietLine(c) ==
  \/ \E plus \in BOOLEAN : Beat(c, plus)
  \/ Quit(c) \/ OtherLine(c) \/ Release(c) \/ QuitLoco(c) \/ Emergency(c) \/ QuerySpeed(c)
  \/ \E l \in Locos \cup {NoLoco} : Take(c, l)

SpeedLine(c) ==
  \/ Idle(c)
  \/ \E v \in Speeds : SetSpeed(c, v)
  \/ \E d \in {0, 1} : Reverse(c, d)

Line(c) ==
  \/ QuietLine(c) \/ SpeedLine(c)
  \/ \E f \in Functions, down \in BOOLEAN : Function(c, f, down)

Next ==
  \/ \E c \in Conns : Connection(c) \/ Line(c)
  \/ Tick
  \/ LinkChanges

Spec == Init /\ [][Next]_vars

-----------------------------------------------------------------------------
Drivable == [speed : 0..127, fwd : BOOLEAN, on : SUBSET Functions]

TableType ==
  /\ tcp \in [Conns -> {"none", "open", "closing"}]
  /\ arg \in [Conns -> Slots]
  /\ pcb \in [Slots -> Conns \cup {NoConn}]

WatchType ==
  /\ heartbeatEnable \in [Slots -> BOOLEAN]
  /\ heartbeat \in [Slots -> 0..ClockSize-1]
  /\ now \in 0..ClockSize-1
  /\ age \in [Slots -> 0..ClockSize]

LocoType ==
  /\ dccAdress \in [Slots -> Locos \cup {NoLoco}]
  /\ newSpeed \in [Slots -> Speeds \cup {0}]
  /\ dir \in [Slots -> {0, 1}]
  /\ LocoState \in [Slots -> SUBSET Functions]

PhoneType ==
  /\ shown \in [Conns -> Speeds \cup {0}]
  /\ held \in [Conns -> SUBSET Functions]

BusType ==
  /\ ready \in BOOLEAN
  /\ bus \in [Locos -> Drivable]

(* Type invariant. *)
TypeOK == TableType /\ WatchType /\ LocoType /\ PhoneType /\ BusType

(***************************************************************************)
(* Every open connection owns the slot its callbacks are given, and a slot  *)
(* that is not free belongs to an open connection: no two phones share the  *)
(* locomotive and the watchdog of a slot (tcp_server.c:171-184, 200-207,    *)
(* 274-281; "NULL = slot libre", datatypes.h:20).                           *)
(***************************************************************************)
SlotOwned ==
  /\ \A c \in Conns : tcp[c] = "open" => pcb[arg[c]] = c
  /\ \A s \in Slots : pcb[s] # NoConn => tcp[pcb[s]] = "open" /\ arg[pcb[s]] = s

(***************************************************************************)
(* A free slot is quiet: no watchdog of a client that has left goes off for *)
(* the next one (withrottle_if.c:60-66, 450-475).                           *)
(***************************************************************************)
QuietWhenFree ==
  \A s \in Slots : pcb[s] = NoConn =>
    ~heartbeatEnable[s] /\ heartbeat[s] = 0 /\ newSpeed[s] = 0

(***************************************************************************)
(* The watchdog's test, made with wrapping milliseconds, holds exactly when *)
(* the client has been silent for longer than the timeout                   *)
(* (withrottle_if.c:457-458).                                               *)
(***************************************************************************)
ExpiredExactly ==
  \A s \in Slots : heartbeat[s] > 0 => (Expired(heartbeat[s]) <=> age[s] > Patience)

Moving(w) == w \notin {0, 1}

(***************************************************************************)
(* What a phone shows is what its locomotive was last told: the same speed, *)
(* or both at rest (the replies and the drive commands of locoAdd and       *)
(* locoAction, withrottle_if.c:165-219, 384-440).                           *)
(***************************************************************************)
PhoneMatchesBus ==
  \A c \in Conns :
    LET l == dccAdress[arg[c]]
    IN tcp[c] = "open" /\ l # NoLoco =>
         \/ SpeedWord(shown[c]) = bus[l].speed
         \/ ~Moving(SpeedWord(shown[c])) /\ ~Moving(bus[l].speed)

(***************************************************************************)
(* No locomotive is told to change direction while it moves: the command    *)
(* that changes the direction carries speed 0, or finds it stopped          *)
(* (withrottle_if.c:404-411).                                               *)
(***************************************************************************)
ReverseOnlyStopped ==
  [][\A l \in Locos : bus'[l].fwd # bus[l].fwd =>
       ~Moving(bus[l].speed) \/ ~Moving(bus'[l].speed)]_vars

(***************************************************************************)
(* A momentary function (horn, whistle) is on, in the slot and at the       *)
(* locomotive, exactly while its key is held down, although the code        *)
(* toggles it and the commands carry it with the other functions of its     *)
(* group (withrottle_if.c:291-357).                                         *)
(***************************************************************************)
FunctionsFollowKeys ==
  \A c \in Conns : LET s == arg[c] IN
    tcp[c] = "open" /\ dccAdress[s] # NoLoco =>
      \A f \in Functions : Kind(dccAdress[s], f) # "lockable" =>
        /\ f \in LocoState[s] <=> f \in held[c]
        /\ f \in bus[dccAdress[s]].on <=> f \in held[c]

(***************************************************************************)
(* A client with its watchdog on that is silent for longer than the         *)
(* heartbeat timeout has its locomotive stopped ("10-second timeout with    *)
(* emergency stop", README.md:15).                                          *)
(***************************************************************************)
SilenceStops ==
  \A s \in Slots : heartbeatEnable[s] /\ age[s] > HeartbeatTimeout /\ dccAdress[s] # NoLoco =>
    ~Moving(bus[dccAdress[s]].speed)
=============================================================================
