---------------------------- MODULE Gateway_proofs ----------------------------
(***************************************************************************)
(* What holds of the throttle table for every number of connections, slots, *)
(* locomotives and functions, every roster and every timeout; and what      *)
(* holds of the throttles and the client together, for every size of the    *)
(* ring and whatever the master sends besides.                              *)
(***************************************************************************)
EXTENDS Gateway, WellFoundedInduction, TLAPS

USE ConnsAssumption, SlotsAssumption, FunctionsAssumption, RosterAssumption,
    SpeedsAssumption, ClockAssumption, AssumedAssumption

(***************************************************************************)
(* Arithmetic and encodings.                                                *)
(***************************************************************************)

\* The patience is a positive number of ticks.
LEMMA PatienceType == Patience \in Nat \ {0}
<1> DEFINE p == PatienceFactor
           h == HeartbeatTimeout
<1>1. p \in Nat /\ p > 0 /\ h \in Nat /\ h > 0
  BY ClockAssumption
<1>2. p * h \in Nat /\ p * h > 0
  <2> HIDE DEF p, h
  <2> QED
    BY <1>1, SMT
<1> QED
  BY <1>2 DEF Patience

\* A speed a phone sends, or 0, is encoded in seven bits.
LEMMA SpeedWordType ==
  ASSUME NEW v \in Speeds \cup {0}
  PROVE  SpeedWord(v) \in 0..127
<1>1. v \in -1..126
  BY SpeedsAssumption
<1> QED
  BY <1>1, SMT DEF SpeedWord

\* The state a key gives the functions is a set of functions.
LEMMA SwitchedType ==
  ASSUME NEW l \in Locos, NEW f \in Functions, NEW down \in BOOLEAN, NEW on \in SUBSET Functions
  PROVE  Switched(l, f, down, on) \in SUBSET Functions
<1>1. Kind(l, f) \in {"lockable", "momentary", "direct"}
  BY RosterAssumption DEF Kind, Kinds
<1>2. CASE Kind(l, f) = "lockable"
  BY <1>2 DEF Switched
<1>3. CASE Kind(l, f) = "momentary"
  BY <1>3 DEF Switched
<1>4. CASE Kind(l, f) = "direct"
  BY <1>4 DEF Switched
<1> QED
  BY <1>1, <1>2, <1>3, <1>4

\* A drive command leaves a well-formed record for every locomotive.
LEMMA DriveType ==
  ASSUME BusType, NEW s, dccAdress[s] \in Locos, NEW v \in Speeds \cup {0}, NEW d,
         NEW on \in SUBSET Functions, Drive(s, v, d, on), UNCHANGED ready
  PROVE  BusType'
<1>1. SpeedWord(v) \in 0..127
  BY SpeedWordType
<1>2. Forward(v, d) \in BOOLEAN
  BY DEF Forward
<1>3. [speed |-> SpeedWord(v), fwd |-> Forward(v, d), on |-> on] \in Drivable
  BY <1>1, <1>2 DEF Drivable
<1> QED
  BY <1>3 DEF BusType, Drive

\* The end of a line keeps the watchdog, the speeds and the displays in range.
LEMMA CheckedType ==
  ASSUME TypeOK, NEW s \in Slots, NEW v \in Speeds \cup {0},
         NEW show \in [Conns -> Speeds \cup {0}], NEW h \in 0..ClockSize-1,
         NEW enabled \in BOOLEAN, Checked(s, v, show, h, enabled)
  PROVE  /\ newSpeed' \in [Slots -> Speeds \cup {0}]
         /\ heartbeat' \in [Slots -> 0..ClockSize-1]
         /\ heartbeatEnable' \in [Slots -> BOOLEAN]
         /\ shown' \in [Conns -> Speeds \cup {0}]
         /\ now' = now
<1>1. 0 \in 0..ClockSize-1
  BY PatienceType, ClockAssumption, SMT
<1>2. Reply(show, s, 0) \in [Conns -> Speeds \cup {0}]
  BY DEF Reply, TypeOK, TableType
<1> QED
  BY <1>1, <1>2 DEF Checked, TypeOK, WatchType, LocoType

\* A whole line that keeps the watchdog's settings.
LEMMA FinishType ==
  ASSUME TypeOK, NEW s \in Slots, NEW v \in Speeds \cup {0},
         NEW show \in [Conns -> Speeds \cup {0}], Finish(s, v, show)
  PROVE  /\ newSpeed' \in [Slots -> Speeds \cup {0}]
         /\ WatchType'
         /\ shown' \in [Conns -> Speeds \cup {0}]
<1>1. /\ heartbeat[s] \in 0..ClockSize-1
      /\ heartbeatEnable[s] \in BOOLEAN
  BY DEF TypeOK, WatchType
<1>2. Checked(s, v, show, heartbeat[s], heartbeatEnable[s]) /\ UNCHANGED age
  BY DEF Finish
<1>3. /\ newSpeed' \in [Slots -> Speeds \cup {0}]
      /\ heartbeat' \in [Slots -> 0..ClockSize-1]
      /\ heartbeatEnable' \in [Slots -> BOOLEAN]
      /\ shown' \in [Conns -> Speeds \cup {0}]
      /\ now' = now
  BY <1>1, <1>2, CheckedType
<1> QED
  BY <1>2, <1>3 DEF TypeOK, WatchType

-----------------------------------------------------------------------------
(***************************************************************************)
(* Type correctness.                                                        *)
(***************************************************************************)

\* The initial state.
LEMMA InitType == Init => TypeOK
<1> SUFFICES ASSUME Init PROVE TypeOK
  OBVIOUS
<1> USE DEF Init
<1>1. TableType
  <2>1. (CHOOSE s \in Slots : TRUE) \in Slots
    OBVIOUS
  <2> QED
    BY <2>1 DEF TableType
<1>2. WatchType
  <2>1. /\ 0 \in 0..ClockSize-1
        /\ 1 \in 0..ClockSize-1
        /\ 0 \in 0..ClockSize
    BY PatienceType, ClockAssumption, SMT
  <2> QED
    BY <2>1 DEF WatchType
<1>3. LocoType
  BY DEF LocoType
<1>4. PhoneType
  BY DEF PhoneType
<1>5. BusType
  BY DEF BusType, Drivable
<1> QED
  BY <1>1, <1>2, <1>3, <1>4, <1>5 DEF TypeOK

\* A connection that is accepted, closed or lost.
LEMMA ConnectionType ==
  ASSUME TypeOK, NEW c \in Conns, Connection(c)
  PROVE  TypeOK'
<1> USE DEF TypeOK, TableType, WatchType, LocoType, PhoneType, BusType,
            watchVars, locoVars, phoneVars, busVars
<1>0. 0 \in 0..ClockSize-1 /\ 0 \in 0..ClockSize
  BY PatienceType, ClockAssumption, SMT
<1>1. CASE Accept(c)
  BY <1>1 DEF Accept
<1>2. CASE PeerCloses(c)
  BY <1>0, <1>2 DEF PeerCloses, ThrottleStop, PhoneLeaves
<1>3. CASE ErrorReported(c)
  BY <1>0, <1>3 DEF ErrorReported, ThrottleStop, PhoneLeaves
<1>4. CASE ClosingEnds(c)
  BY <1>4 DEF ClosingEnds
<1> QED
  BY <1>1, <1>2, <1>3, <1>4 DEF Connection

\* The lines that send nothing to the bus.
LEMMA QuietLineType ==
  ASSUME TypeOK, NEW c \in Conns,
         QuietLine(c)
  PROVE  TypeOK'
<1> DEFINE s == arg[c]
<1>s. s \in Slots /\ newSpeed[s] \in Speeds \cup {0} /\ 0 \in Speeds \cup {0}
  BY DEF TypeOK, TableType, LocoType
<1>0. 0 \in 0..ClockSize-1 /\ 0 \in 0..ClockSize /\ now \in 0..ClockSize-1
  BY PatienceType, ClockAssumption, SMT DEF TypeOK, WatchType
<1>h. /\ heartbeatEnable[s] \in BOOLEAN
      /\ shown \in [Conns -> Speeds \cup {0}]
      /\ Reply(shown, s, 0) \in [Conns -> Speeds \cup {0}]
      /\ Reply(shown, s, newSpeed[s]) \in [Conns -> Speeds \cup {0}]
  BY <1>s DEF TypeOK, TableType, WatchType, PhoneType, Reply
<1>t. TypeOK => TableType /\ WatchType /\ LocoType /\ PhoneType /\ BusType
  BY DEF TypeOK
<1> HIDE DEF s
<1>1. ASSUME NEW plus \in BOOLEAN, Beat(c, plus) PROVE TypeOK'
  <2>1. /\ newSpeed' \in [Slots -> Speeds \cup {0}]
        /\ heartbeat' \in [Slots -> 0..ClockSize-1]
        /\ heartbeatEnable' \in [Slots -> BOOLEAN]
        /\ shown' \in [Conns -> Speeds \cup {0}]
        /\ now' = now
    BY <1>1, <1>s, <1>0, <1>h, CheckedType DEF Beat, s
  <2> QED
    BY <1>1, <1>0, <2>1 DEF Beat, Speaks, tableVars, TypeOK, TableType, WatchType, LocoType,
       PhoneType, BusType
<1>2. CASE Quit(c)
  BY <1>2, <1>0 DEF Quit, Speaks, ThrottleStop, tableVars, busVars,
     TypeOK, TableType, WatchType, LocoType, PhoneType, BusType
<1>3. CASE OtherLine(c)
  <2>1. /\ newSpeed' \in [Slots -> Speeds \cup {0}]
        /\ WatchType'
        /\ shown' \in [Conns -> Speeds \cup {0}]
    BY <1>3, <1>s, <1>h, FinishType DEF OtherLine, s
  <2> QED
    BY <1>3, <2>1 DEF OtherLine, Speaks, tableVars, TypeOK, TableType, LocoType, PhoneType, BusType
<1>4. CASE Release(c)
  <2>0. Checked(s, 0, shown, 0, heartbeatEnable[s])
    BY <1>4 DEF Release, s
  <2>1. /\ newSpeed' \in [Slots -> Speeds \cup {0}]
        /\ heartbeat' \in [Slots -> 0..ClockSize-1]
        /\ heartbeatEnable' \in [Slots -> BOOLEAN]
        /\ shown' \in [Conns -> Speeds \cup {0}]
        /\ now' = now
    BY <2>0, <1>s, <1>0, <1>h, CheckedType
  <2> QED
    BY <1>4, <2>1 DEF Release, Speaks, tableVars, TypeOK, TableType, WatchType, LocoType,
       PhoneType, BusType
<1>5. CASE QuitLoco(c)
  <2>1. /\ newSpeed' \in [Slots -> Speeds \cup {0}]
        /\ WatchType'
        /\ shown' \in [Conns -> Speeds \cup {0}]
    BY <1>5, <1>s, <1>h, FinishType DEF QuitLoco, s
  <2> QED
    BY <1>5, <2>1 DEF QuitLoco, Drives, Speaks, tableVars, TypeOK, TableType, LocoType,
       PhoneType, BusType
<1>6. CASE Emergency(c)
  <2>1. /\ newSpeed' \in [Slots -> Speeds \cup {0}]
        /\ WatchType'
        /\ shown' \in [Conns -> Speeds \cup {0}]
    BY <1>6, <1>s, <1>h, FinishType DEF Emergency, s
  <2> QED
    BY <1>6, <2>1 DEF Emergency, Drives, Speaks, tableVars, TypeOK, TableType, LocoType,
       PhoneType, BusType
<1>7. CASE QuerySpeed(c)
  <2>1. /\ newSpeed' \in [Slots -> Speeds \cup {0}]
        /\ WatchType'
        /\ shown' \in [Conns -> Speeds \cup {0}]
    BY <1>7, <1>s, <1>h, FinishType DEF QuerySpeed, s
  <2> QED
    BY <1>7, <2>1 DEF QuerySpeed, Drives, Speaks, tableVars, TypeOK, TableType, LocoType,
       PhoneType, BusType
<1>8. ASSUME NEW l \in Locos \cup {NoLoco}, Take(c, l) PROVE TypeOK'
  <2>1. /\ newSpeed' \in [Slots -> Speeds \cup {0}]
        /\ WatchType'
        /\ shown' \in [Conns -> Speeds \cup {0}]
    BY <1>8, <1>s, <1>h, FinishType DEF Take, s
  <2> QED
    BY <1>8, <2>1 DEF Take, Speaks, tableVars, TypeOK, TableType, LocoType, PhoneType, BusType
<1> QED
  BY <1>1, <1>2, <1>3, <1>4, <1>5, <1>6, <1>7, <1>8 DEF QuietLine

\* The lines that drive the locomotive.
LEMMA DrivingLineType ==
  ASSUME TypeOK, NEW c \in Conns,
         \/ SpeedLine(c)
         \/ \E f \in Functions, down \in BOOLEAN : Function(c, f, down)
  PROVE  TypeOK'
<1> DEFINE s == arg[c]
           l == dccAdress[s]
<1>s. /\ s \in Slots /\ newSpeed[s] \in Speeds \cup {0} /\ 0 \in Speeds \cup {0}
      /\ LocoState[s] \in SUBSET Functions
  BY DEF TypeOK, TableType, LocoType
<1>d. l \in Locos
  <2>1. l # NoLoco
    BY DEF SpeedLine, Idle, SetSpeed, Reverse, Function, Steers, Drives
  <2> QED
    BY <2>1, <1>s DEF TypeOK, LocoType
<1>b. bus[l].on \in SUBSET Functions
  BY <1>d DEF TypeOK, BusType, Drivable
<1>h. /\ shown \in [Conns -> Speeds \cup {0}]
      /\ Reply(shown, s, 0) \in [Conns -> Speeds \cup {0}]
      /\ \A v \in Speeds \cup {0} : [shown EXCEPT ![c] = v] \in [Conns -> Speeds \cup {0}]
  BY <1>s DEF TypeOK, TableType, PhoneType, Reply
<1>t. BusType
  BY DEF TypeOK
<1> HIDE DEF s, l
<1>1. CASE Idle(c)
  <2>1. Drive(s, 0, dir[s], bus[l].on) /\ Finish(s, 0, [shown EXCEPT ![c] = 0]) /\ ready' = ready
    BY <1>1 DEF Idle, Steers, Drives, Speaks, s, l
  <2>2. BusType'
    BY <2>1, <1>s, <1>d, <1>b, <1>t, DriveType DEF l
  <2>3. /\ newSpeed' \in [Slots -> Speeds \cup {0}]
        /\ WatchType'
        /\ shown' \in [Conns -> Speeds \cup {0}]
    BY <2>1, <1>s, <1>h, FinishType
  <2> QED
    BY <1>1, <2>2, <2>3 DEF Idle, Steers, Drives, Speaks, tableVars, TypeOK, TableType,
       LocoType, PhoneType
<1>2. ASSUME NEW v \in Speeds, SetSpeed(c, v) PROVE TypeOK'
  <2>1. Drive(s, v, dir[s], bus[l].on) /\ Finish(s, v, [shown EXCEPT ![c] = v]) /\ ready' = ready
    BY <1>2 DEF SetSpeed, Steers, Drives, Speaks, s, l
  <2>2. BusType'
    BY <2>1, <1>s, <1>d, <1>b, <1>t, DriveType DEF l
  <2>3. /\ newSpeed' \in [Slots -> Speeds \cup {0}]
        /\ WatchType'
        /\ shown' \in [Conns -> Speeds \cup {0}]
    BY <2>1, <1>s, <1>h, FinishType
  <2> QED
    BY <1>2, <2>2, <2>3 DEF SetSpeed, Steers, Drives, Speaks, tableVars, TypeOK, TableType,
       LocoType, PhoneType
<1>3. ASSUME NEW d \in {0, 1}, Reverse(c, d) PROVE TypeOK'
  <2>1. Drive(s, 0, d, bus[l].on) /\ Finish(s, 0, Reply(shown, s, 0)) /\ ready' = ready
    BY <1>3 DEF Reverse, Steers, Drives, Speaks, s, l
  <2>2. BusType'
    BY <2>1, <1>s, <1>d, <1>b, <1>t, DriveType DEF l
  <2>3. /\ newSpeed' \in [Slots -> Speeds \cup {0}]
        /\ WatchType'
        /\ shown' \in [Conns -> Speeds \cup {0}]
    BY <2>1, <1>s, <1>h, FinishType
  <2> QED
    BY <1>3, <2>2, <2>3 DEF Reverse, Steers, Drives, Speaks, tableVars, TypeOK, TableType,
       LocoType, PhoneType
<1>4. ASSUME NEW f \in Functions, NEW down \in BOOLEAN, Function(c, f, down) PROVE TypeOK'
  <2> DEFINE on == Switched(l, f, down, LocoState[s])
             sent == (bus[l].on \ Group(f)) \cup (on \cap Group(f))
  <2>0. on \in SUBSET Functions
    BY <1>s, <1>d, SwitchedType
  <2>s. sent \in SUBSET Functions
    BY <2>0, <1>b DEF Group
  <2> HIDE DEF on, sent
  <2>1. /\ \/ UNCHANGED bus
           \/ Drive(s, newSpeed[s], dir[s], sent)
        /\ Finish(s, newSpeed[s], shown)
        /\ ready' = ready
        /\ LocoState' = [LocoState EXCEPT ![s] = on]
        /\ \/ held' = [held EXCEPT ![c] = held[c] \cup {f}]
           \/ held' = [held EXCEPT ![c] = held[c] \ {f}]
    BY <1>4 DEF Function, Steers, Drives, Speaks, s, l, on, sent
  <2>2. BusType'
    <3>1. CASE UNCHANGED bus
      BY <2>1, <3>1, <1>t DEF BusType
    <3>2. CASE Drive(s, newSpeed[s], dir[s], sent)
      BY <2>1, <3>2, <2>s, <1>s, <1>d, <1>t, DriveType DEF l
    <3> QED
      BY <2>1, <3>1, <3>2
  <2>3. /\ newSpeed' \in [Slots -> Speeds \cup {0}]
        /\ WatchType'
        /\ shown' \in [Conns -> Speeds \cup {0}]
    BY <2>1, <1>s, <1>h, FinishType
  <2>4. held' \in [Conns -> SUBSET Functions]
    BY <2>1 DEF TypeOK, PhoneType
  <2>5. UNCHANGED <<dccAdress, dir, tcp, arg, pcb>>
    BY <1>4 DEF Function, Steers, Drives, Speaks, tableVars, TypeOK, PhoneType
  <2>6. LocoState' \in [Slots -> SUBSET Functions]
    BY <2>0, <2>1 DEF TypeOK, LocoType
  <2> QED
    BY <2>2, <2>3, <2>4, <2>5, <2>6 DEF TypeOK, TableType, LocoType, PhoneType
<1> QED
  BY <1>1, <1>2, <1>3, <1>4 DEF SpeedLine

\* Every step keeps the types.
LEMMA NextType == TypeOK /\ [Next]_vars => TypeOK'
<1> SUFFICES ASSUME TypeOK, [Next]_vars PROVE TypeOK'
  OBVIOUS
<1>1. ASSUME NEW c \in Conns, Connection(c) PROVE TypeOK'
  BY <1>1, ConnectionType
<1>2. ASSUME NEW c \in Conns, Line(c) PROVE TypeOK'
  BY <1>2, QuietLineType, DrivingLineType DEF Line
<1>3. CASE Tick
  <2>1. \A a \in 0..ClockSize : a < ClockSize => a + 1 \in 0..ClockSize
    BY ClockAssumption, SMT
  <2>2. (now + 1) % ClockSize \in 0..ClockSize-1
    BY PatienceType, ClockAssumption, SMT DEF TypeOK, WatchType
  <2>3. age' \in [Slots -> 0..ClockSize]
    BY <1>3, <2>1 DEF Tick, TypeOK, WatchType
  <2> QED
    BY <1>3, <2>2, <2>3 DEF Tick, tableVars, locoVars, phoneVars, busVars, TypeOK, TableType,
       WatchType, LocoType, PhoneType, BusType
<1>4. CASE LinkChanges
  BY <1>4 DEF LinkChanges, tableVars, watchVars, locoVars, phoneVars, TypeOK, TableType, WatchType,
     LocoType, PhoneType, BusType
<1>5. CASE UNCHANGED vars
  BY <1>5 DEF vars, tableVars, watchVars, locoVars, phoneVars, busVars, TypeOK, TableType,
     WatchType, LocoType, PhoneType, BusType
<1> QED
  BY <1>1, <1>2, <1>3, <1>4, <1>5 DEF Next

(***************************************************************************)
(* Whatever clients, connections, clock and BiDiB side do, every variable   *)
(* stays in its range, and a speed byte in its seven bits                   *)
(* (withrottle_if.c, bidib_client_parser.c:942).                            *)
(***************************************************************************)
THEOREM TypeCorrect == Spec => []TypeOK
<1> QED
  BY InitType, NextType, PTL DEF Spec

-----------------------------------------------------------------------------
(***************************************************************************)
(* The slots.  With clean_close an error only comes for an open connection, *)
(* which owns the slot it frees.                                            *)
(***************************************************************************)
TableInv == SlotOwned /\ QuietWhenFree

\* What the line of a client may do to the watchdogs: only its own slot's, and
\* there keep the heartbeat, forget it or set it to the present.
LineEffect(s) ==
  /\ UNCHANGED now
  /\ \A t \in Slots \ {s} :
       /\ newSpeed'[t] = newSpeed[t]
       /\ heartbeatEnable'[t] = heartbeatEnable[t]
  /\ \A t \in Slots :
       \/ heartbeat'[t] = heartbeat[t] /\ age'[t] = age[t]
       \/ t = s /\ heartbeat'[t] = 0
       \/ t = s /\ heartbeat'[t] = now /\ age'[t] = 0

LEMMA FinishEffect ==
  ASSUME TypeOK, NEW s \in Slots, NEW v, NEW show, Finish(s, v, show)
  PROVE  LineEffect(s)
BY DEF LineEffect, Finish, Checked, TypeOK, WatchType, LocoType

LEMMA LineKeepsOthers ==
  ASSUME TypeOK, NEW c \in Conns, Line(c)
  PROVE  tcp[c] = "open" /\ UNCHANGED tableVars /\ LineEffect(arg[c])
<1> DEFINE s == arg[c]
<1>0. s \in Slots
  BY DEF TypeOK, TableType
<1>1. tcp[c] = "open" /\ UNCHANGED tableVars
  BY DEF Line, QuietLine, SpeedLine, Beat, Quit, OtherLine, Take, Release, SetSpeed, Reverse, Idle, QuitLoco, Emergency,
     QuerySpeed, Function, Steers, Drives, Speaks
<1> SUFFICES LineEffect(s)
  BY <1>1
<1>2. ASSUME NEW plus \in BOOLEAN, Beat(c, plus) PROVE LineEffect(s)
  BY <1>0, <1>2 DEF Beat, Checked, LineEffect, TypeOK, WatchType, LocoType
<1>3. CASE Quit(c)
  <2>1. /\ heartbeatEnable' = [heartbeatEnable EXCEPT ![s] = FALSE]
        /\ heartbeat' = [heartbeat EXCEPT ![s] = 0]
        /\ age' = [age EXCEPT ![s] = 0]
        /\ newSpeed' = [newSpeed EXCEPT ![s] = 0]
        /\ now' = now
    BY <1>3 DEF Quit, ThrottleStop
  <2> QED
    BY <1>0, <2>1 DEF LineEffect, TypeOK, WatchType, LocoType
<1>4. CASE Release(c)
  <2>1. Checked(s, 0, shown, 0, heartbeatEnable[s]) /\ age' = age
    BY <1>4 DEF Release
  <2> QED
    BY <1>0, <2>1 DEF Checked, LineEffect, TypeOK, WatchType, LocoType
<1>5. ASSUME NEW v, NEW show, Finish(s, v, show) PROVE LineEffect(s)
  BY <1>0, <1>5, FinishEffect
<1>6. CASE OtherLine(c) \/ QuitLoco(c) \/ Emergency(c) \/ QuerySpeed(c) \/ Idle(c)
  <2>1. CASE OtherLine(c)
    BY <1>5, <2>1 DEF OtherLine
  <2>2. CASE QuitLoco(c)
    BY <1>5, <2>2 DEF QuitLoco
  <2>3. CASE Emergency(c)
    BY <1>5, <2>3 DEF Emergency
  <2>4. CASE QuerySpeed(c)
    BY <1>5, <2>4 DEF QuerySpeed
  <2>5. CASE Idle(c)
    BY <1>5, <2>5 DEF Idle
  <2> QED
    BY <1>6, <2>1, <2>2, <2>3, <2>4, <2>5
<1>7. ASSUME NEW l \in Locos \cup {NoLoco}, Take(c, l) PROVE LineEffect(s)
  BY <1>5, <1>7 DEF Take
<1>8. ASSUME NEW v \in Speeds, SetSpeed(c, v) PROVE LineEffect(s)
  BY <1>5, <1>8 DEF SetSpeed
<1>9. ASSUME NEW d \in {0, 1}, Reverse(c, d) PROVE LineEffect(s)
  BY <1>5, <1>9 DEF Reverse
<1>10. ASSUME NEW f \in Functions, NEW down \in BOOLEAN, Function(c, f, down) PROVE LineEffect(s)
  BY <1>5, <1>10 DEF Function
<1> QED
  BY <1>2, <1>3, <1>4, <1>6, <1>7, <1>8, <1>9, <1>10 DEF Line, QuietLine, SpeedLine

LEMMA TableNext ==
  ASSUME "clean_close" \in Assumed, TypeOK, TableInv, [Next]_vars
  PROVE  TableInv'
<1> USE DEF TableInv, SlotOwned, QuietWhenFree
<1>t. TableType
  BY DEF TypeOK
<1>w. WatchType /\ LocoType
  BY DEF TypeOK
<1>1. ASSUME NEW c \in Conns, Accept(c) PROVE TableInv'
  <2>1. PICK s \in Slots : /\ FirstFree(s)
                           /\ pcb' = [pcb EXCEPT ![s] = c]
                           /\ arg' = [arg EXCEPT ![c] = s]
    BY <1>1 DEF Accept
  <2>2. pcb[s] = NoConn /\ c # NoConn
    BY <2>1, ConnsAssumption DEF FirstFree, Free
  <2>3. tcp[c] = "none" /\ tcp' = [tcp EXCEPT ![c] = "open"]
    BY <1>1 DEF Accept
  <2>4. UNCHANGED <<heartbeatEnable, heartbeat, newSpeed>>
    BY <1>1 DEF Accept, watchVars, locoVars
  <2> QED
    BY <2>1, <2>2, <2>3, <2>4, <1>t DEF TableType
<1>2. ASSUME NEW c \in Conns, PeerCloses(c) \/ ErrorReported(c) PROVE TableInv'
  <2> DEFINE s == arg[c]
  <2>1. /\ tcp[c] = "open"
        /\ \E state \in {"none", "closing"} : tcp' = [tcp EXCEPT ![c] = state]
        /\ pcb' = [pcb EXCEPT ![s] = NoConn] /\ arg' = arg
        /\ ThrottleStop(s)
    BY <1>2 DEF PeerCloses, ErrorReported
  <2>2. s \in Slots /\ pcb[s] = c
    BY <2>1, <1>t DEF TableType
  <2>3. /\ heartbeatEnable' = [heartbeatEnable EXCEPT ![s] = FALSE]
        /\ heartbeat' = [heartbeat EXCEPT ![s] = 0]
        /\ newSpeed' = [newSpeed EXCEPT ![s] = 0]
    BY <2>1 DEF ThrottleStop
  <2> HIDE DEF s
  <2>4. \A t \in Slots : pcb'[t] # NoConn => t # s /\ pcb'[t] = pcb[t] /\ pcb[t] # c
    BY <2>1, <2>2, <1>t DEF TableType, s
  <2>5. \A d \in Conns : tcp'[d] = "open" => d # c /\ tcp[d] = "open" /\ arg[d] # s
    BY <2>1, <2>2, <1>t DEF TableType
  <2>6. SlotOwned'
    BY <2>1, <2>2, <2>4, <2>5, <1>t DEF TableType
  <2>7. QuietWhenFree'
    BY <2>1, <2>2, <2>3, <1>t, <1>w DEF TableType, WatchType, LocoType
  <2> QED
    BY <2>6, <2>7
<1>3. ASSUME NEW c \in Conns, ClosingEnds(c) PROVE TableInv'
  BY <1>3, <1>t DEF ClosingEnds, TableType, watchVars, locoVars
<1>4. ASSUME NEW c \in Conns, Line(c) PROVE TableInv'
  <2>1. tcp[c] = "open" /\ UNCHANGED tableVars /\ LineEffect(arg[c])
    BY <1>4, LineKeepsOthers
  <2>2. arg[c] \in Slots /\ pcb[arg[c]] # NoConn
    BY <2>1, <1>t, ConnsAssumption DEF TableType
  <2>3. \A t \in Slots \ {arg[c]} : /\ newSpeed'[t] = newSpeed[t]
                                   /\ heartbeat'[t] = heartbeat[t]
                                   /\ heartbeatEnable'[t] = heartbeatEnable[t]
    BY <2>1 DEF LineEffect
  <2> QED
    BY <2>1, <2>2, <2>3 DEF tableVars
<1>5. CASE Tick
  BY <1>5 DEF Tick, tableVars, locoVars
<1>6. CASE LinkChanges
  BY <1>6 DEF LinkChanges, tableVars, locoVars, watchVars
<1>7. CASE UNCHANGED vars
  BY <1>7 DEF vars, tableVars, locoVars, watchVars
<1> QED
  BY <1>1, <1>2, <1>3, <1>4, <1>5, <1>6, <1>7 DEF Next, Connection

\* TableInv is an invariant.
LEMMA TableInvariant ==
  ASSUME "clean_close" \in Assumed
  PROVE  Spec => []TableInv
<1>1. Init => TableInv
  BY DEF Init, TableInv, SlotOwned, QuietWhenFree
<1>2. TypeOK /\ TableInv /\ [Next]_vars => TableInv'
  BY TableNext
<1> QED
  BY <1>1, <1>2, TypeCorrect, PTL DEF Spec

(***************************************************************************)
(* Each open connection owns the slot its callbacks are given, and each     *)
(* slot in use belongs to an open connection (tcp_server.c:158-187,         *)
(* 200-207, 274-281), if lwIP reports no error after tcp_close.             *)
(***************************************************************************)
THEOREM SlotOwnership ==
  ASSUME "clean_close" \in Assumed
  PROVE  Spec => []SlotOwned
<1>1. TableInv => SlotOwned
  BY DEF TableInv
<1> QED
  BY <1>1, TableInvariant, PTL

(***************************************************************************)
(* A slot is handed to its next client with the watchdog off and the speed  *)
(* 0 (withrottle_if.c:60-66).                                               *)
(***************************************************************************)
THEOREM QuietHandover ==
  ASSUME "clean_close" \in Assumed
  PROVE  Spec => []QuietWhenFree
<1>1. TableInv => QuietWhenFree
  BY DEF TableInv
<1> QED
  BY <1>1, TableInvariant, PTL

-----------------------------------------------------------------------------
(***************************************************************************)
(* The watchdog.  The clock shows the heartbeat and the silence since then, *)
(* whether it has wrapped or not, until the silence lasts a whole round.    *)
(***************************************************************************)
ClockShows(s) ==
  heartbeat[s] > 0 /\ age[s] < ClockSize =>
    now = IF heartbeat[s] + age[s] < ClockSize
          THEN heartbeat[s] + age[s]
          ELSE heartbeat[s] + age[s] - ClockSize

RoundInv == \A s \in Slots : ClockShows(s)

\* One tick, in numbers.
LEMMA TickTurns ==
  ASSUME NEW size \in Nat, NEW h \in 0..size-1, NEW a \in 0..size-1, NEW n \in 0..size-1,
         a + 1 < size, n = IF h + a < size THEN h + a ELSE h + a - size
  PROVE  (n + 1) % size = IF h + (a + 1) < size THEN h + (a + 1) ELSE h + (a + 1) - size
<1>1. n + 1 < size => (n + 1) % size = n + 1
  BY SMT
<1>2. ~(n + 1 < size) => n + 1 = size /\ (n + 1) % size = 0
  BY SMT
<1> QED
  BY <1>1, <1>2, SMT

\* A number past the end of the clock, by less than a round.
LEMMA OnceRound ==
  ASSUME NEW size \in Nat, NEW k \in 0..size-1, NEW p \in Nat, p < size, ~(k + p < size)
  PROVE  (k + p) % size = k + p - size
BY SMT

LEMMA RoundInit == Init => RoundInv
  BY SMT DEF Init, RoundInv, ClockShows

\* Whatever comes but a tick keeps a heartbeat with its silence, forgets it or
\* sets it to the present.
LEMMA WatchMoves ==
  ASSUME TypeOK, [Next]_vars, ~Tick
  PROVE  /\ now' = now
         /\ \A t \in Slots : \/ heartbeat'[t] = heartbeat[t] /\ age'[t] = age[t]
                             \/ heartbeat'[t] = 0
                             \/ heartbeat'[t] = now /\ age'[t] = 0
<1>w. WatchType
  BY DEF TypeOK
<1>1. ASSUME UNCHANGED watchVars
      PROVE  /\ now' = now
             /\ \A t \in Slots : heartbeat'[t] = heartbeat[t] /\ age'[t] = age[t]
  BY <1>1 DEF watchVars
<1>2. ASSUME NEW c \in Conns, Accept(c) \/ ClosingEnds(c) PROVE UNCHANGED watchVars
  BY <1>2 DEF Accept, ClosingEnds
<1>3. ASSUME NEW c \in Conns, PeerCloses(c) \/ ErrorReported(c)
      PROVE  /\ now' = now
             /\ \A t \in Slots : \/ heartbeat'[t] = heartbeat[t] /\ age'[t] = age[t]
                                 \/ heartbeat'[t] = 0
  <2>1. ThrottleStop(arg[c]) /\ arg[c] \in Slots
    BY <1>3 DEF PeerCloses, ErrorReported, TypeOK, TableType
  <2>2. /\ heartbeat' = [heartbeat EXCEPT ![arg[c]] = 0]
        /\ age' = [age EXCEPT ![arg[c]] = 0]
        /\ now' = now
    BY <2>1 DEF ThrottleStop
  <2> QED
    BY <2>1, <2>2, <1>w DEF WatchType
<1>4. ASSUME NEW c \in Conns, Line(c) PROVE LineEffect(arg[c])
  BY <1>4, LineKeepsOthers
<1>5. CASE LinkChanges \/ UNCHANGED vars
  BY <1>1, <1>5 DEF LinkChanges, vars
<1> QED
  BY <1>1, <1>2, <1>3, <1>4, <1>5 DEF Next, Connection, LineEffect

LEMMA RoundNext ==
  ASSUME TypeOK, TypeOK', RoundInv, [Next]_vars
  PROVE  RoundInv'
<1>t. /\ ClockSize \in Nat /\ now \in 0..ClockSize-1
      /\ \A t \in Slots : heartbeat[t] \in 0..ClockSize-1 /\ age[t] \in 0..ClockSize
  BY ClockAssumption DEF TypeOK, WatchType
<1> SUFFICES ASSUME NEW s \in Slots PROVE ClockShows(s)'
  BY DEF RoundInv
<1>1. CASE ~Tick
  <2>1. CASE heartbeat'[s] = heartbeat[s] /\ age'[s] = age[s]
    BY <1>1, <2>1, WatchMoves DEF RoundInv, ClockShows
  <2>2. CASE heartbeat'[s] = 0
    BY <2>2, SMT DEF ClockShows
  <2>3. CASE heartbeat'[s] = now /\ age'[s] = 0
    <3>1. now' = now
      BY <1>1, WatchMoves
    <3> QED
      BY <1>t, <2>3, <3>1, SMT DEF ClockShows
  <2> QED
    BY <1>1, <2>1, <2>2, <2>3, WatchMoves
<1>2. CASE Tick
  <2>1. /\ now' = (now + 1) % ClockSize /\ heartbeat' = heartbeat
        /\ heartbeat[s] > 0 => age'[s] = IF age[s] < ClockSize THEN age[s] + 1 ELSE age[s]
    BY <1>2 DEF Tick
  <2> SUFFICES ASSUME heartbeat[s] > 0, age'[s] < ClockSize
               PROVE  now' = IF heartbeat[s] + age'[s] < ClockSize
                             THEN heartbeat[s] + age'[s]
                             ELSE heartbeat[s] + age'[s] - ClockSize
    BY <2>1 DEF ClockShows
  <2>2. age'[s] = age[s] + 1 /\ age[s] + 1 < ClockSize /\ age[s] \in 0..ClockSize-1
    BY <2>1, <1>t, SMT
  <2>3. now = IF heartbeat[s] + age[s] < ClockSize
              THEN heartbeat[s] + age[s] ELSE heartbeat[s] + age[s] - ClockSize
    BY <2>2, SMT DEF RoundInv, ClockShows
  <2>4. (now + 1) % ClockSize = IF heartbeat[s] + (age[s] + 1) < ClockSize
                                THEN heartbeat[s] + (age[s] + 1)
                                ELSE heartbeat[s] + (age[s] + 1) - ClockSize
    BY <1>t, <2>2, <2>3, TickTurns
  <2> QED
    BY <2>1, <2>2, <2>4
<1> QED
  BY <1>1, <1>2

LEMMA RoundInvariant == Spec => []RoundInv
<1>1. Init => RoundInv
  BY RoundInit
<1>2. TypeOK /\ TypeOK' /\ RoundInv /\ [Next]_vars => RoundInv'
  BY RoundNext
<1> QED
  BY <1>1, <1>2, TypeCorrect, PTL DEF Spec

\* What the test of checkHeartbeat says of a client silent for less than a
\* round of the clock.  When heartbeat and timeout fit below the wrap it is
\* right until the clock wraps, and then misses the silence; when their sum
\* wraps it stops the client at once until the clock has wrapped too, and is
\* right from then on.
VerdictOf(s) ==
  LET h == heartbeat[s]
      silent == age[s] > Patience
      wrapped == now < h
  IN h > 0 /\ age[s] < ClockSize =>
       (Expired(h) <=> IF h + Patience < ClockSize THEN silent /\ ~wrapped
                                                   ELSE silent \/ ~wrapped)

(***************************************************************************)
(* What the watchdog's wrapping 32-bit test finds (withrottle_if.c:457-458),*)
(* for every timeout, clock and number of slots, and with nothing assumed   *)
(* of the uptime: it is the client's silence compared with the timeout, but *)
(* for two windows at the wrap, in which it comes too early or not at all.  *)
(***************************************************************************)
THEOREM WatchdogExact == Spec => [](\A s \in Slots : VerdictOf(s))
<1> DEFINE Verdicts == \A s \in Slots : VerdictOf(s)
<1>1. TypeOK /\ RoundInv => Verdicts
  <2> SUFFICES ASSUME TypeOK, RoundInv, NEW s \in Slots, heartbeat[s] > 0, age[s] < ClockSize
               PROVE  Expired(heartbeat[s]) <=>
                        IF heartbeat[s] + Patience < ClockSize
                        THEN age[s] > Patience /\ ~(now < heartbeat[s])
                        ELSE age[s] > Patience \/ ~(now < heartbeat[s])
    BY DEF VerdictOf
  <2>1. /\ ClockSize \in Nat /\ Patience \in Nat /\ Patience > 0 /\ Patience < ClockSize
    BY PatienceType, ClockAssumption, SMT
  <2>2. /\ now \in 0..ClockSize-1 /\ heartbeat[s] \in 0..ClockSize-1 /\ age[s] \in 0..ClockSize-1
    BY <2>1, SMT DEF TypeOK, WatchType
  <2>3. now = IF heartbeat[s] + age[s] < ClockSize
              THEN heartbeat[s] + age[s] ELSE heartbeat[s] + age[s] - ClockSize
    BY DEF RoundInv, ClockShows
  <2> DEFINE h == heartbeat[s]
             a == age[s]
             due == (h + Patience) % ClockSize < now
  <2>4. Expired(heartbeat[s]) <=> due
    BY DEF Expired
  <2> HIDE DEF h, a
  <2>5. /\ h + Patience < ClockSize => (due <=> a > Patience /\ ~(now < h))
        /\ ~(h + Patience < ClockSize) => (due <=> a > Patience \/ ~(now < h))
    <3>1. /\ h \in 0..ClockSize-1 /\ a \in 0..ClockSize-1
          /\ now = IF h + a < ClockSize THEN h + a ELSE h + a - ClockSize
      BY <2>2, <2>3 DEF h, a
    <3>2. /\ ClockSize \in Nat /\ Patience \in Nat /\ Patience > 0 /\ Patience < ClockSize
          /\ now \in 0..ClockSize-1
      BY <2>1, <2>2
    <3>3. h + Patience < ClockSize => (h + Patience) % ClockSize = h + Patience
      BY <3>1, <3>2, SMT
    <3>4. ~(h + Patience < ClockSize) => (h + Patience) % ClockSize = h + Patience - ClockSize
      BY <3>1, <3>2, OnceRound
    <3>5. CASE h + Patience < ClockSize
      BY <3>1, <3>2, <3>3, <3>5, SMT DEF due
    <3>6. CASE ~(h + Patience < ClockSize)
      BY <3>1, <3>2, <3>4, <3>6, SMT DEF due
    <3> QED
      BY <3>5, <3>6
  <2> QED
    BY <2>4, <2>5 DEF h, a
<1> HIDE DEF Verdicts
<1>2. Spec => []Verdicts
  BY <1>1, TypeCorrect, RoundInvariant, PTL
<1> QED
  BY <1>2 DEF Verdicts

\* While the uptime stays below the wrap the clock has not wrapped since any
\* heartbeat.
WatchInv ==
  /\ now + Patience < ClockSize
  /\ \A s \in Slots : heartbeat[s] > 0 => heartbeat[s] <= now /\ age[s] = now - heartbeat[s]

LEMMA WatchInit == Init => WatchInv
<1> SUFFICES ASSUME Init PROVE WatchInv
  OBVIOUS
<1>1. Patience \in Nat /\ Patience > 0 /\ ClockSize \in Nat /\ ClockSize > 2 * Patience
  BY PatienceType, ClockAssumption
<1>2. now + Patience < ClockSize
  BY <1>1, SMT DEF Init
<1>3. \A s \in Slots : heartbeat[s] = 0
  BY DEF Init
<1> QED
  BY <1>2, <1>3, SMT DEF WatchInv

LEMMA WatchNext ==
  ASSUME "short_uptime" \in Assumed, TypeOK, WatchInv, [Next]_vars
  PROVE  WatchInv'
<1>t. /\ Patience \in Nat /\ ClockSize \in Nat /\ now \in Nat
      /\ \A t \in Slots : heartbeat[t] \in Nat /\ age[t] \in Nat
  BY PatienceType, ClockAssumption DEF TypeOK, WatchType
<1>1. CASE ~Tick
  <2>1. now' = now
    BY <1>1, WatchMoves
  <2>2. ASSUME NEW t \in Slots, heartbeat'[t] > 0
        PROVE  heartbeat'[t] <= now /\ age'[t] = now - heartbeat'[t]
    <3>1. CASE heartbeat'[t] = heartbeat[t] /\ age'[t] = age[t]
      BY <2>2, <3>1 DEF WatchInv
    <3>2. CASE heartbeat'[t] = 0
      BY <2>2, <3>2
    <3>3. CASE heartbeat'[t] = now /\ age'[t] = 0
      BY <1>t, <3>3
    <3> QED
      BY <1>1, <3>1, <3>2, <3>3, WatchMoves
  <2> QED
    BY <2>1, <2>2 DEF WatchInv
<1>2. CASE Tick
  <2>1. now + 1 + Patience < ClockSize /\ now' = (now + 1) % ClockSize /\ heartbeat' = heartbeat
    BY <1>2 DEF Tick
  <2>2. now' = now + 1
    BY <1>t, <2>1, SMT
  <2>3. now' + Patience < ClockSize
    BY <1>t, <2>1, <2>2
  <2>4. ASSUME NEW t \in Slots, heartbeat[t] > 0
        PROVE  heartbeat[t] <= now + 1 /\ age'[t] = (now + 1) - heartbeat[t]
    <3>1. heartbeat[t] <= now /\ age[t] = now - heartbeat[t]
      BY <2>4 DEF WatchInv
    <3>2. age[t] < ClockSize
      BY <1>t, <2>1, <3>1
    <3>3. age'[t] = age[t] + 1
      BY <1>2, <2>4, <3>2 DEF Tick
    <3> QED
      BY <1>t, <3>1, <3>3
  <2> QED
    BY <2>1, <2>2, <2>3, <2>4 DEF WatchInv
<1> QED
  BY <1>1, <1>2

LEMMA BelowWrap ==
  ASSUME NEW x \in Nat, NEW size \in Nat, x < size
  PROVE  x % size = x
  BY SMT

\* The test in a state in which the clock has not wrapped.
LEMMA TestCounts ==
  ASSUME TypeOK, WatchInv, NEW s \in Slots, heartbeat[s] > 0
  PROVE  Expired(heartbeat[s]) <=> age[s] > Patience
<1>1. /\ now \in Nat /\ heartbeat[s] \in Nat /\ age[s] \in Nat
      /\ Patience \in Nat /\ ClockSize \in Nat
  BY PatienceType, ClockAssumption DEF TypeOK, WatchType
<1>2. heartbeat[s] <= now /\ age[s] = now - heartbeat[s] /\ now + Patience < ClockSize
  BY DEF WatchInv
<1>3. (heartbeat[s] + Patience) % ClockSize = heartbeat[s] + Patience
  <2>1. heartbeat[s] + Patience \in Nat /\ heartbeat[s] + Patience < ClockSize
    BY <1>1, <1>2
  <2> QED
    BY <1>1, <2>1, BelowWrap
<1>4. heartbeat[s] + Patience < now <=> age[s] > Patience
  BY <1>1, <1>2
<1> QED
  BY <1>3, <1>4 DEF Expired

(***************************************************************************)
(* What the run checks: as long as the uptime stays below the wrap the test *)
(* holds exactly when the client has been silent for longer than the        *)
(* timeout (withrottle_if.c:457-458).                                       *)
(***************************************************************************)
COROLLARY WatchdogBeforeWrap ==
  ASSUME "short_uptime" \in Assumed
  PROVE  Spec => []ExpiredExactly
<1>1. Init => WatchInv
  BY WatchInit
<1>2. TypeOK /\ WatchInv /\ [Next]_vars => WatchInv'
  BY WatchNext
<1>3. TypeOK /\ WatchInv => ExpiredExactly
  BY TestCounts DEF ExpiredExactly
<1> QED
  BY <1>1, <1>2, <1>3, TypeCorrect, PTL DEF Spec

-----------------------------------------------------------------------------
(***************************************************************************)
(* What holds of the locomotives, the phones and the function keys when all *)
(* that the code relies on is given: the slot, the phone and the command    *)
(* station agree on each locomotive.                                        *)
(***************************************************************************)

AllAssumed == Assumed = Assumptions

LEMMA AssumedGuards ==
  ASSUME AllAssumed
  PROVE  /\ "clean_close" \in Assumed /\ "short_uptime" \in Assumed
         /\ "link_ready" \in Assumed /\ "one_driver" \in Assumed
         /\ "stop_first" \in Assumed /\ "beating" \in Assumed
  BY DEF AllAssumed, Assumptions

-----------------------------------------------------------------------------
(* The invariant. *)

\* What the phone of a slot shows and which keys it holds down; no phone
\* shows 0 and holds none.
Display(s) == IF pcb[s] = NoConn THEN 0 ELSE shown[pcb[s]]
Keys(s) == IF pcb[s] = NoConn THEN {} ELSE held[pcb[s]]

Same(v, w) == v = w \/ (~Moving(v) /\ ~Moving(w))

Unlatched(l) == {f \in Functions : Kind(l, f) # "lockable"}

\* Slot and phone agree with the command station on the speed,
AtSpeed(s) ==
  dccAdress[s] # NoLoco =>
    /\ Same(SpeedWord(newSpeed[s]), bus[dccAdress[s]].speed)
    /\ Same(SpeedWord(Display(s)), bus[dccAdress[s]].speed)

\* on the direction of a locomotive that moves,
Facing(s) ==
  dccAdress[s] # NoLoco /\ Moving(bus[dccAdress[s]].speed) =>
    (bus[dccAdress[s]].fwd <=> dir[s] = 1)

\* and on the functions that follow their keys.
Keyed(s) ==
  dccAdress[s] # NoLoco =>
    \A f \in Unlatched(dccAdress[s]) : /\ f \in LocoState[s] <=> f \in Keys(s)
                                       /\ f \in bus[dccAdress[s]].on <=> f \in Keys(s)

\* A locomotive in no slot has none of these functions on.
ParkedPart ==
  \A l \in Locos : (\A s \in Slots : dccAdress[s] # l) =>
    \A f \in Unlatched(l) : f \notin bus[l].on

OneDriver == \A s, t \in Slots : s # t /\ dccAdress[s] # NoLoco => dccAdress[s] # dccAdress[t]

GonePart == \A c \in Conns : tcp[c] # "open" => shown[c] = 0 /\ held[c] = {}

DriveInv ==
  /\ OneDriver /\ GonePart /\ ParkedPart
  /\ \A s \in Slots : AtSpeed(s) /\ Facing(s) /\ Keyed(s)

\* A watchdog that is on is in time.
BeatPart == \A s \in Slots : heartbeatEnable[s] => age[s] <= HeartbeatTimeout

PhoneInv == TypeOK /\ TableInv /\ WatchInv /\ BeatPart /\ DriveInv

-----------------------------------------------------------------------------
(* The watchdog of a client that beats does not go off. *)

LEMMA TimeoutInPatience ==
  /\ Patience \in Nat /\ HeartbeatTimeout \in Nat
  /\ HeartbeatTimeout > 0 /\ HeartbeatTimeout <= Patience
<1> DEFINE p == PatienceFactor
           h == HeartbeatTimeout
<1>1. p \in Nat /\ p > 0 /\ h \in Nat /\ h > 0
  BY ClockAssumption
<1>2. p * h \in Nat /\ h <= p * h
  <2> HIDE DEF p, h
  <2>1. p - 1 \in Nat /\ (p - 1) * h >= 0
    BY <1>1, SMT
  <2>2. p * h = (p - 1) * h + h
    BY <1>1, SMT
  <2> QED
    BY <1>1, <2>1, <2>2, SMT
<1> QED
  BY <1>1, <1>2 DEF Patience

LEMMA NotExpired ==
  ASSUME TypeOK, WatchInv, BeatPart, NEW s \in Slots, heartbeatEnable[s]
  PROVE  ~Expired(heartbeat[s])
<1>1. /\ now \in Nat /\ heartbeat[s] \in Nat /\ age[s] \in Nat
      /\ Patience \in Nat /\ ClockSize \in Nat
  BY TimeoutInPatience, ClockAssumption DEF TypeOK, WatchType
<1>2. age[s] <= HeartbeatTimeout
  BY DEF BeatPart
<1>3. ~(age[s] > Patience)
  BY <1>1, <1>2, TimeoutInPatience
<1>4. CASE heartbeat[s] > 0
  BY <1>3, <1>4, TestCounts
<1>5. CASE ~(heartbeat[s] > 0)
  BY <1>5 DEF Expired
<1> QED
  BY <1>4, <1>5

\* A heartbeat that has just come is not overdue, and none is never overdue.
LEMMA PresentNotExpired ==
  ASSUME TypeOK, WatchInv
  PROVE  ~Expired(now) /\ ~Expired(0)
<1>1. now \in Nat /\ Patience \in Nat /\ ClockSize \in Nat
  BY TimeoutInPatience, ClockAssumption DEF TypeOK, WatchType
<1>2. now + Patience < ClockSize
  BY DEF WatchInv
<1>3. (now + Patience) % ClockSize = now + Patience
  BY <1>1, <1>2, SMT
<1>4. ~((now + Patience) % ClockSize < now)
  BY <1>1, <1>3
<1>5. ~(0 > 0)
  OBVIOUS
<1> QED
  BY <1>4, <1>5 DEF Expired

LEMMA Unfired ==
  ASSUME TypeOK, WatchInv, BeatPart, NEW s \in Slots, NEW v, NEW show, Finish(s, v, show)
  PROVE  newSpeed' = [newSpeed EXCEPT ![s] = v] /\ shown' = show
  BY NotExpired DEF Finish, Checked

\* A line turns a watchdog on, or restarts it, with no time gone by.
LEMMA LineBeats ==
  ASSUME TypeOK, NEW c \in Conns, Line(c), NEW t \in Slots, heartbeatEnable'[t]
  PROVE  age'[t] = 0 \/ (heartbeatEnable[t] /\ age'[t] = age[t])
<1> DEFINE s == arg[c]
<1>0. s \in Slots
  BY DEF TypeOK, TableType
<1>1. ASSUME NEW v, NEW show, Finish(s, v, show)
      PROVE  heartbeatEnable[t] /\ age'[t] = age[t]
  BY <1>0, <1>1 DEF Finish, Checked, TypeOK, WatchType
<1>2. ASSUME NEW plus \in BOOLEAN, Beat(c, plus)
      PROVE  age'[t] = 0 \/ (heartbeatEnable[t] /\ age'[t] = age[t])
  BY <1>0, <1>2 DEF Beat, Checked, TypeOK, WatchType
<1>3. CASE Quit(c)
  <2>1. heartbeatEnable' = [heartbeatEnable EXCEPT ![s] = FALSE] /\ age' = [age EXCEPT ![s] = 0]
    BY <1>3 DEF Quit, ThrottleStop
  <2> QED
    BY <1>0, <2>1 DEF TypeOK, WatchType
<1>4. CASE Release(c)
  <2>1. Checked(s, 0, shown, 0, heartbeatEnable[s]) /\ age' = age
    BY <1>4 DEF Release
  <2> QED
    BY <1>0, <2>1 DEF Checked, TypeOK, WatchType
<1>5. CASE OtherLine(c) \/ QuitLoco(c) \/ Emergency(c) \/ QuerySpeed(c) \/ Idle(c)
  <2>1. \E v, show : Finish(s, v, show)
    BY <1>5 DEF OtherLine, QuitLoco, Emergency, QuerySpeed, Idle
  <2> QED
    BY <1>1, <2>1
<1>6. ASSUME \/ \E l \in Locos \cup {NoLoco} : Take(c, l)
             \/ \E v \in Speeds : SetSpeed(c, v)
             \/ \E d \in {0, 1} : Reverse(c, d)
             \/ \E f \in Functions, down \in BOOLEAN : Function(c, f, down)
      PROVE  heartbeatEnable[t] /\ age'[t] = age[t]
  <2>1. \E v, show : Finish(s, v, show)
    BY <1>6 DEF Take, SetSpeed, Reverse, Function
  <2> QED
    BY <1>1, <2>1
<1> QED
  BY <1>2, <1>3, <1>4, <1>5, <1>6 DEF Line, QuietLine, SpeedLine

LEMMA BeatNext ==
  ASSUME AllAssumed, TypeOK, BeatPart, [Next]_vars
  PROVE  BeatPart'
<1>1. CASE UNCHANGED watchVars
  BY <1>1 DEF BeatPart, watchVars
<1>2. ASSUME NEW c \in Conns, Connection(c) PROVE BeatPart'
  <2>1. CASE Accept(c) \/ ClosingEnds(c)
    BY <2>1, <1>1 DEF Accept, ClosingEnds
  <2>2. CASE PeerCloses(c) \/ ErrorReported(c)
    <3>1. /\ heartbeatEnable' = [heartbeatEnable EXCEPT ![arg[c]] = FALSE]
          /\ age' = [age EXCEPT ![arg[c]] = 0]
          /\ arg[c] \in Slots
      BY <2>2 DEF PeerCloses, ErrorReported, ThrottleStop, TypeOK, TableType
    <3> QED
      BY <3>1 DEF BeatPart, TypeOK, WatchType
  <2> QED
    BY <1>2, <2>1, <2>2 DEF Connection
<1>3. ASSUME NEW c \in Conns, Line(c) PROVE BeatPart'
  <2> SUFFICES ASSUME NEW t \in Slots, heartbeatEnable'[t]
               PROVE  age'[t] <= HeartbeatTimeout
    BY DEF BeatPart
  <2>1. age'[t] = 0 \/ (heartbeatEnable[t] /\ age'[t] = age[t])
    BY <1>3, LineBeats
  <2>2. 0 <= HeartbeatTimeout
    BY TimeoutInPatience
  <2> QED
    BY <2>1, <2>2 DEF BeatPart
<1>4. CASE Tick
  <2> SUFFICES ASSUME NEW t \in Slots, heartbeatEnable'[t]
               PROVE  age'[t] <= HeartbeatTimeout
    BY DEF BeatPart
  <2>1. heartbeatEnable[t] /\ age[t] < HeartbeatTimeout
    BY <1>4, AssumedGuards DEF Tick
  <2>2. age'[t] = age[t] + 1 \/ age'[t] = age[t]
    BY <1>4 DEF Tick
  <2>3. age[t] \in Nat /\ HeartbeatTimeout \in Nat
    BY TimeoutInPatience DEF TypeOK, WatchType
  <2> QED
    BY <2>1, <2>2, <2>3
<1>5. CASE LinkChanges \/ UNCHANGED vars
  BY <1>1, <1>5 DEF LinkChanges, vars
<1> QED
  BY <1>2, <1>3, <1>4, <1>5 DEF Next

-----------------------------------------------------------------------------
(* Speeds and keys. *)

LEMMA SameSpeeds ==
  /\ \A v : Same(v, v)
  /\ \A v, w : Same(v, w) => Same(w, v)
  /\ \A u, v, w : Same(u, v) /\ Same(v, w) => Same(u, w)
  /\ \A v \in {0, 1} : Same(0, v)
  BY DEF Same, Moving

LEMMA SpeedZero == SpeedWord(0) = 0
  BY SMT DEF SpeedWord

LEMMA ForwardMeans ==
  ASSUME NEW v \in Speeds \cup {0}, NEW d, Moving(SpeedWord(v))
  PROVE  Forward(v, d) <=> d = 1
<1>1. v \in Int
  BY SpeedsAssumption
<1>2. ~(v < 0)
  BY DEF SpeedWord, Moving
<1> QED
  BY <1>1, <1>2 DEF Forward

\* A key pressed or released gives each function that is not lockable the
\* state of its key.
LEMMA SwitchedFollows ==
  ASSUME NEW l \in Locos, NEW f \in Functions, NEW down \in BOOLEAN,
         NEW on, NEW keys, down <=> f \notin keys,
         \A g \in Unlatched(l) : g \in on <=> g \in keys,
         NEW g \in Unlatched(l)
  PROVE  g \in Switched(l, f, down, on) <=> g \in (IF down THEN keys \cup {f} ELSE keys \ {f})
<1>1. Kind(l, f) \in {"lockable", "momentary", "direct"}
  BY RosterAssumption DEF Kind, Kinds
<1>2. CASE Kind(l, f) = "lockable"
  <2>1. g # f
    BY <1>2 DEF Unlatched
  <2> QED
    BY <1>2, <2>1 DEF Switched
<1>3. CASE Kind(l, f) = "momentary"
  <2>1. Switched(l, f, down, on) = IF f \in on THEN on \ {f} ELSE on \cup {f}
    BY <1>3 DEF Switched
  <2>2. f \in Unlatched(l)
    BY <1>3 DEF Unlatched
  <2>3. f \in on <=> ~down
    BY <2>2
  <2> QED
    BY <2>1, <2>3
<1>4. CASE Kind(l, f) = "direct"
  <2>1. Switched(l, f, down, on) = IF down THEN on \cup {f} ELSE on \ {f}
    BY <1>4 DEF Switched
  <2> QED
    BY <2>1
<1> QED
  BY <1>1, <1>2, <1>3, <1>4

LEMMA OwnGroup == \A f \in Functions : f \in Group(f)
<1> SUFFICES ASSUME NEW f \in Functions PROVE f \in Group(f)
  OBVIOUS
<1>1. f \in 0..28
  BY FunctionsAssumption
<1>2. f <= 4 \/ f \in 5..8 \/ f \in 9..12 \/ f \in 13..20 \/ f > 20
  BY <1>1
<1> QED
  BY <1>2 DEF Group

-----------------------------------------------------------------------------
(* What a line may do besides its own slot, phone and locomotive: nothing. *)

Moves(c, s) ==
  /\ UNCHANGED tableVars
  /\ \A t \in Slots \ {s} : /\ dccAdress'[t] = dccAdress[t] /\ newSpeed'[t] = newSpeed[t]
                            /\ dir'[t] = dir[t] /\ LocoState'[t] = LocoState[t]
  /\ \A d \in Conns \ {c} : shown'[d] = shown[d] /\ held'[d] = held[d]
  /\ \A l \in Locos : l # dccAdress[s] => bus'[l] = bus[l]

Own(c, s) == tcp[c] = "open" /\ arg[c] = s /\ pcb[s] = c

LEMMA OthersKept ==
  ASSUME TypeOK, TableInv, DriveInv, NEW c \in Conns, NEW s \in Slots, Own(c, s), Moves(c, s),
         NEW t \in Slots \ {s}
  PROVE  AtSpeed(t)' /\ Facing(t)' /\ Keyed(t)'
<1>1. pcb[t] # c /\ pcb[t] \in Conns \cup {NoConn} /\ pcb' = pcb
  <2>1. pcb' = pcb
    BY DEF Moves, tableVars
  <2>2. pcb[t] \in Conns \cup {NoConn}
    BY DEF TypeOK, TableType
  <2>3. pcb[t] # NoConn => arg[pcb[t]] = t
    BY DEF TableInv, SlotOwned
  <2> QED
    BY <2>1, <2>2, <2>3, ConnsAssumption DEF Own
<1>2. Display(t)' = Display(t) /\ Keys(t)' = Keys(t)
  BY <1>1 DEF Display, Keys, Moves
<1>3. /\ dccAdress'[t] = dccAdress[t] /\ newSpeed'[t] = newSpeed[t]
      /\ dir'[t] = dir[t] /\ LocoState'[t] = LocoState[t]
  BY DEF Moves
<1>4. dccAdress[t] # NoLoco => bus'[dccAdress[t]] = bus[dccAdress[t]]
  BY DEF DriveInv, OneDriver, Moves, TypeOK, LocoType
<1>5. AtSpeed(t) /\ Facing(t) /\ Keyed(t)
  BY DEF DriveInv
<1> QED
  BY <1>2, <1>3, <1>4, <1>5 DEF AtSpeed, Facing, Keyed

LEMMA GoneKept ==
  ASSUME TypeOK, DriveInv, NEW c \in Conns, NEW s \in Slots, Own(c, s), Moves(c, s)
  PROVE  GonePart'
  BY DEF DriveInv, GonePart, Own, Moves, tableVars

\* A line that leaves the locomotives in their slots.
LEMMA SameDrivers ==
  ASSUME TypeOK, TableInv, DriveInv, NEW c \in Conns, NEW s \in Slots, Own(c, s), Moves(c, s),
         UNCHANGED dccAdress, AtSpeed(s)', Facing(s)', Keyed(s)'
  PROVE  DriveInv'
<1>1. OneDriver'
  BY DEF DriveInv, OneDriver
<1>2. ParkedPart'
  <2> SUFFICES ASSUME NEW l \in Locos, \A t \in Slots : dccAdress[t] # l
               PROVE  \A f \in Unlatched(l) : f \notin bus'[l].on
    BY DEF ParkedPart, Unlatched
  <2>1. bus'[l] = bus[l]
    BY DEF Moves
  <2> QED
    BY <2>1 DEF DriveInv, ParkedPart
<1>3. GonePart'
  BY GoneKept
<1>4. \A t \in Slots : AtSpeed(t)' /\ Facing(t)' /\ Keyed(t)'
  BY OthersKept
<1> QED
  BY <1>1, <1>2, <1>3, <1>4 DEF DriveInv

\* A line that tells the command station nothing.
LEMMA StillLine ==
  ASSUME TypeOK, TableInv, DriveInv, NEW c \in Conns, NEW s \in Slots, Own(c, s),
         UNCHANGED <<tableVars, dccAdress, dir, LocoState, held, bus>>,
         NEW v, newSpeed' = [newSpeed EXCEPT ![s] = v],
         NEW u, shown' = [shown EXCEPT ![c] = u],
         dccAdress[s] # NoLoco => /\ Same(SpeedWord(v), bus[dccAdress[s]].speed)
                                  /\ Same(SpeedWord(u), bus[dccAdress[s]].speed)
  PROVE  DriveInv'
<1>1. Moves(c, s)
  BY DEF Moves, TypeOK, LocoType, PhoneType
<1>2. /\ newSpeed'[s] = v /\ Display(s)' = u /\ Keys(s)' = Keys(s)
  BY ConnsAssumption DEF Own, Display, Keys, tableVars, TypeOK, LocoType, PhoneType
<1>3. AtSpeed(s)' /\ Facing(s)' /\ Keyed(s)'
  BY <1>2 DEF AtSpeed, Facing, Keyed, DriveInv
<1> QED
  BY <1>1, <1>3, SameDrivers

\* A line that drives the locomotive of the slot.
LEMMA DrivenLine ==
  ASSUME TypeOK, TableInv, DriveInv, NEW c \in Conns, NEW s \in Slots, Own(c, s),
         ready, UNCHANGED <<tableVars, dccAdress, LocoState, held>>, dccAdress[s] # NoLoco,
         NEW v \in Speeds \cup {0}, NEW d, Drive(s, v, d, bus[dccAdress[s]].on),
         newSpeed' = [newSpeed EXCEPT ![s] = v], shown' = [shown EXCEPT ![c] = v],
         dir' = [dir EXCEPT ![s] = d]
  PROVE  DriveInv'
<1>l. dccAdress[s] \in Locos
  BY DEF TypeOK, LocoType
<1>1. bus' = [bus EXCEPT ![dccAdress[s]] =
                [speed |-> SpeedWord(v), fwd |-> Forward(v, d), on |-> bus[dccAdress[s]].on]]
  BY <1>l DEF Drive
<1>2. Moves(c, s)
  BY <1>1 DEF Moves, TypeOK, LocoType, PhoneType, BusType
<1>3. /\ bus'[dccAdress[s]].speed = SpeedWord(v)
      /\ bus'[dccAdress[s]].fwd = Forward(v, d)
      /\ bus'[dccAdress[s]].on = bus[dccAdress[s]].on
  BY <1>l, <1>1 DEF TypeOK, BusType
<1>4. newSpeed'[s] = v /\ Display(s)' = v /\ Keys(s)' = Keys(s) /\ dir'[s] = d
  BY ConnsAssumption DEF Own, Display, Keys, tableVars, TypeOK, LocoType, PhoneType
<1>5. AtSpeed(s)'
  BY <1>3, <1>4, SameSpeeds DEF AtSpeed
<1>6. Facing(s)'
  BY <1>3, <1>4, ForwardMeans DEF Facing
<1>7. Keyed(s)'
  BY <1>3, <1>4 DEF Keyed, DriveInv, Unlatched
<1> QED
  BY <1>2, <1>5, <1>6, <1>7, SameDrivers

\* A line that gives the slot another locomotive, or none.
LEMMA HandOver ==
  ASSUME TypeOK, TableInv, DriveInv, NEW c \in Conns, NEW s \in Slots, Own(c, s),
         UNCHANGED <<tableVars, held, bus>>, held[c] = {},
         NEW l \in Locos \cup {NoLoco}, dccAdress' = [dccAdress EXCEPT ![s] = l],
         \A t \in Slots \ {s} : /\ l # NoLoco => dccAdress[t] # l
                                /\ dir'[t] = dir[t] /\ LocoState'[t] = LocoState[t],
         l # NoLoco => Stopped(l) /\ LocoState'[s] = {} /\ shown'[c] = 0,
         newSpeed' = [newSpeed EXCEPT ![s] = 0],
         \A d \in Conns \ {c} : shown'[d] = shown[d]
  PROVE  DriveInv'
<1>1. Moves(c, s)
  BY DEF Moves, TypeOK, LocoType
<1>2. \A t \in Slots : dccAdress'[t] = IF t = s THEN l ELSE dccAdress[t]
  BY DEF TypeOK, LocoType
<1>3. OneDriver'
  BY <1>2 DEF DriveInv, OneDriver
<1>4. Keys(s) = {} /\ Keys(s)' = {}
  BY ConnsAssumption DEF Keys, Own, tableVars
<1>5. \A k \in Locos : (\A t \in Slots \ {s} : dccAdress[t] # k) =>
        \A f \in Unlatched(k) : f \notin bus[k].on
  <2> SUFFICES ASSUME NEW k \in Locos, \A t \in Slots \ {s} : dccAdress[t] # k
               PROVE  \A f \in Unlatched(k) : f \notin bus[k].on
    OBVIOUS
  <2>1. CASE dccAdress[s] = k
    <3>1. Keyed(s) /\ dccAdress[s] # NoLoco
      BY <2>1, ConnsAssumption DEF DriveInv
    <3> QED
      BY <2>1, <3>1, <1>4 DEF Keyed
  <2>2. CASE dccAdress[s] # k
    BY <2>2 DEF DriveInv, ParkedPart
  <2> QED
    BY <2>1, <2>2
<1>6. ParkedPart'
  <2> SUFFICES ASSUME NEW k \in Locos, \A t \in Slots : dccAdress'[t] # k
               PROVE  \A f \in Unlatched(k) : f \notin bus'[k].on
    BY DEF ParkedPart, Unlatched
  <2> QED
    BY <1>2, <1>5
<1>7. AtSpeed(s)' /\ Facing(s)' /\ Keyed(s)'
  <2> SUFFICES ASSUME l # NoLoco PROVE AtSpeed(s)' /\ Facing(s)' /\ Keyed(s)'
    BY <1>2 DEF AtSpeed, Facing, Keyed
  <2>1. /\ newSpeed'[s] = 0 /\ Display(s)' = 0 /\ dccAdress'[s] = l /\ bus' = bus
        /\ LocoState'[s] = {}
    BY ConnsAssumption DEF Own, Display, tableVars, TypeOK, LocoType
  <2>2. Same(0, bus[l].speed) /\ ~Moving(bus[l].speed)
    BY SameSpeeds DEF Stopped, Moving
  <2>3. AtSpeed(s)'
    BY <2>1, <2>2, SpeedZero DEF AtSpeed
  <2>4. Facing(s)'
    BY <2>1, <2>2 DEF Facing
  <2>5. \A f \in Unlatched(l) : f \notin bus[l].on
    BY <1>5
  <2>6. Keyed(s)'
    BY <1>4, <2>1, <2>5 DEF Keyed, Unlatched
  <2> QED
    BY <2>3, <2>4, <2>6
<1>8. GonePart'
  BY <1>1, GoneKept
<1>9. \A t \in Slots : AtSpeed(t)' /\ Facing(t)' /\ Keyed(t)'
  BY <1>1, <1>7, OthersKept
<1> QED
  BY <1>3, <1>6, <1>8, <1>9 DEF DriveInv

\* A function key.
LEMMA KeyLine ==
  ASSUME AllAssumed, TypeOK, WatchInv, BeatPart, TableInv, DriveInv,
         NEW c \in Conns, NEW s \in Slots, Own(c, s),
         NEW f \in Functions, NEW down \in BOOLEAN, Function(c, f, down)
  PROVE  DriveInv'
<1> DEFINE l == dccAdress[s]
           on == Switched(l, f, down, LocoState[s])
           keys == IF down THEN held[c] \cup {f} ELSE held[c] \ {f}
           sent == (bus[l].on \ Group(f)) \cup (on \cap Group(f))
<1>1. arg[c] = s /\ pcb[s] = c /\ c # NoConn
  BY ConnsAssumption DEF Own
<1>2. l # NoLoco /\ l \in Locos /\ ready
  BY <1>1, AssumedGuards DEF Function, Steers, Drives, TypeOK, LocoType
<1>3. /\ UNCHANGED <<tableVars, dccAdress, dir>> /\ (down <=> f \notin held[c])
      /\ held' = [held EXCEPT ![c] = keys]
      /\ LocoState' = [LocoState EXCEPT ![s] = on]
      /\ IF Kind(l, f) = "lockable" /\ ~down
         THEN UNCHANGED bus ELSE Drive(s, newSpeed[s], dir[s], sent)
      /\ Finish(s, newSpeed[s], shown)
  BY <1>1 DEF Function, Ignored, Steers, Drives, Speaks
<1>4. newSpeed' = newSpeed /\ shown' = shown
  <2>1. newSpeed' = [newSpeed EXCEPT ![s] = newSpeed[s]] /\ shown' = shown
    BY <1>3, Unfired
  <2> QED
    BY <2>1 DEF TypeOK, LocoType
<1>k. Keys(s) = held[c] /\ Keys(s)' = keys /\ Display(s)' = Display(s)
  BY <1>1, <1>3, <1>4 DEF Keys, Display, tableVars, TypeOK, PhoneType
<1>5. \A g \in Unlatched(l) : /\ g \in LocoState[s] <=> g \in held[c]
                              /\ g \in bus[l].on <=> g \in held[c]
  BY <1>2, <1>k DEF DriveInv, Keyed
<1>6. ASSUME NEW g \in Unlatched(l) PROVE g \in on <=> g \in keys
  <2>1. \A h \in Unlatched(l) : h \in LocoState[s] <=> h \in held[c]
    BY <1>5
  <2>2. l \in Locos /\ (down <=> f \notin held[c])
    BY <1>2, <1>3
  <2> HIDE DEF l
  <2> QED
    BY ONLY <1>6, <2>1, <2>2, SwitchedFollows DEF on, keys
<1>7. LocoState'[s] = on
  BY <1>3 DEF TypeOK, LocoType
<1>8. CASE Kind(l, f) = "lockable" /\ ~down
  <2>1. bus' = bus
    BY <1>3, <1>8
  <2>2. Moves(c, s)
    BY <1>3, <1>4, <2>1 DEF Moves, TypeOK, LocoType, PhoneType
  <2>3. \A g \in Unlatched(l) : g # f
    BY <1>8 DEF Unlatched
  <2>4. \A g \in Unlatched(l) : g \in bus'[l].on <=> g \in keys
    BY <1>5, <1>8, <2>1, <2>3
  <2>5. Keyed(s)'
    BY <1>3, <1>6, <1>7, <1>k, <2>4 DEF Keyed, Unlatched
  <2>6. AtSpeed(s)' /\ Facing(s)'
    BY <1>3, <1>4, <1>k, <2>1 DEF DriveInv, AtSpeed, Facing
  <2> QED
    BY <1>3, <2>2, <2>5, <2>6, SameDrivers
<1>9. CASE ~(Kind(l, f) = "lockable" /\ ~down)
  <2> DEFINE v == newSpeed[s]
             d == dir[s]
  <2>1. bus' = [bus EXCEPT ![l] = [speed |-> SpeedWord(v), fwd |-> Forward(v, d), on |-> sent]]
    BY <1>2, <1>3, <1>9 DEF Drive
  <2>2. Moves(c, s)
    BY <1>2, <1>3, <1>4, <2>1 DEF Moves, TypeOK, LocoType, PhoneType, BusType
  <2>3. bus'[l].speed = SpeedWord(v) /\ bus'[l].fwd = Forward(v, d) /\ bus'[l].on = sent
    BY <1>2, <2>1 DEF TypeOK, BusType
  <2>4. v \in Speeds \cup {0}
    BY DEF TypeOK, LocoType
  <2>5. \A g \in Unlatched(l) : g \in sent <=> g \in keys
    <3> SUFFICES ASSUME NEW g \in Unlatched(l) PROVE g \in sent <=> g \in keys
      OBVIOUS
    <3>1. g \in on <=> g \in keys
      BY <1>6
    <3>2. CASE g \in Group(f)
      BY <3>1, <3>2
    <3>3. CASE g \notin Group(f)
      <4>1. g # f
        BY <3>3, OwnGroup
      <4> QED
        BY <1>5, <3>3, <4>1
    <3> QED
      BY <3>2, <3>3
  <2>6. Keyed(s)'
    <3> HIDE DEF sent, on, keys
    <3> QED
      BY <1>3, <1>6, <1>7, <1>k, <2>3, <2>5 DEF Keyed, Unlatched
  <2>7. AtSpeed(s)'
    <3>1. Same(SpeedWord(v), bus[l].speed) /\ Same(SpeedWord(Display(s)), bus[l].speed)
      BY <1>2 DEF DriveInv, AtSpeed
    <3>2. Same(SpeedWord(Display(s)), SpeedWord(v)) /\ Same(SpeedWord(v), SpeedWord(v))
      BY <3>1, SameSpeeds
    <3> QED
      BY <1>3, <1>4, <1>k, <2>3, <3>2 DEF AtSpeed
  <2>8. Facing(s)'
    BY <1>3, <2>3, <2>4, ForwardMeans DEF Facing
  <2> QED
    BY <1>3, <2>2, <2>6, <2>7, <2>8, SameDrivers
<1> QED
  BY <1>8, <1>9

-----------------------------------------------------------------------------
(* Every step keeps the invariant. *)

LEMMA ReplyShows ==
  ASSUME TypeOK, NEW c \in Conns, NEW s \in Slots, Own(c, s), NEW v
  PROVE  Reply(shown, s, v) = [shown EXCEPT ![c] = v]
  BY ConnsAssumption DEF Reply, Own

\* What a client that may let go has left at rest.
LEMMA LetGo ==
  ASSUME AllAssumed, TypeOK, DriveInv, NEW c \in Conns, NEW s \in Slots, Own(c, s), MayLetGo(c)
  PROVE  /\ held[c] = {}
         /\ dccAdress[s] # NoLoco =>
              Stopped(dccAdress[s]) /\ Same(SpeedWord(0), bus[dccAdress[s]].speed)
  BY AssumedGuards, SameSpeeds, SpeedZero DEF MayLetGo, Own, Stopped

LEMMA DriveLine ==
  ASSUME AllAssumed, PhoneInv, NEW c \in Conns, Line(c)
  PROVE  DriveInv'
<1> USE DEF PhoneInv
<1>0. PICK s \in Slots : s = arg[c]
  BY DEF TypeOK, TableType
<1>1. Own(c, s)
  <2>1. tcp[c] = "open"
    BY LineKeepsOthers
  <2> QED
    BY <1>0, <2>1 DEF Own, TableInv, SlotOwned
<1>2. newSpeed = [newSpeed EXCEPT ![s] = newSpeed[s]] /\ shown = [shown EXCEPT ![c] = shown[c]]
      /\ dir = [dir EXCEPT ![s] = dir[s]]
  BY DEF TypeOK, LocoType, PhoneType
<1>3. dccAdress[s] # NoLoco => /\ Same(SpeedWord(newSpeed[s]), bus[dccAdress[s]].speed)
                               /\ Same(SpeedWord(shown[c]), bus[dccAdress[s]].speed)
  <2>1. AtSpeed(s) /\ Display(s) = shown[c]
    BY <1>1, ConnsAssumption DEF DriveInv, Display, Own
  <2> QED
    BY <2>1 DEF AtSpeed
<1>4. ASSUME NEW v, NEW show, Finish(s, v, show)
      PROVE  newSpeed' = [newSpeed EXCEPT ![s] = v] /\ shown' = show
  BY <1>4, Unfired
<1>5. CASE OtherLine(c) \/ Emergency(c)
  <2>1. /\ UNCHANGED <<tableVars, dccAdress, dir, LocoState, held, bus>>
        /\ Finish(s, newSpeed[s], shown)
    BY <1>0, <1>5 DEF OtherLine, Emergency, Drives, Speaks
  <2>2. /\ newSpeed' = [newSpeed EXCEPT ![s] = newSpeed[s]]
        /\ shown' = [shown EXCEPT ![c] = shown[c]]
    BY <1>2, <1>4, <2>1
  <2> QED
    BY <1>1, <1>3, <2>1, <2>2, StillLine
<1>6. CASE QuerySpeed(c)
  <2>1. /\ UNCHANGED <<tableVars, dccAdress, dir, LocoState, held, bus>>
        /\ Finish(s, newSpeed[s], Reply(shown, s, newSpeed[s]))
    BY <1>0, <1>6 DEF QuerySpeed, Drives, Speaks
  <2>2. /\ newSpeed' = [newSpeed EXCEPT ![s] = newSpeed[s]]
        /\ shown' = [shown EXCEPT ![c] = newSpeed[s]]
    BY <1>1, <1>4, <2>1, ReplyShows
  <2> QED
    BY <1>1, <1>3, <2>1, <2>2, StillLine
<1>7. CASE QuitLoco(c)
  <2>1. /\ UNCHANGED <<tableVars, dccAdress, dir, LocoState, held, bus>>
        /\ Finish(s, 0, shown) /\ MayLetGo(c)
    BY <1>0, <1>7 DEF QuitLoco, Drives, Speaks
  <2>2. newSpeed' = [newSpeed EXCEPT ![s] = 0] /\ shown' = [shown EXCEPT ![c] = shown[c]]
    BY <1>2, <1>4, <2>1
  <2> QED
    BY <1>1, <1>3, <2>1, <2>2, LetGo, StillLine
<1>8. CASE Quit(c)
  <2>1. /\ UNCHANGED <<tableVars, dccAdress, dir, LocoState, held, bus>>
        /\ newSpeed' = [newSpeed EXCEPT ![s] = 0] /\ shown' = shown /\ MayLetGo(c)
    BY <1>0, <1>8 DEF Quit, Speaks, ThrottleStop, busVars
  <2>2. shown' = [shown EXCEPT ![c] = shown[c]]
    BY <1>2, <2>1
  <2> QED
    BY <1>1, <1>3, <2>1, <2>2, LetGo, StillLine
<1>9. ASSUME NEW plus \in BOOLEAN, Beat(c, plus) PROVE DriveInv'
  <2>1. /\ UNCHANGED <<tableVars, dccAdress, dir, LocoState, held, bus>>
        /\ Checked(s, newSpeed[s], shown, now, plus \/ heartbeatEnable[s])
    BY <1>0, <1>9 DEF Beat, Speaks
  <2>2. newSpeed' = [newSpeed EXCEPT ![s] = newSpeed[s]] /\ shown' = shown
    BY <2>1, PresentNotExpired DEF Checked
  <2>3. shown' = [shown EXCEPT ![c] = shown[c]]
    BY <1>2, <2>2
  <2> QED
    BY <1>1, <1>3, <2>1, <2>2, <2>3, StillLine
<1>10. CASE Idle(c)
  <2>1. /\ UNCHANGED <<tableVars, dccAdress, dir, LocoState, held>>
        /\ dccAdress[s] # NoLoco /\ ready
        /\ Drive(s, 0, dir[s], bus[dccAdress[s]].on) /\ Finish(s, 0, [shown EXCEPT ![c] = 0])
    BY <1>0, <1>10, AssumedGuards DEF Idle, Steers, Drives, Speaks
  <2>2. /\ dir' = [dir EXCEPT ![s] = dir[s]] /\ 0 \in Speeds \cup {0}
        /\ newSpeed' = [newSpeed EXCEPT ![s] = 0] /\ shown' = [shown EXCEPT ![c] = 0]
    BY <1>2, <1>4, <2>1
  <2> QED
    BY <1>1, <2>1, <2>2, DrivenLine
<1>11. ASSUME NEW v \in Speeds, SetSpeed(c, v) PROVE DriveInv'
  <2>1. /\ UNCHANGED <<tableVars, dccAdress, dir, LocoState, held>>
        /\ dccAdress[s] # NoLoco /\ ready
        /\ Drive(s, v, dir[s], bus[dccAdress[s]].on) /\ Finish(s, v, [shown EXCEPT ![c] = v])
    BY <1>0, <1>11, AssumedGuards DEF SetSpeed, Steers, Drives, Speaks
  <2>2. /\ dir' = [dir EXCEPT ![s] = dir[s]] /\ v \in Speeds \cup {0}
        /\ newSpeed' = [newSpeed EXCEPT ![s] = v] /\ shown' = [shown EXCEPT ![c] = v]
    BY <1>2, <1>4, <2>1
  <2> QED
    BY <1>1, <2>1, <2>2, DrivenLine
<1>12. ASSUME NEW d \in {0, 1}, Reverse(c, d) PROVE DriveInv'
  <2>1. /\ UNCHANGED <<tableVars, dccAdress, LocoState, held>> /\ dccAdress[s] # NoLoco /\ ready
        /\ dir' = [dir EXCEPT ![s] = d]
        /\ Drive(s, 0, d, bus[dccAdress[s]].on) /\ Finish(s, 0, Reply(shown, s, 0))
    BY <1>0, <1>12, AssumedGuards DEF Reverse, Steers, Drives, Speaks
  <2>2. Reply(shown, s, 0) = [shown EXCEPT ![c] = 0]
    BY <1>1, ReplyShows
  <2> QED
    BY <1>1, <1>4, <2>1, <2>2, DrivenLine
<1>13. ASSUME NEW f \in Functions, NEW down \in BOOLEAN, Function(c, f, down) PROVE DriveInv'
  BY <1>1, <1>13, KeyLine
<1>14. CASE Release(c)
  <2>1. /\ UNCHANGED <<tableVars, dir, LocoState, held, bus>> /\ MayLetGo(c)
        /\ dccAdress' = [dccAdress EXCEPT ![s] = NoLoco]
        /\ Checked(s, 0, shown, 0, heartbeatEnable[s])
    BY <1>0, <1>14 DEF Release, Speaks
  <2>2. newSpeed' = [newSpeed EXCEPT ![s] = 0] /\ shown' = shown
    BY <2>1, PresentNotExpired DEF Checked
  <2>3. held[c] = {}
    BY <1>1, <2>1, LetGo
  <2> QED
    BY <1>1, <2>1, <2>2, <2>3, HandOver
<1>15. ASSUME NEW l \in Locos \cup {NoLoco}, Take(c, l) PROVE DriveInv'
  <2>1. /\ UNCHANGED <<tableVars, held, bus>> /\ MayLetGo(c)
        /\ dccAdress' = [dccAdress EXCEPT ![s] = l]
        /\ LocoState' = [LocoState EXCEPT ![s] = {}] /\ dir' = [dir EXCEPT ![s] = 1]
        /\ Finish(s, 0, Reply(shown, s, 0))
    BY <1>0, <1>15 DEF Take, Speaks
  <2>2. newSpeed' = [newSpeed EXCEPT ![s] = 0] /\ shown' = [shown EXCEPT ![c] = 0]
    BY <1>1, <1>4, <2>1, ReplyShows
  <2>3. l # NoLoco => Stopped(l) /\ \A t \in Slots \ {s} : dccAdress[t] # l
    BY <1>0, <1>15, AssumedGuards DEF Take
  <2>4. held[c] = {}
    BY <1>1, <2>1, LetGo
  <2>5. \A t \in Slots \ {s} : /\ l # NoLoco => dccAdress[t] # l
                               /\ dir'[t] = dir[t] /\ LocoState'[t] = LocoState[t]
    BY <2>1, <2>3 DEF TypeOK, LocoType
  <2>6. l # NoLoco => Stopped(l) /\ LocoState'[s] = {} /\ shown'[c] = 0
    BY <2>1, <2>2, <2>3 DEF TypeOK, LocoType, PhoneType
  <2>7. \A d \in Conns \ {c} : shown'[d] = shown[d]
    BY <2>2 DEF TypeOK, PhoneType
  <2> QED
    BY <1>1, <2>1, <2>2, <2>4, <2>5, <2>6, <2>7, HandOver
<1> QED
  BY <1>5, <1>6, <1>7, <1>8, <1>9, <1>10, <1>11, <1>12, <1>13, <1>14, <1>15
     DEF Line, QuietLine, SpeedLine

LEMMA DriveConnection ==
  ASSUME AllAssumed, PhoneInv, NEW c \in Conns, Connection(c)
  PROVE  DriveInv'
<1> USE AssumedGuards DEF PhoneInv
<1>1. ASSUME NEW s \in Slots, UNCHANGED <<dccAdress, dir, LocoState, bus>>, GonePart',
             \A t \in Slots : Keys(t)' = Keys(t),
             \A t \in Slots \ {s} : newSpeed'[t] = newSpeed[t] /\ Display(t)' = Display(t),
             AtSpeed(s)'
      PROVE  DriveInv'
  <2>1. OneDriver' /\ ParkedPart'
    BY <1>1 DEF DriveInv, OneDriver, ParkedPart, Unlatched
  <2>2. ASSUME NEW t \in Slots PROVE AtSpeed(t)' /\ Facing(t)' /\ Keyed(t)'
    <3>1. Facing(t)' /\ Keyed(t)'
      BY <1>1 DEF DriveInv, Facing, Keyed, Unlatched
    <3>2. AtSpeed(t)'
      BY <1>1 DEF DriveInv, AtSpeed
    <3> QED
      BY <3>1, <3>2
  <2> QED
    BY <1>1, <2>1, <2>2 DEF DriveInv
<1>2. CASE Accept(c)
  <2>1. PICK s \in Slots : /\ FirstFree(s)
                           /\ pcb' = [pcb EXCEPT ![s] = c]
    BY <1>2 DEF Accept
  <2>2. /\ pcb[s] = NoConn /\ tcp[c] = "none" /\ tcp' = [tcp EXCEPT ![c] = "open"]
        /\ UNCHANGED <<locoVars, phoneVars, busVars>>
    BY <1>2, <2>1 DEF Accept, FirstFree, Free
  <2>3. shown[c] = 0 /\ held[c] = {}
    BY <2>2 DEF DriveInv, GonePart
  <2>4. ASSUME NEW t \in Slots PROVE Keys(t)' = Keys(t) /\ Display(t)' = Display(t)
    <3>1. pcb'[t] = IF t = s THEN c ELSE pcb[t]
      BY <2>1 DEF TypeOK, TableType
    <3> QED
      BY <2>2, <2>3, <3>1, ConnsAssumption DEF Keys, Display, phoneVars
  <2>5. GonePart'
    BY <2>2 DEF DriveInv, GonePart, phoneVars, TypeOK, TableType
  <2>6. AtSpeed(s)'
    BY <2>2, <2>4 DEF DriveInv, AtSpeed, locoVars, busVars
  <2> QED
    BY <1>1, <2>2, <2>4, <2>5, <2>6 DEF locoVars, busVars
<1>3. CASE PeerCloses(c) \/ ErrorReported(c)
  <2>0. PICK s \in Slots : s = arg[c]
    BY DEF TypeOK, TableType
  <2>1. /\ tcp[c] = "open" /\ MayLetGo(c)
        /\ \E state \in {"none", "closing"} : tcp' = [tcp EXCEPT ![c] = state]
        /\ pcb' = [pcb EXCEPT ![s] = NoConn] /\ ThrottleStop(s) /\ PhoneLeaves(c)
    BY <1>3, <2>0 DEF PeerCloses, ErrorReported
  <2>2. Own(c, s)
    BY <2>0, <2>1 DEF Own, TableInv, SlotOwned
  <2>3. /\ newSpeed' = [newSpeed EXCEPT ![s] = 0]
        /\ UNCHANGED <<dccAdress, dir, LocoState, bus>>
    BY <2>1 DEF ThrottleStop, busVars
  <2>4. shown' = [shown EXCEPT ![c] = 0] /\ held' = [held EXCEPT ![c] = {}]
    BY <2>1 DEF PhoneLeaves
  <2>5. /\ held[c] = {}
        /\ dccAdress[s] # NoLoco => Same(SpeedWord(0), bus[dccAdress[s]].speed)
    BY <2>1, <2>2, LetGo
  <2>6. Keys(s) = {} /\ Keys(s)' = {} /\ Display(s)' = 0 /\ newSpeed'[s] = 0
    BY <2>1, <2>2, <2>3, <2>5, ConnsAssumption DEF Keys, Display, Own, TypeOK, TableType, LocoType
  <2>7. ASSUME NEW t \in Slots \ {s}
        PROVE  Keys(t)' = Keys(t) /\ Display(t)' = Display(t) /\ newSpeed'[t] = newSpeed[t]
    <3>1. pcb'[t] = pcb[t] /\ newSpeed'[t] = newSpeed[t]
      BY <2>1, <2>3 DEF TypeOK, TableType, LocoType
    <3>2. pcb[t] # NoConn => arg[pcb[t]] = t
      BY DEF TableInv, SlotOwned
    <3>3. pcb[t] # c /\ pcb[t] \in Conns \cup {NoConn}
      BY <2>0, <3>2, ConnsAssumption DEF TypeOK, TableType
    <3> QED
      BY <2>4, <3>1, <3>3 DEF Keys, Display, TypeOK, PhoneType
  <2>8. GonePart'
    BY <2>1, <2>4 DEF DriveInv, GonePart, TypeOK, TableType, PhoneType
  <2>9. AtSpeed(s)'
    BY <2>3, <2>5, <2>6 DEF AtSpeed
  <2> QED
    BY <1>1, <2>3, <2>6, <2>7, <2>8, <2>9
<1>4. CASE ClosingEnds(c)
  <2>1. /\ UNCHANGED <<pcb, locoVars, phoneVars, busVars>> /\ tcp[c] = "closing"
        /\ tcp' = [tcp EXCEPT ![c] = "none"]
    BY <1>4 DEF ClosingEnds
  <2>2. GonePart'
    BY <2>1 DEF DriveInv, GonePart, phoneVars, TypeOK, TableType
  <2>3. \A t \in Slots : Keys(t)' = Keys(t) /\ Display(t)' = Display(t)
    BY <2>1 DEF Keys, Display, phoneVars
  <2>4. \A t \in Slots : AtSpeed(t)'
    BY <2>1, <2>3 DEF DriveInv, AtSpeed, locoVars, busVars
  <2> QED
    BY <1>1, <2>1, <2>2, <2>3, <2>4, SlotsAssumption DEF locoVars, busVars
<1> QED
  BY <1>2, <1>3, <1>4 DEF Connection

LEMMA DriveNext ==
  ASSUME AllAssumed, PhoneInv, [Next]_vars
  PROVE  DriveInv'
<1>1. CASE UNCHANGED <<tableVars, locoVars, phoneVars, bus>>
  BY <1>1 DEF PhoneInv, DriveInv, OneDriver, GonePart, ParkedPart, AtSpeed, Facing, Keyed,
     Display, Keys, Unlatched, tableVars, locoVars, phoneVars
<1>2. CASE \E c \in Conns : Connection(c)
  BY <1>2, DriveConnection
<1>3. CASE \E c \in Conns : Line(c)
  BY <1>3, DriveLine
<1>4. CASE Tick
  BY <1>1, <1>4 DEF Tick, busVars
<1>5. CASE LinkChanges
  BY <1>1, <1>5 DEF LinkChanges
<1>6. CASE UNCHANGED vars
  BY <1>1, <1>6 DEF vars, busVars
<1> QED
  BY <1>2, <1>3, <1>4, <1>5, <1>6 DEF Next

LEMMA PhoneInvariant ==
  ASSUME AllAssumed
  PROVE  Spec => []PhoneInv
<1> DEFINE Rest == WatchInv /\ BeatPart /\ DriveInv
<1>1. Init => Rest
  <2> SUFFICES ASSUME Init PROVE Rest
    OBVIOUS
  <2>1. BeatPart
    BY DEF Init, BeatPart
  <2>2. DriveInv
    BY DEF Init, DriveInv, OneDriver, GonePart, ParkedPart, AtSpeed, Facing, Keyed
  <2> QED
    BY <2>1, <2>2, WatchInit
<1>2. TypeOK /\ TableInv /\ Rest /\ [Next]_vars => Rest'
  BY AssumedGuards, WatchNext, BeatNext, DriveNext DEF PhoneInv
<1>3. TypeOK /\ TableInv /\ Rest => PhoneInv
  BY DEF PhoneInv
<1>4. Spec => []TableInv
  BY AssumedGuards, TableInvariant
<1> HIDE DEF Rest
<1> QED
  BY <1>1, <1>2, <1>3, <1>4, TypeCorrect, PTL DEF Spec

-----------------------------------------------------------------------------
(* The theorems. *)

(***************************************************************************)
(* Whatever the roster, the speeds and the number of clients: an open       *)
(* phone shows the speed its locomotive was last told, or both are at rest  *)
(* (withrottle_if.c:165-219, 384-440), when the environment keeps to all of *)
(* Assumptions.                                                             *)
(***************************************************************************)
THEOREM PhoneMatches ==
  ASSUME AllAssumed
  PROVE  Spec => []PhoneMatchesBus
<1>1. PhoneInv => PhoneMatchesBus
  <2> SUFFICES ASSUME PhoneInv, NEW c \in Conns, tcp[c] = "open", dccAdress[arg[c]] # NoLoco
               PROVE  \/ SpeedWord(shown[c]) = bus[dccAdress[arg[c]]].speed
                      \/ ~Moving(SpeedWord(shown[c])) /\ ~Moving(bus[dccAdress[arg[c]]].speed)
    BY DEF PhoneMatchesBus
  <2>1. arg[c] \in Slots /\ pcb[arg[c]] = c
    BY DEF PhoneInv, TypeOK, TableType, TableInv, SlotOwned
  <2>2. AtSpeed(arg[c]) /\ Display(arg[c]) = shown[c]
    BY <2>1, ConnsAssumption DEF PhoneInv, DriveInv, Display
  <2> QED
    BY <2>2 DEF AtSpeed, Same
<1> QED
  BY <1>1, PhoneInvariant, PTL

(***************************************************************************)
(* Whatever the roster: a function that is not lockable is on, in the slot  *)
(* and at the locomotive, exactly while its key is held down                *)
(* (withrottle_if.c:291-357), when the environment keeps to all of          *)
(* Assumptions.                                                             *)
(***************************************************************************)
THEOREM KeysFollowed ==
  ASSUME AllAssumed
  PROVE  Spec => []FunctionsFollowKeys
<1>1. PhoneInv => FunctionsFollowKeys
  <2> SUFFICES ASSUME PhoneInv, NEW c \in Conns, tcp[c] = "open", dccAdress[arg[c]] # NoLoco,
                      NEW f \in Functions, Kind(dccAdress[arg[c]], f) # "lockable"
               PROVE  /\ f \in LocoState[arg[c]] <=> f \in held[c]
                      /\ f \in bus[dccAdress[arg[c]]].on <=> f \in held[c]
    BY DEF FunctionsFollowKeys
  <2>1. arg[c] \in Slots /\ pcb[arg[c]] = c
    BY DEF PhoneInv, TypeOK, TableType, TableInv, SlotOwned
  <2>2. Keyed(arg[c]) /\ Keys(arg[c]) = held[c]
    BY <2>1, ConnsAssumption DEF PhoneInv, DriveInv, Keys
  <2> QED
    BY <2>2 DEF Keyed, Unlatched
<1> QED
  BY <1>1, PhoneInvariant, PTL

\* A command is for the locomotive of a slot, which keeps its direction or stops.
LEMMA Commanded ==
  ASSUME PhoneInv, [Next]_vars, NEW l \in Locos, bus'[l] # bus[l]
  PROVE  \E s \in Slots : /\ dccAdress[s] = l /\ dccAdress'[s] = l
                          /\ dir'[s] = dir[s] \/ bus'[l].speed = 0
<1>1. PICK c \in Conns : \/ Idle(c)
                         \/ \E v \in Speeds : SetSpeed(c, v)
                         \/ \E d \in {0, 1} : Reverse(c, d)
                         \/ \E f \in Functions, down \in BOOLEAN : Function(c, f, down)
  BY DEF Next, vars, Connection, Accept, PeerCloses, ErrorReported, ClosingEnds, ThrottleStop,
     Line, QuietLine, SpeedLine, Beat, Quit, OtherLine, Take, Release, QuitLoco, Emergency,
     QuerySpeed, Drives, Speaks,
     Tick, LinkChanges, busVars
<1>2. PICK s \in Slots : s = arg[c]
  BY DEF PhoneInv, TypeOK, TableType
<1>3. dccAdress' = dccAdress
  BY <1>1 DEF Idle, SetSpeed, Reverse, Function
<1>4. \E v, d, on : Drive(s, v, d, on)
  BY <1>1, <1>2 DEF Idle, SetSpeed, Reverse, Function, Drive
<1>5. dccAdress[s] = l
  BY <1>4 DEF Drive, PhoneInv, TypeOK, BusType
<1>6. CASE \E d \in {0, 1} : Reverse(c, d)
  <2>1. \E d, on : Drive(s, 0, d, on)
    BY <1>2, <1>6 DEF Reverse
  <2>2. bus'[l].speed = 0
    BY <1>5, <2>1, SpeedZero DEF Drive, PhoneInv, TypeOK, BusType
  <2> QED
    BY <1>3, <1>5, <2>2
<1>7. CASE ~\E d \in {0, 1} : Reverse(c, d)
  <2>1. dir' = dir
    BY <1>1, <1>7 DEF Idle, SetSpeed, Function
  <2> QED
    BY <1>3, <1>5, <2>1
<1> QED
  BY <1>6, <1>7

(***************************************************************************)
(* Whatever the roster, the speeds and the number of clients: no            *)
(* locomotive is told to change direction while it moves                    *)
(* (withrottle_if.c:404-411), when the environment keeps to all of          *)
(* Assumptions.                                                             *)
(***************************************************************************)
THEOREM ReversedAtRest ==
  ASSUME AllAssumed
  PROVE  Spec => ReverseOnlyStopped
<1> DEFINE AtRest == \A l \in Locos : bus'[l].fwd # bus[l].fwd =>
                       ~Moving(bus[l].speed) \/ ~Moving(bus'[l].speed)
<1>1. ASSUME PhoneInv, PhoneInv', [Next]_vars, NEW l \in Locos, bus'[l].fwd # bus[l].fwd,
             Moving(bus[l].speed), Moving(bus'[l].speed)
      PROVE  FALSE
  <2>1. PICK s \in Slots : /\ dccAdress[s] = l /\ dccAdress'[s] = l
                           /\ dir'[s] = dir[s] \/ bus'[l].speed = 0
    BY <1>1, Commanded
  <2>2. dir'[s] = dir[s] /\ l # NoLoco
    BY <1>1, <2>1, ConnsAssumption DEF Moving
  <2>3. bus[l].fwd <=> dir[s] = 1
    BY <1>1, <2>1, <2>2 DEF PhoneInv, DriveInv, Facing
  <2>4. bus'[l].fwd <=> dir'[s] = 1
    BY <1>1, <2>1, <2>2 DEF PhoneInv, DriveInv, Facing
  <2>5. bus[l].fwd \in BOOLEAN /\ bus'[l].fwd \in BOOLEAN
    BY <1>1 DEF PhoneInv, TypeOK, BusType, Drivable
  <2> QED
    BY <1>1, <2>2, <2>3, <2>4, <2>5
<1>2. PhoneInv /\ PhoneInv' /\ [Next]_vars => [AtRest]_vars
  BY <1>1
<1> HIDE DEF AtRest
<1>3. Spec => [][AtRest]_vars
  BY <1>2, PhoneInvariant, PTL DEF Spec
<1> QED
  BY <1>3 DEF AtRest, ReverseOnlyStopped

-----------------------------------------------------------------------------
(***************************************************************************)
(* The client behind the throttles.  The facts of BidibClient_proofs are    *)
(* used for the constants the gateway gives the client; the two instances   *)
(* say the same of every step.                                              *)
(***************************************************************************)

ClientFacts == INSTANCE BidibClient_proofs
               WITH Orders <- DriveOrders, Assumed <- LinkAssumed

\* The assumptions of BidibClient hold of the gateway's constants.
LEMMA ClientAssumes ==
  /\ ClientFacts!AddressAssumption /\ ClientFacts!FeatureAssumption /\ ClientFacts!QueueAssumption
  /\ ClientFacts!RequestAssumption /\ ClientFacts!AssumedAssumption
BY ClientAssumption, GatewayAssumption
   DEF ClientFacts!AddressAssumption, ClientFacts!FeatureAssumption, ClientFacts!QueueAssumption,
       ClientFacts!RequestAssumption, ClientFacts!AssumedAssumption, ClientFacts!RequestKinds,
       ClientFacts!Assumptions, ClientFacts!NumFeatures

\* The two instances have the same variables, and the same orders in the queue.
LEMMA SameNames ==
  /\ Client!vars = ClientFacts!vars
  /\ Client!Entries("drive") = ClientFacts!Entries("drive")
  /\ \A order : Client!DriveOrder(order) = ClientFacts!DriveOrder(order)
BY DEF Client!vars, ClientFacts!vars, Client!linkVars, ClientFacts!linkVars, Client!guestVars,
       ClientFacts!guestVars, Client!featureVars, ClientFacts!featureVars, Client!sendVars,
       ClientFacts!sendVars, Client!masterVars, ClientFacts!masterVars, Client!Entries,
       ClientFacts!Entries, Client!DriveOrder, ClientFacts!DriveOrder

\* The two instances take the same steps.
LEMMA SameSteps ==
  /\ Client!Init <=> ClientFacts!Init
  /\ Client!LogonToken <=> ClientFacts!LogonToken
  /\ Client!LogonRejected <=> ClientFacts!LogonRejected
  /\ \A a : Client!LogonAck(a) <=> ClientFacts!LogonAck(a)
  /\ Client!Timeout <=> ClientFacts!Timeout
  /\ Client!Poll <=> ClientFacts!Poll
  /\ \A to : Client!Request(to) <=> ClientFacts!Request(to)
  /\ Client!StreamStep <=> ClientFacts!StreamStep
  /\ \A order : Client!CsDrive(order) <=> ClientFacts!CsDrive(order)
  /\ Client!BoostState <=> ClientFacts!BoostState
<1>1. /\ Client!Init <=> ClientFacts!Init
      /\ Client!LogonToken <=> ClientFacts!LogonToken
      /\ Client!LogonRejected <=> ClientFacts!LogonRejected
      /\ \A a : Client!LogonAck(a) <=> ClientFacts!LogonAck(a)
      /\ Client!Timeout <=> ClientFacts!Timeout
  BY DEF Client!Init, ClientFacts!Init, Client!LogonToken, ClientFacts!LogonToken,
         Client!LogonRejected, ClientFacts!LogonRejected, Client!LogonAck,
         ClientFacts!LogonAck, Client!Timeout, ClientFacts!Timeout, Client!NumFeatures,
         ClientFacts!NumFeatures, Client!linkVars, ClientFacts!linkVars, Client!guestVars,
         ClientFacts!guestVars, Client!featureVars, ClientFacts!featureVars,
         Client!sendVars, ClientFacts!sendVars, Client!masterVars, ClientFacts!masterVars
<1>2. Client!Poll <=> ClientFacts!Poll
  BY DEF Client!Poll, ClientFacts!Poll, Client!NumExpected, ClientFacts!NumExpected,
         Client!ValueTold, ClientFacts!ValueTold, Client!FeaturesListed,
         ClientFacts!FeaturesListed, Client!TargetsAskedFor, ClientFacts!TargetsAskedFor,
         Client!MasterNum, ClientFacts!MasterNum, Client!Reports, ClientFacts!Reports,
         Client!Newest, ClientFacts!Newest, Client!Entries, ClientFacts!Entries,
         Client!linkVars, ClientFacts!linkVars, Client!guestVars, ClientFacts!guestVars,
         Client!featureVars, ClientFacts!featureVars, Client!sendVars,
         ClientFacts!sendVars, Client!masterVars, ClientFacts!masterVars
<1>3. \A to : Client!Request(to) <=> ClientFacts!Request(to)
  BY DEF Client!Request, ClientFacts!Request, Client!Query, ClientFacts!Query,
         Client!FeatureGetAll, ClientFacts!FeatureGetAll, Client!FeatureGetNext,
         ClientFacts!FeatureGetNext, Client!FeatureGet, ClientFacts!FeatureGet,
         Client!FeatureSet, ClientFacts!FeatureSet, Client!SysEnable,
         ClientFacts!SysEnable, Client!SysDisable, ClientFacts!SysDisable, Client!SysReset,
         ClientFacts!SysReset, Client!SubscriptionAnswer, ClientFacts!SubscriptionAnswer,
         Client!Accepts, ClientFacts!Accepts, Client!Clamped, ClientFacts!Clamped,
         Client!vars, ClientFacts!vars, Client!Send, ClientFacts!Send, Client!NumAfter,
         ClientFacts!NumAfter, Client!NextFeature, ClientFacts!NextFeature,
         Client!NumFeatures, ClientFacts!NumFeatures, Client!Feature, ClientFacts!Feature,
         Client!Plain, ClientFacts!Plain, Client!Subscribe, ClientFacts!Subscribe,
         Client!Targets, ClientFacts!Targets, Client!linkVars, ClientFacts!linkVars,
         Client!guestVars, ClientFacts!guestVars, Client!featureVars,
         ClientFacts!featureVars, Client!sendVars, ClientFacts!sendVars, Client!masterVars,
         ClientFacts!masterVars
<1>4. /\ Client!StreamStep <=> ClientFacts!StreamStep
      /\ \A order : Client!CsDrive(order) <=> ClientFacts!CsDrive(order)
      /\ Client!BoostState <=> ClientFacts!BoostState
  BY DEF Client!StreamStep, ClientFacts!StreamStep, Client!CsDrive, ClientFacts!CsDrive,
         Client!DriveOrder, ClientFacts!DriveOrder, Client!BoostState,
         ClientFacts!BoostState, Client!Send, ClientFacts!Send, Client!NumAfter,
         ClientFacts!NumAfter, Client!NextFeature, ClientFacts!NextFeature,
         Client!NumFeatures, ClientFacts!NumFeatures, Client!Feature, ClientFacts!Feature,
         Client!Plain, ClientFacts!Plain, Client!linkVars, ClientFacts!linkVars,
         Client!guestVars, ClientFacts!guestVars, Client!featureVars,
         ClientFacts!featureVars, Client!sendVars, ClientFacts!sendVars, Client!masterVars,
         ClientFacts!masterVars
<1> QED
  BY <1>1, <1>2, <1>3, <1>4

\* The two instances have the same next-state relation.
LEMMA SameNext == [Client!Next]_(Client!vars) <=> [ClientFacts!Next]_(ClientFacts!vars)
<1>1. Client!Next <=> ClientFacts!Next
  BY SameSteps DEF Client!Next, ClientFacts!Next, Client!Link, ClientFacts!Link
<1> QED
  BY <1>1
     DEF Client!vars, ClientFacts!vars, Client!linkVars, ClientFacts!linkVars, Client!guestVars,
         ClientFacts!guestVars, Client!featureVars, ClientFacts!featureVars, Client!sendVars,
         ClientFacts!sendVars, Client!masterVars, ClientFacts!masterVars

-----------------------------------------------------------------------------
(***************************************************************************)
(* Each of the two sees its own specification.                              *)
(***************************************************************************)

\* The types of both, and the flag that stands for the client.
GatewayTyped == TypeOK /\ ClientFacts!TypeOK /\ ready = Ready

\* A line that drives is for a locomotive of the table, and is a step of the throttles.
LEMMA SteerIsLine ==
  ASSUME GatewayTyped, NEW c \in Conns, DrivingLine(c)
  PROVE  Line(c) /\ dccAdress[arg[c]] \in Locos /\ ready' = ready
<1>1. Line(c) /\ Steers(c)
  BY DEF DrivingLine, Line, SpeedLine, Idle, SetSpeed, Reverse, Function
<1>2. arg[c] \in Slots /\ dccAdress[arg[c]] # NoLoco /\ ready' = ready
  BY <1>1 DEF Steers, Drives, Speaks, GatewayTyped, TypeOK, TableType
<1> QED
  BY <1>1, <1>2 DEF GatewayTyped, TypeOK, LocoType

\* What the client makes of a command leaves its connection and its guest alone.
LEMMA PassOnKeepsReady ==
  ASSUME NEW l, PassOn(l)
  PROVE  Ready' = Ready
<1>1. CASE Ready
  <2>1. UNCHANGED <<connect, spontan, guestEnabled>>
    BY <1>1 DEF PassOn, Client!CsDrive, Client!linkVars, Client!guestVars
  <2> QED
    BY <2>1 DEF Ready
<1>2. CASE ~Ready
  BY <1>2 DEF PassOn, clientVars, Ready
<1> QED
  BY <1>1, <1>2

\* What the throttles see of a step, and what becomes of the flag.
LEMMA ThrottleView ==
  ASSUME GatewayTyped, [GatewayNext]_gatewayVars
  PROVE  [Next]_vars /\ ready' = Ready'
<1>0. ready = Ready
  BY DEF GatewayTyped
<1>1. ASSUME NEW c \in Conns, Steer(c) PROVE Next /\ ready' = Ready'
  <2>1. Line(c) /\ ready' = ready
    BY <1>1, SteerIsLine DEF Steer
  <2>2. Ready' = Ready
    BY <1>1, PassOnKeepsReady DEF Steer
  <2> QED
    BY <1>0, <2>1, <2>2 DEF Next
<1>2. ASSUME NEW c \in Conns, Power(c) PROVE Next /\ ready' = Ready'
  <2>1. Line(c) /\ ready' = ready
    BY <1>2 DEF Power, Line, QuietLine, OtherLine, Speaks
  <2>2. Ready' = Ready
    BY <1>2 DEF Power, Client!BoostState, Client!linkVars, Client!guestVars, Ready
  <2> QED
    BY <1>0, <2>1, <2>2 DEF Next
<1>3. ASSUME ThrottleOnly PROVE Next /\ ready' = Ready'
  <2>1. Ready' = Ready
    BY <1>3 DEF ThrottleOnly, clientVars, Ready
  <2>2. CASE Tick
    BY <1>0, <2>1, <2>2 DEF Next, Tick, busVars
  <2>3. ASSUME NEW c \in Conns, Unheard(c) PROVE Next /\ ready' = ready
    <3>1. CASE Connection(c)
      BY <3>1 DEF Next, Connection, Accept, PeerCloses, ErrorReported, ClosingEnds, ThrottleStop,
         busVars
    <3>2. CASE QuietLine(c)
      BY <3>2 DEF Next, Line, QuietLine, Beat, Quit, OtherLine, Take, Release, QuitLoco,
         Emergency, QuerySpeed, Drives, Speaks
    <3>3. CASE \E f \in Functions : Function(c, f, FALSE)
      BY <3>3 DEF Next, Line, Function, Steers, Drives, Speaks
    <3> QED
      BY <2>3, <3>1, <3>2, <3>3 DEF Unheard
  <2> QED
    BY <1>0, <1>3, <2>1, <2>2, <2>3 DEF ThrottleOnly
<1>4. ASSUME ready' = Ready', UNCHANGED <<tableVars, watchVars, locoVars, phoneVars, bus>>
      PROVE  [Next]_vars /\ ready' = Ready'
  <2>1. ready \in BOOLEAN /\ ready' \in BOOLEAN
    BY <1>0, <1>4 DEF Ready
  <2>2. CASE ready' = ready
    BY <1>4, <2>2 DEF vars, busVars
  <2>3. CASE ready' # ready
    <3>1. LinkChanges
      BY <1>4, <2>1, <2>3 DEF LinkChanges
    <3> QED
      BY <1>4, <3>1 DEF Next
  <2> QED
    BY <2>2, <2>3
<1>5. CASE Read \/ Disconnect \/ Serve
  BY <1>4, <1>5 DEF Read, Disconnect, Serve, ClientStep
<1>6. CASE UNCHANGED gatewayVars
  BY <1>0, <1>6 DEF gatewayVars, vars, busVars, clientVars, Ready
<1> QED
  BY <1>1, <1>2, <1>3, <1>5, <1>6 DEF GatewayNext

\* What the client sees of a step.
LEMMA ClientView ==
  ASSUME GatewayTyped, TypeOK', [GatewayNext]_gatewayVars
  PROVE  [Client!Next]_(Client!vars)
<1>1. ASSUME NEW c \in Conns, Steer(c) PROVE [Client!Next]_(Client!vars)
  <2>1. PICK l \in Locos : PassOn(l)
    BY <1>1, SteerIsLine DEF Steer
  <2> DEFINE order == [loco |-> l, speed |-> bus'[l].speed, fwd |-> bus'[l].fwd]
  <2>2. order \in DriveOrders
    BY DEF TypeOK, BusType, Drivable, DriveOrders
  <2>3. CASE Ready
    <3>1. Client!CsDrive(order)
      BY <2>1, <2>3 DEF PassOn
    <3> QED
      BY <2>2, <3>1 DEF Client!Next
  <2>4. CASE ~Ready
    BY <2>1, <2>4
       DEF PassOn, clientVars, Client!vars, Client!linkVars, Client!guestVars,
           Client!featureVars, Client!sendVars, Client!masterVars
  <2> QED
    BY <2>3, <2>4
<1>2. CASE \E c \in Conns : Power(c)
  BY <1>2 DEF Power, Client!Next
<1>3. CASE ThrottleOnly \/ UNCHANGED gatewayVars
  BY <1>3 DEF ThrottleOnly, gatewayVars, clientVars, Client!vars, Client!linkVars,
     Client!guestVars, Client!featureVars, Client!sendVars, Client!masterVars
<1>4. CASE Read \/ Disconnect \/ Serve
  BY <1>4 DEF Read, Disconnect, Serve, ClientStep, Client!Next, Client!Link
<1> QED
  BY <1>1, <1>2, <1>3, <1>4 DEF GatewayNext

\* Both types, and the flag, at every moment.
LEMMA GatewayTypes == GatewaySpec => []GatewayTyped
<1>1. GatewayInit => GatewayTyped
  <2> SUFFICES ASSUME GatewayInit PROVE GatewayTyped
    OBVIOUS
  <2>1. TypeOK /\ ClientFacts!TypeOK
    BY InitType, SameSteps, ClientFacts!InitType, ClientAssumes DEF GatewayInit
  <2>2. ready = Ready
    BY DEF GatewayInit, Client!Init, Ready
  <2> QED
    BY <2>1, <2>2 DEF GatewayTyped
<1>2. GatewayTyped /\ [GatewayNext]_gatewayVars => GatewayTyped'
  <2> SUFFICES ASSUME GatewayTyped, [GatewayNext]_gatewayVars PROVE GatewayTyped'
    OBVIOUS
  <2>1. TypeOK' /\ ready' = Ready'
    BY ThrottleView, NextType DEF GatewayTyped
  <2>2. [ClientFacts!Next]_(ClientFacts!vars)
    BY <2>1, ClientView, SameNext
  <2>3. ClientFacts!TypeOK'
    BY <2>2, ClientFacts!NextKeepsType, ClientAssumes DEF GatewayTyped
  <2> QED
    BY <2>1, <2>3 DEF GatewayTyped
<1> QED
  BY <1>1, <1>2, PTL DEF GatewaySpec

(***************************************************************************)
(* The throttles with the client behind them do what the throttles do with  *)
(* a flag that changes as it likes: what is proved of WiThrottle holds of   *)
(* the gateway (bidib_client_parser.c:935-956).                             *)
(***************************************************************************)
THEOREM ThrottlesImplemented == GatewaySpec => Spec
<1>1. GatewayInit => Init
  BY DEF GatewayInit
<1>2. GatewayTyped /\ [GatewayNext]_gatewayVars => [Next]_vars
  BY ThrottleView
<1> QED
  BY <1>1, <1>2, GatewayTypes, PTL DEF GatewaySpec, Spec

(***************************************************************************)
(* The client with the throttles in front of it does what the client does   *)
(* with orders that come as they like: what is proved of BidibClient holds  *)
(* of the gateway (bidib_client_parser.c:926-962).                          *)
(***************************************************************************)
THEOREM ClientImplemented == GatewaySpec => Client!Spec
<1>1. GatewayInit => Client!Init
  BY DEF GatewayInit
<1>2. GatewayTyped /\ GatewayTyped' /\ [GatewayNext]_gatewayVars => [Client!Next]_(Client!vars)
  BY ClientView DEF GatewayTyped
<1> QED
  BY <1>1, <1>2, GatewayTypes, PTL DEF GatewaySpec, Client!Spec

-----------------------------------------------------------------------------
(***************************************************************************)
(* The orders on their way.                                                 *)
(***************************************************************************)

\* A set of places in a queue that is not empty has a last one.
LEMMA HasLast ==
  ASSUME NEW n \in Nat, NEW S \in SUBSET (1..n), S # {}
  PROVE  \E i \in S : \A j \in S : j <= i
<1> DEFINE T == {k \in Nat : n - k \in S}
           R == OpToRel(<, Nat)
<1>1. T \subseteq Nat /\ T # {}
  <2>1. PICK i \in S : TRUE
    OBVIOUS
  <2>2. n - i \in T
    BY <2>1
  <2> QED
    BY <2>2
<1>2. IsWellFoundedOn(R, Nat)
  BY NatLessThanWellFounded
<1>3. R = {ss \in Nat \X Nat : ss[1] < ss[2]}
  BY DEF OpToRel
<1> HIDE DEF T, R
<1>4. PICK x \in T : \A y \in T : ~(<<y, x>> \in R)
  BY <1>1, <1>2, WFMin
<1>5. ASSUME NEW y \in T PROVE x <= y
  <2>1. x \in Nat /\ y \in Nat /\ <<y, x>> \in Nat \X Nat
    BY <1>1
  <2>2. y < x => <<y, x>> \in R
    BY <1>3, <2>1
  <2> QED
    BY <1>4, <2>1, <2>2
<1>6. n - x \in S /\ \A j \in S : n - j \in T
  BY <1>1 DEF T
<1> QED
  BY <1>1, <1>5, <1>6

\* The last of a set of places.
LEMMA MaxOfPlaces ==
  ASSUME NEW n \in Nat, NEW S \in SUBSET (1..n), S # {}
  PROVE  Max(S) \in S /\ \A j \in S : j <= Max(S)
<1>1. \E i \in S : \A j \in S : i >= j
  BY HasLast
<1>2. Max(S) \in S /\ \A j \in S : Max(S) >= j
  BY <1>1 DEF Max
<1> QED
  BY <1>2

\* The orders that wait, and what the station is told, in a step that adds none.
LEMMA OrdersKept ==
  ASSUME NEW l, Len(queue) \in Nat, DOMAIN queue = 1..Len(queue), station'[l] = station[l],
         Client!Entries("drive")' = Client!Entries("drive"),
         \A i \in Client!Entries("drive") : queue'[i] = queue[i]
  PROVE  Waiting(l)' = Waiting(l) /\ StationTold(l)' = StationTold(l)
<1>1. Waiting(l)' = Waiting(l) /\ Waiting(l) \in SUBSET (1..Len(queue))
  BY DEF Waiting, Client!Entries
<1>2. \A i \in Waiting(l) : queue'[i] = queue[i]
  BY DEF Waiting
<1>3. CASE Waiting(l) = {}
  BY <1>1, <1>3 DEF StationTold
<1>4. CASE Waiting(l) # {}
  <2> DEFINE k == Max(Waiting(l))
  <2>1. k \in Waiting(l)
    BY <1>1, <1>4, MaxOfPlaces
  <2>2. Max(Waiting(l))' = k
    BY <1>1
  <2>3. StationTold(l) = Order(k) /\ StationTold(l)' = Order(Max(Waiting(l)))'
    BY <1>1, <1>4 DEF StationTold
  <2> HIDE DEF k
  <2> QED
    BY <1>1, <1>2, <2>1, <2>2, <2>3 DEF Order
<1> QED
  BY <1>1, <1>3, <1>4

\* The same in a step that adds an order for l0.
LEMMA OrderAdded ==
  ASSUME NEW l0, NEW order \in DriveOrders, order.loco = l0, NEW n \in Nat,
         DOMAIN queue = 1..n, DOMAIN queue' = 1..n+1,
         queue'[n + 1].body = Client!DriveOrder(order),
         \A i \in 1..n : queue'[i] = queue[i], station' = station
  PROVE  /\ StationTold(l0)' = [speed |-> order.speed, fwd |-> order.fwd]
         /\ \A l : l # l0 => StationTold(l)' = StationTold(l)
<1>1. queue'[n + 1].body.kind = "drive" /\ queue'[n + 1].body.order = order
  BY DEF Client!DriveOrder
<1>2. Client!Entries("drive") \subseteq 1..n
      /\ Client!Entries("drive")' = Client!Entries("drive") \cup {n + 1}
  BY <1>1 DEF Client!Entries
<1>3. \A l : Waiting(l) \in SUBSET (1..n)
  BY <1>2 DEF Waiting
<1>4. \A l : l # l0 => Waiting(l)' = Waiting(l)
  BY <1>1, <1>2 DEF Waiting
<1>5. Waiting(l0)' = Waiting(l0) \cup {n + 1}
  BY <1>1, <1>2 DEF Waiting
<1>6. Order(n + 1)' = [speed |-> order.speed, fwd |-> order.fwd]
  BY <1>1 DEF Order
<1>7. ASSUME NEW l, l # l0 PROVE StationTold(l)' = StationTold(l)
  <2>1. CASE Waiting(l) = {}
    BY <1>4, <1>7, <2>1 DEF StationTold
  <2>2. CASE Waiting(l) # {}
    <3> DEFINE k == Max(Waiting(l))
    <3>1. k \in 1..n
      BY <1>3, <2>2, MaxOfPlaces
    <3>2. Max(Waiting(l))' = k
      BY <1>4, <1>7
    <3>3. StationTold(l) = Order(k) /\ StationTold(l)' = Order(Max(Waiting(l)))'
      BY <1>4, <1>7, <2>2 DEF StationTold
    <3> HIDE DEF k
    <3> QED
      BY <3>1, <3>2, <3>3 DEF Order
  <2> QED
    BY <2>1, <2>2
<1>8. StationTold(l0)' = Order(n + 1)'
  <2> DEFINE S == Waiting(l0) \cup {n + 1}
  <2>1. S \in SUBSET (1..n+1) /\ S # {} /\ n + 1 \in Nat
    BY <1>3
  <2>2. Max(S) = n + 1
    <3> DEFINE m == Max(S)
    <3>1. m \in S /\ \A j \in S : j <= m
      BY <2>1, MaxOfPlaces
    <3> HIDE DEF m
    <3>2. m \in 1..n+1 /\ n + 1 <= m
      BY <2>1, <3>1
    <3>3. m = n + 1
      BY <3>2
    <3> QED
      BY <3>3 DEF m
  <2>3. Waiting(l0)' = S /\ Max(Waiting(l0))' = n + 1
    BY <1>5, <2>2
  <2>4. StationTold(l0)' = Order(Max(Waiting(l0)))'
    BY <2>1, <2>3 DEF StationTold
  <2> QED
    BY <2>3, <2>4
<1> QED
  BY <1>6, <1>7, <1>8

\* The queue is a sequence.
LEMMA QueueShape ==
  /\ GatewayTyped => Len(queue) \in Nat /\ DOMAIN queue = 1..Len(queue)
  /\ GatewayTyped' => Len(queue') \in Nat /\ DOMAIN queue' = 1..Len(queue')
BY DEF GatewayTyped, ClientFacts!TypeOK

\* Only a line that drives says something to a locomotive, and to one only.
LEMMA BusSteered ==
  ASSUME GatewayTyped, NEW c \in Conns, DrivingLine(c)
  PROVE  /\ \A l \in Locos : l # dccAdress[arg[c]] => bus'[l] = bus[l]
         /\ ~ready => bus' = bus
<1>1. \/ \E v, d, on : Drive(arg[c], v, d, on)
      \/ UNCHANGED bus
  BY DEF DrivingLine, SpeedLine, Idle, SetSpeed, Reverse, Function
<1> QED
  BY <1>1 DEF Drive, GatewayTyped, TypeOK, BusType

\* Every other step leaves what the locomotives were told alone.
LEMMA BusUnsteered ==
  ASSUME (\E c \in Conns : Power(c)) \/ ThrottleOnly \/ Read
         \/ Disconnect \/ Serve \/ UNCHANGED gatewayVars
  PROVE  bus' = bus
BY DEF Power, OtherLine, ThrottleOnly, Tick, busVars, Unheard, Connection, Accept, PeerCloses,
   ErrorReported, ClosingEnds, ThrottleStop, QuietLine, Beat, Quit, Take, Release, QuitLoco,
   Emergency, QuerySpeed, Function, Read, Disconnect, Serve, ClientStep, gatewayVars, vars

(***************************************************************************)
(* What a step does to the orders: it leaves them as they are, adds one at  *)
(* the end, or empties the queue.                                           *)
(***************************************************************************)

\* What a locomotive not lost was last told stays what the station is told.
Undisturbed ==
  /\ \A l : StationTold(l)' = StationTold(l)
  /\ \A l \in Locos \ lost' : l \notin lost /\ bus'[l] = bus[l]

Ordered(l0) ==
  /\ StationTold(l0)' = Wanted(l0)'
  /\ \A l : l # l0 => StationTold(l)' = StationTold(l)
  /\ \A l \in Locos : l # l0 => bus'[l] = bus[l]
  /\ lost' = lost \ {l0}

Emptied ==
  /\ \A l \in Locos \ lost' : l \notin lost /\ StationTold(l)' = StationTold(l)
  /\ bus' = bus

\* A line that drives: its order is refused, dropped, or added.
LEMMA SteerOrders ==
  ASSUME GatewayTyped, GatewayTyped', NEW c \in Conns, Steer(c)
  PROVE  Undisturbed \/ \E l \in Locos : Ordered(l)
<1>1. PICK l0 \in Locos : l0 = dccAdress[arg[c]]
  BY SteerIsLine DEF Steer
<1>2. PassOn(l0) /\ station' = station /\ DrivingLine(c)
  BY <1>1 DEF Steer
<1>3. \A l \in Locos : l # l0 => bus'[l] = bus[l]
  BY <1>1, <1>2, BusSteered
<1>4. /\ Len(queue) \in Nat /\ DOMAIN queue = 1..Len(queue)
      /\ Len(queue') \in Nat /\ DOMAIN queue' = 1..Len(queue')
  BY QueueShape
<1>5. ASSUME queue' = queue
      PROVE  \A l : StationTold(l)' = StationTold(l)
  BY <1>2, <1>4, <1>5, OrdersKept DEF Client!Entries
<1>6. CASE ~Ready
  <2>1. queue' = queue /\ lost' = lost
    BY <1>2, <1>6 DEF PassOn, clientVars
  <2>2. bus' = bus
    BY <1>2, <1>6, BusSteered DEF GatewayTyped
  <2> QED
    BY <1>5, <2>1, <2>2 DEF Undisturbed
<1>7. CASE Ready
  <2> DEFINE order == [loco |-> l0, speed |-> bus'[l0].speed, fwd |-> bus'[l0].fwd]
  <2>1. order \in DriveOrders
    BY DEF GatewayTyped, TypeOK, BusType, Drivable, DriveOrders
  <2>2. /\ Client!CsDrive(order)
        /\ lost' = IF Len(queue') > Len(queue) THEN lost \ {l0} ELSE lost \cup {l0}
    BY <1>2, <1>7 DEF PassOn
  <2> DEFINE wanted == [speed |-> order.speed, fwd |-> order.fwd]
  <2>3. wanted = Wanted(l0)' /\ order.loco = l0
    BY DEF Wanted
  <2> HIDE DEF order, wanted
  <2>4. ClientFacts!CsDrive(order)
    BY <2>2, SameSteps
  <2>5. \/ Len(queue') = Len(queue) /\ queue' = queue
        \/ /\ Len(queue') = Len(queue) + 1 /\ DOMAIN queue' = 1..Len(queue)+1
           /\ queue'[Len(queue) + 1].body = ClientFacts!DriveOrder(order)
           /\ \A i \in 1..Len(queue) : queue'[i] = queue[i]
    BY <2>1, <2>4, ClientFacts!OrderQueued, ClientAssumes DEF GatewayTyped
  <2>6. CASE queue' = queue
    <3>1. lost' = lost \cup {l0}
      BY <1>4, <2>2, <2>6
    <3> QED
      BY <1>3, <1>5, <2>6, <3>1 DEF Undisturbed
  <2>7. CASE queue' # queue
    <3>1. PICK n \in Nat : n = Len(queue)
      BY <1>4
    <3>2. /\ Len(queue') = n + 1 /\ DOMAIN queue' = 1..n+1 /\ DOMAIN queue = 1..n
          /\ queue'[n + 1].body = Client!DriveOrder(order)
          /\ \A i \in 1..n : queue'[i] = queue[i]
      BY <1>4, <2>5, <2>7, <3>1 DEF Client!DriveOrder, ClientFacts!DriveOrder
    <3>3. lost' = lost \ {l0}
      BY <2>2, <3>1, <3>2
    <3>4. /\ StationTold(l0)' = [speed |-> order.speed, fwd |-> order.fwd]
          /\ \A l : l # l0 => StationTold(l)' = StationTold(l)
      BY <1>2, <2>1, <2>3, <3>2, OrderAdded
    <3>5. StationTold(l0)' = wanted
      BY <3>4 DEF wanted
    <3> QED
      BY <1>3, <2>3, <3>3, <3>4, <3>5 DEF Ordered
  <2> QED
    BY <2>6, <2>7
<1> QED
  BY <1>6, <1>7

\* Every other step adds no order, and loses one only with the connection.
LEMMA OtherOrders ==
  ASSUME GatewayTyped, GatewayTyped',
         \/ (\E c \in Conns : Power(c)) \/ ThrottleOnly \/ Read \/ Disconnect \/ Serve
         \/ UNCHANGED gatewayVars
  PROVE  Undisturbed \/ Emptied
<1>1. bus' = bus
  BY BusUnsteered
<1>2. /\ Len(queue) \in Nat /\ DOMAIN queue = 1..Len(queue)
      /\ Len(queue') \in Nat /\ DOMAIN queue' = 1..Len(queue')
  BY QueueShape
<1>3. ASSUME Client!Entries("drive")' = Client!Entries("drive"), station' = station,
             \A i \in Client!Entries("drive") : queue'[i] = queue[i], lost \subseteq lost'
      PROVE  Undisturbed
  BY <1>1, <1>2, <1>3, OrdersKept DEF Undisturbed
<1>4. ASSUME queue' = <<>>
      PROVE  \A l : StationTold(l)' = station'[l]
  <2>1. \A l : Waiting(l)' = {}
    BY <1>4 DEF Waiting, Client!Entries
  <2> QED
    BY <2>1 DEF StationTold
<1>5. ASSUME \/ Client!LogonToken \/ Client!LogonRejected
             \/ \E a \in Addresses : Client!LogonAck(a)
             \/ \E to \in Addresses \cup {Broadcast} : Client!Request(to)
             \/ Client!StreamStep \/ Client!BoostState
      PROVE  /\ Client!Entries("drive")' = Client!Entries("drive")
             /\ \A i \in Client!Entries("drive") : queue'[i] = queue[i]
  <2>1. \/ ClientFacts!LogonToken \/ ClientFacts!LogonRejected
        \/ \E a \in Addresses : ClientFacts!LogonAck(a)
        \/ \E to \in Addresses \cup {Broadcast} : ClientFacts!Request(to)
        \/ ClientFacts!StreamStep \/ ClientFacts!BoostState
    BY <1>5, SameSteps
  <2>2. /\ ClientFacts!Entries("drive")' = ClientFacts!Entries("drive")
        /\ \A i \in ClientFacts!Entries("drive") : queue'[i] = queue[i]
    BY <2>1, ClientFacts!OrdersStay, ClientAssumes DEF GatewayTyped
  <2> QED
    BY <2>2 DEF Client!Entries, ClientFacts!Entries
<1>6. CASE \E c \in Conns : Power(c)
  BY <1>3, <1>5, <1>6 DEF Power, historyVars
<1>7. CASE ThrottleOnly \/ UNCHANGED gatewayVars
  <2>1. queue' = queue /\ station' = station /\ lost' = lost
    BY <1>7 DEF ThrottleOnly, gatewayVars, clientVars, historyVars
  <2> QED
    BY <1>3, <2>1 DEF Client!Entries
<1>8. CASE Read
  <2>1. /\ queue' = <<>> /\ lost' = lost /\ station' = [l \in Locos |-> StationTold(l)]
    BY <1>8 DEF Read, ClientStep, Client!Poll
  <2> QED
    BY <1>1, <1>4, <2>1 DEF Emptied
<1>9. CASE Disconnect
  <2>1. station' = station /\ lost' = lost \cup {l \in Locos : Waiting(l) # {}}
    BY <1>9 DEF Disconnect
  <2>2. CASE Client!LogonRejected
    BY <1>3, <1>5, <2>1, <2>2
  <2>3. CASE Client!Timeout
    <3>1. queue' = <<>>
      BY <2>3 DEF Client!Timeout
    <3>2. \A l \in Locos \ lost' : l \notin lost /\ StationTold(l) = station[l]
      BY <2>1 DEF StationTold
    <3> QED
      BY <1>1, <1>4, <2>1, <3>1, <3>2 DEF Emptied
  <2> QED
    BY <1>9, <2>2, <2>3 DEF Disconnect, ClientStep
<1>10. CASE Serve
  BY <1>3, <1>5, <1>10 DEF Serve, ClientStep, historyVars
<1> QED
  BY <1>6, <1>7, <1>8, <1>9, <1>10

\* All steps.
LEMMA StepOfOrders ==
  ASSUME GatewayTyped, GatewayTyped', [GatewayNext]_gatewayVars
  PROVE  Undisturbed \/ Emptied \/ \E l \in Locos : Ordered(l)
<1>1. CASE \E c \in Conns : Steer(c)
  BY <1>1, SteerOrders
<1>2. CASE ~\E c \in Conns : Steer(c)
  BY <1>2, OtherOrders DEF GatewayNext
<1> QED
  BY <1>1, <1>2

-----------------------------------------------------------------------------
(* The theorems about orders. *)

\* At the beginning nothing waits.
LEMMA NothingWaits ==
  ASSUME GatewayInit
  PROVE  \A l \in Locos : StationTold(l) = Wanted(l)
<1>1. queue = <<>> /\ station = [l \in Locos |-> Wanted(l)]
  BY DEF GatewayInit, Client!Init
<1>2. \A l : Waiting(l) = {}
  BY <1>1 DEF Waiting, Client!Entries
<1>3. \A l : StationTold(l) = station[l]
  BY <1>2 DEF StationTold
<1> QED
  BY <1>1, <1>3

\* The orders arrive after every step.
LEMMA ArriveNext ==
  ASSUME GatewayTyped, GatewayTyped', OrdersArrive, [GatewayNext]_gatewayVars
  PROVE  OrdersArrive'
<1> SUFFICES ASSUME NEW l \in Locos, l \notin lost' PROVE StationTold(l)' = Wanted(l)'
  BY DEF OrdersArrive
<1>1. CASE Undisturbed \/ Emptied
  <2>1. l \notin lost /\ bus'[l] = bus[l] /\ StationTold(l)' = StationTold(l)
    BY <1>1 DEF Undisturbed, Emptied
  <2> QED
    BY <2>1 DEF OrdersArrive, Wanted
<1>2. ASSUME NEW l0 \in Locos, Ordered(l0) PROVE StationTold(l)' = Wanted(l)'
  <2>1. CASE l = l0
    BY <1>2, <2>1 DEF Ordered
  <2>2. CASE l # l0
    <3>1. l \notin lost /\ bus'[l] = bus[l] /\ StationTold(l)' = StationTold(l)
      BY <1>2, <2>2 DEF Ordered
    <3> QED
      BY <3>1 DEF OrdersArrive, Wanted
  <2> QED
    BY <2>1, <2>2
<1> QED
  BY <1>1, <1>2, StepOfOrders

(***************************************************************************)
(* Whatever the number of phones and locomotives, the room in the ring and  *)
(* the requests of the master: what the station has been told of a          *)
(* locomotive, or will have been when it has read the queue, is what the    *)
(* throttles told it last, unless that order was refused or went with the   *)
(* connection (bidib_client_parser.c:355-372, 926-962).                     *)
(***************************************************************************)
THEOREM OrdersArriveAlways == GatewaySpec => []OrdersArrive
<1>1. GatewayInit => OrdersArrive
  BY NothingWaits DEF OrdersArrive
<1>2. GatewayTyped /\ GatewayTyped' /\ OrdersArrive /\ [GatewayNext]_gatewayVars => OrdersArrive'
  BY ArriveNext
<1> QED
  BY <1>1, <1>2, GatewayTypes, PTL DEF GatewaySpec

(***************************************************************************)
(* From the display of the phone to the command station: the speed an open  *)
(* phone shows is what the station has, or has waiting, for its locomotive, *)
(* or both are at rest, unless that order was lost on the way               *)
(* (withrottle_if.c:385-440, bidib_client_parser.c:926-962), when the       *)
(* environment keeps to all of Assumptions.  Of the link nothing is         *)
(* assumed.                                                                 *)
(***************************************************************************)
THEOREM PhoneSees ==
  ASSUME AllAssumed
  PROVE  GatewaySpec => []PhoneSeesStation
<1>1. TypeOK /\ PhoneMatchesBus /\ OrdersArrive => PhoneSeesStation
  <2> SUFFICES ASSUME TypeOK, PhoneMatchesBus, OrdersArrive, NEW c \in Conns, tcp[c] = "open",
                      dccAdress[arg[c]] # NoLoco, dccAdress[arg[c]] \notin lost
               PROVE  \/ SpeedWord(shown[c]) = StationTold(dccAdress[arg[c]]).speed
                      \/ /\ ~Moving(SpeedWord(shown[c]))
                         /\ ~Moving(StationTold(dccAdress[arg[c]]).speed)
    BY DEF PhoneSeesStation
  <2>1. PICK l \in Locos : l = dccAdress[arg[c]]
    BY DEF TypeOK, TableType, LocoType
  <2>2. StationTold(l).speed = bus[l].speed
    BY <2>1 DEF OrdersArrive, Wanted
  <2> QED
    BY <2>1, <2>2 DEF PhoneMatchesBus
<1> QED
  BY <1>1, ThrottlesImplemented, TypeCorrect, PhoneMatches, OrdersArriveAlways, PTL

\* A locomotive is told to turn only at rest, in every step of the gateway.
TurnsAtRest ==
  \A l \in Locos : bus'[l].fwd # bus[l].fwd => ~Moving(bus[l].speed) \/ ~Moving(bus'[l].speed)

(***************************************************************************)
(* Whatever the number of phones and locomotives and the room in the ring:  *)
(* from one order to the next no locomotive is reversed that moves before   *)
(* and after, unless an order was lost in between (withrottle_if.c:404-411, *)
(* bidib_client_parser.c:926-962), when the environment keeps to all of     *)
(* Assumptions.  Of the link nothing is assumed.                            *)
(***************************************************************************)
THEOREM GentleAlways ==
  ASSUME AllAssumed
  PROVE  GatewaySpec => GentleOrders
<1> DEFINE Gentle ==
      \A l \in Locos \ (lost \cup lost') :
        StationTold(l)'.fwd # StationTold(l).fwd =>
          ~Moving(StationTold(l).speed) \/ ~Moving(StationTold(l)'.speed)
<1>1. GatewaySpec => [][TurnsAtRest]_vars
  BY ThrottlesImplemented, ReversedAtRest, PTL DEF ReverseOnlyStopped, TurnsAtRest
<1>2. [TurnsAtRest]_vars => TurnsAtRest
  BY DEF TurnsAtRest, vars, busVars
<1>3. OrdersArrive /\ OrdersArrive' /\ TurnsAtRest => Gentle
  <2> SUFFICES ASSUME OrdersArrive, OrdersArrive', TurnsAtRest,
                      NEW l \in Locos \ (lost \cup lost'),
                      StationTold(l)'.fwd # StationTold(l).fwd
               PROVE  ~Moving(StationTold(l).speed) \/ ~Moving(StationTold(l)'.speed)
    OBVIOUS
  <2>1. StationTold(l) = Wanted(l) /\ StationTold(l)' = Wanted(l)'
    BY DEF OrdersArrive
  <2>2. /\ StationTold(l).fwd = bus[l].fwd /\ StationTold(l).speed = bus[l].speed
        /\ StationTold(l)'.fwd = bus'[l].fwd /\ StationTold(l)'.speed = bus'[l].speed
    BY <2>1 DEF Wanted
  <2> QED
    BY <2>2 DEF TurnsAtRest
<1>4. OrdersArrive /\ OrdersArrive' /\ [TurnsAtRest]_vars => Gentle
  BY <1>2, <1>3
<1> QED
  BY <1>1, <1>4, OrdersArriveAlways, PTL DEF GentleOrders
=============================================================================
