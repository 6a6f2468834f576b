--------------------------- MODULE Network_proofs ---------------------------
(***************************************************************************)
(* What holds of the addresses the gateway gives out, for any number of     *)
(* phones and addresses, every lease time and every width of the clock.     *)
(***************************************************************************)
EXTENDS Network, TLAPS

-----------------------------------------------------------------------------
(* The clock. *)

C == ClockSize
U == ExpiryUnit
Half == ClockSize \div 2

\* The clock is an even number of units.
LEMMA ClockInUnits ==
  /\ C \in Nat \ {0} /\ U \in Nat \ {0} /\ LeaseTime \in Nat \ {0}
  /\ C % U = 0 /\ C \div U \in Nat \ {0}
  /\ C = (C \div U) * U
  /\ Half \in Nat /\ 2 * Half = C /\ LeaseTime + U <= Half
<1>1. C \in Nat /\ U \in Nat \ {0} /\ LeaseTime \in Nat \ {0} /\ LeaseTime + U <= C \div 2
  BY NetworkSizesAssumption DEF C, U
<1>2. C # 0
  <2>1. 0 \div 2 = 0
    OBVIOUS
  <2> QED
    BY <1>1, <2>1
<1>3. C % (2 * U) = 0
  BY NetworkSizesAssumption DEF C, U
<1> DEFINE k == C \div (2 * U)
<1>4. k \in Nat /\ C = (2 * U) * k
  BY <1>1, <1>3
<1>5. C = U * (2 * k) /\ C = 2 * (U * k) /\ U * k \in Nat
  <2> HIDE DEF k
  <2> QED
    BY <1>1, <1>4
<1>6. C \div 2 = U * k
  <2> HIDE DEF k
  <2> QED
    BY <1>1, <1>5
<1>7. C \div U = 2 * k /\ C % U = 0
  <2> HIDE DEF k
  <2> QED
    BY <1>1, <1>4, <1>5
<1>8. 2 * k # 0
  <2> HIDE DEF k
  <2> QED
    BY <1>1, <1>2, <1>4, <1>5
<1> QED
  <2> HIDE DEF k
  <2> QED
    BY <1>1, <1>2, <1>4, <1>5, <1>6, <1>7, <1>8 DEF Half, C

\* How long a lease that ends at e runs at time t.
Runs(e, t) == (e + C - t) % C

LEMMA RunsValue ==
  ASSUME NEW e \in 0..C-1, NEW t \in 0..C-1
  PROVE  Runs(e, t) = (IF e >= t THEN e - t ELSE e + C - t) /\ Runs(e, t) \in 0..C-1
<1>1. C \in Nat \ {0}
  BY ClockInUnits
<1>2. CASE e >= t
  <2>1. e + C - t = (e - t) + C /\ e - t \in 0..C-1
    BY <1>1, <1>2
  <2> QED
    BY <1>1, <1>2, <2>1 DEF Runs
<1>3. CASE ~(e >= t)
  BY <1>1, <1>3 DEF Runs
<1> QED
  BY <1>2, <1>3

\* A tick takes one from the time a lease runs, also when the clock wraps.
LEMMA RunsDown ==
  ASSUME NEW e \in 0..C-1, NEW t \in 0..C-1, Runs(e, t) > 0
  PROVE  (t + 1) % C \in 0..C-1 /\ Runs(e, (t + 1) % C) = Runs(e, t) - 1
<1> DEFINE u == (t + 1) % C
<1>1. C \in Nat \ {0}
  BY ClockInUnits
<1>2. u \in 0..C-1 /\ u = IF t + 1 = C THEN 0 ELSE t + 1
  BY <1>1
<1> HIDE DEF u
<1>3. Runs(e, u) = IF e >= u THEN e - u ELSE e + C - u
  BY <1>2, RunsValue
<1>4. Runs(e, t) = IF e >= t THEN e - t ELSE e + C - t
  BY RunsValue
<1>5. Runs(e, u) = Runs(e, t) - 1
  BY <1>1, <1>2, <1>3, <1>4
<1> QED
  BY <1>2, <1>5 DEF u

\* The last moment of the unit that is kept of a lease's end.
EndOf(expiry) == expiry * U + U - 1

LEMMA EndOnClock ==
  ASSUME NEW x \in 0..(C \div U)-1
  PROVE  EndOf(x) \in 0..C-1
<1> DEFINE n == C \div U
<1>1. C \in Nat /\ U \in Nat \ {0} /\ n \in Nat /\ C = n * U
  BY ClockInUnits
<1>2. x \in Nat /\ x + 1 <= n
  BY <1>1
<1>3. (x + 1) * U <= n * U /\ (x + 1) * U = x * U + U /\ x * U \in Nat
  <2> HIDE DEF n
  <2> QED
    BY <1>1, <1>2
<1> HIDE DEF n
<1> QED
  BY <1>1, <1>3 DEF EndOf

LEMMA ModOnce ==
  ASSUME NEW n \in Nat \ {0}, NEW y \in 0..2*n-1
  PROVE  y % n \in 0..n-1 /\ y % n = IF y < n THEN y ELSE y - n
  OBVIOUS

\* A new lease runs as long as was promised, and less than a unit longer.
LEMMA NewLease ==
  ASSUME NEW t \in Clock
  PROVE  /\ ExpiryFrom(t + LeaseTime) \in 0..(C \div U)-1
         /\ LeaseTime <= Runs(EndOf(ExpiryFrom(t + LeaseTime)), t)
         /\ Runs(EndOf(ExpiryFrom(t + LeaseTime)), t) < Half
<1> DEFINE x == (t + LeaseTime) % C
           q == x \div U
           e == EndOf(q)
<1>1. /\ C \in Nat \ {0} /\ U \in Nat \ {0} /\ LeaseTime \in Nat \ {0} /\ Half \in Nat
      /\ 2 * Half = C /\ LeaseTime + U <= Half /\ C \div U \in Nat /\ C = (C \div U) * U
  BY ClockInUnits
<1>2. t \in 0..C-1
  BY DEF Clock, C
<1>3. /\ x \in 0..C-1
      /\ x = IF t + LeaseTime < C THEN t + LeaseTime ELSE t + LeaseTime - C
  <2>1. t + LeaseTime \in 0..2*C-1
    BY <1>1, <1>2
  <2> DEFINE y == t + LeaseTime
  <2>2. y \in 0..2*C-1
    BY <2>1
  <2>3. y % C \in 0..C-1 /\ y % C = IF y < C THEN y ELSE y - C
    <3> HIDE DEF y, x
    <3> QED
      BY <1>1, <2>2, ModOnce
  <2> QED
    BY <1>1, <1>2, <2>1, <2>3
<1> HIDE DEF x
<1>4. q \in Nat /\ q * U <= x /\ x <= q * U + U - 1 /\ q * U \in Nat
  BY <1>1, <1>3
<1>5. q \in 0..(C \div U)-1
  <2> DEFINE n == C \div U
  <2>1. n \in Nat /\ C = n * U
    BY <1>1
  <2> HIDE DEF n, q
  <2>2. CASE q >= n
    <3>1. q * U >= n * U
      BY <1>1, <1>4, <2>1, <2>2
    <3> QED
      BY <1>1, <1>3, <1>4, <2>1, <3>1
  <2>3. CASE q < n
    BY <1>4, <2>1, <2>3 DEF n
  <2> QED
    BY <1>4, <2>1, <2>2, <2>3
<1> HIDE DEF q
<1>6. e \in 0..C-1
  BY <1>5, EndOnClock
<1>7. x <= e /\ e <= x + U - 1
  BY <1>1, <1>3, <1>4 DEF EndOf
<1> HIDE DEF e
<1>8. Runs(e, t) = IF e >= t THEN e - t ELSE e + C - t
  BY <1>2, <1>6, RunsValue
<1>9. LeaseTime <= Runs(e, t) /\ Runs(e, t) < Half
  BY <1>1, <1>2, <1>3, <1>6, <1>7, <1>8
<1>10. ExpiryFrom(t + LeaseTime) = q
  BY DEF ExpiryFrom, q, x, C, U
<1> QED
  BY <1>5, <1>9, <1>10 DEF e

-----------------------------------------------------------------------------
(* The table of leases.                                                      *)

\* The lease of a phone that may use an address is in the table, runs at least
\* as long as the phone believes, and less than half the clock.
Held(c) ==
  /\ wants[c] \in Leases
  /\ lease[wants[c]].mac = c
  /\ left[c] <= Runs(EndOf(lease[wants[c]].expiry), now)
  /\ Runs(EndOf(lease[wants[c]].expiry), now) < Half

HoldInv ==
  /\ mode \in {"joining", "waiting"} => \A c \in Clients : left[c] = 0
  /\ \A c \in Clients : left[c] > 0 => Held(c)

\* Entries of the table lie in it.
LEMMA OfferedInLeases ==
  ASSUME NEW c \in Clients
  PROVE  Offered(c) \subseteq Leases
  BY DEF Offered

LEMMA ErasedExpired ==
  ASSUME NEW c \in Clients, NEW i \in Erased(c)
  PROVE  i \in Leases /\ Expired(i)
  BY DEF Erased

\* A lease that runs has not expired.
LEMMA RunningValid ==
  ASSUME NEW c \in Clients, TypeOK, Held(c)
  PROVE  ~Expired(wants[c])
<1> DEFINE x == Runs(EndOf(lease[wants[c]].expiry), now)
<1>1. lease[wants[c]].expiry \in 0..(C \div U)-1 /\ now \in 0..C-1
  BY DEF TypeOK, Held, Clock, C, U
<1>2. EndOf(lease[wants[c]].expiry) \in 0..C-1
  BY <1>1, EndOnClock
<1>3. x \in 0..C-1
  BY <1>1, <1>2, RunsValue
<1>4. Expired(wants[c]) <=> x >= Half
  BY DEF Expired, Runs, EndOf, C, U, Half
<1>5. x < Half
  BY DEF Held
<1>6. Half \in Nat /\ C \in Nat
  BY ClockInUnits
<1> HIDE DEF x
<1> QED
  BY <1>3, <1>4, <1>5, <1>6

-----------------------------------------------------------------------------
(* Type correctness. *)

LEMMA TypeInit == Init => TypeOK
<1>1. C \div U \in Nat \ {0} /\ ClockSize \in Nat \ {0}
  BY ClockInUnits DEF C
<1>2. 0 \in 0..(ClockSize \div ExpiryUnit)-1
  BY <1>1 DEF C, U
<1> QED
  BY <1>1, <1>2, NetworkSizesAssumption DEF Init, TypeOK, NoLease, Clock

LEMMA NoLeaseType == NoLease \in [mac : Clients \cup {NoMac}, expiry : 0..(ClockSize \div ExpiryUnit)-1]
<1>1. C \div U \in Nat \ {0}
  BY ClockInUnits
<1>2. 0 \in 0..(ClockSize \div ExpiryUnit)-1
  BY <1>1 DEF C, U
<1> QED
  BY <1>2 DEF NoLease

LEMMA TypeStep == TypeOK /\ [Next]_vars => TypeOK'
<1> SUFFICES ASSUME TypeOK, [Next]_vars PROVE TypeOK'
  OBVIOUS
<1>0. /\ StaTimeout \in Nat /\ LeaseTime \in Nat /\ ClockSize \in Nat \ {0}
  BY NetworkSizesAssumption, ClockInUnits DEF C
<1>1. CASE wifi_init
  <2>1. CASE Joins
    BY <2>1 DEF Joins, TypeOK, phoneVars
  <2>2. CASE StartsAp
    BY <1>0, <2>2, NoLeaseType DEF StartsAp, TypeOK, phoneVars
  <2>3. CASE WaitsForAddress
    BY <1>0, <2>2, <2>3 DEF WaitsForAddress, TypeOK, phoneVars
  <2> QED
    BY <1>1, <2>1, <2>2, <2>3 DEF wifi_init, JoinFails
<1>2. ASSUME NEW c \in Clients, NEW delivered \in BOOLEAN, DhcpDiscover(c, delivered)
      PROVE  TypeOK'
  <2>1. lease' \in [Leases -> [mac : Clients \cup {NoMac}, expiry : 0..(ClockSize \div ExpiryUnit)-1]]
    BY <1>2 DEF DhcpDiscover, TypeOK
  <2>2. PICK i \in Offered(c) : wants' = IF delivered THEN [wants EXCEPT ![c] = i] ELSE wants
    BY <1>2 DEF DhcpDiscover
  <2>3. i \in Leases
    BY OfferedInLeases
  <2>4. wants' \in [Clients -> Leases \cup {Foreign}]
    BY <2>2, <2>3 DEF TypeOK
  <2> QED
    BY <1>2, <2>1, <2>4 DEF DhcpDiscover, TypeOK
<1>3. ASSUME NEW c \in Clients, NEW delivered \in BOOLEAN, DhcpRequest(c, delivered)
      PROVE  TypeOK'
  <2>1. ExpiryFrom(now + LeaseTime) \in 0..(ClockSize \div ExpiryUnit)-1
    BY NewLease DEF TypeOK, C, U
  <2>2. left' \in [Clients -> 0..LeaseTime]
    BY <1>0, <1>3 DEF DhcpRequest, TypeOK
  <2> QED
    BY <1>3, <2>1, <2>2 DEF DhcpRequest, TypeOK
<1>4. CASE \E c \in Clients : Disconnect(c) \/ Leave(c)
  BY <1>0, <1>4 DEF Disconnect, Leave, TypeOK
<1>5. CASE Tick
  <2>1. now' \in Clock
    BY <1>0, <1>5 DEF Tick, TypeOK, Clock
  <2>2. left' \in [Clients -> 0..LeaseTime]
    BY <1>0, <1>5 DEF Tick, TypeOK
  <2> QED
    BY <1>5, <2>1, <2>2 DEF Tick, TypeOK
<1>6. CASE Restart
  BY <1>0, <1>6, NoLeaseType DEF Restart, TypeOK, Clock
<1>7. CASE UNCHANGED vars
  BY <1>7 DEF vars, phoneVars, TypeOK
<1> QED
  BY <1>1, <1>2, <1>3, <1>4, <1>5, <1>6, <1>7 DEF Next

(***************************************************************************)
(* Whatever is lost, whoever leaves and however often the clock wraps, the  *)
(* table keeps its shape: in particular the end of a lease always fits the  *)
(* 16 bits kept of it (dhcpserver.c:271).                                   *)
(***************************************************************************)
THEOREM TypeCorrect == Spec => []TypeOK
  BY TypeInit, TypeStep, PTL DEF Spec

-----------------------------------------------------------------------------
(* Holders. *)

LEMMA HoldInit == Init => HoldInv
  BY DEF Init, HoldInv

\* A phone whose lease nothing touches goes on holding it.
LEMMA HeldKept ==
  ASSUME NEW c \in Clients, Held(c), wants'[c] = wants[c], now' = now,
         lease'[wants[c]] = lease[wants[c]], left'[c] = left[c]
  PROVE  Held(c)'
  BY DEF Held

LEMMA HoldStep == TypeOK /\ HoldInv /\ [Next]_vars => HoldInv'
<1> SUFFICES ASSUME TypeOK, HoldInv, [Next]_vars PROVE HoldInv'
  OBVIOUS
<1>0. \A c \in Clients : left[c] \in Nat
  BY NetworkSizesAssumption DEF TypeOK
<1>1. CASE wifi_init
  <2>1. left' = left /\ \A c \in Clients : left[c] = 0
    BY <1>1 DEF wifi_init, Joins, JoinFails, WaitsForAddress, StartsAp, phoneVars, HoldInv
  <2> QED
    BY <2>1 DEF HoldInv
<1>2. ASSUME NEW c \in Clients, NEW delivered \in BOOLEAN, DhcpDiscover(c, delivered)
      PROVE  HoldInv'
  <2>1. /\ mode' = "ap" /\ left' = left /\ now' = now /\ left[c] = 0
        /\ \A d \in Clients : d # c => wants'[d] = wants[d]
    BY <1>2 DEF DhcpDiscover, TypeOK
  <2>2. ASSUME NEW d \in Clients, left[d] > 0 PROVE Held(d)'
    <3>1. Held(d) /\ d # c
      BY <2>1, <2>2 DEF HoldInv
    <3>2. wants[d] \notin Erased(c)
      BY <3>1, RunningValid, ErasedExpired
    <3>3. lease'[wants[d]] = lease[wants[d]]
      BY <1>2, <3>1, <3>2 DEF DhcpDiscover, Held
    <3> QED
      BY <2>1, <3>1, <3>3, HeldKept
  <2> QED
    BY <2>1, <2>2 DEF HoldInv
<1>3. ASSUME NEW c \in Clients, NEW delivered \in BOOLEAN, DhcpRequest(c, delivered)
      PROVE  HoldInv'
  <2>1. /\ mode' = "ap" /\ wants' = wants /\ now' = now /\ left[c] = 0
        /\ wants[c] \in Leases /\ lease[wants[c]].mac \in {c, NoMac}
        /\ lease' = [lease EXCEPT ![wants[c]] = [mac |-> c, expiry |-> ExpiryFrom(now + LeaseTime)]]
        /\ \A d \in Clients : d # c => left'[d] = left[d]
        /\ left'[c] \in {0, LeaseTime}
    BY <1>3 DEF DhcpRequest, Granted, TypeOK
  <2>2. ASSUME NEW d \in Clients, d # c, left[d] > 0 PROVE Held(d)'
    <3>1. Held(d)
      BY <2>2 DEF HoldInv
    <3>2. wants[d] # wants[c]
      BY <2>1, <2>2, <3>1, NetworkSetsAssumption DEF Held
    <3>3. lease'[wants[d]] = lease[wants[d]]
      BY <2>1, <3>1, <3>2 DEF TypeOK, Held
    <3> QED
      BY <2>1, <2>2, <3>1, <3>3, HeldKept
  <2>3. left'[c] > 0 => Held(c)'
    <3> SUFFICES ASSUME left'[c] > 0 PROVE Held(c)'
      OBVIOUS
    <3> DEFINE x == ExpiryFrom(now + LeaseTime)
    <3>1. left'[c] = LeaseTime
      BY <2>1
    <3>2. lease'[wants[c]] = [mac |-> c, expiry |-> x]
      BY <2>1 DEF TypeOK
    <3>3. LeaseTime <= Runs(EndOf(x), now) /\ Runs(EndOf(x), now) < Half
      BY NewLease DEF TypeOK
    <3> HIDE DEF x
    <3>4. lease'[wants[c]].mac = c /\ lease'[wants[c]].expiry = x
      BY <3>2
    <3> QED
      BY <2>1, <3>1, <3>3, <3>4 DEF Held
  <2> QED
    BY <2>1, <2>2, <2>3 DEF HoldInv
<1>4. ASSUME NEW c \in Clients, Disconnect(c) \/ Leave(c)
      PROVE  HoldInv'
  <2>1. /\ UNCHANGED <<mode, lease, now, wants>>
        /\ \A d \in Clients : left'[d] = IF d = c THEN 0 ELSE left[d]
    BY <1>4 DEF Disconnect, Leave, TypeOK
  <2>2. ASSUME NEW d \in Clients, left'[d] > 0 PROVE Held(d)'
    <3>1. left'[d] = left[d] /\ Held(d)
      BY <2>1, <2>2 DEF HoldInv
    <3> QED
      BY <2>1, <3>1, HeldKept
  <2> QED
    BY <2>1, <2>2 DEF HoldInv
<1>5. CASE Tick
  <2>1. /\ mode' = "ap" /\ UNCHANGED <<lease, wants>> /\ now' = (now + 1) % C
        /\ \A d \in Clients : left'[d] = IF left[d] > 0 THEN left[d] - 1 ELSE 0
    BY <1>5 DEF Tick, C
  <2>2. ASSUME NEW d \in Clients, left'[d] > 0 PROVE Held(d)'
    <3> DEFINE e == EndOf(lease[wants[d]].expiry)
    <3>1. left[d] > 0 /\ left'[d] = left[d] - 1 /\ left[d] \in Nat
      BY <1>0, <2>1, <2>2
    <3>2. Held(d)
      BY <3>1 DEF HoldInv
    <3>3. now \in 0..C-1 /\ e \in 0..C-1
      <4>1. lease[wants[d]].expiry \in 0..(C \div U)-1 /\ now \in 0..C-1
        BY <3>2 DEF TypeOK, Held, Clock, C, U
      <4> QED
        BY <4>1, EndOnClock
    <3>4. left[d] <= Runs(e, now) /\ Runs(e, now) < Half
      BY <3>2 DEF Held
    <3>5. EndOf(lease'[wants'[d]].expiry) = e
      BY <2>1
    <3> HIDE DEF e
    <3>6. Runs(e, now) \in 0..C-1 /\ C \in Nat /\ Half \in Nat
      BY <3>3, RunsValue, ClockInUnits
    <3>7. Runs(e, now) > 0
      BY <3>1, <3>4, <3>6
    <3>8. Runs(e, now') = Runs(e, now) - 1
      BY <2>1, <3>3, <3>7, RunsDown
    <3>9. left'[d] <= Runs(e, now') /\ Runs(e, now') < Half
      BY <3>1, <3>4, <3>6, <3>8
    <3> QED
      BY <2>1, <3>2, <3>5, <3>9 DEF Held
  <2> QED
    BY <2>1, <2>2 DEF HoldInv
<1>6. CASE Restart
  BY <1>6 DEF Restart, HoldInv
<1>7. CASE UNCHANGED vars
  <2>1. UNCHANGED <<mode, lease, now, wants, left>>
    BY <1>7 DEF vars, phoneVars
  <2> QED
    BY <2>1, HeldKept DEF HoldInv
<1> QED
  BY <1>1, <1>2, <1>3, <1>4, <1>5, <1>6, <1>7 DEF Next

(***************************************************************************)
(* For any number of phones and addresses and however often the clock       *)
(* wraps, a phone whose lease runs is the one the table names: no address   *)
(* in use is offered or granted to another (dhcpserver.c:217-236, 261-271). *)
(***************************************************************************)
THEOREM HoldersAlwaysKnown == Spec => []HoldersKnown
<1>1. HoldInv => HoldersKnown
  BY DEF HoldInv, Held, HoldersKnown
<1> QED
  BY <1>1, TypeInit, TypeStep, HoldInit, HoldStep, PTL DEF Spec
=============================================================================
