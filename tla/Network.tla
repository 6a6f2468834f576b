------------------------------ MODULE Network ------------------------------
(***************************************************************************)
(* How the gateway gets on a network (wifi_init, tcp_server.c) and, when it *)
(* has to be its own access point, the DHCP server that gives addresses to  *)
(* the phones (dhcpserver.c).                                               *)
(*                                                                          *)
(* Time is the 32-bit millisecond clock, which wraps.  A lease keeps the    *)
(* upper half of its end only.  Offers and acknowledgements may be lost; a  *)
(* request that is lost is one that was not sent.  A phone forgets its      *)
(* address when its lease runs out or the access point goes, and may ask    *)
(* for the one it had.                                                      *)
(***************************************************************************)
EXTENDS Naturals, FiniteSets

CONSTANTS
  Clients,      (* MAC addresses                                          *)
  NoMac,        (* 00:00:00:00:00:00                                      *)
  MaxIp,        (* DHCPS_MAX_IP, 8                                        *)
  Foreign,      (* an address of another network, or out of the range     *)
  ClockSize,    (* 2^32                                                   *)
  ExpiryUnit,   (* 2^16: expiry counts these                              *)
  LeaseTime,    (* DEFAULT_LEASE_TIME_S * 1000: a day                     *)
  MaxGone,      (* bound: phones that leave for good                      *)
  StaTimeout    (* WIFI_STA_TIMEOUT_MS, in passes of the wait of 100 ms   *)

Leases == 0..MaxIp-1
Clock == 0..ClockSize-1

ASSUME NetworkSetsAssumption == NoMac \notin Clients /\ Foreign \notin Leases

\* Half the clock is longer than a lease and the rounding of its end.
ASSUME NetworkSizesAssumption ==
  /\ MaxIp \in Nat \ {0} /\ StaTimeout \in Nat /\ MaxGone \in Nat
  /\ ClockSize \in Nat /\ ExpiryUnit \in Nat \ {0} /\ LeaseTime \in Nat \ {0}
  /\ ClockSize % (2 * ExpiryUnit) = 0
  /\ LeaseTime + ExpiryUnit <= ClockSize \div 2

VARIABLES
  mode,      (* "joining" a network, "waiting" for an address there, "sta" *)
             (* with one, or "ap", being the access point                  *)
  waited,    (* passes of the wait                                         *)
  lease,     (* d->lease: mac and expiry                                   *)
  now,       (* cyw43_hal_ticks_ms()                                       *)
  wants,     (* the address each phone would ask for: offered, or the last *)
             (* it had                                                     *)
  left,      (* time its lease still runs, 0 without one                   *)
  gone       (* phones that have left for good                             *)

phoneVars == <<wants, left, gone>>
vars == <<mode, waited, lease, now, phoneVars>>

NoLease == [mac |-> NoMac, expiry |-> 0]

Init ==
  /\ mode = "joining" /\ waited = 0
  /\ lease = [i \in Leases |-> NoLease]
  /\ now = 0
  /\ wants = [c \in Clients |-> Foreign]
  /\ left = [c \in Clients |-> 0]
  /\ gone = {}

-----------------------------------------------------------------------------
(* wifi_init *)

\* wifi_start_ap, with dhcp_server_init
StartsAp ==
  /\ mode' = "ap" /\ waited' = 0
  /\ lease' = [i \in Leases |-> NoLease]
  /\ UNCHANGED <<now, phoneVars>>

\* wifi_try_sta: cyw43_arch_wifi_connect_timeout_ms joins the network ...
Joins ==
  /\ mode = "joining"
  /\ mode' = "waiting"
  /\ UNCHANGED <<waited, lease, now, phoneVars>>

\* ... or does not.
JoinFails == mode = "joining" /\ StartsAp

WaitsForAddress ==
  /\ mode = "waiting"
  /\ \/ mode' = "sta" /\ waited' = 0 /\ UNCHANGED <<lease, now, phoneVars>>
     \/ waited < StaTimeout /\ waited' = waited + 1 /\ UNCHANGED <<mode, lease, now, phoneVars>>
     \/ waited = StaTimeout /\ StartsAp

wifi_init == Joins \/ JoinFails \/ WaitsForAddress

-----------------------------------------------------------------------------
(* dhcp_server_process *)

(* Fault: the clock is compared as if it never wrapped. *)
ExpiredUnwrapped(i) == now > lease[i].expiry * ExpiryUnit + ExpiryUnit - 1

\* The 32-bit difference, taken as signed, is negative.
Expired(i) ==
  (lease[i].expiry * ExpiryUnit + ExpiryUnit - 1 + ClockSize - now) % ClockSize >= ClockSize \div 2

Free(i) == lease[i].mac = NoMac

\* The entry of the client, or the first that can be had.
Offered(c) ==
  LET own    == {i \in Leases : lease[i].mac = c}
      usable == {i \in Leases : Free(i) \/ Expired(i)}
      first(S) == {i \in S : \A j \in S : i <= j}
  IN  IF own # {} THEN first(own) ELSE first(usable)

(* Fault: the search offers an expired entry and leaves it to its owner. *)
ErasedNone(c) == {}

\* The search erases the expired entry it settles on.  It stops at the first
\* entry it can use, and from there only looks for one of the client's own.
Erased(c) ==
  LET own    == {i \in Leases : lease[i].mac = c}
      usable == {i \in Leases : Free(i) \/ Expired(i)}
  IN  {i \in usable : Expired(i) /\ (\A j \in usable : i <= j) /\ (\A j \in own : i < j)}

DhcpDiscover(c, delivered) ==
  /\ mode = "ap" /\ c \notin gone /\ left[c] = 0
  /\ lease' = [i \in Leases |-> IF i \in Erased(c) THEN [lease[i] EXCEPT !.mac = NoMac] ELSE lease[i]]
  /\ \E i \in Offered(c) : wants' = IF delivered THEN [wants EXCEPT ![c] = i] ELSE wants
  /\ UNCHANGED <<mode, waited, now, left, gone>>

\* The requested address is in range and free, or the client's own.
Granted(c) ==
  /\ wants[c] \in Leases
  /\ lease[wants[c]].mac \in {c, NoMac}

(* Fault: the end of a lease does not wrap with the clock. *)
ExpiryUnwrapped(t) == t \div ExpiryUnit

ExpiryFrom(t) == (t % ClockSize) \div ExpiryUnit

DhcpRequest(c, delivered) ==
  /\ mode = "ap" /\ c \notin gone /\ left[c] = 0
  /\ Granted(c)
  /\ lease' = [lease EXCEPT ![wants[c]] = [mac |-> c, expiry |-> ExpiryFrom(now + LeaseTime)]]
  /\ left' = IF delivered THEN [left EXCEPT ![c] = LeaseTime] ELSE left
  /\ UNCHANGED <<mode, waited, now, wants, gone>>

-----------------------------------------------------------------------------
(* Phones, time and power *)

\* Renewals carry no requested address: the server does not answer them, and
\* the lease of a phone runs out.  Before there is a lease time decides nothing.
Tick ==
  /\ mode = "ap"
  /\ now' = (now + 1) % ClockSize
  /\ left' = [c \in Clients |-> IF left[c] > 0 THEN left[c] - 1 ELSE 0]
  /\ UNCHANGED <<mode, waited, lease, wants, gone>>

\* A phone drops its connection, and with it the use of its address.
Disconnect(c) ==
  /\ left[c] > 0
  /\ left' = [left EXCEPT ![c] = 0]
  /\ UNCHANGED <<mode, waited, lease, now, wants, gone>>

\* A phone leaves for good; the server is not told.
Leave(c) ==
  /\ mode = "ap" /\ c \notin gone /\ Cardinality(gone) < MaxGone
  /\ gone' = gone \cup {c}
  /\ left' = [left EXCEPT ![c] = 0]
  /\ UNCHANGED <<mode, waited, lease, now, wants>>

\* The gateway starts again: no lease is kept, and no phone is connected.
Restart ==
  /\ mode' = "joining" /\ waited' = 0
  /\ lease' = [i \in Leases |-> NoLease]
  /\ now' = 0
  /\ left' = [c \in Clients |-> 0]
  /\ UNCHANGED <<wants, gone>>

Next ==
  \/ wifi_init
  \/ \E c \in Clients : \/ \E delivered \in BOOLEAN : DhcpDiscover(c, delivered) \/ DhcpRequest(c, delivered)
                        \/ Disconnect(c) \/ Leave(c)
  \/ Tick
  \/ Restart

Spec == Init /\ [][Next]_vars

(***************************************************************************)
(* main runs wifi_init to its end, time passes, and a phone without an      *)
(* address keeps asking, often enough for an answer to arrive.              *)
(***************************************************************************)
FairSpec ==
  /\ Spec /\ WF_vars(wifi_init) /\ WF_vars(Tick)
  /\ \A c \in Clients : SF_vars(DhcpDiscover(c, TRUE)) /\ SF_vars(DhcpRequest(c, TRUE))

-----------------------------------------------------------------------------
(* Type invariant. *)
TypeOK ==
  /\ mode \in {"joining", "waiting", "sta", "ap"} /\ waited \in 0..StaTimeout
  /\ lease \in [Leases -> [mac : Clients \cup {NoMac}, expiry : 0..(ClockSize \div ExpiryUnit)-1]]
  /\ now \in Clock
  /\ wants \in [Clients -> Leases \cup {Foreign}]
  /\ left \in [Clients -> 0..LeaseTime]
  /\ gone \subseteq Clients

(***************************************************************************)
(* As long as the lease of a phone runs, its address is in the table under  *)
(* its name, so it is offered and granted to nobody else: whatever the      *)
(* rounding of the end of a lease and the wrap of the clock                 *)
(* (dhcpserver.c:217-236, 261-271).                                         *)
(***************************************************************************)
HoldersKnown ==
  \A c \in Clients : left[c] > 0 => lease[wants[c]].mac = c

(***************************************************************************)
(* No address is lost for ever: unless it joins another network, the        *)
(* gateway becomes an access point, and when there are then no more phones  *)
(* than addresses, each one that stays gets an address again and again,     *)
(* although offers are not reserved, refusals are not told, phones leave    *)
(* without a word and an old lease looks valid again after half the clock   *)
(* (tcp_server.c:52-97, dhcpserver.c:215-244, 266-270).                     *)
(***************************************************************************)
EveryoneServed ==
  \A c \in Clients :
    /\ <>[][~Restart]_vars
    /\ <>[](mode # "sta" /\ c \notin gone /\ Cardinality(Clients \ gone) <= MaxIp)
    => []<>(left[c] > 0)
=============================================================================
