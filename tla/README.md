# Formal models of WiBiDiB2

WiBiDiB2 is the firmware of a Raspberry Pi Pico 2W that joins a BiDiBus (RS485,
500 kbaud, 9-bit words, one master polling its nodes) to WiFi throttles that
speak WiThrottle over TCP.  This directory holds TLA+ models of the firmware,
the TLC configurations that check them, and TLAPS proofs about them.

Contents: [the system](#the-system), [what is hard in it](#what-is-hard-in-it),
[modules](#modules), [how the models correspond to the code](#how-the-models-correspond-to-the-code),
[runs](#runs), [bounds](#bounds), [fairness and deadlock](#fairness-and-deadlock),
[proofs](#proofs), [where the code and its comments part](#where-the-code-and-its-comments-part),
[further observations](#further-observations),
[what is not modelled](#what-is-not-modelled), [plan](#plan).

## The system

Everything runs on one core.  `main` initialises the parts and then repeats
`cyw43_arch_poll(); log_poll(); run_bidib_client();` for ever
(`src/main.c:93-98`).  All lwIP callbacks (TCP, HTTP, mDNS, DHCP) run inside
`cyw43_arch_poll`, so they never interleave with one another or with the BiDiB
client.  The only preemption comes from two PIO interrupts of equal priority, one
per received and one per sent word.

| Component | Source | State | Operations | Called by / calls |
|---|---|---|---|---|
| Link | `bidib.c`, `bidib_client_if.c`, `set_bidib_state` | connection, back-off, transmit ring and its indices, mode flags, RS485 driver | receive ISR (LOGON token, poll), transmit ISR, put, flush, timeout | ISRs; main loop; senders |
| Receiver | `bidib_client_if.c:92-115`, `bidib_client_parser.c:762-889` | receive ring, packet assembler | put (ISR), read and assemble (loop) | receive ISR; hands messages to the client |
| Client | `bidib_client_parser.c` | features, streaming cursor, guest flags, user string, sequence numbers | one handler per message, `bidib_send_cs_drive`, `bidib_send_boost_state` | receiver, throttles; puts into the link |
| Throttles | `withrottle_if.c`, `tcp_server.c`, `smartphone_if.c` | slots, one loco per slot, heartbeats | accept, receive, close, error, one handler per line | lwIP; client (`cs_drive`, `boost_state`) |
| Roster and HTTP | `roster.c`, `http_server.c` | static roster, one page in flight | accept, request, XML chunks, close | lwIP |
| Log | `log.c` | 2048 byte ring | push, poll | everybody |
| Flash | `flash_store.c` | external NOR chip | read, sector read-modify-write | client (user string) |
| DHCP | `dhcpserver/` (vendored) | lease table | discover, request | lwIP (AP mode) |
| CRC, mDNS, PIO, WiFi set-up | `crc_8bit.c`, `mdns.c`, `bidib_uart.pio`, `tcp_server.c:52-118` | none of their own | | |

### How the parts interact

```
 BiDiBus master                                              phones (WiThrottle)
   |  9-bit words                                                 |  TCP
   v                                                              v
 receive ISR --rx ring--> receiver --messages--> client       lwIP callbacks
   |  poll / LOGON                                 |  ^            |
   v                                               |  |            v
 transmit ISR <--tx ring-- bidib_tx_fifo_put <-----+  +-- cs_drive, boost_state
                                                         (throttle table)
```

Calls go downwards and to the left only: a line from a phone ends in
`bidib_send_cs_drive` or `bidib_send_boost_state`, which put a message into the
transmit ring; the receive interrupt takes it from there when the master polls.
Nothing flows from the bus to the phones: no callback tells a throttle that the
link is down or that a command was refused.  The two rings and the flags around
them (`g_bidib_connect`, `tx_mode_logon`, `tx_nak_mode`, `my_bidib_node_addr`,
`last_poll_us`) are the state interrupts and loop share.

## What is hard in it

| Component | Hard behaviours | What makes it correct |
|---|---|---|
| Link | interrupts between any two stores of a state change; mode flags set by one interrupt and consumed by another; answers of the master that come late; wrapping indices | the bytes of a packet are the bytes queued, in order, once; the driver is always released, after a whole frame; the node never falls silent for good |
| Receiver | a full ring that drops single words; blocking handlers | a damaged packet is dropped as a whole, the next one is found |
| Client | a full transmit ring nobody notices; messages in any order; sessions that end and start again between a request and its answer | the master can tell what it missed and never keeps an old value; commands go out only when the guest may send |
| Throttles | a slot freed, reused and then hit by an error of its former owner; a client that vanishes or falls silent; times that wrap | one owner per slot; what a phone shows is what its locomotive does; a locomotive whose driver is gone is stopped |
| HTTP | writes refused half way and repeated later; one page shared by all connections | every page arrives complete and in order, no callback runs for ever, the server becomes free again (the code keeps none of the three when writes are refused; the models say how far it goes) |
| Log | writers preempting the reader | what comes out is what went in, oldest first, with a gap only where the ring was full |
| Flash | power loss between erase and program; lengths that come from the bus or the chip | a string that was answered is kept, what is kept is at risk only while its own page is changed, and the rest of the sector unharmed |
| DHCP, WiFi set-up | leases that outlive their phones, lost offers, a clock that wraps, a network that cannot be joined | an address has one user; nobody is locked out for good |

PROJECT.json lists each of these at its line, with the property that covers it
or the reason why none does.

## Modules

| Module | What it is |
|---|---|
| `TxQueue` | abstract: what the transmit side promises, one bounded queue that a poll turns into a packet |
| `BidibLink` | detailed: rings, indices, flags, both interrupts and the steps of the loop they can fall between |
| `LossyQueue` | abstract: a bounded queue that loses something only when it is full, the new items or the oldest |
| `BidibRx` | the receive ring, the interrupt that fills it, and the assembler that finds packets in what it holds |
| `LogRing` | the log ring, pushes from anywhere, `log_poll` and the UART's FIFO |
| `Crc8` | the CRC, by the firmware's table and by the polynomial it stands for |
| `BidibClient` | message handlers, features, message numbers, guest subscription; and what the master knows from what it reads |
| `UserString` | abstract: a string that is in use and one that is kept over a restart |
| `FlashStore` | the user string, its sector in the chip, erase and programming, power lost at any moment, commands cut off |
| `WiThrottle` | connections, slots, watchdog, lines of the protocol; and what each locomotive was told |
| `Gateway` | the throttles with the client behind them: what a phone does, up to what the command station reads |
| `HttpServer` | the roster page written piece by piece, pieces of any lengths, into lwIP's send buffer and heap |
| `Network` | joining a network or being the access point, and the DHCP leases |
| `MC...` | values of the constants for TLC |
| `BidibLink_proofs`, `BidibRx_proofs`, `BidibClient_proofs`, `HttpServer_proofs`, `LogRing_proofs`, `FlashStore_proofs`, `Network_proofs` | theorems and proofs |
| `Gateway_proofs` | theorems and proofs of `WiThrottle` and of `Gateway` |

```
 TxQueue     <-- implemented by --  BidibLink
 LossyQueue  <-- implemented by --  LogRing  ("forget" the oldest)
             <-- implemented by --  BidibRx  ("refuse" the newest)  -- EXTENDS --> Crc8
 UserString  <-- implemented by --  FlashStore
 WiThrottle  <-- implemented by --  Gateway  -- implements -->  BidibClient
```

`BidibClient` takes the link at `TxQueue`'s level, with messages for bytes: a queue
with room for so many messages, emptied whole by a poll and lost with the
connection.  It takes the receiver at the level of what `BidibRx` shows of it:
whole messages of the master, some of them lost.  `WiThrottle` takes the client
as one flag, `ready`: whether drive commands are passed on.  `Gateway` puts the
client's own flags in its place, and the phones' lines in the place of the orders
`BidibClient` takes from anywhere; both modules are abstractions of it.

Definitions whose comment starts with *Fault:* are not part of a specification.
Each is a variant of the action or operator it precedes, with a mistake that
could be made in that code; PROJECT.json names the property that notices it.

### The constant Assumed

Much of what these components promise rests on timing or on the behaviour of
others.  Most modules therefore list their assumptions by name and have a
constant `Assumed`, a subset of them; an assumption restricts an environment or
interrupt action only when it is in that set.  A run or a theorem states which
ones it makes.  The last column says what TLC finds violated once the name is
taken out of a run's `Assumed`.

| Module | Assumption | Meaning | Without it |
|---|---|---|---|
| `BidibLink` | `quiet_boot` | no LOGON token between the activation of the receive interrupt and the end of the initialisation | all of `link_timed` |
| | `prompt_ack` | the master answers a logon, and the loop has parsed the answer, before the next LOGON token | `RingAligned`, `InFlightKept`: a node that is applying is connected by a late answer |
| | `paced_puts` | senders leave room for the bytes being sent | `InFlightKept` |
| | `no_late_poll` | no poll between the timeout test and the end of the disconnection | `InFlightKept` |
| | `short_flush` | no complete logon frame (286 us) between two steps of a disconnection | `RingAligned`, `InFlightKept`: the read index is set after the flush |
| `BidibRx` | `short_packets` | the master's packets are shorter than the buffer they are assembled in | `WholePacketsDelivered`, with a `PaketSize` of 8 |
| | `room_at_wrap` | no word arrives for a full ring between the two stores that wrap the read index | `ImplementsRxQueue`, `WholePacketsDelivered` |
| `BidibClient` | `room` | the transmit ring takes every message | `StreamSkipsNone`, `MasterKnowsValues`, `SubscribedMeansAsked` |
| | `single_ack` | no second answer to a logon reaches a connected node | `NumbersFollow` |
| `FlashStore` | `chip_present` | there is a flash chip and it answers | `ImplementsUserString` |
| `WiThrottle` | `clean_close` | lwIP reports no error for a connection already closed | `SlotOwned`, `QuietWhenFree`, `PhoneMatchesBus`, `FunctionsFollowKeys` |
| | `short_uptime` | `now_ms()` stays clear of its wrap after 49.7 days | `ExpiredExactly`, `PhoneMatchesBus`: a client that beats is taken for silent |
| | `link_ready` | the phones drive only while the client takes drive commands | `PhoneMatchesBus`, `FunctionsFollowKeys`, `ReverseOnlyStopped` |
| | `one_driver` | no locomotive is in two slots | the same three |
| | `stop_first` | a client stops its locomotive and lets go of the keys before it gives it up, takes another or leaves | the same three |
| | `beating` | a client with its watchdog on is never silent for long | `PhoneMatchesBus`; `SilenceStops` in `throttle_silence` |
| `HttpServer` | `one_segment` | a client sends its request in one segment, once | `PageInOrder`, `PagesEnd`, `ServerFree` |
| | `own_errors` | no connection but the one being served fails while a page is under way | `PageInOrder`, `PagesEnd` |
| | `quick_acks` | what was sent is acknowledged before the next poll | `PagesEnd`, `ServerFree` |

`Gateway` makes those of `WiThrottle` (`Assumed`) and of `BidibClient` (`LinkAssumed`).
An assumption that takes away the very case a hazard is about leaves nothing to check of
that hazard.  Where it does, the theorem makes do without it: `FlightKept` without
`paced_puts` and `no_late_poll`, `WatchdogExact` without `short_uptime`, each saying
what the code does instead, and the hazard's entry in PROJECT.json says so.  Of the
link's five, `Aligned` and `FramesComplete` need `quiet_boot`, `prompt_ack` and
`short_flush` only (`LogonTimed`).
The other names in the table stand for cases in which the code does fail; the hazard says
which, and what its property still checks.

`LogRing` and `Network` assume nothing.

## How the models correspond to the code

**Link.**  Both interrupts have the same priority, so each invocation is one
action (`LogonToken`, `Poll`; `TxIsr`).  The loop's code is cut where an interrupt
can make a difference: `pc` walks through the boot (`BootReset`,
`SetBidibToReceive`), the disconnection (`CheckTimeout`, `Disconnect`,
`Unaddress`) and the flush both share (`FlushRx`, `FlushTx`, `PrepareTxLogon`).
Sections under `save_and_disable_interrupts` are one action (`Put`, `FlushTx`).
The receive ring is reduced to the master's answers to a logon, `rx`; one that
finds no room is lost.  `bidib_tx_fill` and `bidib_tx_remaining` are never raised
by the code, so the branches they guard are dead and are not modelled.  The
collision test of the logon shows as a choice: when the bus is taken nothing
happens.  `heard` is the master's: it has received a whole logon and has not
answered.

**Client.**  One action per message of `process_bidib_message` that changes state
or answers; the queries that only answer are one, `Query`.  `Send` is
`bidib_build_header` with `send_bidib_message`: the number is used up even when
the ring refuses the message, and without a connection the message is dropped
and reported as sent.  `missing` counts refusals and exists only for
`NumbersFollow`.  `expected`, `told`, `listed` and `askedFor` are what the master
has learnt from the packets it read; `NumExpected`, `ValueTold`, `FeaturesListed` and
`TargetsAskedFor` are what it will know once it has read the queue too.  `nodeAddr` is the address as the parser
compares it, cut to six bits, so that the 0xFF of a node without an address
reads as 63 (`Highest`).

**Throttles.**  One action per lwIP callback and, for data, per line; a line's
action includes the check of the watchdog every line ends with (`Checked`).
`arg` is the slot number lwIP passes to a connection's callbacks: it stays the
same after the slot was freed.  `bus` is what the last MSG_CS_DRIVE for each
locomotive carried, in the encoding of `bidib_send_cs_drive`, the functions by
the groups its active bits select.  `shown` is the speed on the phone's display,
from its own slider and from the `V` replies; `held` the keys held down; `age` the
true silence of a client, which the 32-bit times only approximate; it counts for one round
of the clock.  Only the
kinds of the functions matter of the roster.

**Gateway.**  A line that drives (`Steer`) is the line of `WiThrottle` and, in the same
step, `PassOn`: `bidib_send_cs_drive` tests the client's flags (`Ready`) and puts its
message into the queue, where it may be refused.  A line that turns the power on or off
(`Power`) is a booster message.  All else a phone does is a step of the
throttles alone (`ThrottleOnly`), and all else the client does one of the client alone
(`Serve`, `Read`, `Disconnect`).  A command the client drops because it is not ready
was never sent and leaves `bus` as it was, as in `WiThrottle`.  `station` is what the
command station was told in the packets the master read.  `lost` names the locomotives
whose last order was sent and will not be read, since the ring refused it or the
connection went with it in the queue.  An order is a speed and a direction; the
functions a command carries besides are left out here, and `WiThrottle` has them.

**Receiver.**  The receive ISR (`bidib_rx_buf_put`) is one action with the word of
the bus that causes it.  `ReadWord` is one pass of `run_bidib_client`: reading,
assembling and, on the last byte, handing over the messages; nothing of it but the
ring is known to the ISR, so it is one action, except where the read index is
wrapped.  That index is not volatile.  A build may keep it in a register until it
is wrapped or store it twice; `ReadLast` and `WrapRead` are the second choice, and
the next-state relation has both.  `paket` is the stored part of `bidib_rx_paket`,
`index` counts on in eight bits when the buffer is full.  What lies behind the
stored bytes is `foreign`.  The bus (`Talk`, `WordArrives`, `WordDamaged`) sends
whole transmissions and loses or damages words in between; `whole` in a cell, which
no code reads, is the packet the cell's word completes if nothing of it was lost.

**Log.**  A push is one critical section, hence one action, and may come anywhere
in `log_poll`, whose steps are `PollStarts`, `PollTests`, `PollTakes` (the critical
section that takes a byte) and `PollWrites`.  In the firmware the interrupts log
only in a debug build and the loop cannot preempt itself, so these interleavings are
a superset of those a release build has.

**CRC.**  `crc_array` is the table of the firmware, and `crc8_update` its lookup;
TLC checks each of the 256 entries against the division of that byte by the
polynomial (`TableIsRemainder`, an assumption of `Crc8` that every run of `BidibRx`
evaluates).

**HTTP.**  Each call of `tcp_write` is a step, since a callback that repeats a
refused write is what can go wrong.  A piece of XML is what one call writes: its entry,
its phase and its number in the phase; `Size` gives its bytes.  The writes of each phase
are those of the code, a label's one for each character.  lwIP takes a piece whole or
refuses it (`Fits`): when the connection is closed, when the piece is longer than the
room in the send buffer, or when what lwIP has for all connections together is used up,
its heap, its segments or its queues of segments (`Heap` stands for these).  After a
refusal the code looks at the room alone (`Goes`): 0 leaves the callback for the next
poll, anything else begins the phase again in the same callback.  `text` is what the
peer has been sent, every piece as often as lwIP took it: nothing of a phase that is
begun again is taken back.  `refused` is a history of the phases of which a write was
refused, and exists for `PageInOrder` only.  `Caught` is the callback that cannot
return: the first write of its phase is refused, and there is room.

**Flash.**  `MSG_STRING_SET` is `StringSet` (RAM) followed by the steps of
`flash_store_write`.  Between a command and the end of `flash_wait_ready` the chip is
busy; `PowerLoss` then leaves the command undone, done, or cut off (`CutOff`): the cells
it was changing, the whole sector of an erase or the page of a program, may hold
anything (`HalfDone`), and those it was not keep what they held.  The sector is an array
of cells, and a cell a byte; the record is in its first page, and everything behind
`StringMax` belongs to others.  A byte programmed over one that was not erased gives
what `Over` says, in the instance the bits of both.

**Network.**  `wifi_init` is called by `main` before the loop and its three stages are
three actions; the DHCP handlers are one action each and their answers may be lost.
`expiry` is the upper half of a 32-bit time, here `ExpiryUnit` clock units.  `wants`
and `left` belong to the phones: the address they would ask for and how long they may
use it.

## Runs

| Run | Question | Assumed | States | Time |
|---|---|---|---|---|
| `link_timed` | does the link implement one queue, are packets whole and their bytes those that were queued | all | 248,719 | 9 s |
| `link_free` | what holds without any timing: the driver has an owner and is released, the queue drains, the node keeps applying | none | 141,078 | 30 s |
| `rx` | is the ring a queue, do only the master's packets get through, does the assembler find the next one | all | 217,945 | 68 s |
| `log` | is the ring the queue of last bytes, do calls end and bytes flow | - | 17,848 | 4 s |
| `client_numbers` | can the master tell what was lost; does every stream end | `single_ack` | 601,391 | 65 s |
| `client_session` | values, stream and subscription of a session | all | 1,081,552 | 62 s |
| `flash` | is a string that was answered kept wherever power goes, what can lose one, and are its neighbours spared | all | 198,368 | 19 s |
| `throttles` | one owner per slot, quiet handover, exact watchdog; do phone, table and locomotive agree | all | 1,247,156 | 130 s |
| `gateway` | is what the station reads what the throttles told it, and what the phones show; is no moving locomotive reversed; whatever the ring refuses | all of the phones; `single_ack` | 648,970 | 82 s |
| `http` | does a page come in order, what comes twice and what not at all; does it end and is the server free again, unless the callback is caught | all | 6,309 | 24 s |
| `network` | has an address one user, is everyone served in the end | - | 54,192 | 80 s |
| `throttle_silence` | does a silent client's locomotive stop (no: see [below](#where-the-code-and-its-comments-part)) | all but `beating` | | 2 s |

No run repeats what is proved without assumptions and was checked before: the type
invariants of the link, the throttles, the client, the log and the HTTP server,
`LinkInv`, `BackoffLow`.

## Bounds

| Constant | Code | Instances | Why it is enough |
|---|---|---|---|
| `TxBufSize` | 128 | 8, 4 | messages of 1 to 3 bytes reach every offset, fill the ring exactly and straddle its end |
| `Reserve`, `LogonMsgSize` | 12, 13 | 3 and 3, or 2 and 3 | a logon of several words, so that something can happen between them; longer than its reserve, as in the code |
| `BackoffRange` | 64 | 4 | never reached: `BackoffLow` is proved for every range |
| `RxPackets` | ring of 64 words | 2, 1 | one answer waiting and one that follows it, or finds the ring full |
| `RxBufSize` | 64 | 4 | three words fit; a packet of six or nine fills it and wraps it, and every place of the loop meets every fill |
| `PaketSize` | 64 | 10 | one byte more than the longest packet stores; over it only without `short_packets` |
| `Packets`, `Answers` | any | a packet of one message, one of two; a token with its answer | a packet whose end, middle or CRC may be taken for the start of another |
| `NoiseBytes`, `MaxLost` | any | {0}, 2 | two losses before the receiver is in step again; a damaged word reads as the byte that starts packets |
| `InStep` | | 10 | the longest length on this bus, its CRC and the lost word |
| `LogRingSize`, `Texts` | 2048, up to 255 | 5; 1 to 3 bytes | the texts fill the ring, overrun it by one to three bytes and wrap it |
| `Budget`, `UartDepth` | 512, 32 | 3, 2 | the FIFO and the budget each end a call |
| `Features` | 4 | 2 | one that is fixed and one that can be set; the stream has a first, a last and an end |
| `Room` | 128 bytes | 2 | holds the two subscriptions of one handler, and refuses the second of them behind another message |
| `NumSize` | 256 | 4, 6 | several wraps; larger than what is missing in a row, as in the code |
| `MaxMissing` | none | 0, 2 | refused messages are counted up to here; `NumbersFollow` speaks of fewer |
| `Addresses` | 1 to 63 | {1, 63} or {63} | the one 0xFF reads as, and another |
| `SectorSize`, `PageSize`, `StringMax` | 4096, 256, 24 | 12, 4, 3 | three pages, the record in the first and a byte of others in each |
| `Payloads`, announced size | up to 255 | five, 0 to 4 | empty, short, too long, with a 0 inside; more and less announced than carried |
| `Contents` | any | four | a blank chip, a record with data behind it, an impossible length, an empty record |
| `Blank`, `Over` | 255, bitwise and | 7, bitwise and | bytes of three bits: a length that is blank, one that is impossible, and characters that are neither |
| `HalfDone` | any | four | what a cut-off command leaves on the record's page: a string without its length, one nobody set, one cut by a 0, none |
| `Slots` | `MAX_THROTTLES` | 2, 1 | two with two connections, so that slots can be confused, and one hands over to the other; a connection that finds no slot changes nothing |
| `Locos` | roster | 1 | both slots take it in turn (`one_driver`), with other locomotives standing for none; what several do to each other is proved |
| `Speeds` | -1 to 126 | {-1, 5}, {5} | emergency stop, which encodes to the byte of step 1, and an ordinary one |
| `Functions` | 0 to 28 | {0, 2, 5}, none | lockable, direct and momentary, in two groups |
| `HeartbeatTimeout`, `PatienceFactor` | 10 s, 5 | 1, 1 or 2 | the test waits as long as the timeout, or longer |
| `ClockSize` (throttles) | 2^32 ms | 5, 8 (`gateway`: 3) | long enough for silence to outlast the patience before the clock comes near its wrap; in `gateway` no client falls silent |
| `Conns` (HTTP), `Roster` | any, the table | 2; two entries | a connection that waits or is refused; an entry with a label listed and one not, and one without labels |
| `Size` | 1 to about 130 bytes | 1 and 2 | a write of two bytes is refused with one byte of room, so a refusal comes with a full buffer and with one that is not |
| `SndBuf`, `Heap` | 11680 bytes; 32 segments and the C heap, for all connections | 9, 10 | a page of 35 bytes, about four buffers, is refused at every kind of place; the heap is used up before the buffer as soon as the other connection has something in it |
| `Clients`, `MaxIp`, `MaxGone` | any, 8 | 3, 2, 1 | more phones than addresses until one leaves |
| `ClockSize`, `ExpiryUnit`, `LeaseTime` (network) | 2^32, 2^16, a day | 8, 2, 2 | leases wrap with the clock and look valid again after half of it |
| `StaTimeout` | | 1 | the wait ends by an address and by the timeout |

The `gateway` run joins the smallest instances of the two modules that still have the
hazard: one phone, one slot and one locomotive in front of one feature, one address
and a ring of two messages, so that a stop and what follows it are in the ring
together, fill it, are read, refused or lost.  The orders are for speed 0 and for the one
step in `Speeds`, in both directions.  Of the master's requests there is `enable` only:
what the others do to the orders, and what one phone's do to another's locomotive, is
proved and not checked.

`throttles` and `throttle_silence` use symmetry over connections, which the specification never
orders, and check no liveness.

## Fairness and deadlock

* `FairSpec` of the link: weak fairness of `TxIsr` (the PIO raises the interrupt
  as long as its FIFO is not full) and of `MainStep` (the loop never stops);
  strong fairness of `LogonToken` and `Poll`, because a BiDiBus master offers
  LOGON tokens and polls its nodes for ever, and a token or poll that falls on a
  moment when the node is sending is followed by another.  `Put` is not fair:
  nobody has to send.
* `FairSpec` of the receiver: weak fairness of `Bus`, because the master never stops
  sending, and of `Loop`.
* `FairSpec` of the log: weak fairness of `log_poll`, which the loop calls in every
  pass, and of `UartShifts`, which is clocked.  Nobody has to log.
* `LiveSpec` of the client: weak fairness of `StreamStep` only, because
  `run_bidib_client` runs in every pass of the loop.  Polls need no fairness for
  `StreamEnds`: the test for space before each feature is always true.
* `FairSpec` of the HTTP server: weak fairness of `Writing`, since a callback runs
  until it ends; strong fairness, for each connection, of acknowledgements, of the
  poll lwIP makes every second, and of the end of a connection closed here, which
  the peer or lwIP's own timer brings.  Nobody has to ask for anything.
* `FairSpec` of the network: weak fairness of `wifi_init`, which `main` runs to its
  end, and of time; strong fairness of an answered `DhcpDiscover` and `DhcpRequest`
  of every phone, since a phone without an address asks again and again and not
  every answer is lost.
* The throttles, the gateway and the flash store have no liveness property: nothing in the
  throttles' code acts by itself, and power may be lost for good.

The link's runs are checked without deadlock detection.  A node the master has
rejected ignores every LOGON token and has no address to be polled at, so once
what was under way is over nothing happens any more.  All other runs check for
deadlock.

## Proofs

`BidibLink_proofs`:

* `TypeCorrect`, `DriverOwned`, `BackoffLow` hold for every size, every set of
  messages and every `Assumed`.  `DriverOwned` is inductive as it stands.
  `BackoffLow` needs that the counter is 0 whenever the node has applied, since
  only then is it raised.
* `Aligned` and `FramesComplete` hold when a logon keeps its timing (`LogonTimed`:
  `quiet_boot`, `prompt_ack`, `short_flush`); polls may be late and puts unpaced.
  Neither is inductive; both follow from `LinkInv`.
  Its four parts say who may be active at the same time: a connected node has no
  logon under way, none heard and no answer waiting (`ConnectedPart`); one that is
  not connected holds nothing beyond the reserved area once it is flushed
  (`UnconnectedPart`), so that the read index a finished logon sets meets the
  write index; an answer is on its way or waiting only while the ring stands as
  the logon left it (`AnswerPart`); driver, interrupt and the transmit modes
  agree (`DriverPart`).
* The lemmas at the top are about the index arithmetic: `WrapAdd` says that
  adding a length to a wrapped index wraps to the same slot as adding it before.

* `QueueRefined`, for every ring size and every set of messages, under all the timing
  assumptions: the link implements `TxQueue`; one lemma per process says to which
  step of the queue each action maps.
  It needs two facts beyond `LinkInv`: a packet is open on the bus exactly while the
  transmit ISR has one (`WirePart`), and the bytes in flight end where the queued ones
  begin, with none in flight while a disconnection flushes the ring (`FlightPart`).
* `FlightRewritten`, without assumptions: of all the steps of loop and interrupts only
  three can change a byte of an open packet: a put that writes into its place (`Hits`),
  the logon message, and a poll answered while a packet that was cut is still open.
* `FlightKept`, under `LogonTimed`: of these three, two are left, and they are the two
  hazards of the code.  One is a put that the free-space test lets through although it
  overruns the ring (`Overrun`, `bidib_client_if.c:175`): `PutInFlight` says that every
  other put stays clear of the window the ISR still reads.  The other is the logon message
  at the end of a disconnection, while a poll that came after the timeout test is being
  answered (`bidib_client_parser.c:791`).  Nothing in the code rules out either; the
  theorem rules out everything else.  Its invariant, `FlightPlace`, is that the bytes in
  flight end where the queued ones begin.
* `FlightKeptPaced`, under all five, is the property of the run: `paced_puts` and
  `no_late_poll` exclude those two steps, and nothing changes a byte.

`Gateway_proofs`, on the throttles:

* `TypeCorrect` holds without assumptions.
* `SlotOwnership` and `QuietHandover` assume `clean_close`.  They are one inductive
  invariant, `TableInv`: an error then comes only for an open connection, which
  owns the slot it frees, and the owner of a slot is needed to show that a line
  changes the watchdog of a slot in use.
* `WatchdogExact`, without assumptions, is the wrapping test itself, at every uptime.
  `RoundInv` says that the clock stands one silence past the heartbeat, counted round
  its wrap, for as long as that silence is less than a round; `VerdictOf`, what the test
  then makes of it: it compares the silence with the timeout, but for two windows.  With
  heartbeat and timeout below the wrap, a silence is missed once the clock has wrapped;
  with their sum wrapped, the watchdog goes off at once, until the clock has wrapped too.
  Once in 49.7 days, therefore, a client that beats loses its locomotive, or one that
  fell silent keeps it.
* `WatchdogBeforeWrap`, under `short_uptime`, is the property of the run: neither window
  is met, and the test is exact.  Its invariant `WatchInv` bounds the clock away from the
  wrap.

* `PhoneMatches`, `KeysFollowed` and `ReversedAtRest`, for every roster and any numbers
  of clients, slots and locomotives, under all the assumptions of the module, follow
  from one invariant.  Per slot, slot and phone agree with what its locomotive was last told: on the speed
  (`AtSpeed`), on the direction while it moves (`Facing`), and on the functions that
  follow their keys (`Keyed`).  A slot without a phone counts as one whose phone shows
  0 and holds no key, since `Loco[slot]` keeps what the last client left; a locomotive
  in no slot has no such function on (`ParkedPart`), which is what its next driver
  relies on.  No two slots hold the same locomotive (`OneDriver`).
* `BeatPart` and `WatchInv` together say that the watchdog of a client that beats does
  not go off: it would set speed and display to 0 and tell the locomotive nothing.

`Gateway_proofs`, on throttles and client together, for every roster, every set of
features, any numbers of phones, slots and locomotives and every size of the ring:

* `ThrottlesImplemented` and `ClientImplemented`, without assumptions: the gateway
  implements `WiThrottle`, with the client's flags for `ready`, and `BidibClient`, with
  the commands the throttles make for orders.  Every theorem about either therefore
  holds of the two together.  `BidibClient_proofs` is instantiated, not repeated;
  `SameSteps` and `SameNext` say that its client and the gateway's take the same steps.
  The first needs `ready = Ready` throughout, which `GatewayTyped` carries.
* `OrdersArriveAlways`, without assumptions: what the station has read of a
  locomotive, or will have when it has read the queue, is what it was told last, unless
  that order is `lost`.  `StepOfOrders` sorts the steps into those that leave the orders
  of every locomotive as they are (`Undisturbed`), those that append one (`Ordered`), and
  those that empty the queue, read or lost (`Emptied`).  The last order that waits
  is a maximum of places; that there is one (`HasLast`) comes from the well-foundedness of
  the order on numbers, since induction on finite sets takes an operator.
* `PhoneSees`, under all assumptions on the phones and none on the link, joins it with
  `PhoneMatches`: from the display of the phone to the command station.
* `GentleAlways`, under the same: `ReversedAtRest`, which is about one command after the
  other, carried over to what the station is told.  Both ends of a step on which an order
  is neither lost nor follows a lost one have `OrdersArrive`.

`LogRing_proofs`, for every size of ring, budget and FIFO and every set of texts
shorter than the ring:

* `TypeCorrect`.  Its invariant adds to the types that a byte is taken only while the
  FIFO has room and that the ring is not empty before the critical section: pushes may
  come in between, but they never empty the ring.
* `RingIsQueue`: the ring implements `LossyQueue`.  The lemmas say what `Wrap` does to
  the indices, which byte stands in which place after a push (`log_push` is one
  function over the slots), and that a push which moves the tail leaves the newest
  bytes of old ring and text together.

`BidibRx_proofs`, for every ring, every bus and every choice the build makes:

* `RingIsQueue`, under `room_at_wrap`: the receive ring implements `LossyQueue`.  The
  invariant, `RingInv`, is the types of what the ring and the bus hold, with the read
  index past the end exactly between its two stores; there the abstract queue is the
  one that starts at 0, so the second store is a stutter.  The assumption is needed:
  past the end no write index equals the read index, and the test for room passes on
  a full ring.

* `TypeCorrect`, without assumptions.  `RxTypes` adds what keeps a byte inside the
  buffer: the index runs no further than one place behind the bytes stored, unless
  the buffer is full.
* `RegisterIsRemainder`: while a packet is collected, whatever was lost or damaged
  before and however long it is, the register the code updates by table lookup is the
  remainder of the bytes by long division.  It holds as long as no packet has the length
  255 (`[]Below255`): that one makes the index wrap, and the bytes stored are then no
  longer those the register has seen.  This is a fact about recursive
  functions, and the library's theorems on recursion cannot be used (they take
  an operator).  `LeastElement`, `UpTo`, `Recursion` and `RecursionUnique` therefore
  state induction and definition by recursion with sets and functions, from the one
  theorem of the library that quantifies over sets; the lemmas from `DivideType` to
  `RemainderStep` carry it over to the division of a byte string, one byte after the
  other, from the 256 entries TLC evaluates.
* `WholePacketsPass`, under `short_packets`, `room_at_wrap` and `[]Below255`: for all
  packets, answers and losses, a packet whose words all arrive is delivered as it was
  sent, in the step that reads its CRC, once `InStep` words went by without a loss.
  What the assembler will make of a word is settled when the word arrives, by all
  those that wait before it.  The invariant, `FollowInv`, therefore follows the
  assembler through the words of the ring (`Leads`; `Taken` is one word's effect), and
  says where it stands behind the last of them (`InPlace`): in the packet on the bus,
  as many words into it as have left the line (`Synced`), or at a wrong place, from
  which it comes back in the words that are left until it is in step (`Astray`).  An
  arriving word makes the way longer, a word that is read makes it shorter, a flush
  makes it empty.  `MessagesFound` says that the walk over a packet's bytes finds its
  messages again, whatever lies behind them; the walk is a recursive function too,
  and `WalkExists` that there is one.

`HttpServer_proofs`, for every roster, any number of clients and every size of buffer
and heap:

* `TypeCorrect`, without assumptions.
* `PageComesInOrder`, under `one_segment` and `own_errors`.  How long the pieces are, why
  a write is refused and how soon anything is acknowledged does not matter.  What has been
  sent stays, so the property speaks of neighbours: each piece is followed by the next one
  of the page, or by the first of its phase behind a refused write (`BegunAgain`).
  The invariant, `PageInv`, says what stands at the end of what was sent, by what may come
  next: while a connection is served, the piece the callback writes next may come there
  (`MayFollow`, `Stands`), in its turn or, behind a refusal, again; a connection has been
  sent nothing before it asks (`AskedPart`); one that is closed was sent the end last
  (`ClosePart`).  `PhaseOver` and `LastOfPhase` say what comes behind the last piece of a
  phase, phases without a piece left out; `SumValue` and the lemmas before it, that a
  piece taken or given back adds its bytes to the sum the heap is compared with.
* `CaughtForEver`, without assumptions: of a callback that is caught, every step is the
  refusal that brings it back to where it was, and no other action can be taken before it
  returns.

`Network_proofs`, for any number of phones and addresses and every clock:

* `TypeCorrect` and `HoldersAlwaysKnown`, without assumptions.  `HoldInv`: while a phone
  uses an address, the entry of that address has its name, and the end of its lease,
  read from 16 bits as the last instant of their unit and compared with the wrapping
  clock, lies no earlier than the phone's own and less than half the clock ahead.

`FlashStore_proofs`, for every layout of the sector, every string, every content of a new
chip and all that a cut-off command may leave, with a chip that answers:

* `TypeCorrect`, with the string in use always short enough for its buffer, whatever
  was announced or is read from the chip.
* `RestIsKept` and `StringIsStored` (the store implements `UserString`).  Both follow
  from one invariant: from the reading of the sector on, the copy in RAM is the record
  of the string in use with the rest of the sector behind it; while pages are
  programmed, what lies below the current page is that copy and the rest is blank.
  Hence the string a start finds changes only in the erase and in the program of the
  first page (`risk` in `UserString`), each of which ends with no string or the new one;
  a command on another page, cut off or not, leaves the record alone (`SameRecord`).  Cut
  off in those two, the record may be any bytes, and reading it gives any string that
  fits its buffer, or none (`RecordRead`): nothing in the record tells a torn one from one
  that was set.

`BidibClient_proofs`, for every set of features and bounds, every ring and every range of
message numbers:

* `TypeCorrect`, without assumptions.
* `NumbersFollowAlways`, under `single_ack`.  Besides `NumbersFollow` it needs only that
  nothing waits in the queue of a node that is disconnected or applying
  (`EmptyWithoutConnection`): a logon, which restarts the numbers, then finds it empty.
  `NodeCounts` says that the node's wrap and the master's modulus count alike,
  `NumbersAdd` that counting on in two steps is counting on in one, and `FollowOn` what
  one or two messages, of which the ring takes some, do to the numbers in the queue.
* `ValuesKnown`, `StreamComplete` and `SubscriptionAsked`, under both assumptions of the
  module.  With `EmptyWithoutConnection` they are inductive.  `StepKinds` sorts the steps
  outside the link into four: quiet ones, answers without a value, a message that tells
  the value of one feature, and the requests to subscribe; `OneMoreRead` and
  `SubscribedRead` say what each kind adds to what the master will have read.

Assumptions about constants, each named in the module that declares them: sizes
(`SizesAssumption`, `LogSizesAssumption` and the like) as weak as the index arithmetic needs, sets
that must be disjoint, and the shape of what the bus carries (`PacketsAssumption`: a
message begins with its length, of seven bits; `BusAssumption`: only a packet of the
master begins with the word that starts one).  TLC evaluates them on every run.

Only model-checked: every liveness property, which is out of the prover's reach, and one
safety property.  `OnlySentDelivered` is a fact about the instance, not about the
code: CRC-8 passes one mutilated packet in 256, and no theorem over all packets can say
otherwise.

## Where the code and its comments part

`throttle_silence` is the run of a disagreement: it has one property, what a document
says, and TLC finds it violated; PROJECT.json quotes the lines.

* `throttle_silence` (`withrottle_if.c:458`): the watchdog waits five times the
  timeout, is looked at only when the silent client speaks, and then tells the
  phone, not the command station.  The README promises that the locomotive stops.

## Further observations

Met while modelling.  The models contain this behaviour; where a property shows it, it
is named with the assumption to take out of `Assumed`.

Link:

* The receive interrupt is enabled before `init_bidib_client` has flushed the transmit
  ring (`bidib.c:316`).  A LOGON token in between starts a logon whose end moves the
  read index; the flush moves it back, the write index goes past the reserved area, and
  for the whole session each packet carries bytes 12 places behind its data, under a
  valid CRC (`RingAligned` without `quiet_boot`).
* The test for space counts what is queued, not what the transmit ISR is still sending
  (`bidib_client_if.c:175`); a burst after a poll rewrites it (`InFlightKept` without
  `paced_puts`).  With 128 bytes it takes many messages within one packet.
* A poll between the timeout test and the flush starts a packet whose bytes the
  logon message overwrites (`bidib_client_parser.c:791-795`; `InFlightKept` without
  `no_late_poll`).
* Two LOGON tokens after a logon start another one while the answer to the first
  may still wait in the receive ring (`bidib.c:243-248`).  The second answer finds
  the node connected, `set_bidib_state` returns at once, and the node keeps its old
  address and its numbers (`NumbersFollow` without `single_ack`).
* The back-off stays at 0 or 1 (`BackoffLow`): its range of 64 is never used, and two
  nodes whose logons collide retry in step.

Receiver:

* The node announces packets of `PaketSize` bytes, one more than the assembler stores
  (`bidib_client_parser.c:340`; `WholePacketsDelivered` without `short_packets`).
* Between the two stores of the read index a full ring is overwritten
  (`ImplementsRxQueue` without `room_at_wrap`).  A build that keeps the index in a
  register has no such moment.
* A length byte of 255 is never exceeded by the eight-bit index.  After 255 bytes the
  index is 0 again, the next byte overwrites the length in `bidib_rx_paket[0]`, and the
  assembler goes on for as many words as that byte says.  The timeout that would reset it
  does not come because the ISR goes on answering polls.  `HearsAgain` leaves this length
  out.
* With three losses in one packet this instance has a mutilated packet that passes the
  CRC, as one in 256 does; hence `MaxLost`.
* A byte 0 with the ninth bit starts a packet; the comment at
  `bidib_client_parser.c:816` says a non-null one.  The print of a damaged packet
  starts at index -1 (876-880).

Client:

* One flag stands for two subscriptions and survives MSG_SYS_DISABLE
  (`bidib_client_parser.c:707`): after the first confirmation drive commands go out
  although the second subscription may have been refused.
* `bidib_tx_fifo_okay` is always true, because `bidib_tx_fill` and
  `bidib_tx_remaining` are never raised: a stream loses a feature when the ring is
  full (`StreamSkipsNone` without `room`).
* MSG_SYS_RESET waits half a second and changes nothing (`bidib_client_parser.c:592`);
  `bidib_send_boost_state` needs neither MSG_SYS_ENABLE nor a subscription (981);
  a node without an address takes messages for node 63 as its own (469);
  MSG_SYS_PONG declares three bytes of data and writes one (139).

Throttles:

* `tcp_close` leaves the error callback registered with the slot number
  (`tcp_server.c:206`).  Three steps later the slot is another client's, and the error
  of the first frees it (`SlotOwned` without `clean_close`).
* The body of the branch for an emergency stop line is commented out
  (`withrottle_if.c:427-433`), and `throttle_stop` sends nothing when a client
  leaves, though `withrottle_if.h:16` calls it an emergency stop.
* A drive command that is refused, or flushed with the connection, is not repeated, nor
  after the next logon: the throttle's table says it was sent.  When the order to stop
  and turn is the one lost, the next one turns the locomotive at speed: 5 forwards, stop
  and turn lost, 5 backwards.  `GentleOrders` therefore excepts the order after a lost one.
* The first step of the slider is sent as speed byte 1, which means emergency stop
  (`bidib_messages.h:630`); `Moving` therefore counts 1 as standing.

HTTP:

* "stop and retry on next poll" (`http_server.c:246`) holds only when the send buffer is
  full to the last byte.  A write refused with some room left, because it is longer than
  that room, or because lwIP has no memory, no segment or no place in its queue for it,
  begins the phase again in the same callback.  That goes on until the buffer happens to
  be full to the byte, or until the first write of the phase is refused as well: the
  callback is then `Caught`, nothing can be acknowledged while it runs, and it never
  returns (`CaughtForEver`, for every roster and every size of the buffers).  The main
  loop, and with it the node on the bus, stands still.  The run reaches such a state
  within a dozen steps, a page longer than the buffer being enough; `PagesEnd` and
  `ServerFree` except it by name and show that there is no other way to hang.
* What was sent of a phase before the refusal stays sent: the client sees
  `<locomotive ... <locomotive ...` or a function list begun twice, which is not
  well-formed (`http_server.c:82-157`).  `PageInOrder` says that this happens behind a
  refused write and nowhere else.
* A refused write ends the header, and the roster goes on without the rest of it
  (`http_server.c:195-211, 297-298`).
* The error callback clears `http_conn` whichever connection failed (`PageInOrder`
  without `own_errors`).  A request in two segments is answered by 404 in the middle of
  its page (`one_segment`).  A long phase whose writes are not acknowledged between
  polls is begun again and again (`PagesEnd` without `quick_acks`).

Flash:

* Without a chip the firmware goes on: a data line that reads high keeps
  `flash_wait_ready` and the main loop waiting for ever, one that reads low logs the
  string as stored (`ImplementsUserString` without `chip_present`).
* The chip must answer 0xEF4016; the comment in the header says 0x4015.
* An empty string is used but not kept: after a restart the one before is back.
* `a += SECTOR_SIZE` would skip parts of the later sectors of an unaligned write over
  several; none is made.

DHCP: renewals, which carry no requested address, are not answered, and no refusal is
ever sent; a phone whose lease ran out asks again.  The leases of phones that left block
their addresses until the search meets them, `EveryoneServed` notwithstanding.

## What is not modelled

* In the link: PIO set-up and the content of the logon frame; `last_poll_us` as a
  number: `PollOverdue` takes the test as true when it should be, leaving out a torn
  read of its 64 bits and the wrap of milliseconds.
* In the client: the layout of messages and their length bytes.
* In the throttles: the welcome message, the text of replies, throttle IDs above 5,
  which the code ignores; the split of the TCP stream into segments.
* In the gateway: the functions in a drive command, and the answers of the station.
* In the HTTP server: the characters of the XML; a piece has a length, an escaped
  character is a piece as any other.  The segments of a connection are not counted one by
  one: `Heap` bounds all that lwIP has in bytes.
* In the flash store: `flash_erase_all`, which is never called, and writes over several
  sectors, which are never made.
* In the network: the radio, the DHCP options and the bytes of the packets.
* mDNS (one registration), the PIO program (a word is the unit), and the formatting
  of the log.

## Plan

What could be added, in this order:

1. `BidibLink` and `BidibRx` composed, the answers to a logon taken from the ring of
   words.
2. The stream of a phone cut into segments, in front of the lines of `WiThrottle`
   (`tcp_server.c:257`).
3. A clock for `last_poll_us`, in two halves, and the wrap of its milliseconds
   (`bidib_client_parser.c:789`).
