# TLA+ models of the MeshCore firmware

MeshCore is firmware for small LoRa nodes: chat companions, repeaters, room
servers and sensors that carry each other's packets.  This directory holds TLA+
models of the parts of it that are hard to test, the TLC configurations that
check them, and TLAPS proofs.  Source paths below are relative to `src/`, the
root of the repository; the mesh code itself is under `src/src/`.

Run a model with `tlc -config X.cfg M`, and the proofs with `tlapm M.tla`.

## 1. The system

One main loop runs everything on most boards: `Mesh::loop()` is
`Dispatcher::loop()`, and between two calls of it the firmware does the rest
(screen, serial, command line).  Only the radio interrupt runs beside it, except
on ESP32 boards with WiFi, where the observer adds a worker task and the
esp-mqtt client's own tasks.

    application (repeater, companion, room server, sensor)
        | sendFlood, sendDirect          ^ onPeerDataRecv, onAckRecv, ...
    Mesh: routing, SimpleMeshTables (ring of packet hashes)
        | sendPacket, returned action    ^ onRecvPacket
    Dispatcher: queues, timers, transmit budget -- StaticPoolPacketManager: the pool
        | startSendRaw, isSendComplete   ^ recvRaw
    RadioLibWrapper: state byte          ^ setFlag (interrupt)

    WiFi observer: Mesh's raw packets -> MqttBrokerPool::publishPacket -> MqttRingLog
        -> drainBroker -> MqttBroker, whose state the worker and the event task change
    Log: mesh_log_line, from any task -> CaptureRing
        -> CaplogForward -> syslog sink; caplogDrain -> the app's download

### Components

| Component | State | Operations | What makes it correct |
|---|---|---|---|
| Dispatcher and packet pool (`Dispatcher.cpp`, `StaticPoolPacketManager.cpp`) | three tables of packets, the packet on the air, budget, five timers | obtain, send and release a packet; one pass of `loop()`; the handler's returned action | every packet in one place; no table ever full; a packet on the air is always taken back; the budget never wraps; queued packets leave |
| Radio driver (`RadioLibWrappers.cpp`) | one byte that interrupt and loop both write | `recvRaw`, `startSendRaw`, `isSendComplete`, CAD scan, AGC reset | the "done" flag is never taken for another event's |
| Mesh routing (`Mesh.cpp`, `Packet.h`, `SimpleMeshTables.h`) | ring of hashes, path of each packet | `onRecvPacket`, `sendFlood`, `sendDirect` | nobody acts on a packet twice, floods end, paths lead where they should and keep their encoding |
| Chat node (`BaseChatMesh.cpp`, `AckTable.h`, companion's `processAck`) | contacts with their out-paths, awaited acks, timeouts | texts, acks, returned paths, requests, connections | an ack means the text was handed over; paths are learned and repaired; no pointer outlives its contact |
| MQTT ring (`wifi_observer/MqttRingLog.h`) | ring of records, a cursor and a loss counter per broker | append, peek, commit, resync | in order, none twice, every loss counted, nobody stuck |
| MQTT broker pool (`MqttBrokerPool.cpp`, `MqttBroker.cpp`) | state, back-off, client and TLS budget of each broker | connect, rotate, fail, reload, from four tasks | one TLS client at a time, every broker gets its turn, a failed one stays failed |
| Room server (`simple_room_server/MyMesh.cpp`, `ClientACL.cpp`) | seats of clients with how far each has been pushed to, ring of posts, file of administrators | logins, texts, commands, requests, the push loop, saving and loading | nobody is taken past a post he has not received; a retried text is one post; pushes end; every post arrives |
| Captured log (`CaptureRing.cpp`, `MeshLog.cpp`, `CaplogForward.cpp`, companion's `caplogDrain`) | ring of bytes, the forwarder's position and window, the download's offset and freeze | log a line, erase, switch, arm, service, download | a gap is marked, a download is whole, a silence is explained, the reader never sticks |
| Repeater, companion, sensor (`examples/`) | neighbours, offline queue, alerts | requests, replies, alerts | tables bounded, alerts retried until acknowledged |
| Serial interfaces, KISS modem, crash log, telemetry link, bridges, stores | frame queues, rings, files | see `PROJECT.json` | planned or left out, with the reason, in `PROJECT.json` |

The hard behaviours are: the interrupt against the loop's read-modify-write of the
state byte; a completion that races its own timeout; a pool that may run dry on
any path; a budget spent in unsigned arithmetic; `millis()` wrapping; packets heard
several times, late and out of order; hashes forgotten because the ring is short
or the node restarted; two nodes with the same path hash; brokers taken down by
another task while the loop publishes to them, and competing for one TLS context;
acks that come after their push has been repeated or replaced; readers that a ring
overtakes while they are away.  `PROJECT.json` lists them as
`hazards`, each at its line and with the properties that watch it.

## 2. What is modelled

| Module | Models | Built on |
|---|---|---|
| `PacketQueue` | the tables of `StaticPoolPacketManager`, as operators | |
| `RadioLibWrapper` | the driver's state byte, the chip and the interrupt | |
| `Dispatcher` | `Dispatcher.cpp` entire, with the pool and the application around it | the two above |
| `PacketLifecycle` | abstract: where a packet may be, and that the transmitter is given back | refined by `Dispatcher` |
| `DispatcherAirtime` | the dispatcher with a radio that keeps its air times, and a ledger of air time against budget | `Dispatcher` |
| `MillisQueue` | the same table and timers on wrapping timestamps | next to `PacketQueue` |
| `FloodPath` | one packet's path at the widths of the code | |
| `Mesh` | routing and the text/ack/path exchange on a network of nodes | the dispatcher as an unreliable, reordering air |
| `MqttRingLog` | the ring, `publishPacket()`, `loop()`, `drainBroker()` and what the other tasks do to a broker | |
| `RetainedLog` | abstract: a log that keeps its last N messages, and its readers | refined by `MqttRingLog` |
| `BrokerPool` | the brokers' states, clients, back-off, failures and turns under worker, esp-mqtt tasks and operator | next to `MqttRingLog` |
| `Room` | the room server, its clients' table and file, and the chat nodes on the other side | an air that delays, reorders and loses |
| `CaptureLog` | the captured log's ring, its forwarder and its download | |
| `MCDispatcherAirtime`, `MCMesh`, `MCBrokerPool`, `MCRoom` | instances for TLC | |
| `MCWidths`, `MCRings` | modules that share a run, as a choice between them | see section 3 |
| `PacketQueueProofs`, `DispatcherProofs`, `WidthsProofs`, `MeshProofs`, `MqttRingLogProofs`, `BrokerPoolProofs`, `RoomProofs`, `CaptureLogProofs` | proofs, see section 4 | the module of that name |

`map` in `PROJECT.json` gives the lines of every definition.

**Dispatcher.**  `loop()` is cut where it looks at the world (variable `phase`):
transmission in progress, inbound queue, radio, outbound queue.  Between the cuts
the clock (`Tick`) and the interrupt (`RadioInterrupt`) may run.  `onRecvPacket()`
is a phase in which the subclass may obtain, send and release packets and then
returns one of the three actions.  Times are kept as distances from now, so
`millisHasNowPassed` is `distance < 0`; `MillisQueue` checks that this is what
wrapping 32-bit arithmetic computes, as long as a timestamp is looked at within
half a word.  Every failure branch is there: an unreadable frame, an empty pool,
a full table, a transmission that does not start, one that never ends, a channel
that stays busy.

**Radio.**  `int_ready` is `STATE_INT_READY`, `state` the rest of the byte, `chip`
what the transceiver does.  Code that overwrites the byte clears the flag, also
one the interrupt has just set: `startSendRaw` may lose the end of a very short
transmission, which is why the transmission's expiry matters.

**Mesh.**  A network is a record (who hears whom, who forwards, ring size, what is
sent), one of `Networks`, fixed in the first state.  What a node queues is
transmitted at any later time in any order, any subset of its neighbours hears it,
and each looks at it at any later time in any order: priorities, random delays,
score delays, lost packets and an empty pool are all covered by that.
`onRecvPacket()` is one action per kind of packet, in the order of the code's
tests, each with all it causes (marks in the ring, replies, forwarding).
Encryption is perfect and payloads are records.  History variables remember the hashes
of what each node queued and handed over (`sent`, `handed`), those for which it did so
again (`twice`), and whose ring has lost a hash (`forgot`).  They are kept over a
restart, which empties the ring; what a node had acted on when it restarted (`before`)
is what the ring cannot keep it from repeating.

**FloodPath.**  The length byte (2 bits of hash size, 6 bits of count) and the 64
path bytes, with `setPathHashCount`'s real bit arithmetic, through flooding,
return and use of the path.

**MqttRingLog.**  `loopTask` is cut at every message `drainBroker()` looks at, and
between the cuts a broker's client may be released, replaced, connected or
disconnected by the worker and the event task, and the operator may reload a slot.
Whether there is an IATA for a broker's topic (`hasIata`), without which
`drainBroker()` does nothing, is up to its configuration, which the worker takes over
when it reconciles the slot.

**BrokerPool.**  The worker's pass is cut wherever it blocks (stopping or starting a
client, waiting) or turns to another part of its work (`pc`): take a reload, rotate
out a victim, survey the brokers, start those that may, promote one of the losers.
Between the cuts the esp-mqtt task of a started client reports a connection or a
failure, the operator queues a reload, and any timer runs out.  A test and the
assignment that follows it without a blocking call are one step.  Events come only
from a started client, because stopping one waits for its task.  Timers are whether
they have run out; a broker's rank among those last served stands for its service
epoch.  The renewal of a JWT changes nothing that is modelled.

**Room.**  One action per kind of message in each direction, `Pass` for one pass of
`loop()` (timeouts, then a post for the next seat in turn), `Save`, `Restart`, and
the server's console.  A post is its timestamp.  `getCurrentTimeUnique()` gives it later
than all since the start, but a restart forgets `last_unique`, and the clock may then be
anywhere: `VolatileRTCClock` and, after a loss of power, `ESP32RTCClock` start again at a
fixed date (`ArduinoHelpers.h:11`, `ESP32Board.h:319-327`), a chip keeps the time, and it
may be set at any moment.  So the next timestamp is any that is above `last_unique` and
not more than `leap` above all there ever were (`newest`).  What clients have synced
comes back from the file.  A message's own timestamp is its sender's: texts and
logins take even ones and the requests between them share the odd one, for requests
do not need unique ones.  `last_activity` is a rank, because only its order and
whether it is zero count.  Ack timeouts run out at any pass; routes and replies are
left out.  `MCRoom` has twelve settings (who sits, asks, posts, logs in and when, who is
promoted, what is lost or repeated, how far the clock leaps) and the behaviour is about one of them.

**CaptureLog.**  A byte is its position in everything ever appended, so that the ring
is two positions and those of the newlines in between; `whole_line_take` and the
eviction by whole lines are choices among these.  The ring is locked for each
operation, so an operation is a step, but a line of another task is cut between
`mesh_log_line`'s look at the switch and its `append`.  A window is open or not; a
deadline may pass at any time.  The forwarder works in the observer's mode (cursor)
or the repeater's (consume), and only the former has a download.  Without an identity
(`identified`) it does not announce its windows; both roles set one.

## 3. Runs

| Run | Constants | Shows |
|---|---|---|
| `dispatcher` | 2 packets, 2 priorities, delays 0 and 1 ms, air time 2 ms of an estimated 4, budget 2 at duty cycle 1/2, CAD retried at once and given up after 1 ms | types, pool conserved, queues with room, radio ownership, budget; urgent packets leave, delayed ones are handled; refines `PacketLifecycle` |
| `widths` | one of three: 1 packet, air times 1, 3 and 4, duty cycle 1/4, up to 14 ms on the air; an 8-value clock, 3 slots, 3 priorities; 66 hops, `flood.max` 63, all hash sizes | `AirtimeWithinTwiceBudget`; the scan over wrapped times finds what the ideal queue finds, count and get agree, timers agree; a path keeps its hops through collecting, returning, following |
| `dispatcher_dutycycle` | the packet of `widths` at duty cycle 1/8 | violation: the duty cycle is not a limit |
| `flood_path_default` | `flood.max` 64, the default | violation: the 64th one-byte hop |
| `mesh` | seven networks: a relay with multi-acks and two texts, two relays in a row of which one may restart, a diamond whose relays share a path hash, the diamond without losses, the same with hashes of their own and multi-acks, two relays with a one-entry ring and a restart, a clique with a trace that returns through a node | `ActsOnce` (nobody whose ring has not overflowed sends or hands over a packet twice, except a restarted relay what it had acted on before the restart), `LearnedPathsConnect`, `DirectRoutesConnect`, `AckMeansHanded`; floods end, and where nothing is lost texts are acknowledged and traces complete |
| `mesh_repair` | a relay without multi-acks, two texts | violation: the path repair never happens |
| `rings` | one of two: one broker, 2 slots, 5 messages; a log of 3 bytes read 2 at a time, 6 bytes in lines of 1 and 2, with and without a newline | the ring refines `RetainedLog`, losses are counted, nobody is wedged, a backlog drains; every gap marked, downloads whole, the sink catches up and is told of a stopped capture |
| `mqtt_ring_reentry` | one broker, 2 slots, 3 messages | violation: a backlog skipped on re-entry |
| `broker_pool` | 3 slots, one TLS context, failed for good at the second failure; four scenarios: three TLS brokers of which one is flaky; an operator who makes two changes to a TLS and a plaintext broker that work; a TLS broker that fails for good and one change; a clock not yet set | the TLS budget, no broker up without a client, reloads applied, every broker served |
| `broker_pool_wedge` | the scenario of a clock not yet set, when a start may fail inside the window of the last failure | violation: Connecting for ever |
| `room` | 2 seats, 2 posts, 3 nodes, twelve settings, in two of them a restart after which the clock may be back | `NoPostSkipped` (but for posts stamped no higher than one before the restart), `AckedIsStoredOnce`, `PushesStop`; every post arrives |
| `room_login` | a member who was out of reach logs in without a password | violation: nothing is pushed to him |

Bounds.  Two packets fill both queues, the air and the application's hands in all
combinations; more packets are the proofs' business, which hold for a pool of any
size.  The times are the shortest that make every timer outlive a step, the refill
round to zero and the budget run out (`EstAirTime` 4 needs the whole budget, and
an update every millisecond credits half a millisecond).  `FloodPath` runs at the
code's own widths.  The networks of `Mesh` are the smallest in which a path has
length two, two copies of a flood race, a hash is ambiguous, or a ring forgets
while a packet is still under way.  Five messages wrap a ring of two slots twice, and six bytes a log of three.  Three
brokers for one TLS context are the fewest among which one can be passed over while
two others take turns.  Two seats and three nodes make an eviction, two posts and a
third an overwriting; three unanswered pushes are the code's own number.  `MCWidths`
and `MCRings` start in a state that chooses their subject and leave the variables of
the others as they are, so that one run answers for several modules.
`MaxOnAir`, `MaxCredited`, `MaxHead`, `MaxTotal`, `MaxHops`, the numbers in a scenario
of `BrokerPool` or a setting of `Room` (with its `leap`), each network's `restarts` and its
finite `traffic` are the only artificial bounds; everything else is finite by
itself.

Stopping.  `CHECK_DEADLOCK FALSE` is set where the model comes to an end: a network or
a room in which everything has been delivered, and in `widths` a path used up and a
clock that stops before an entry is overdue by half a word, the documented limit of
the comparison.

Fairness.  `Dispatcher`: the loop is polled for ever and the clock runs (weak
fairness of `Loop` and `Tick`); nothing is assumed of the radio, whose interrupt
may never come and whose channel may always be busy.  `Mesh`: as long as
some node has something to do, some node does something, which is less than each node's
polling would justify; the exchange and the trace are only promised where nothing is
lost, which is a field of the network, not a fairness assumption.  `MqttRingLog`:
`loopTask` and the worker run; a client that keeps being offered a message while
its broker is up is assumed to accept one eventually (strong fairness of
`publish`), because its outbox is drained while it is connected.  `BrokerPool`: the
worker runs, each timer that is left alone runs out, a client that is connecting
reports how it went (esp-mqtt has a network timeout), the clock is set in the end,
and, by strong fairness, a dwell does pass and memory is not always short for the
same slot just when its turn comes.  `Room`: the server loops; where nothing is lost a
message that stays under way arrives, and of the pushes and acks that are repeated
for ever some come before their timeout (strong fairness); a node keeps asking, as
the keep-alive does.  `CaptureLog`: the forwarder is serviced again and again, that
is, the link is not down for ever.

## 4. Proofs

All eight proof modules hold for every value of the constants, from the named
assumptions in the modules (`PoolAssumption`, `BudgetAssumption`, `NetworksAssumption`,
`RoomAssumption`, ...) and, where a theorem names one, from a hypothesis of its own.
Every inductive invariant was first checked by TLC.

`PacketQueueProofs`: what taking the head, appending, removing by index and
elapsing time do to the set of packets a table holds, and that a table with as
many slots as there are packets has room for one it does not hold.

`DispatcherProofs`:
- `TypeCorrect`.  `TypeInv` adds `PhaseInv` (a packet is in hand exactly inside the
  handler; nothing is on the air after the first part of `loop()`) to `TypeOK`;
  without it a step from an unreachable phase would overwrite a packet.
- `RadioOwnership`, `BudgetReserved` from `AirInv`: the budget that let a packet go
  can only be reduced by that packet's own charge, because no update runs while
  one is on the air.
- `PoolConservation`, `RoomInTheQueues` from `PoolInv`: conservation as "these sets
  partition the pool", one lemma per way of moving a packet.  Room in the queues
  follows by counting: whoever has a packet in hand leaves at most N-1 for a table
  of N slots.
- `FollowsLifecycle`: the refinement of `PacketLifecycle` but for its fairness.  Where a
  packet is follows from the partition (`Located`), so a step that changes one part moves
  one packet (`OneMoves`), and each action is one of the lifecycle's edges or none.
- `AirtimeBounded`, of `DispatcherAirtime`.  The invariant is about the air time that
  twice the budget spent so far does not account for (`Unpaid`): none between
  transmissions; during one at most what it will be charged, and at most its own length,
  which is at most twice the budget that let it go.  Needs `EvenEstimate`, because the
  code halves the estimate with integer division.

`WidthsProofs`, about `MillisQueue` and `FloodPath`:
- `TimersPass`, for a word of any even size (`EvenWord`) and delays of less than half
  (`ShortDelays`).  A timer is its distance after now but for whole words (`After`), and the
  distance stays within half a word on either side.
- `ScanIsRight`, `CountIsRight`, from `TableInv`: each entry is as far from now as the ideal
  queue says, or overdue by no more than half a word.  That the recursive function `scan` is
  what its equation says (`ScanIsScan`) and that after k entries it has found the best of
  the first k (`ScanFinds`) are inductions over its argument, each by the least
  counterexample (`LeastNumber`).
- `PathsAreWhole`, for `FloodMax` up to 63: the code's default of 64 is finding 2.  A hash is
  written behind those that are there, and taken off in front of them (`HopWritten`,
  `HopTaken`), for each of the three sizes.

`MqttRingLogProofs`: `TypeCorrect`, `DropsCounted`, `NoWedge` and
`RingImplementsLog` from `RingInv`, whose parts are the cursor bound, the exact
counters, "a resync is pending only after an attach" and "the last N messages are
in the slots peek() looks in" (messages less than N apart have different slots).
`RingImplementsLog` is the refinement of `RetainedLog`, step by step.

`MeshProofs`, with four invariants, of which the later ones rest on the first two:
- `IInv` says of every packet, wherever it is, what is known of it (`Known`): what an
  application sends was issued, an ack is for a text that was handed over, a returned
  path leads from its addressee to its author.  `Queued` and `Heard` say where it may
  be: a flood has come along its path to this node, a direct packet still has its own
  to go from here.  With that every stored path leads to its contact (`RoutesOK`) and
  every text is awaited or has arrived (`TextsOK`): `TypeCorrect`, `PathsLead`,
  `AckedIsHanded`.
- `RoutesLead` assumes `HashesDiffer`: no node has two forwarders with one hash among its
  neighbours.  Otherwise the wrong one may take a direct packet and cut its path, which
  then leads nowhere; that paths are learned correctly does not need it.
- `OnlyOnce` speaks of everything a node ever queued or handed over: the history is kept
  over restarts, and what a node had acted on when it restarted (`before`) is excepted by
  name, since the ring is in RAM.  It needs `HInv`: the ring of a node that has had room
  for every hash holds the hash of all else it queued or handed over (`InRing`), hashes are only of texts already issued and of
  payloads already counted (`Used`), so that a new payload's is new, and without
  multi-ackers there is no multi-ack (`NoMulti`).  The end of a trace is handed over
  without asking the ring, so it comes once only because a trace is passed on like a
  token where forwarders do not share a hash: in one queue, or due at one node, or over,
  and whatever else was overheard of it is behind (`OneQueued`, `BehindQueued`,
  `BehindDue`, `Over`).
- `TracesEnd` needs `TInv`: where nothing is lost (`Guided`), a trace that was sent is queued
  where it `Stands`, due at a node that has not acted on it, or over (`Underway`), and the
  ring holds no hash of a visit still to come (`Ahead`), so that the ring stops no trace.
  Its hops must lead from node to node, and a path must have room for what is measured.
- `ExchangesEnd` needs `XInv`, about an ideal network (`Ideal`: nothing is lost, nobody
  restarts, no two forwarders share a hash, a path has room for all of them, and the ends of
  a text reach each other) whose rings have not overflowed (`forgot = {}`; a node whose ring
  has may act on what it took for new, and answer it again).  Every text, returned
  path and ack is an errand (`Errands`) that is not in use, or under way (`Going`).  As a flood
  it `Spreads`: each copy came by different forwarders that passed it on (`Gathered`, so a
  path always has room for one more, `PathRoom`), and whoever passed it on still has to
  transmit it or was heard by all its neighbours (`Heeded`).  As a direct packet it `Follows`
  a path that comes by no node twice: it is where the path has brought it, or further on, or
  at its end.  Once it has arrived it has led to what it is for (`Done`): a text to an answer,
  a path to a path learned, an ack to an end of the waiting.  What it says must be true for
  that (`Says`), and who knows a path has told the other end, or was told by it (`RouteOK`):
  the code sends a path back only in return for a flooded one.  Once all is quiet an errand
  has come all the way (`QuietArrives`), by induction along its path (`StepByStep`).
  `UnknownAssumption` says that the model's value for an unknown path is no path.

`BrokerPoolProofs`: `TypeCorrect`; `BudgetRespected`, where at boot the clients are made
for the first brokers that ask (`FirstComers`) and each later one only after counting those
there are; `UpIsBacked`, because an event comes only from a started client and stopping
one waits for its task (`BrokerOK`).  `ReloadKept` is not inductive: a broker that is
being rotated out or started leaves its state, Failed included, so the invariant
(`ReloadInv`, `StartingInv`, `DisabledInv`) accounts for its change until the worker
comes back to it, and says that a disabled broker has no client.

`RoomProofs`: `TypeCorrect`, `NoSkip`, `StoredOnce` and `Silence`.  That `since` never passes a post the client
lacks is not inductive: an ack is accepted for what is pending, so the invariant
(`IInv`) says of every seat that the client has all posts before the one it is being
pushed, of every push under way the same, of every ack that its post was received, and
of every login and request that its `since` is the node's.  The post before the one
pushed is the right one because the scan meets the posts in order (`RingOK`,
`DueInOrder`).  The seats hold different nodes, the seat that a deletion leaves behind
included, for `nextClient` may still point at it.  All this is stated over the posts,
the nodes and the two timestamps `past` and `newest`, so that one lemma per part
(`LaterEntry`, `LaterTable`, `LaterMsg`) carries it over a new post.  That post is later
than all others, or the clock had gone back with a restart and its timestamp is not above
those before: then it does not count, and `NoPostSkipped` and the invariant except it
(`past`).  There is no third case, because `newest` is `last_unique` or `past`
(`RingOK`).  A restart keeps the invariant because the ring is empty after it.

`StoredOnce` and `Silence` rest on a second invariant (`CInv`).  Pushes are counted per
node: those it was not heard after are failures of its seat, one that is being tried
(`Tried`), or one for each seat deleted, where the index of the next client may still owe
a push to a vacated seat (`Stale`).  Texts are followed by their stamps: whatever stamp a
seat or a message under way could make the server remember, the texts with that stamp are
stored (`Clear`), so a text that looks like a retry is one; a text that is new to its seat
was not stored since the seat was given (`Noted`); an acknowledged one is stored
(`Settled`).  The proof corrected the model and both properties: a path the client sends
counts as a sign of life, and a stamp is ambiguous if two texts share it or one came from
a node that may not post.

`CaptureLogProofs`: `GapsMarked`, because the position the sink takes itself to have
reached is the cursor, and `DownloadsWhole`, because while the capture is frozen the
offset is the distance from the ring's oldest byte to the next one to be sent.

Only model-checked:
- everything under fairness (the prover does no liveness), hence also that the
  transmitter is given back, the fairness of `LifecycleSpec`, and that a mesh comes to
  rest, at which `TracesEnd` and `ExchangesEnd` take it;
- `ExchangeCompletes` where forwarders share a hash, as in the diamond without losses.

## 5. What the runs found

1. `Dispatcher.cpp:101` -- `set dutycycle` is not a limit: the part of a packet's air
   time that the budget cannot pay is forgiven.  The true bound is twice the
   budget, proved in `DispatcherProofs` (`AirtimeBounded`).
2. `Mesh.cpp:347` -- at the default `flood.max` a flood of one-byte hashes is forwarded
   a 64th time and its length byte becomes that of an empty path of two-byte hashes.
3. `BaseChatMesh.cpp:373` -- the route of an accepted ack is asked for after its header
   was overwritten, so the branch that sends the reciprocal path again is dead.
4. `MqttBrokerPool.cpp:767` -- a broker whose client was made by `begin()` counts as
   never attached, and loses its backlog the first time it is rotated back in.

5. `MqttBroker.cpp:502` -- a start that fails within five seconds of the broker's last
   failure is not counted, and leaves the broker in Connecting with nothing
   connecting: it is never driven again, and a TLS one keeps its share of the budget.
6. `simple_room_server/MyMesh.cpp:336` -- a login without a password is answered but
   does not reset the count of unanswered pushes: a client that was out of reach is
   told that it is logged in and gets nothing before its next text or request.

Also noticed, not checked by a run of their own:
- A timer last set more than 2^31 ms ago reads as being in the future again, so a node
  that has not transmitted for 24.8 days waits up to as long again.
- `reconcileSlot()` subtracts a slot's client from the number of TLS clients also when
  it is a plaintext one, which the number does not include: `TlsBudget` excepts the
  reload that makes a plaintext slot with a client a TLS one (`converted`).
- A reload accepted just before its broker fails for good is lost (`ReloadApplied`).
- A guest's text is neither posted nor acknowledged but its timestamp is remembered
  (`MyMesh.cpp:449-491`): when the guest is promoted, the retry of that text is
  acknowledged as one that was posted (`AckedIsStoredOnce` excepts it).
- Where two forwarders in reach of the same node share a path hash, a direct packet may be
  taken by the wrong one and its path then leads nowhere (`RoutesLead`).
- A room server whose clock goes back with a restart (no RTC chip, see section 2, or the
  command `clkreboot`, `CommonCLI.cpp:662-665`) gives new posts timestamps that its clients'
  `since` has long passed: `since` is loaded from `/s_contacts`, and the nodes send
  their own with a login.  `loop()` (`simple_room_server/MyMesh.cpp:1018`) takes such a
  post for an old one and never pushes it, until the clock is set right; `docs/faq.md:148`
  says that the server pushes the stored messages to its users.  A setting of `MCRoom` (`Reset`) reaches it, and
  `NoPostSkipped`, `EveryPostArrives` and `NoSkip` except such posts by name.
- Two texts a client sends within one second have one timestamp: the second is
  acknowledged as a retry of the first and never posted (`AckedIsStoredOnce`).
- A line that another task has begun to format when a download freezes the capture is
  still appended and, when the ring is full, moves the bytes under the download's
  offset (`DownloadWhole`).

## 6. Not modelled

- In `Mesh`: raw, control, anonymous and request/response packets, transport codes,
  regions, repeaters' loop detection; group data and texts are one kind.
- In the driver: noise floor sampling, the AGC timer, chip subclasses.
- In the ring: a sequence number's wrap after 2^32 messages; payloads too large for
  a slot (ruled out by a `static_assert`).  The queue depth of `drainBroker()`'s
  burst never binds, because nothing is appended while it runs.
- In the broker pool: publishing and status reports, certificates and credentials, the
  JWT's renewal, and what a reload changes apart from transport and enabling.
- In the room: routes and replies, requests for status and telemetry, regions,
  settings; `clock sync` and `time` within a run (`CommonCLI.cpp:674-699`), which may
  put the clock behind `last_activity` and the times pushes wait for, while
  `getCurrentTimeUnique()` still keeps the posts in order; guests' and members' entries in the file (only administrators are saved).
- In the captured log: the dump to a console, the copy to an SD card (a second reader
  with a cursor of its own), levels and mirrors.
- The contact table and the table of awaited acks with their pointers, message
  timeouts, connections, and the companion's offline queue and streamed replies.
- Components that are text handling, presentation, hardware access or third-party
  code, and those still to come, are listed with their reason in `PROJECT.json`.

## 7. Plan

What could follow, most important first:

1. `Contacts`: the contact table with its anonymous region, the awaited-ack table with
   its pointers, the single text timeout, connections and keep-alives.  Properties:
   eviction takes the oldest of its kind; a text is reported sent or timed out, not
   both.  To prove: table bounds and pointer validity.
2. `Mesh` continued: requests and responses, anonymous requests, transport codes,
   loop detection.
3. The sensor's alerts on the pattern of `Room`; the crash log across resets; frame
   queues of the serial interfaces; the telemetry link.

Related questions share a run, as in `dispatcher`, `widths` and `rings`: a new module
adds one run at most, and one more only for a disagreement between code and
documentation.
