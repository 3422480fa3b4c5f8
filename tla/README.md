# A TLA+ verification of CrowNet's core

CrowNet (`src/crownet/`) simulates pedestrians and vehicles that exchange
beacons and decentralised crowd density maps. It is C++ on OMNeT++, INET and
Artery: single-threaded, every handler runs to its end before the next event.
What makes it hard is not preemption but order: timers, packets and callbacks
of many modules interleave freely, packets are lost, overtaken and repeated,
and state is kept twice, in modules that only callbacks or increments connect.

This directory holds TLA+ modules translated from that code, TLC
configurations that check them on small instances, and TLAPS proofs that hold
for every value of the constants. The controllers that guide a simulated crowd
are Python scripts beside the simulations; they are modelled together with the
C++ that calls them. Paths below are relative to `src/crownet/src/crownet/`,
those of scripts to `src/crownet/simulations/`.

## 1. Inventory

Components, with state (S), operations (O), interactions (I), what is hard (H)
and what makes them correct (C). `PROJECT.json` lists all of them with their
status, and under `hazards` the lines where the hard parts bite.

**Neighborhood table** (`neighbourhood/NeighborhoodTable.cc`). S: one record
per node (position, cell, creation time), `ttl_msg`. O: `processInfo` with
`saveInfo` and `removeInfo`, the periodic and the on-demand purge
`checkAllTimeToLive`, `getSize`. I: filled by the beacon application, read by
the schedulers, tells listeners by `emitRemoved`, `emitEnterCell`,
`emitLeaveCell`, `emitStayInCell`. H: late, repeated and overtaken beacons; two
ways to forget a node. C: newest record wins, records are dropped if and only
if they are too old, and soon.

**Beacon application** (`applications/beacon/`). S: per source reception info.
O: send a beacon with the current position; meter a received one
(`AppRxInfoPerSource`: order, loss, jitter) and pass it to the table. H: 16 bit
sequence numbers. C: an out-of-order beacon updates nothing.

**Density map: cells and entries** (`dcd/generic`, `dcd/regularGrid`,
`common/Entry.h`). S: per cell one entry per source (count, measured, received,
valid), the index of neighbors, the selected value, the stamp `last_sent`. O:
increment, decrement, touch, reset; the age handler; aggregation visitors. C:
counts are never negative, a value is selected from valid entries only.

**Density map application, local layer** (`applications/dmap/DensityMapAppSimple.cc`).
S: the map's local entries. O: the four listener callbacks, `fsmSetup`,
`fsmTeardown`, `computeValues`. I: listener of the table. H: counts kept by
increments; a second time-out inside the map. C: map and table agree, counts
are the sizes of the neighborhoods, no callback throws.

**Cell selection** (`dcd/generic/CellIdStream.tcc`). S: a queue of all cell
keys. O: `addNew`, `hasNext`, `nextCell`, `size`. I: asked by the application
for what to send next. H: the search rotates the queue and stops at the first
cell already sent; `size` counts the same thing a second way. C: every valid
cell is sent in turn, none twice at one time, and the two ways of counting agree.

**Map dissemination** (`applications/dmap/BaseDensityMapApp.cc`,
`applications/common/BaseApp.cc`). S: the scheduled amount of data. O:
`canProducePacket`, `getBurstInfo`, `createPacket`, `producePackets`,
`mergeReceivedMap`. H: the number of packets is fixed before the first is
filled; received maps are overtaken. C: a burst stays within its budget, packets
are
not empty, an entry goes back in time only with a packet known to be late.

**Schedulers** (`applications/common/scheduler/`). S: generation timer, quotas,
last and current transmission interval. O: timer, network lost and regained,
start and stop of the application. C: nothing is sent after the stop, quotas
hold, the timer never dies while the application lives.

**Application life cycle** (`applications/common/BaseApp.cc`). S: the root
state machine. O: set up, data, sub state, tear down, destroy.

**AID transport** (`aid/`). S: connections by application socket, transport
sockets, one state machine per connection. O: bind, connect, data, close,
destroy, packets from below. C: commands legal for a socket reach no error, a
closed connection gets no packet.

**Coupling to Vadere and SUMO** (`artery/traci/`). S: subscribed ids, modules by
id. O: init, step (departed, arrived, updated), close. I: asks the simulator of
the crowd for a step, then calls the flow control. C: a module exists exactly
for the pedestrians that have departed and not arrived.

**Flow control** (`control/`, `applications/control/`,
`applications/common/BaseBroadcast.cc`). S: the time of the next call, the
advice an application has received. O: call the controller, forward its
commands to Vadere or to an application, broadcast advice and pass it on. H: two
grids of time, commands and events of one instant, packets that circulate. C:
calls come on time, advice is delivered as given, circulation ends.

**Control strategies** (`route_choice_app/control.py`,
`mucFreiheit_route_choice_app/control.py`, `guiding_crowds_test/control.py`,
`testSim/control_1.py`). S: densities and target last seen, the logs. O:
`handle_init`, `handle_sim_step` with measuring, choosing, recommending, logging.
H: the four work on shared fields, in an order nothing enforces; the time an
order is valid is a literal. C: logs tell what was recommended and why, no two
recommendations contradict each other.

**Detour application** (`applications/detour/`). S: a state machine, three
timers, one handle per incident with the rest of its repeat time. O: set up,
announce, hear, repeat, reroute. H: copies of one incident from many nodes,
nodes that come and go, two incidents that close each other's alternative. C:
every incident is announced once and repeated within its time, a pedestrian
changes its route once, the news ends.

**Statistics** (`applications/common/info/`). S: per source the first and the
newest sequence number, cycles, received packets. O: meter a packet: order,
loss, jitter. H: numbers wrap at 16 bit, packets are late or lost around the
wrap. C: order and count are those of numbers that do not wrap.

**MEC** (`mec/`): a repository of beacons at the edge and aggregation strategies.
**Others**: entropy map, global maps, converters, mobility, queueing, writers,
visualizers: geometry, averages or I/O, no protocol of their own. **Scripts**
(analysis and study scripts, uncertainty quantification, trace tools, container
launcher, gdb printers): Python around the simulation, see section 5.

## 2. Modules

| module | role |
|---|---|
| `CellEntries` | the operations on one cell's local entry, used by `LocalMap` |
| `LocalMap` | beacons, the neighborhood table and the local layer of the density map, composed |
| `MCLocalMap` | its instance for TLC |
| `LocalMap_proofs` | its inductive invariants and theorems |
| `Outbox` | abstract: what a sender of maps promises |
| `CellStream` | cell selection and packet production; implements `Outbox` |
| `MCCellStream` | its instance for TLC, with the premise of the proofs as an assumption |
| `CellStream_proofs` | its inductive invariants, theorems and the refinement |
| `AppLife` | the life cycle of an application and `scheduleApp`, shared by the schedulers |
| `AppLife_proofs` | what holds of every application, whatever its scheduler: used by the next two |
| `IntervalScheduler` | its generation timer, composed with the life cycle |
| `MCIntervalScheduler` | its instance for TLC, with the premise of one proof as an assumption |
| `IntervalScheduler_proofs` | its inductive invariants and theorems |
| `DynamicScheduler` | renegotiated intervals and the network, composed with the life cycle |
| `MCDynamicScheduler` | its instance for TLC, with the premises of the proofs as an assumption |
| `DynamicScheduler_proofs` | its inductive invariants and theorems |
| `Rumor` | abstract: how news of a closed target spreads and changes routes |
| `Detour` | the detour application over a network that loses and delays; implements `Rumor` |
| `MCDetour` | its instance for TLC |
| `Detour_proofs` | its inductive invariant, theorems and the refinement |
| `Controllers` | the control strategies |
| `Guidance` | the coupling, the controller and the ways of its advice, composed |
| `MCGuidance` | its instance for TLC |
| `Guidance_proofs` | its inductive invariant and theorems |
| `Reception` | maps received over a lossy, reordering network: meter, merge, ageing; uses `CellEntries` |
| `MCReception` | its instance for TLC |
| `Reception_proofs` | its inductive invariant and theorems |

### LocalMap

The three classes interact by direct calls only, so they are one module. Each
action is one event: `ReceiveBeacon` is `processInfo` with all callbacks it
triggers, `TtlTimer` the purge by `ttl_msg`, `GetSize` the purge the beacon
application causes when it sends, `Setup`, `Teardown` and `ComputeValues` those
of the application, `Tick` lets time pass when no timer is due. The network is
no variable: a beacon of any node, cell and past creation time may arrive, which
is loss, delay, overtaking and repetition at once. A `cRuntimeError` ends the
simulation: `fault` names the callback that threw and nothing happens afterwards.

The creation tick stands for the sequence number (one beacon per node and tick),
positions for cells, and cells inside and outside the map are not told apart.
The wrap of sequence numbers and remote entries are left out.

### CellStream and Outbox

`queue`, `ready` (cells whose selected value is valid) and `sent` (cells stamped
now) are the state of the stream; `pc`, `scanned`, `left`, `budget`, `room`,
`filled` are the locals of `producePackets`, `buildPayload` and `hasNext`. One
step is one iteration of the search or one cell written. `computeValues` gives
any set of existing cells a valid value. The counts carried are abstracted away,
sizes are in any unit. At time zero every cell looks sent, because a stamp
starts at zero: `atZero` keeps this.

`Outbox` knows only pending cells, cells carried at this time and the room in
the packet: a request is refused only if nothing is pending, no packet closes
while it has room and something is pending, no cell travels twice at one time.
`Promise` in `CellStream` is the refinement mapping.

### AppLife and IntervalScheduler

Three timers share one application: `lifeAt` (set up, then tear down), `mainAt`
(the main timer of a density map) and `genAt` (the scheduler's). They are
computed by three classes that do not call each other. Each action is one event:
`SetUp`, `TearDown`, `MainTimer`, `GenerationTimer`; `Tick` lets time pass when no
timer is due. Events of one tick are handled in the order they were scheduled:
`lifeFirst` keeps it for the two timers it matters for. `AppLife` also holds
`ScheduleApp`, with both quotas; how many packets or how much data the
application produces when it is asked is chosen freely, `CellStream` says which.
`packets` and `data` are history variables. `fault` is "error" in the error state
of `BaseApp`, "unset" when the application would be asked before the map exists.

The volatile parameters (`generationInterval`, `numberPackets`, `amountOfData`)
take any value of a set at each use, as in the code. The interval is positive or
negative: zero would repeat one instant forever.

### DynamicScheduler

`NetworkSignal` is `receiveSignal` with any cell at any time: the radio is external.
`GenerationTimer` is `handleMessage`: it suspends without network, otherwise
computes the current interval once per instant (`UpdateCurrent`), then waits or
transmits. `prioAt`, `curAt`, `curRnd` are the parts of the two interval records
the control reads. The deterministic interval is the larger one of the minimum
and what the bandwidth demands (`Demands`, any member count and packet size); the
random one is any multiple of ticks between `Low/Scale` and `High/Scale` of it,
which stand for 0.5/1.2182 and 1.5/1.2182. The unset timestamp, -1 s, stands before
all times as -1.

In ticks an interval that ends exactly now is common, in the code it is as good
as impossible; such a behaviour repeats the instant forever. The safety
properties hold with and without it, and no liveness is claimed.

### Detour and Rumor

Each node has a `phase`, a timer for its start and, per incident, a handle: who
has one is `known`, the rest of its time `rest`, its timer `repeatAt`. `EventLoop`
fires the timers that are due (`SetUp`, `Incident`, `Propagate`), `Receive` is
`socketDataArrived` with `IncidentRx` and `ActOnIncident`, `Enter` and `Leave` are
pedestrians. In the state INIT whatever timer fires sets the application up, as
in the code. `Rumor` knows only who knows of what and where pedestrians go: news
starts at its source, is learnt once, and only learning it changes a route.

### Controllers and Guidance

`Controllers` holds what the scripts do between a call and its answer, for all
seven classes at once (`strategy`); the package `flowcontrol` they build on (time
stepper, algorithms) is not in the repository and modelled from its use.
`Guidance` adds the world: `Coupling` is one event of `VadereCore` with everything
it calls (Vadere's step, new and removed nodes, the controller if `Due`, its
recommendation); `HandleControl`, `Receive` and `Lose` move advice over the air.
A recommendation is an order for an area in Vadere, a target set for everybody,
or a message to a station that broadcasts it. Positions are left out: every
node hears every other one, unless the packet is lost.

### Reception

One sender, one cell. Packets carry their number modulo `M` and the age of the
measurement in units, rounded down and saturating. `Receive` is the meter
(`StartMeter`, `CheckOutOfOrder`) followed by the merge; `ComputeValues` is the age
handler. The histories `first`, `highest` and `early` number packets without a
wrap and are what the meter is compared with.

## 3. What is checked

| run | shows | bounds |
|---|---|---|
| `local_map` | eight properties of the composition | 2 nodes, 2 cells, time 0..6, maxAge 2, cell TTL 2 |
| `local_map_setup` (violated) | setting up reads the table without error | 1 node, 1 cell, the same times |
| `cell_stream` | type, budget, turns, refinement, no starvation | 4 cells, packets of 2 cells, bursts of 1 and 2 packets, amounts of one and of nearly two packets |
| `cell_stream_quota` (violated) | a burst needs no more than its amount | 3 cells, an amount of one packet and one unit |
| `interval_scheduler` | quotas, order of set up and asking, the stop, no lost timer, silence in the end | start 3, stop 9, time 0..13, nodes created at 0, 5, 9, quota 4, bursts and amounts of 1 and 2 |
| `interval_max_data` (violated) | the quota of data limits the data | quota 3, amounts of 2 |
| `interval_late_node` (violated) | the set up comes before the main timer | a node created one tick after the stop |
| `dynamic_scheduler` | the bandwidth limit, the quota, order of set up and asking, resuming with the network | start 4, stop 14, time 0..16, nodes created at 0 and 5, minimum interval 4, demands 1 and 6, one cell lost and regained at any time, quota 3 |
| `dynamic_stop` (violated) | nothing is sent after the stop | stop 6 |
| `detour` | announcement, budget of repetitions, routes, refinement, news that reaches newcomers and dies out | 2 sources, 1 pedestrian, 3 targets, start 1 and 2, time 0..4 |
| `guidance` | calls on time, true logs, no contradiction, no advice made up, circulation ends | all 7 controllers, 2 routes, 2 pedestrians and a station, 2 hops, calls every 5, coupling every 2, time 0..14 |
| `reception` | order and loss over wraps, time of the entries | numbers modulo 6, windows and gaps of 2, packets 5..12, 2 under way, time 0..4, TTL 2 |

Each property is paired in `PROJECT.json` with a fault of the code it detects;
the faulty operators stand next to those they replace, marked `Fault:`.

*Bounds of `local_map`.* Two nodes can share a cell, follow each other and expire
one without the other; two cells are needed for leaving and entering; the time
bound covers two periods of the timer, a purge between them, and a late beacon
after the purge. *Bounds of `cell_stream`.* Four cells are more than a packet
and exactly two packets carry, so that bursts end full, partly filled, or with
cells waiting, and rotation mixes cells that are sent, invalid and new.
`MinPdu` lies between the two amounts, so one is refused. The proofs remove all
bounds for the safety properties. *Bounds of `interval_scheduler`.* The three
creation times lie before the start, between start and stop, and on the stop,
where set up and tear down share a tick; the quota is reached by different
sequences of bursts, and the time bound lies behind every timer that outlives
the stop. *Bounds of `dynamic_scheduler`.* A demand below and one above the minimum
make intervals shrink and grow, before the first transmission also to half; the
time is enough for several transmissions with suspensions between.
 *Bounds of `detour`.* The second incident closes the
alternative of the first; the pedestrian enters, leaves and hears the two in both
orders; one of the two start times is later than the first incident.
*Bounds of `guidance`.* The step of the coupling does not divide that of the
controller, so calls are early and late by turns; an order ends exactly when
the next call may come at the earliest; two hops let a packet return to where it
came from. *Bounds of `reception`.* Windows of 2 in 6 are as tight as windows of
16 in 65536 with gaps up to 16: one number less and the invariant fails. Numbers
5 to 12 wrap twice, and the first number received lies before the wrap or after
it.

*Fairness.* `FallsSilent` needs that the simulation runs on to its time limit
(`WF` of `Next`): the event loop never stops before. For `EveryCellTravels`: production runs to its end (`WF`):
it is one event of the simulation. Time passes (`SF` of `NewTime`): only
finitely many events share an instant. Packets are scheduled (`SF` of
`SchedulePackets`): the interval scheduler's timer is armed again after each
firing. Strong fairness is needed because both are disabled during each
production; nothing is assumed about data mode, new cells or which cells get
values. The theorem of starvation freedom then says: a cell whose value stays
valid from some time on is sent again and again.
For `DiesOut` and `NewcomerHears` of `Detour` and `PacketsDieOut` of `Guidance`: the
event loop goes on, and a packet under way is received or lost (`WF` of each
action); only `NewcomerHears` assumes a node that no packet is lost for
(`Reliable`), a property of the radio and not of the code. Pedestrians need never
enter.

`CHECK_DEADLOCK FALSE` is set where the simulation ends: at `sim-time-limit`
(`MaxTime`, `Horizon`) in `LocalMap`, the schedulers, `Detour`, `Guidance` and
`Reception`, and at an error in the runs that look for it.

### Findings

* `SetupReadsTable`: `initLocalMap` purges the table while the application counts
  as running; for a record that expired after the last timer the callback looks
  its node up in the new, empty map and throws. The comment there says "Read
  already existing neighborhood into density map."
* `QuotaKept`: `getBurstInfo` rounds an amount up to whole packets. If the
  remainder over `maxPduLength` is smaller than the 30 B header, the last packet
  does not fit and the simulation ends. The comment in `producePackets` promises
  "equal to or less than maxData". The configurations in the repository use
  amounts that do not run into it.
* `DataQuotaKept`: `scheduleApp` subtracts the data consumed from `sentData` and
  then compares `sentData` plus the next amount with `maxData`; a configured
  `maxData` never stops the scheduler.
* `NoErrorState`: for a node created after its stop time the life cycle is not
  started, but a positive `mainAppInterval` starts the main timer, which ends the
  simulation in the error state. With the default of -1 s it does not happen.
* `NothingAfterStop`: the dynamic scheduler tests the stop time only when it is
  initialised; its timer fires on after the tear down and packets are produced. The
  documentation of `stopTime` says "Time after which no packet will be send or
  received."

Not a violated run but worth knowing: before the first signal of a cell `eNBId` is
-1. If the scheduler fires then, its timer is dropped, and the first signal does
not resume it, since `receiveSignal` expects 0. The properties assume that the
first signal comes before the first firing. At close, SUMO's node manager removes
the first person again and again (`SumoCombinedNodeManager.cc:171`).

Further differences between code and documentation, met while modelling and
modelled as the code does it:

* Reception. While the newest sequence number is below the first one,
  `calcPacketLoss` counts 65535 packets too many: the wrap is in the cycles and in
  the number of the cycle. `LossCounted` states the excess exactly. After 16 or
  more packets lost in a row across the wrap the meter marks every packet out
  of order until the numbers come round (`Gap` excludes this). `packetLossRate`
  is a quotient of integers. An entry the age handler has reset is filled by the
  next map but stays invalid for good: `setCount` leaves the flag, and the
  aggregation reads valid entries only.
* Detour. With destination addresses `stopTime` is never looked at. A start time
  of -1 s, documented as "deactivated", starts the application. An incident is
  repeated ceil(R/I)-1 times, but at least once, for repeat time R and interval I.
  If the incident comes before the start, its timer sets the application up, the
  incident is swallowed, and the second set up ends the simulation. Two sources
  with one reason fail an assertion. Which of two targets a pedestrian ends up
  with, if both are closed, depends on the order of the news.
* Guidance. A packet with hop count h is passed on h-1 times, although the
  parameter is described as the number of rebroadcasts. The comment of
  `control_1.py` on 30 repetitions fits no configuration. The orders of
  `mucFreiheit_route_choice_app` are valid for 10000 s, so a new one does not end
  the old one: `OneRecommendation` speaks of orders for an area. A command to an
  application that does not run ends the simulation, and so does a pedestrian
  that departs at time zero. The caches of persons that have arrived are kept.

## 4. What is proved

All proofs are checked by TLAPS to the last leaf and hold for any finite sets of
nodes and cells and any times and sizes that satisfy the named assumptions.

**LocalMap.** Assumed: the set of nodes is finite, `NoCell` is no cell,
`MaxAge` is positive. The first inductive invariant, `BaseInv`, needs no
more. It says that the timer is at most one period ahead (`TimerAhead`), that a
record is the newest one metered for its node and not from the future
(`RecordIsNewest`, `MeteredInThePast`), that the next purge comes before the
record is twice its time-to-live old (`PurgedInTime`), and that every count is
the size of its neighborhood (`Consistent`). The time-to-live alone bounds
nothing between two purges, which is why the timer has to be part of it.
From it follow `TypeCorrect`, `NewestKept`,
`StalenessBounded`, `CountsCorrect` and `RemovalJustified`.

The other three properties are true only under `CellsOutliveRecords`: the age
handler is disabled (`cellAgeTTL` -1 s, `CellTTL = 0`) or a cell lives at least as
long as a record (the defaults: 10 s against 3 s). `RunInv` adds that map and
table agree and that the entry of an occupied cell is valid and as new as
every record in it; then the age handler, which runs right after the purge, can
reset no cell with a neighbor. With a smaller cell TTL the property is false: the
handler forgets a neighbor and the next callback throws. Neither half is inductive alone: agreement is
lost if the handler forgets a neighbor, freshness if a callback finds
disagreement. This gives `MapFollowsTable`, `OccupiedCellsFresh` and
`NoCallbackFails`.

**CellStream.** Assumed: the sizes are positive, one header and one cell fit into
a packet, and the size `getBurstInfo` reckons with is at most the real one (10 B
against 12 B with resource sharing domains). `StreamInv` says where cells stand:
behind a cell sent at this time none is pending (`SentLast`), the cells rotated in
this search are not valid (`Rotated`), and a waiting cell stands in front of all
that were sent while it waited (`InTurn`). The first makes an exhausted search
equivalent to `size() = 0`; the last makes overtaking impossible. This gives
`StreamTypeCorrect` and `FairTurns`. It also gives the part of `EveryCellTravels`
that is not liveness: each cell sent while another waits is one that has not passed
it before (`WaitCountHolds`), and fewer cells pass it than the grid has
(`WaitBoundHolds`).

For bursts of data `BurstInv` adds, under `AmountsFit` (every amount leaves the last
packet room for a header and a cell; true of all amounts configured in the
repository): the budget left covers all packets to come but the last in full
and the last with one cell (`BudgetLeft`), and more cells are left than fill the
packets before the last (`CellsLeft`). So no burst runs out of budget
(`QuotaHolds`) and no packet is empty (`OutboxImplemented`: the initial state and
every step map to the abstract `Outbox`).

**Schedulers.** Assumed: start, stop and creation times are naturals, the
start is not after the stop (the code throws otherwise), delays are positive or
deactivate. `CoreInv` holds of every application: no timer of the life cycle is
missed (`LifeAhead`), what the life timer waits for in each state (`LifeTimer`),
until the set up the generation timer fires strictly later than the life timer
(`AskedLater`), no more was produced than counted (`Counted`). `AskedLater` alone is
not inductive: that a due generation timer means the set up is done needs
`LifeAhead`, and that the stop time is obeyed needs `LifeTimer`, since the
scheduler tests the time and not the state.

*IntervalScheduler*: `LifeInv` adds that the timer waits while scheduler and
application last (`Waiting`). This gives `IntervalTypeCorrect`,
`PacketQuotaHolds`, `AskedAfterSetUp`, `TimerLives` and `StopTimeObeyed`. Under
`CreatedInTime` (no node is created after its stop time) `MainInv` keeps the main
timer behind the life timer: `SetUpComesFirst`. With a bound on the intervals
`TimersEnd` adds that no timer is missed and none is set further than one interval
behind the stop: when that has passed, the application is torn down and nothing is
scheduled (`SilenceHolds`), which leaves only the passing of time to `FallsSilent`.

*DynamicScheduler*: `PaceInv` says that after a transmission the two records agree
on its time and that any interval computed since respects the minimum (`Paced`).
It does not mention the generation timer at all: the test in the handler keeps the
pace, whatever resumes it. This gives `SpacingHolds` without a premise. Under
`InOperation` (created in time, not deactivated, the first cell known)
`DynamicInv` adds that the timer is missing only after a lost cell and never
before the set up (`Suspended`): `DynamicTypeCorrect`, `DynamicQuotaHolds`,
`DynamicAskedAfterSetUp`, `NetworkResumes`. The premise is needed: a scheduler
that is deactivated, or not started because of its stop time, is started by the
signal.

**Detour.** Assumed: a source announces one incident, times are positive, the
named assumptions of the module and nothing of the network. `Inv` says that no
timer is missed (`TimersAhead`), that an application is set up once if it starts
before its incident (`SetUpOnce`), that news has a source that announced it
(`HasSource`) and, the heart of it, that rest, repetitions and clock of a handle
agree (`Budget`): the rest alone is reduced in two places of the code and bounds
nothing. This gives `TypeCorrect`, `EveryIncidentAnnounced`, `RepetitionsBounded`,
`ClosedTargetAvoided`, `RepetitionsInTime`, and `DetourImplementsRumor`: the initial
states and every step map to the abstract rumor. For `DiesOut` it bounds the time
after which a node says nothing more of an incident (`SilenceHolds`), and shows that
nobody can make it start again (`HeardOnceHolds`).

**Guidance.** Assumed: the coupling's step is at most the controller's, and an
order ends a step of the coupling before the next call (`SteppingAssumption`; the
repository's values are 0.4 s, 2 s and 1.6 s). `Inv` says when the next call is
planned (`Plan`), that what stands in the area is the last order and how old it
can be (`AreaOrder`), who may have been given a target (`Told`), and that messages
at the gate are logged (`GateLogged`). A call may be late by less than a step, so
that orders do not overlap needs `AreaOrder` and `Plan` together. This gives
`TypeCorrect`, `NoContradiction`, `NothingMadeUp`, `CallsOnTime`, `RowsAreTrue` for
every controller and any number of routes, pedestrians and hops. `HopsCountDown`
says that every new packet replaces a message of the gate or a packet with one hop
more, `HopsBounded` that none has more than the station gave: the measure that
shrinks in `PacketsDieOut`.

**Reception.** Assumed (`ReceptionAssumption`): a packet is no further from the
newest one than the windows are wide, and two windows and that distance do not
fill the cycle; units and the cycle are positive (they are literals of the code:
0x10000, 0x10, 10 ms). The first is what the comment at the wrap takes for granted;
without it `LossCounted` is false. The bounds of the runs on numbers and time are
arbitrary naturals. `MeterInv` relates the meter, which only sees numbers modulo M,
to numbers that do not wrap: the first and the newest number are theirs modulo M,
and the cycles add up to the multiples between them. That alone is kept by every
step (`NextCycle`, `WindowsTell`), but bounds no count. So it also says that the
packets under way with a number from a stretch, and those received from it, are no
more than its numbers, once for the stretch from the first to the newest number
and once for that before the first; a reordered packet moves from one count to the
other. `TimeInv` says that of two packets under way the later one is not behind by a
unit, nor is what the sender will measure next, nor is the receiver's entry behind
packets newer than the newest received: rounding an age, and saturating it, moves
each time by itself, so the property cannot be stated of one packet. This gives
`LossCountedHolds`, `MeasureTimeKeptHolds`, and `OrderToldHolds`: a packet is marked
out of order exactly if one with a higher number was received before.

**Model-checked only.** `EveryCellTravels`, `FallsSilent`, `DiesOut`,
`NewcomerHears`, `PacketsDieOut`: liveness under fairness is beyond the prover. Of
all but `NewcomerHears` the bound they rest on is proved (above); what is left to
TLC is that the steps are taken. The violated properties are refuted by TLC.

## 5. Not modelled, and why

* *Scripts for evaluation, studies and uncertainty quantification* (most of the
  repository's Python): a straight line from recorded results to tables and
  figures, or from a parameter list to a call of an external package. No state
  outlives a call and nothing interacts. The debugger printers are third-party
  code. The trace tools are single passes over a file, with geometry. The
  container launcher calls an external daemon; its choice of a free name is
  marked "not multiprocessors/thread safe" in the source: the race is with other
  clients of the daemon.
* *AID transport*: connections that are opened at the start and closed at the
  stop; the commands in between are not used by any application.
* *Aggregation*: ranks entries by normalized ages and distances; the formula on
  real numbers is the whole content.
* *SUMO coupling*: the same step as Vadere's with a second kind of node.
  *MEC*: shares no state with the rest; its framework is not in the repository.
* *Encoding of TraCI commands, launchers, writers, visualizers*: input and output.
* *Coordinate conversion, quad tree, mobility, packet meters, entropy functions,
  jitter and burst statistics*: arithmetic on real numbers without control.
* *Artery, INET and simu5G glue*: the code that decides is not in the repository.
* Within modelled parts: positions and radio range (any packet may be lost), the
  handlers of a stop or crash of a detour node, errors that the configuration
  alone decides.
