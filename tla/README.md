# Verification of habitron-client

TLA+ models of `src/src/habitron_client`, the asyncio client of the Habitron
SmartHub, with TLC runs on small instances and TLAPS proofs for all of them.
File names below are relative to that directory unless they start with `src/`.

## The system

A consumer (Home Assistant) talks to one SmartHub over TCP.  The hub forwards
commands to a router and its modules, answers with framed replies, and, while
its *mirror* runs, pushes events for every change on the bus.

| component | state | operations | interacts with |
| --- | --- | --- | --- |
| Bus transport (`_transport.py`) | an `asyncio.Lock`; one fresh socket per attempt | `request`, `request_crc`, `send_only`, `connect` | called by every client command; drives the hub |
| Client (`client.py`, `const.py`) | `_entered` | ~50 commands, each a frame and one transport call; `power_cycle_channel` is two with a pause | transport |
| Framing (`_protocol.py`) | none | `build_frame`, `wrap_command`, `calc_crc` | transport, client |
| Build and refresh (`_setup.py`) | the CRC the consumer hands back | `async_build_system`, `async_refresh_system`, `async_build_hub`, `async_refresh_hub` | client, parsers, model |
| Router parsers (`_parse_router.py`) | none (write the model) | definitions, inventory, descriptions, `apply_router_status`, `distribute_status` | model |
| Module parsers (`_parse.py`) | none (write the model) | member tables, `apply_status`, settings, definitions | model, listeners |
| Events (`_events.py`) | none (write the model) | `apply_event` | model, listeners |
| Device model (`model.py`) | members, values, listeners | `notify`, queries | consumer's callbacks |
| Hub data (`_models.py`) | `host_valid`, host readings | YAML validation, `apply_host_diagnostics` | model |
| Discovery (`discovery.py`) | a UDP socket and a queue | `discover_smarthubs`, `query_smarthub`, `test_connection` | hubs on the network |
| Decoders (`ekey.py`, `faults.py`) | none | table look-ups | consumer |

Everything runs on one event loop, so interleaving happens at awaits only.
What makes the code hard:

* several consumer tasks share one bus, and any of them may be cancelled at
  any await (transport);
* an answer may be lost, late, cut or garbled, and the command behind it may
  or may not have been executed (transport, refresh);
* events write into the same model between two awaits of a poll (refresh);
* the hub reboots (transport, refresh);
* lengths and offsets of variable and legacy layouts (parsers);
* statuses and events address the same members by separate index arithmetic,
  and listeners of the consumer run in the middle of both (parsers, events);
* a client may be closed while its commands wait for the bus (client).

What has to hold, per component:

* transport: one task on the bus at a time, no leaked lock or socket, an
  answer belongs to the command it is returned for, an attempt is executed at
  most once, every call ends;
* refresh: the CRC gate never hides a status the model does not show, events
  and statuses converge, the mirror is restarted once per reboot and never
  during start-up, the router's readings are never stale;
* parsers: a block reaches its own module and no other, an incomplete
  inventory is refused and a complete one is not, a cut answer fails the build
  instead of corrupting it;
* events and statuses: the right member of the right module, the same one on
  both paths, and no change that its listeners do not hear of;
* client: no command outside of a session, a channel is powered up again;
* hub data: every reading is notified on the first poll;
* discovery: each hub once, in bounded time.

PROJECT.json lists the hazards at their lines, with the properties that cover
them.

## Modules

| module | models | file |
| --- | --- | --- |
| `BusTransport` | the transport and the hub's end of its sockets | `_transport.py` |
| `RpcService` | what the transport promises: a serial, bounded executor | abstract |
| `BusTransportProofs` | the proofs about `BusTransport` | |
| `SystemRefresh` | the end of the build, the polling loop, events, hub reboots | `_setup.py`, `_parse_router.py`, `_events.py` |
| `SystemRefreshProofs` | the proofs about `SystemRefresh` | |
| `StatusBlocks` | padding, slicing and addressing of the compact status, and the inventory check | `_parse_router.py`, `_setup.py` |
| `StatusBlocksProofs` | the proofs about `StatusBlocks` | |
| `DeviceModel` | one module of any type: members, labels, settings, statuses, events, listeners | `_parse.py`, `_events.py`, `model.py` |
| `DeviceModelProofs` | the proofs about `DeviceModel` | |
| `SystemBuild` | every read of the build, what its parsers reject, the consumer's retry; MODE, flag and module look-up of events | `_setup.py`, `_parse_router.py`, `_events.py` |
| `HostReadings` | the hub's identity and its host readings | `_models.py`, `_setup.py` |
| `Setup` | `SystemBuild` and `HostReadings` behind one hub | `_setup.py` |
| `SetupProofs` | the proofs about `SystemBuild`, `HostReadings` and `Setup` | |
| `Lists` | a loop over a list that keeps some of its entries | `_parse.py`, `_parse_router.py` |
| `ListsProofs` | what such a loop keeps; first and last positions; counting | |
| `Discovery` | broadcast, query and connection test | `discovery.py` |
| `DiscoveryProofs` | the proofs about `Discovery` | |
| `ClientSession` | connect, close, commands, power cycles of several tasks | `client.py` |
| `ClientSessionProofs` | the proofs about `ClientSession` | |
| `Connectivity` | `Discovery`, then `ClientSession` for a hub that passed the test | |
| `MC...` | instances for TLC | |

Operators named `Fault...` are not part of a model: each is a plausible bug in
the definition that follows it, used to check that a property notices.

### BusTransport

A call is one invocation of `request`/`request_crc` (`Requests`), `send_only`
(`OneWays`) or `connect` (`Probes`).  `pc[c]` is the await the task is
suspended in: `waiting` for the lock, `opening` a socket, `reading` the
answer, `closing` (`wait_closed` in the `finally` clause).  A step runs from
one await to the next, as on the event loop; `open_connection`, `write` and
the start of `readexactly` have no suspension in between and are one step.  `sock`, `attempt`,
`result` and `got` are the locals `writer`, `attempt` and what is about to be
returned or raised; `lock` and `waiters` are the `asyncio.Lock` and its FIFO.

The hub (external) serves one connection at a time in arrival order, executes
each command it reads (`log`), and answers with a good frame, a short
acknowledgement, a bad frame, a cut one, silence or a drop; it may reboot at any
time.  Bytes are abstracted to the command they carry and to the branch of
`_exchange` a reply takes.  Deadlines may expire whenever they are armed.
A cancelled `wait_closed` releases the lock while its transport is still
closing; `TransportGone` is the event loop finishing that.

### SystemRefresh

`pc` is the await at which the build or the poll is suspended: `compact`,
`router`, `restart` (in `start_mirror`).  A module's state is one value; `bus`
is the truth, `value` the model.  The CRC of a compact status is taken to be
injective, so `sysStatus` and `lastCrc` are statuses; a status may lack modules
(cut between blocks) or be `Short` (the acknowledgement without payload).
`shown` stands for the router's readings as the version of `telemetry` they
were taken at.  Reads may raise, be short, or be cut one byte before the mirror
flag; `start_mirror` may fail with or without effect; polls may be cancelled.
Events are delivered in order, at any await.

A listener of the consumer may raise wherever one is called.  Out of `distribute_status`
(`DistributionRaises`) it leaves some modules new, one in part and the rest old, and
no CRC is returned; out of `apply_router_status` (`RouterStatusRaises`) it ends the poll
before or after `mirror_started` was stored; in `apply_event` (`EventCutShort`) it is
logged and the rest of the event is left out.  The build has no listeners yet.

`touched`, `torn`, `cutFrom`, `raises`, `atStart`, `owed` and `count` are history variables
for the properties; `raises` and `count` also carry the bounds.  `torn` are the modules that
something a listener cut short has written and no whole distribution since, `cutFrom`
the CRC held when that happened; `owed` says that the poll that saw the mirror go down
left without restarting it.

One consumer polls in sequence and passes back the CRC it was given; a poll
that raises gives it none.

### StatusBlocks

The answer is described by its layout (block length, claimed length), the
blocks that arrived and the bytes cut from the last one.  Where `Slice` and
`AddressOf` read is computed as the code does it, with 108, 10 and byte 1 as
in `_indices.py`; a byte is data unless it is the second of a block.  The reference is
`OwnBlock`: module `m` is described by the `m`-th block the hub sent.

### DeviceModel

A member is `<<list, index>>`, and a value an attribute of the same form.  A
status is a set of cells `<<field, n>>`, `n` counted from the field's offset in
`MStatIdx`; the hub owns the cells, and those in `Hot` change.  `Reads` is the
sequence of assignments of `apply_status` for the module's type, each from a
cell to an attribute, so the index arithmetic of the code is in the model.
`EventSteps` is the dispatch of `_apply_module_event` likewise.  `Run` performs
such steps and calls the listeners; a listener may raise after any of them,
which ends the steps as in the code.  `member` holds what `parse_definitions`
(`Named`) and `parse_settings` (`Typed`) make of the members' name, type and
number; a name is empty, `default` or a label.  The labels 52 to 59 of an output module
are negative list indices, which Python counts from the end: they rename and renumber outputs, and
the first status after them fails the build (`BuildFails`).  Areas, units, signs and the scaling
of readings are left out; the smoothing of the wind is a step towards the
cell.  `fired`, `deaf`, `unannounced` and `clean` are history variables.

The hub (external) changes a cell and pushes the event for it, or loses the
event; events arrive in order, late relative to statuses.

### SystemBuild, HostReadings, Setup

`step` is the read the build is suspended in.  A read fails, or is cut where
its parser raises, or is cut where its parser does not notice: then only a
prefix of its entries is there.  The exception decides whether the consumer
tries again.  `moduleGrp`, `lists` and `modules` are `router.module_grp`,
`router.flags` and `router.modules`.  Definitions and settings stand for one
module's block each; their contents are `DeviceModel`'s subject, the slicing of
the status is `StatusBlocks`'.

A host reading is a number, infinite, `nan` or no number.  `Verdict` is what
`parse_host_diagnostics` raises at the first reading it cannot convert, `ApplyHostDiagnostics` the loop over the
readings.  Builds and host polls share no state, so `Setup` lets a behaviour
follow the one or the other once the hub is known.

### Discovery, ClientSession, Connectivity

`Discovery` counts time in ticks of a `Window`; a datagram is its sender and
whether it identifies a hub.  The deadline of a discovery is one for the whole
call; `query_smarthub` takes the first datagram.  `test_connection` uses a
client of its own.

In `ClientSession` a task stands at the bus (`queue`), pauses in a power
cycle, or is idle (`doing`); `power_cycle_channel_down` and
`power_cycle_channel_up` are also sent for themselves.  The bus is a FIFO served one command at a time,
which `BusTransport` justifies.  A command is executed or not and answered or
not; one that wants an answer raises without it, `send_only` does not.  A
cancelled head of the queue may have been executed; a command that times out
and is executed later still is a matter of `BusTransport` only.  `dark` are the
channels without power; of these, `asked` were powered down outside a cycle, and `cutOff`
belong to a cycle that raised to its caller or was cancelled; `leftover` are the
tasks that were at the bus when the client was closed.

## Runs

| run | instance | shows |
| --- | --- | --- |
| `bus_safety` | 2 requests, 2 attempts, 1 `send_only`, 5 sockets (one per attempt: no more can be used) | lock, sockets, ownership of answers, once per attempt, no interleaving, refinement of `RpcService` |
| `bus_live` | 1 request, 1 `send_only`, 1 probe | every call ends, every socket closes |
| `bus_attempts` | as small as needed | violated: a failing connect is not retried |
| `refresh_safety` | 2 modules, 2 values, 2 changes, 1 reboot, 2 faults, 1 lost event, 1 failing restart, 1 change of telemetry, 1 raising listener | CRC gate, restarts, readings |
| `refresh_live` | the same with 1 fault, no failing restart and constant telemetry | convergence, repair of torn modules, recovery of the mirror |
| `mirror_retry` | 1 reboot, 1 failing restart | violated: the restart is not retried |
| `mirror_short_build` | a short status in the build | violated: restart during start-up |
| `status_blocks` | 1, 2, 3, 11 and 22 modules; full, legacy and recorded layout | naming, inventory check, routing of blocks |
| `status_alias` | 23 modules, recorded layout | violated: a complete inventory is refused |
| `device_model` | a module of each of the 14 types, 1 to 4 hot cells each, 2 label books, 1 or no settings | members and cells match on both write paths, every change is heard, an unchanged status is quiet |
| `setup` | 3 installations (plain; a gap and an unknown type; an SMR older than the inventory), 2 builds; 3 hubs, 3 readings | a build that succeeds is complete, MODE reaches its group, host readings are announced |
| `connectivity` | 2 hubs, a window of 2, 2 queued datagrams; 3 tasks, 2 channels, 5 calls | each hub once and in time, nothing left open, nothing sent on a closed client but leftovers, a cycled channel gets its power back, beside direct power commands |

Why the bounds are enough: two requests and two attempts give every
combination of a stale answer, a retry and a competing command; a third
request only queues.  Two modules and two changes let a status and an event of
one module overtake each other in both orders while another module forces the CRC
to differ; two faults let a failed poll be followed by a degraded one.  `MaxChanges`, `MaxReboots`,
`MaxLost`, `MaxFaults`, `MaxRestartFaults`, `MaxTelemetry` and `MaxRaises` bound
`SystemRefresh`: one listener that raises tears a status, an event or the handling of the
edge, and the polls and events after it meet what it left; one reboot is enough for a second restart to break
`RestartsMatchReboots`, which is proved for any number; `BusTransport` is finite because every call is made once.

The hot cells of `device_model` are those where an index can go wrong: the
first and last of a list, the outputs on both sides of a cover's pair, the
dimmed outputs, the shifted places of a controller's covers, the analogue pins.
`MaxEvents` 2 and `MaxChanges` 3 let an event overtake a status, another event follow it
and a third change be lost in between: a colour event switches its LED on, so one that is
applied after a status that said the LED is off undoes it; `MaxRaises` 1 puts a raising listener at every place.
`MaxBuilds` 2 is a failed attempt and a retry; `MaxHostRaises` 1 a raising
listener in the first or a later poll.  `Window` 2 and `MaxInbox` 2 let datagrams
arrive between ticks and stay queued at the deadline; `MaxCalls` 5 is two power
cycles, a close, a connect and a command.

Fairness.  `BusTransport!Fairness`: the event loop runs tasks that can go on,
connect and answer deadlines expire, a closed transport goes away; nothing is assumed of the
hub.  That `drain` and `wait_closed` end is an assumption: they have no
deadline in the code.  `SystemRefresh!Fairness`: the consumer polls for ever, a poll whose
reads do not fail for ever goes on, and events on their way arrive; nothing
is assumed of a hub whose mirror is down.  `DiscoveryFairness`: the clock runs and
the event loop wakes a task whose datagram or deadline has come; no datagram
has to arrive.  `ClientFairness`: a command at the head of the bus ends, by its
deadline if not by an answer (`EveryCallEnds` of `BusTransport`), and the pause
of a power cycle is a timer.  The runs with liveness use no symmetry.

## What the violations show

* A refused connect ends a request at its first attempt, although `max_attempts`
  is documented as the number of attempts before raising.
* A failed mirror restart is never retried: `apply_router_status` has already
  stored that the mirror is down, and only the up-to-down edge restarts it.
* A short router status in the build leaves `mirror_started` at `True`, and the
  first poll restarts a mirror that is still coming up.
* 23 full blocks with the claimed length 92 of the recorded hub are sliced as
  27 blocks of 92 bytes; the build then refuses a complete inventory.

## Proofs

Every safety invariant and every action property the runs check is proved for all
values of the constants, but one (see the next section); so is the refinement.

### Transport

`BusTransportProofs` proves, for any finite or infinite sets of calls and
sockets and any `max_attempts >= 1`, that `Spec` implies `TypeOK`,
`LockDiscipline`, `SocketDiscipline`, `AnswerIsOwn`, `OncePerAttempt` and
`NoInterleaving`, and `ImplementsRpc`.  Assumptions: kinds of calls are disjoint and the
null values are none of them (`CallsAssumption`, `NoCommandAssumption`), and
`AttemptsAssumption`, which the constructor enforces.

None of the invariants is inductive alone.  The inductive invariant adds:
`QueueInv` (the lock's queue holds exactly the waiting tasks, once each),
`CallInv` (which locals are set at which await), `SocketInv` (a reading task
owns its socket, and nobody else's `writer` is that socket), `StreamInv` (on an open socket
there is at most the frame of the owner's current attempt in one direction or the
reply to it in the other), `WayInv` (a command on its way has not been executed and is on
its way once) and `SentInv` (whatever was written belongs to an attempt that was already
made).  Answers belong to their caller because a fresh socket starts with
empty streams and only its owner's frame enters; a command is executed once
because it is on its way once and leaves the socket as it enters the log.  Each part has a lemma that
carries it through every action, using the others.

`NoInterleaving` is about commands the hub executes long after their caller gave
up.  `OrderInv` puts all commands in one line, executed, at the hub or on connections
it has not accepted (`At`): nobody's command stands between two of another call, because a
call keeps the lock across its attempts, and nobody's stands behind those of the call that
holds the lock.  `HubInv` says that the hub serves one connection and queues every other
once, so the log keeps that order, and `KindInv` which calls send commands at all.

`TransportImplementsRpc` uses these invariants to map every step to one of
`RpcService` or to a stutter: starting a call submits it, the hub's reading of its frame
executes it, returning or raising ends it, and everything between is internal.

### Refresh

`SystemRefreshProofs` proves, for any modules, values and bounds:

* `GateIsSafe`, with `BuildInv`: during the build no CRC has been handed
  back, so the build may overwrite the model.  A poll that is left between reading a status
  and the end of its distribution keeps the old CRC, whose status the model then
  shows but for the modules written so far: these are `torn` (`DistributionRaisesType`,
  `ReturnKeepsGate`), and the exception is needed, because the gate does skip that status;
* `ReadingsAreFresh`, with `ReadingsInv`: the router read of a poll is newer than its start;
* `RestartsMatchReboots` and `NoRestartDuringStartup`, assuming `~ShortAtBuild`
  (with it they are false, see `mirror_short_build`).  `MirrorInv` says
  that `was_started` still equals the model's flag when the router status
  arrives; `RestartBudget` counts restarts sent, the one about to be sent and the
  edge not seen yet against the reboots.

`StartupIsNotDisturbed` restates the last of them for the start-up alone.

### Status blocks

`StatusBlocksProofs` proves, for any layouts, module counts and cuts, `TypeOK`,
and for an answer that is `Telling` also `NoFalseAlarm`, `NothingMissed` and
`BlocksReachTheirModules`.  An answer is telling unless its length divides in a
second way: full blocks whose total is a multiple of a shorter claimed length, or
legacy blocks cut to a multiple of the full one.  Without it the properties are false
(`status_alias` is such an answer), and every answer of the run `status_blocks` is
telling.  `SlicesAreBlocks` is the arithmetic: the padded length is a number of full blocks
just when no block was cut, and then slice `i` is block `i`, which names module
`i + 1` and is the only one to do so.

### Device model

`DeviceModelProofs` proves, for every type of module and any label books,
settings, counters and hot cells, `TypeOK`, `DimmersFollowOutputs`,
`CoversOwnOutputs`, `EveryChangeIsHeard`, `CoverHearsItsOutputs` and
`ReparseIsQuiet`.  `DeviceAssumption`: codes are numbers, counters are among the
ten logic units, and no label is the text of a default name.

* `ConfigurationInv` says stage by stage what the parsers have made of the
  members: numbered by their places and none hidden before the settings, dimmers
  like the outputs behind them once there were labels, and hidden outputs just behind
  flagged motors after the settings.  It needs `Open` (before the settings no
  output is hidden), because `parse_settings` only ever adds.
  `PlacesAgree` is the heart of the covers: the place the settings parser computes is
  the motor (`MotorOf`) the status parser reads for every kind and cover, on an IO2 module
  one above the place it reads at.  Labels that wrap leave a table of the same
  shape (`RenumberedIs`), and `BuildFails` ends such a build before a status is stored.
* `Aims` says of a list of reads that each is for an attribute the module has, and
  no two for the same one.  It is proved bottom-up, for each row and column of
  fields, for a loop that skips some, for concatenations, for the parser of each of
  the 11 kinds and for `Reads`.
* `Honest` says of a list of steps that each notifies the member whose attributes
  it sets, and is proved for statuses and every event; `RunTells` adds a listener that raises
  at any step.
* With both, `ValuesInv` is inductive: the attributes are those of the type, the flags and
  the discovered counters, whatever was read and whoever was notified.
  `EveryChangeHeard` follows.
* `CleanInv` is behind `UnchangedStatusIsQuiet`: since the last complete status the values are
  what it read.  `PollSettles` needs that no attribute is read twice (`Aims`), or the last
  read would overwrite the first for ever; `ReadsAgain` that only nature's wind depends on
  the values themselves.

### Build and host readings

`SetupProofs` proves, for any installation and any number of attempts,
`BuildTypeOK`, `ModelComplete` and `ModeReachesItsGroup`.  `PartsInv` says
what a fresh router still is before the read that fills a part of it; `SeenInv` that every
modelled module the inventory mentioned was created, and that past the inventory check
every module of an aligned status was mentioned: together a built router is complete.
`BuildInv` says that a built router has the groups of its installation.  That `list.index`
finds a first position at all is `FirstPosition`.

It proves, for any table of readings, `FirstPollNotifiesAll`,
with `HostInv` (a hub polled once is built, so its members do not change any
more), and `HostChangesHeard`, which needs no invariant: each branch of
`ApplyHostDiagnostics` announces what it writes.  `HostTypeOK` is inductive:
`AcceptedUpdate` says what `Verdict` lets through, `ApplyKeepsType` that
nothing else is stored.  `SetupRunsBoth` says that `Setup` implies the two
specifications these theorems are about.

### Client and discovery

`ClientSessionProofs` proves, for any tasks, commands and channels,
`ClosedSendsOnlyLeftovers` and `DarkOnlyInCycle`.  Neither is inductive alone.
`DoingInv` says that exactly the power commands and the pause name a channel, so an
idle task is in no cycle; `QueueInv` that the queue holds tasks waiting for a
command, once each, so a command that leaves takes no other along; `LeftoverInv` that what was
left over at the close is still there; `DarkInv` that every dark channel was asked for, cut off or
has a task that will light it (`Relights`).  Together they give `ClientTypeOK` as well.  There is one lemma per way a step
touches the bus (`JoinStep`, `LeaveStep`, `OffTheBusStep`) and one for the
channels (`DarkStep`), and each action is one or two of them.  Assumed are `ClientAssumption`
(there is no channel 0) and `OpsAssumption` (commands are those of `client.py`).

`DiscoveryProofs` proves, for any hosts, window and queue, `FoundOnce`, with
`InboxInv` (whoever identified itself in a queued datagram did so during this
call), and `NothingLeftOpen`, which is inductive.

### Lists

The parsers' loops that keep some entries of a list are `Entries`, a recursive function,
so that it can be unfolded in a proof.  `ListsProofs` shows that the function exists
(`LoopEnds`) and that its result is the entries at the chosen places, each once
and in order (`EntriesPick`).  The induction is `ByCounting`, on a set of numbers, from the
well-foundedness of the naturals.

## Only model-checked

* `PollAgreesWithEvents` of `DeviceModel`: it relates the cells a status reads to the
  events that tell of them, for every type; the run covers the cells where an index
  can go wrong.
* All liveness properties, which are out of the prover's reach.

## Not modelled

* Byte-level framing and CRC arithmetic (`_protocol.py`): functions over bytes
  without state.  A corrupted frame is a class of replies in `BusTransport`.
* The texts of names and areas, units and the scaling of readings, the router's
  own readings beyond their age, and the command lists of the descriptions: no
  property is about them.
* YAML syntax; the tables of `ekey.py` and `faults.py`; the package surface,
  the exception classes and the recording scripts.
* The capacity of socket buffers: a `drain` that blocks for ever is not in the
  model.
* Two polls of one consumer that overlap: `async_refresh_system` leaves it to
  the consumer to poll in sequence.

## What the properties leave open

Reading the code for these models showed cases in which it does less than one
might expect; the properties name them as exceptions, and PROJECT.json lists
them as hazards:

* a MODE event for a group finds its module by the group's position in a list by
  address; with a gap in the addresses or an unknown type it is another module
  (`ModeReachesItsGroup` is about installations without either);
* an SMR cut in front of its groups ends the build in a `ValueError`, and `nan` or an
  infinity as a log level a host poll in a `ValueError` or an `OverflowError`, which a
  consumer that retries on `HabitronError` does not expect;
* a listener that raises halfway through the distribution of a status leaves the poll
  without a CRC: if the bus then returns to the status whose CRC the consumer
  still holds, the gate skips it and the half-written modules stay wrong until
  the next other status (`GateIsSafe`, `ConvergesWithEvents` and `TornIsRepaired`
  except exactly that);
* a listener of `router.states` that raises does so after `mirror_started` was stored: the poll
  that saw the mirror go down sends no restart, and no later poll sees the
  edge (`MirrorRecovers` excepts it as `owed`, as it does a failed restart);
* on an IO2 module the settings have the cover at bit 0, the first motor, but its
  position is read one byte in front of the first motor's (`MotorOf` in
  `CoversOwnOutputs` names the offset);
* the labels 52 to 59 of an output module reach existing outputs by negative
  indices, and the build ends in a `ValueError` (`BuildFails`);
* a MODE event for a group that is not there raises inside `apply_event`
  (`ModeTarget` is then -2);
* a listener that raises in the first host poll leaves readings behind it
  unannounced for as long as they do not change (`FirstPollNotifiesAll`);
* a poll corrects what an event said in the cases `Corrected` lists;
* a power cycle cut off between its two commands leaves its channel dark, and so does
  a `power_cycle_channel_down` that is sent for itself (`cutOff` and `asked` in
  `DarkOnlyInCycle`), and commands that waited for the bus are sent after
  `close()` returned (`ClosedSendsOnlyLeftovers`).

## Next

1. `PollAgreesWithEvents` for every type: an inductive invariant that says of each cell
   whether its attribute has its value, an event for it is on its way, or it is one of
   those `Corrected` admits.
2. The safety part of the convergence of `SystemRefresh`: what a poll owes the consumer.
