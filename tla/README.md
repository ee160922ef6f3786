# TLA+ verification of KrattHex

KrattHex (`src/kratt-hex`) is a simulated drone and its ground control station
(GCS), two C++ processes that exchange MAVLink datagrams over UDP. This
directory holds TLA+ modules translated from that code, the TLC configurations
that check them on small instances, and TLAPS proofs of what matters most for
every value of the parameters. Paths below are relative to
`src/kratt-hex/src`.

To repeat a check: `tlc -config Flight.cfg MCFlightController`; to repeat
a proof: `tlapm FlightControllerProofs.tla`. `PROJECT.json` lists the runs, for
every definition the source lines it translates, and for every property a
mutated definition that breaks it.

## 1. The system

Both processes are hexagonal: a pure domain, ports, adapters, and a `main` that
wires them. Each process has one application thread, which ticks, and one
worker thread, which owns the socket.

| component | state | operations | hard behaviour |
|---|---|---|---|
| **Geofence** `domain/geofence.hpp`, `types.hpp` | none | `contains`, `clamp` | boundary values |
| **Flight state machine** `domain/flight_state_machine.*` | `FlightState`, passed in and out | `apply(state, event)`: the first row of a table of 17 that matches; `completion_event`, `timeout_event`, `manual_event` | row order is priority; what a row forgets to reset survives into the next mode |
| **Flight dynamics** `domain/flight_dynamics.hpp`, `kinematics.hpp` | none | `desired_velocity`, `integrate` | long steps: overshoot, fence, ground |
| **Flight controller** `domain/flight_controller.*` | `state_`, `fence_engaged_`, `transition_` | `arm`, `disarm`, `land`, `go_to`, `manual_input`, `step`, `take_transition` | several transitions in one tick; the manual timeout races late input |
| **Drone service** `domain/drone_service.*` | `next_publication_`, the controller | the commands, `step(dt, now)` | overruns of the publication schedule |
| **Drone process** `bin/drone_main.cpp`, `app/drone_composition.*` | `next_tick`, `previous`, `g_running` | loop, tick, signal | overruns, drift |
| **Threaded channel** `adapters/mavlink/threaded_channel.*` | two bounded queues, `running_` | `start`, `stop`, `send`, `poll`, the worker's `run` | interleaving of two threads and the network, overflow, shutdown |
| **Synchronous channel, UDP socket** `adapters/mavlink/message_channel.*`, `adapters/transport/udp_socket.*` | peer, `shutting_down_`, the kernel's buffer | `send`, `poll`, `receive`, `shutdown` | floods, peer learning, wake-up of a pending wait |
| **Ground station service** `domain/gcs_service.*`, `connection_monitor.hpp` | `view_`, `last_manual_sent_`, `manual_active_`, `last_heartbeat_`, `connected_` | `update`, `on_telemetry`, `on_heartbeat`, `send_*` | lost frames, stale view, rate limit against release |
| **MAVLink adapters** `adapters/mavlink/*_mavlink_adapter.*` | the receiver's `snapshot_` | dispatch, conversion, addressing, acknowledgements | torn snapshots, quantization, retransmission |
| **MAVLink codec** `adapters/mavlink/mavlink_codec.*` and the part of `libs/mavlink` it calls | `partial_`, `status_`, `stats_` | `serialize`, `Decoder::parse` | frames cut by datagrams, damage, two protocol versions, one buffer for all messages |
| **Loopback network** `adapters/transport/loopback_transport.*` | `ports_`, inboxes, loss, partition, counters | `create_endpoint`, `deliver`, `receive`, `shutdown` | raw pointers to ports owned elsewhere |
| Event log, command lines, tests, tools, vendored libraries | | | see section 7 |

How they interact. A **drone tick** reads the clock once, polls the channel,
hands every message to the inbound adapter, which calls the service and answers
with an acknowledgement, then runs `DroneService::step`: the timed event, the
physics, the completion event, the log of the transition, the publication when
it is due. A **GCS tick** reads the clock, polls, hands every message to the
telemetry receiver, then calls `GcsService::update`. Between two ticks the
operator calls `send_*`. The application thread and the worker of a channel
share only the two queues, an atomic flag and the socket's shutdown; the two
processes share only the network.

What makes each part correct: motors stop only near the ground; the drone stays
inside its fence and its speed; a mode leaves nothing behind for the next;
automatic phases are not hijacked and come to an end; manual flight needs a
present operator; the log and the answers tell the truth; schedules neither
drift nor burst; messages between threads keep their order and are lost only
where counted; `stop()` returns and flushes; the station shows a link as alive
exactly when it is, and never swallows the release of the stick; a message that
comes out of the decoder was put in; the two processes agree, across a link that
loses, delays, repeats and reorders, on whether the drone is there, whether it
was told to land, and whether somebody holds the stick. The hazards
that threaten each are listed, at their lines, in `PROJECT.json`.

## 2. Modules

| module | models |
|---|---|
| `Geofence` | vectors and the fence, shared by drone and station |
| `FlightState` | configuration, flight state, kinematics |
| `FlightStateMachine` | the table, its guards and actions, the derived events |
| `FlightDynamics` | `desired_velocity`, `integrate` |
| `FlightController` | the state machine of a drone: commands and steps inside the ticks of the loop; the drone's properties |
| `FlightContract` | abstract specification: what modes, motors and altitude promise an operator |
| `TelemetrySchedule` | when a publication is due, shared by the next and `TelemetryLink` |
| `SimulationLoop` | the loop of `drone_main` and the publication schedule |
| `BoundedQueue` | the mutex-protected queue, as functions on its value |
| `ThreadedChannel` | application thread, worker thread, socket, several endpoints |
| `LossyFifo` | abstract specification of one direction of a channel |
| `LoopbackNetwork` | the in-memory network with a synchronous channel on each port |
| `MavlinkCodec` | sender and byte-oriented parser of frames, with the table of messages |
| `WireFormat` | what the adapters write into fields and read there |
| `MavlinkAdapters` | the adapters of both programs around the whole of `FlightController` |
| `StickRepetition` | when `send_manual` transmits, shared by the next and `Telecommand` |
| `GroundStation` | `GcsService`, `ConnectionMonitor`, telemetry receiver, tick, operator |
| `Telecommand` | station to drone: operator, station's loop, lossy link, the whole of `FlightController` |
| `TelemetryLink` | drone to station: schedule, lossy link, crashes, the whole of `GroundStation` |
| `*Proofs` | theorems about the module they are named after; those about `GroundStation` are the first part of `TelemetryLinkProofs` |
| `MC*` | the small instance of each, for TLC |

Composition: `FlightController` is the drone's domain; `MavlinkAdapters` wraps it
in messages, `Telecommand` puts it at the far end of the uplink. `GroundStation`
is the station's domain, `TelemetryLink` puts it at the far end of the downlink.
`ThreadedChannel` and `LoopbackNetwork` are the two transports, and both are
shown to be a `LossyFifo`; the links of `Telecommand` and `TelemetryLink` allow
more (reordering, repetition), as UDP between two hosts does.

Definitions keep the names of the functions they translate. Where a definition
is preceded by variants called `name_Something`, those are the *mutants*: a
plausible bug each, which no specification uses and which some property refutes
when it replaces the definition.

### The flight model

`Geofence` .. `FlightController` are one layer each of the functional core.
`kTransitions` is the table row by row, `find` is its scan (first match wins,
the touchdown row last), `Fire` the application of a row. `Step` is the whole
of `FlightController::step` with what `DroneService::step` does next: timed
event, integration, completion event, transition consumed and logged.
`WakeUp(d)` is the clock reading of a tick, after which any number of commands
and one `Step` follow: commands of a tick see one instant, as in the code.

Abstractions, each chosen so that the properties cannot tell the difference:

- *Space is an integer grid with one horizontal axis.* The code treats north and
  east alike and apart from altitude. Lengths obtained by a division (scaling to
  a speed) are truncated toward zero; `within` compares squares, exactly.
- *A velocity is kept as the displacement of a step*, as it is only used
  multiplied by `dt`, reported, or compared with zero.
- *Time is relative.* `sinceInput` is `now - last_manual_input`; it saturates one
  beyond the timeout, the only value it is compared with.
- *An `optional` is a set of at most one element*; `TypeOK` says so.
- `recorded` is the last entry of the event log, `awake` and `dt` are the
  program counter and local variable of the loop.

### The loop

`Tick(lateness)` is one iteration: the sleep ends at its deadline or late, the
clock is read, the publication schedule runs, the next deadline is computed. The
duration of a tick's work is part of the lateness of the next. The history
variables (`ticks`, `ante`, `origin`, `published`, `antePublished`, `longest`)
only observe. The signal ends the loop before any tick.

### The channel

One action per mutex section or socket call, so every interleaving of the two
threads and of arriving datagrams is there. The worker's points follow
`run()`: test the flag, one pass over the socket (`receive`/`wait`, the batch
that `SynchronousChannel::poll` collects), store, drain, transmit, and after the
flag fell the final drain and transmit. `stop()` is four steps: flag, socket
shutdown, closing of the queues, join. The wait of the socket ends with a
datagram (`Take`), or with the time-out or the wake-up byte (`TakeNothing`).
A datagram holds one message or none (noise, or the byte by which `shutdown`
wakes the socket); several would only change how many a `Take` appends. Messages
are numbered, so that order and loss can be seen. The kernel may refuse a send,
whose result `SynchronousChannel::send` does not look at. `learned` is how the
channel of a station learns its peer. `Outbound` and `Inbound` map the queues,
the batches and the kernel's buffer onto `LossyFifo`.

### The ground station

The link is not modelled here: any `HEARTBEAT` or `LOCAL_POSITION_NED`, or none,
may come in any tick, which covers all loss, repetition and reordering. The
operator may call `send_goto` and `send_manual` between ticks in any way; how
often a GUI does is not assumed. `order`, `axes`, `stick`, `call`, `sinceAnte`,
`heard` and `log` are history. ARM, DISARM and LAND only transmit.

### The codec

A message becomes bytes (`serialize`: header, trimmed payload, checksum, possibly
a signature; protocol 1 or 2), bytes go through `frame_char`, the parser's switch
with one operator per group of states, and `Parse` feeds it a datagram and adds
up the statistics. Bytes and the checksum are the real ones: `crc_accumulate` is
the CRC of the wire, so that a damaged frame is recognised by what it contains.
`Transmit` sends a whole frame, `Fault` a damaged one (`Damage`), one with an
incompatible flag nobody knows (`Unknown`), or the first bytes of one (`Cut`), of any
of the three forms. The programs send version 2 unsigned only; the other forms are what
the parser also accepts from its peers, since the buffer it keeps is the same. `Damage`
leaves alone the bytes by which the parser finds the end of a frame (start, length,
flags), which would be a cut, and the signature, which nobody reads.

A signed frame with a wrong checksum is reported twice: `got_crc1` returns BAD_CRC at the
second check byte and goes on to the signature, and `signature_wait` returns it again.
`Decoder::parse` counts both, and `doubled` how often this is due.

`missing` and `owed`, like `sent` and `frames`, are history: how many bytes the parser
may still swallow for a frame that was cut short, and which messages it therefore must
not lose.

The parser finds the entry of a message by the library's bisection (`bisected`) of
the sorted table, here of the six messages that the programs exchange, with the
checksum seeds and lengths of the real table.

### The adapters

`WireFormat` has the conversions as functions on integers: an axis of the
programs is a multiple of 1 / `FullStick`, on the wire of 1 / `ManualScale`, which
is `WireStep` times coarser, and `lround` rounds between them. `MavlinkAdapters`
sends what the station's transmitter encodes, and what other systems put on the
same link, through the whole command receiver into the whole flight controller,
and its reports and acknowledgements back into the station's snapshot. This link
keeps its order: the other two modules are about what a link does.

### The two directions of the link

`Telecommand` and `TelemetryLink` have discrete time. `Pass` lets a unit pass
unless somebody is overdue: each process ticks at least every `DroneGap` or
`StationGap`, a frame is lost or arrives within `MaxDelay`. Within these bounds
ticks come at any time, and frames overtake each other. `MaxLosses` bounds
losses *in a row*, of each kind of frame; `MaxCopies` how many are repeated.
`TelemetryLink` chooses one fault model at the start of a behaviour: frames are
lost within `MaxLosses`, or there are outages, in which the link is down, or the
drone crashes and starts again, for any time. Both modules use the domain's actions unchanged, and a tick
is the same series of steps as in the composition's `tick`: messages in order,
then `Step` or `Update`.

### The loopback network

Every call is a step, in any order. Ports are numbered objects, and the map from
addresses to them is kept apart from the objects alive, as it is in the code,
where it holds raw pointers.

## 3. Runs

| run | instance | what it shows |
|---|---|---|
| `flight` | `Flight.cfg` | all properties of the drone: safe, honest, within `FlightContract`; take-off and landing end, a GOTO arrives |
| `goto_at_low_rate` | `GotoAtLowRate.cfg` | *violated*: with a step longer than twice the tolerance, a GOTO oscillates for ever |
| `schedules` | `Schedules.cfg` | no drift and no burst under any pattern of overruns |
| `channel` | `Channel.cfg` | a station's channel, which learns its peer, over two starts: both directions implement `LossyFifo` and count what they lose, `stop()` flushes and returns, what is sent leaves |
| `memory_under_flood` | `MemoryUnderFlood.cfg` | *violated*: one pass over the socket collects more than queue and kernel buffer together |
| `station` | `Station.cfg` | status, events and stick messages of the ground station |
| `manual_overrides` | `ManualOverrides.cfg` | *violated*: a release cancels a GOTO on the drone, not in the view |
| `telemetry` | `Telemetry.cfg` | over a lossy link the status does not flap and the snapshot stays recent; through crashes and partitions, loss and return are noticed |
| `telecommand` | `Telecommand.cfg` | a landing that was handled is final, whatever arrives late or twice; a held stick flies, one let go stops |
| `adapters` | `Adapters.cfg` | sticks survive the wire, foreign messages do not fly the drone, what is shown was reported, answers and reports agree |
| `codec` | `Codec.cfg` | frames come out whole wherever datagrams are cut; what damage, unknown flags and truncation cost, and what not |
| `loopback` | `Loopback.cfg` | pointers, counters, and a `LossyFifo` between every two ports |

### Properties worth a second look

- `MotorsCutOnlyNearTheGround`: motors run in every mode but Disarmed and were
  cut only below the safety altitude, by DISARM or by touchdown.
- `NoLeftovers` (`SticksOnlyInManual`, `TargetFollowsMode`,
  `HoverReportsNoVelocity`): each row's action resets what the next mode must not
  inherit. It holds because of rows that are far apart in the table, and of
  `settle_*` and `cut_motors` agreeing with them. Of the target of a drone that holds it
  claims nothing, since a centred stick leaves it set (section 5).
- `ManualOnlyWithFreshInput`: a tick never *ends* in Manual with an input older
  than the timeout, however long the tick was, although the input of the tick is
  handled before the timeout is tested.
- `LogFollowsMode`: a tick may run through several transitions with one slot for
  them; the log may omit an intermediate mode, it never ends with a wrong one.
- `HonestAnswers`: evaluated in every reachable state, for every command.
- `MovesOnlyAsItsModeAllows`: the direction of every mode and the speed of all, with
  the snap onto a target or the ground accounted for by name (`Snap`).
- `AutomaticPhasesEnd`: a take-off and a landing end, however many commands come.
- `RateDoesNotDrift`: as long as no two ticks are more than a telemetry period
  apart, no frame is missing. That there are no more either is the theorem `RateBound`.
- `NothingIsLostSilently`: a conservation law over both directions.
- `FloodDoesNotDelayStop`: after the shutdown at most one more datagram is taken.
- `ReleaseIsNeverSwallowed`, `ManualIsRateLimited`: the two sides of the rate limit. A
  release passes it at once; still no three transmissions fall into one period, however
  the operator wiggles the stick, which takes the silence of a stick that stays centred.
- `SurvivesLosses` gives the bound, and it is tight: two arrivals of a kind are at
  most `(MaxLosses + 1) * TelemetryPeriod + (DroneGap - 1) + MaxDelay` apart. With
  a period of 100 ms, a timeout of 1 s and a tick of 10 ms that leaves room for
  eight heartbeats lost in a row. The absolute schedule is what keeps the lateness
  of one tick from adding to that of the next (mutant `reschedule_Relative`).
- `SnapshotIsRecent`: the two halves of a snapshot travel apart, one may be lost or
  overtaken while the other is not; neither gets older than the link makes it. It
  bounds the age of each half; that the two are of one publication it does not say, and
  they need not be.
- `ConnectedMeansPublished` adds crashes and partitions: positions, or a frame that
  was on its way when the drone died, keep it connected for no longer than that.
- `FindsOut`: what becomes permanent, an outage or a working link, is shown in the end.
- `DeadMansHandle`: the release of the stick is one frame, which may be lost; the
  drone is then flown by a stick that was let go for `DeadMansTime` at most.
- `HeldStickFlies` is the other side: the repetition of the station is fast enough
  for the drone's timeout, whenever `LongestSilence` says so.
- `LandingIsFinal`: LAND and DISARM carry no number; a GOTO, stick or ARM that was
  sent before may arrive after. Only an ARM undoes a landing.
- `StickArrives` compares what the drone flies with what the operator did, through
  rounding, clamping and the unit ball, with foreign sticks in between: the drone
  flies a value of the wire that is within half a step of the stick, and a stick
  that the wire rounds to the centre never keeps it in Manual.
- `AnswersMatchReports`: the state that follows an answer is the one reported next,
  whether or not it differs from the report before (`Reported`).
- `EveryFrameIsCounted`: whole frames are messages and damaged ones errors, also
  behind a frame that is reported before it ends.
- `OnlyWhatWasSentComesOut`, `DamageIsContained`: the parser keeps one buffer across
  datagrams and messages; what remains of a damaged frame becomes part of no other,
  and what it swallows is counted byte by byte.
- `PointersAreAlive`, `LinksAreLossyFifos`: ports come and go, also at the same
  address, while datagrams are under way.

### Bounds

- *Flight.* A fence of 7 x 6 points with the take-off altitude (4) below the
  ceiling (5), both reachable by a climb of 2 per unit; the safety altitude (2)
  is above one unit of descent, so that a landing passes it by both an exact and
  an inexact step. Ticks last 1 unit, or 2, the whole manual timeout; two of them
  expire it, and a long one carries the drone across the fence. A step is at most
  4 and the tolerance 2, so that a step cannot jump over a target: the condition
  under which `GotoArrives` holds. `goto_at_low_rate` is the other side of it.
  Targets: in the air, near the ground, beyond the fence. Sticks: released, gentle, a
  diagonal beyond the range, straight up. Every row of the table fires. The state
  space is finite without a bound on the number of commands or ticks.
- *Schedules.* Periods of 2 and 5 (neither divides the other, so deadlines fall
  on, before and after ticks), wake-ups late by 0, 1, 2, 3, and 6 (beyond both
  periods), and a horizon of 40, that is eight frames and twenty ticks. The
  proofs have no horizon to rely on: it only guards `Tick`.
- *Channel.* Capacity 2, three messages each way, a kernel buffer of 2, one
  datagram of noise, one refused send, two starts: both queues and the kernel's
  buffer overflow, and a stop meets the worker at every point.
- *Link, downlink.* A period of 2, ticks up to 2 apart, a delay of 1 and one loss in a
  row: the longest gap is 6 and the timeout 7, so that one unit less and
  `SurvivesLosses` has no room; a heartbeat may be as old as the timeout when
  the station looks.
- *Link, uplink.* Orders need no room to fly in: two frames under way at a click, one
  loss in a row and one copy let every order overtake every other. The timeout of
  3 equals `LongestSilence`, and sticks are held across several frames.
- *Adapters.* Two messages under way, of all kinds; a wire step of 8 with sticks below, at both sides of, and beyond half
  a step, one that leaves the unit ball by rounding, one beyond the range;
  messages for another system and broadcasts.
- *Codec.* SET_MODE and MANUAL_CONTROL with the real numbers of their entries: one with
  the start bytes 253 and 254 in its payload, one all zeros, one trimmed, one
  signed, one of version 1; three frames, datagrams of nine bytes, which cut
  every frame, and of everything; sequence numbers that pass a start byte and the
  end of the byte (254, 255, 0). One frame, of any form, may be faulty: a bit of any byte
  between the flags and the signature flipped, an unknown flag, or an end at any
  byte. Of the two bits, one turns the id of
  MANUAL_CONTROL into that of COMMAND_ACK, so that a damaged frame is also read
  with the entry of another message.
- *Loopback.* Three ports, four creations (so that an address is used twice), three
  messages, losses below, in and above the range.
- *Station.* A timeout of 4 and a stick period of 3 with frames of 1, 2 and 5
  units: a frame shorter than, adding up to, and beyond each duration. Ages
  saturate at `Forgotten` = 5, above both.

No symmetry is used. `CHECK_DEADLOCK FALSE` appears in the configurations of the
channel, the codec and the loopback network only: there the application may stop
calling and the network may fall silent, and then there is nothing left to do.

### Fairness

- *Flight* (`FairSpec`): the loop wakes up again and reaches the step of a tick,
  since it sleeps for a bounded time and a tick drains the finite list it
  polled. Nothing makes a command arrive, so `AutomaticPhasesEnd` holds under
  every pattern of commands.
- *Channel* (`FairSpec`): the operating system schedules the worker, and a thread
  inside `stop()` goes on. There is weak fairness on the worker as a whole, not
  on `TakeNothing`: a pass over the socket ends because the burst of datagrams
  is finite (`MaxArrived`), which is the assumption that `memory_under_flood`
  shows to be needed. Nothing makes the application call or a datagram arrive.

- *Telemetry link* (`LinkFairSpec`): time passes, both processes run while they are
  up, and the link gets rid of what it was given. Nothing is assumed of crashes,
  restarts and partitions: `FindsOut` is about what becomes permanent.

The station, the schedules, telecommand, the adapters, the codec and the loopback
network are checked for safety only: whatever they owe is owed on each call.

## 4. What is proved

The eight `*Proofs` modules are checked by TLAPS for every value of the constants
that satisfies the named assumptions of the module they extend
(`FlightConfigAssumption`, `InputAssumption`, `ScheduleAssumption`,
`WireAssumption`, `AdaptersAssumption`, `LinkAssumption`, `StationAssumption`,
`CapacityAssumption`, `ChannelAssumption`, `CodecAssumption`, `LoopbackAssumption`):
all speeds, altitudes, tolerances, fences, timeouts, periods, gaps, delays, losses,
targets, sticks, capacities, message tables, payloads, datagrams, endpoints and ports.
Of the properties that the passing runs check, 34 of 40 are theorems. Three of these
have a hypothesis of their own, named below.

**Flight controller.**

| theorem | establishes |
|---|---|
| `TypeCorrect` | `TypeOK`; a target is one vector at most |
| `MotorSafety` | `MotorsCutOnlyNearTheGround` |
| `FenceSafety` | `InsideFence` |
| `SticksAreDropped`, `TargetsAreDropped`, `VelocitiesAreDropped` | `SticksOnlyInManual`, `TargetFollowsMode`, `HoverReportsNoVelocity` |
| `NothingIsLeftOver` | `NoLeftovers`, from these three |
| `FreshManual` | `ManualOnlyWithFreshInput` |
| `LogIsCurrent` | `LogFollowsMode` |
| `AnswersAreHonest` | `HonestAnswers` |
| `RefinesContract` | the controller implements `FlightContract` |
| `MotionIsBounded` | `MovesOnlyAsItsModeAllows` |
| `PhasesAdvance` | `AutomaticPhasesAdvance`: every step of a take-off or a landing that does not end it comes closer to its end |

The argument. `Sound(s)` is what every flight state satisfies between two calls
of the functional core; `IInv` adds what ties it to the pending transition, the
log and the program counter. None of the safety properties is inductive alone:
`InsideFence` needs that a target was clamped, `SticksOnlyInManual` needs that
`manual_event` never sends a centred stick as an active one, `LogFollowsMode`
needs the pending transition *and* that an empty slot means the log already
agrees. The lemmas follow the layers: arithmetic (`ClampType`, `ScaledType`,
...), the integration (`IntegrateEffect`, `IntegrateSound`), the table
(`RowEffect`: what any row that matches does, case by case; `ApplyEffect`: hence
what `apply` does; `SoleRow`, `DerivedEffect`: derived events match one row),
`EffectSound` (every effect preserves `Sound`), then `dispatch` and `feed`, and
one step per action. `RefinesContract` maps each command to a step or a stutter
of the contract, and a simulation step, which may time out, move *and* complete,
to a single contract step.

`MotionIsBounded` is about distances. `integerRoot` is a cardinality; `RootSquare`
shows that its square does not exceed its argument, and the lemmas on lengths
(`ScaledLength`, `StickLength`, `ManualLength`) that `scaled` makes no vector longer
than it is asked to. `FenceShortens` says that clamping
brings two points no further apart, so that the fence never lengthens a step whose
start is inside. One lemma per mode bounds the displacement, and `MovedByMode`
puts them together; then the
completion event of the same step must not put the drone elsewhere than the `Snap`
it is allowed. `IInv` does not suffice: `Orderly` adds that a stick is never longer
than full deflection, and that a drone in Takeoff is below the take-off altitude, as
the completion sets its altitude to it. The theorem assumes
`DisarmAltitude =< effective_takeoff_altitude`: with a safety altitude above the
take-off altitude, a drone that is disarmed in between and armed again is snapped
*down* to the take-off altitude by the first step, which no speed accounts for (TLC
finds this with 5 and 1). The code has no such check, and its one configuration has
0.5 m and 20 m (`domain/flight_state.hpp:17-18`).

`PhasesAdvance` is the ranking argument behind `AutomaticPhasesEnd`, for every ceiling: a
climb below the effective take-off altitude is below the ceiling too, so that the clamp
leaves it room, and at that altitude the completion is due in the same step; a landing
that a step does not end is above the ground. Altitudes are bounded by the fence, so a
take-off has at most `Ceiling` steps of positive duration, and what is left to TLC is that
the loop takes them. The theorem needs a climb and a landing speed other than zero and
no more.

**Schedules.** `TypeCorrect`, `RateBound`, `RateIsKept`, `FramesAreFresh`,
`TickBound`, `NoBurstOfFrames` and `NoBurstOfTicks` prove the three properties of
the run and three bounds that no run repeats: frames and ticks are never faster
than their rate, and after a tick the last frame is younger than a period. The inductive invariant relates the deadlines to the last reading
and to the counters: the next publication is later than the last reading and no
further than a period from it; each frame counted has used up a period of the
time since the first tick, and, while `longest` is at most a period, no more
than that. The products `publications * TelemetryPeriod` are handled by a lemma
on one more period, since the properties are about every period.

**Adapters.** `AxisFitsTheWire` and `AxisSurvivesTheWire` say what the wire does to
an axis, for every scale. `SafeAcrossTheWire` carries the invariant of the flight
controller to `MavSpec`: whatever is decoded is a command with arguments of the
right type, so every step of the receiver is a step of `FlightController`.
`ShownIsRealForEver` needs `Carries`: feeding the reports under way to the snapshot,
in order, would give the last publication. `AnswersAreConfirmed` needs `SaysMode`:
an answer that no report followed yet still describes the present mode, which
rests on the lemmas on rows again. `StickArrivesForEver` is an invariant on the pair
of the stick meant for this drone and the one it flies (`StickInv`), and an estimate of
`lround` for every scale. Working it out corrected the property: an earlier bound in
steps of the wire did not hold for a wire coarser than the grid.

**Telecommand.** `LandingIsFinalForEver`: `LandingInv` adds that no ARM is on its way,
in the air or in the inbox; removing, reordering and repeating frames keeps that,
and no other command leaves Land or Disarmed, nor does a completion or a timeout.
`SafeAcrossTheLink` is the invariant of the controller again.
`DeadMansHandleHolds` needs `HandleInv`: every deflected stick on its way, in the
inbox, or obeyed by the drone was sent while the stick was still held or before, so
that its age (`obeyed` for the one the drone flies by) bounds the time since the stick
was let go. `HeldStickKeepsFlying` is the other side: `StationInv` (the station
repeats in time), `ForeignInv` (what was ordered before the stick was taken is too old
to arrive after) and `SilenceInv`. The last one is the chain of losses: if the drone has
heard no stick for a time, so many have been lost in a row, or the next one is on its
way and due. It assumes `ClampKeepsDeflection`: no deflected stick is truncated to the
centre when it is put into the unit ball, which `HeldStickKeepsFlyingOnAFineGrid`
proves when a full stick is at least two steps of the grid; that of the code, of
floating point, is far finer.

**Ground station** (in `TelemetryLinkProofs`). Six theorems: every property of the `station` run, its types,
the log of events and the rate of the sticks. `GInv`
ties the view, the monitor, the last event and the history of heartbeats together
(`LinkInv`), and the flag `manual_active`, the last transmission and the one
before it (`StickInv`): that a centred stick may be transmitted at any time, and
deflected ones yet never less than a period apart with at most one between, is not
inductive without the ages of two transmissions.

**Telemetry link.** `ConnectedDroneWasThere` needs the ages of what is in the air and in
the inbox (`AgeInv`), and that what is shown of the last heartbeat is as old as the
monitor knows, but for the way here (`BeatInv`); it holds in both fault models.
`SnapshotStaysRecent` and `StatusDoesNotFlap` are about lost frames: `ScheduleInv` says
that the schedule is armed before anything is shown and is never late by a period,
`ArrivalInv` that no arrival of a kind is longer ago than the losses counted so far,
the next publication and the delay allow (`Late` spells out the gap that is left), and
`ShownInv` that what is shown has not outlived its successor. This is where the
absolute schedule matters: `reschedule` keeps the phase, so that the lateness of
a tick is used once and not once per period.

**Threaded channel.** `BoundedForEver`, `AccountIsComplete`, `StopFlushesForEver`,
`FloodIsHarmless`, `PeerIsHeardForEver`, from `IInv`, one part per direction
(`OutInv`, `InInv`, each with its account), the points of both threads (`Control`),
the final drain (`StopInv`) and the count of late datagrams (`LateInv`).
`ChannelIsLossyFifo` is the refinement of both directions, from the order of the numbers
along each (`OutOrder`, `InOrder`): queue, batch and kernel buffer, laid end to end,
ascend, and are newer than what was delivered. `ChannelIsOrdered` and
`ChannelNeverRepeats` say directly what implementing the abstract link means.

**Codec.** The parser cannot be described by what it has read alone: what a byte means
depends on the frame it is taken for. `CodecInvariant` is therefore about the *future*,
`fedAll(parser, wire)`: the decoder as it will be when all bytes on the wire are read.

- `Parse` does not change it. That is `DatagramsDoNotMatter`: feeding bytes one by one
  is associative, and a decoder between two datagrams keeps all it needs.
- A frame that is put on the wire extends it by one frame. The lemmas on states (one per
  group of `frame_char`, from `FedSkipped` to the end of a signature) follow the parser
  byte by byte; `FrameRead` puts them together: a parser in `IDLE` reads a frame of
  any of the three forms, compares two check bytes with `Passes`, and is in `IDLE`
  again with one message more or one error more. What was put out is what was sent:
  trimmed zeros are filled up from the table, and nothing of the buffer's last use
  shows.
- A parser that is midway, since a frame was cut short, has `lacking(d)` bytes to go. It
  takes them from the next frames, whatever they are, and stands in `IDLE` then;
  what it will still swallow is exactly `missing`, the count kept by the model (`InStep`).
  The frames that are owed are those behind it (`Owing`). If the rest of a frame it stopped
  in holds no start byte (`quiet`), it skips that rest.
- `OneWrongByteIsSeen`: a step of the checksum is one to one in the register and in the
  byte (`CrcTellsSums`, `CrcTellsBytes`, from `XorInjective`), so two frames that differ
  in one byte never agree in their checksums, for all lengths.
- `EntryIsFound`: the bisection keeps the entry between its bounds and narrows them, for
  tables of every length; it is a descent on the distance of the bounds.

`Counted` adds, for as long as no frame was cut or given up, that the future holds one
message or error per frame, or two errors if the frame is signed and its checksum wrong
(`DamagedRead`, for frames of any form with any wrong byte between the flags and the
signature). From these follow `FaultsAreContained`, `NoFrameGoesUncounted`, `FramesAreCounted`,
`OnlyWhatWasSentIsRead` and `PayloadStaysInBuffer`. There is one gap in a MAVLink frame that
mathematics does not close: the checksum of a frame includes the `crc_extra` of its
message, so a wrong byte *in the message id* also changes a second byte of what is
summed, and with some tables the two cancel. `FramesAreCounted` and, where a byte is
wrong, `OnlyWhatWasSentIsRead` assume `DamagedIdsShow`, which says that no message of
the table is mistaken so. TLC evaluates it for the programs' table, all sequence numbers
and the messages of the run (`IdsAssumption` of `MCMavlinkCodec`), and there it holds. `FaultsAreContained`
and `NoFrameGoesUncounted` need no such hypothesis.

`OnlyWhatWasSentComesOut` itself, with frames that are cut short, cannot be promised by
sixteen bits for all messages: the rest of one frame and the beginning of the next
may happen to have the right sum. TLC shows that it holds for the
frames of the run; the theorem covers it as long as every frame has its length.

**Loopback network.** `PointersStayAlive` (`PortInv`): the map of ports and the objects
alive are each other's inverse. `NetworkIsLossyFifo` maps every call to a step of the
link between two given ports; `OrderInv` says that the messages of one sender in an
inbox ascend, were sent, and are newer than the last one polled at that *port*, also by
an object that is gone, so that a new port at an old address repeats nothing.
`CountersStayTrue` (`CountInv`) is the conservation law of the counters; `total` is the size
of a finite set of units, so that a place that changes, comes or goes changes it by its
value (`TotalChange`, `TotalPlace`).

**Only model-checked.**

- The liveness properties (`AutomaticPhasesEnd`, whose ranking argument is proved, `GotoArrives`, `StopReturns`,
  `SentMessagesLeave`, `FindsOut`): TLAPS does not reason about fairness and `ENABLED` here.
- `OnlyWhatWasSentComesOut` when frames are cut short, for the reason given above.

## 5. Findings

1. **A GOTO need not end** (`goto_at_low_rate`). `velocity_towards`
   (`domain/kinematics.hpp:35`) flies at full speed outside the tolerance. A step
   longer than twice the tolerance jumps from one side of the target to the
   other: with the defaults (10 m/s, 0.25 m), any `--rate` below 20 Hz, which
   `drone_main` accepts, and a target at the wrong distance.
2. **Memory is bounded by the burst, not by the queue** (`memory_under_flood`).
   `threaded_channel.hpp:18-19` says dropping keeps memory "provably flat under a
   command flood"; `SynchronousChannel::poll` collects a whole burst first.
3. **A release cancels a GOTO silently** (`manual_overrides`). `gcs_service.cpp:63`
   says "manual input overrides a pending GOTO"; the station clears the target
   for a deflected stick only, the drone leaves Goto for a centred one too.

Noticed while modelling, in line with the models, and not given a run:

- A target outlives its GOTO: `flight_state.hpp:37` calls it "active GOTO target, if
  any"; `clear_manual` keeps it when a centred stick ends a GOTO, so that a drone in
  Hold may carry one that is not active. `NoLeftovers` does not confirm that claim: it
  says that no mode in which the drone flies to no target has one, but for Hold.
- A restarted channel spins: `stop()` leaves the socket shut down for good, and
  `start()` does not open another; `threaded_channel.cpp:38-39` says the worker waits
  "instead of spinning at 100% CPU". No program restarts a channel.
- The peer is whoever spoke last: `message_channel.hpp:48-49` says the station learns
  it "from the first datagram received". `PeerIsHeard` states what the code does.
- Nothing retries a GOTO: a test fails with "GOTO never took effect despite retries"
  (`tests/integration/test_packet_loss.cpp:63`); it passes by the seed of its network.
- Nobody is told of a deferred DISARM: `drone_mavlink_adapter.cpp:20-21` says
  TEMPORARILY_REJECTED tells the station; the only command with that result
  comes as SET_MODE and is not acknowledged.
- Parse errors are not counted: `mavlink_codec.cpp:31` reads a field that the library
  has reset (`mavlink_helpers.h:871`). Nothing reads the statistic.
- A signed frame with a wrong checksum counts twice in `crc_errors`: the library returns
  BAD_CRC at the check bytes (`mavlink_helpers.h:780`) and again behind the signature
  (`:831`), and `Decoder::parse` counts what it returns. `EveryFrameIsCounted` states
  what the code does; no document says what the statistic counts.

## 6. Plan

What is left, in order of use:

1. The ranking argument of a GOTO, as `PhasesAdvance` is that of a take-off and a landing:
   that a step no longer than twice the tolerance comes closer to the target, so that
   TLC is left with the fairness alone.
2. Uplink and downlink in one model, for what the station shows of a GOTO against
   what the drone flies; the two state spaces multiply, so that it needs a smaller
   drone, that is `FlightContract` in its place.

Out of the prover's reach, and so left to TLC: liveness under fairness, `ENABLED`, and
the induction theorems of the library, which take an operator as a parameter. Where a
proof here needs induction, it is a descent: the least counterexample of a set, which
the well-foundedness of the order gives.

## 7. What is not modelled

- *Third-party code.* More than 99% of the repository's lines are GoogleTest and the
  generated headers of some thirty MAVLink dialects (a pack and a decode function
  per message, and their self-tests), of which the programs use six messages.
  They hold no state and no decision of this system. What the programs do call,
  framing, checksum, parser and table, is in `MavlinkCodec`; the
  models cover most of the lines of the programs and next to none of the rest.
- *Event log*: formatting; only the last entry written is kept, as `recorded` and
  `log`. The recorded commands, and their time, are left out.
- *Command lines, socket creation, addresses, system errors* other than a refused
  send: no state worth checking. `to_sockaddr` throws for an address that is not numeric
  (`adapters/transport/udp_socket.cpp:54-56`, called by `send` at `:104`), which leaves the
  worker and ends the program, as with `--gcs localhost:14550`; the channel's models
  begin behind that, with an address that is one. Likewise `--fence` and `--ceiling` take
  negative numbers, for which no point is inside the fence; `HalfExtent` and `Ceiling` are
  natural numbers.
- *The GUI*: not in the repository. The station's operator calls what it would.
- *Floating point*: space and speed are integers; the proofs say nothing of rounding
  other than that of an axis on the wire, nor of NaN. The floats of a GOTO arrive
  unchecked (`adapters/mavlink/drone_mavlink_adapter.cpp:135`), and a NaN passes every
  clamp (`domain/types.hpp:64`), although `domain/geofence.hpp:28` promises a point inside the
  fence: `InsideFence` and `GotoArrives` are about targets that are numbers.
- *A change of the speaker*: in `Channel.cfg` one remote endpoint speaks, beside noise and
  the socket itself. The theorem `PeerIsHeardForEver` is about any number of them.
- *Several drones on one station*: a heartbeat of any system counts as the drone's,
  and one drone per station is assumed throughout the repository.
- *Tests and tools*: read as documentation of intent.
