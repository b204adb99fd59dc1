# TLA+ verification of the C37.118 PMU simulator

The simulator is one single-threaded Rust process (`src/src/`) that serves a
fleet of PMU endpoints over TCP, emits a data frame per endpoint at every
reporting boundary, and lets operators inject scenarios (omitted frames,
degraded time, signal excursions, PDC disconnects) through an HTTP management
plane and a browser console. This directory holds TLA+ models of its control
logic, the TLC configurations that check them, and TLAPS proofs.

Paths below are relative to the repository root (`src/src/server.rs` is the
crate's `src/server.rs`).

## 1. Inventory

| Component | State | Operations | Interacts with |
|---|---|---|---|
| Scenario controller, `scenario.rs` | prepared, prepared_targets, pending, active, sample index, next token, revision | prepare_activation, prepare_clear, confirm, cancel, snapshot, advance_boundary, frame_plan | called by the management plane and by emit_data |
| Scenario catalog, `scenario.rs` | immutable list of compiled scenarios | parse, compile, look up | controller |
| PDC server, `server.rs` | per endpoint: listener, two connection slots, shared data frame; connection: receive buffer, pending frame and offset, streaming flag, deadlines | poll, accept, read, cut and handle commands, flush, expire, emit_data | kernel (mio, edge-triggered), PDCs, controller |
| Scheduler, wall clock, `server.rs` | next sample index, first timestamp | timeout, take_due, timestamp_for_sample | event loop |
| Time health, `time_health.rs` | last observed wall clock | observe_boundary | emit_data, management |
| Management plane, `server.rs`, `management.rs` | eight connection slots, one request and one response each | accept, read, parse, dispatch, flush | controller, stats, console |
| Console state pages, `server.rs`, `management.rs` | process identity, controller revision, cursor | one page per request | console |
| Profiles, `config.rs` | immutable after start | validate, expand into endpoints | server, codecs |
| Startup, identity, healthcheck, `startup.rs`, `identity.rs`, `main.rs` | the two files' bytes, the identity, the bound ports | load, compile, bind, publish | files, host ports, supervisor |
| Codecs, `wire_v2.rs`, `wire_v3.rs` | none | parse and encode frames | server, probes |
| Probes, `bin/c37-118-probe.rs`, `bin/c37_118_probe_v2.rs` | per endpoint: handshake step, buffers, last timestamp, frame count | run, read_ready, write_ready, handle_frame, finish | endpoints under test |
| Console, `pmu-control-console/app.js` | loaded snapshot, open dialog, prepared token | refresh, page collection, prepare / confirm | management plane |
| Legacy `wire.rs`, scripts, deployment | - | unused codec, acceptance tests | - |

What is hard in this code:

- **two-step control with lazy expiry**: operator calls, token expiry and
  reporting boundaries interleave, over four maps updated by hand;
- **edge-triggered I/O**: a readiness is reported once, while buffers are
  bounded, commands wait behind an unfinished frame, the accept loop of the
  management plane is bounded, and the data frame buffer is shared by the slots
  of an endpoint;
- **stale events**: the batch is copied before it is handled and slots are
  reused;
- **byte streams** cut anywhere: commands with wrong sizes, requests that are
  parsed again after every segment, probes that read half frames;
- **deadlines and ticks** race requests, writes and EOF;
- **skipped ticks** move the sample index by more than one;
- **paging** of a changing state, by a reader that must notice;
- **restarts**: tokens and connection ids start again at 1, ports are contended
  for, and files are rewritten while a process reads them.

`PROJECT.json` lists each hazard at its line with the properties that cover it.

## 2. Modules

| Module | Models |
|---|---|
| `ScenarioLifecycle` | abstract specification: targets run scenarios, have one action under way, and confirmed actions are applied at a boundary |
| `ScenarioController` | `scenario.rs`: the runtime controller, shown to implement `ScenarioLifecycle` |
| `ScenarioControl` | the controller composed with the management handlers, the admitted PDC connections, operators that hold tokens, and restarts |
| `ConsolePages` | the controller composed with the paged console state and the console's loader |
| `PdcServer` | `server.rs`: the event loop, the connections and the data emission of one endpoint, with kernel and peers as environment |
| `CommandStream` | the receive buffer of a PDC connection, byte by byte |
| `EventTokens` | the poll tokens of all endpoints and both planes, with late dispatch |
| `ReportingClock` | `Scheduler` and `WallClock` of `server.rs`, and `time_health.rs` |
| `HttpRequest` | `management.rs`: from bytes received to a request, an error or "not yet" |
| `RequestReading` | one request arriving in a connection's buffer; uses `HttpRequest` |
| `ManagementPlane` | listener, slots, one request per connection, responses; uses `HttpRequest` |
| `Profile`, `ProfileCompiler` | `config.rs`, and the fixed-point conversions of the codecs |
| `WireBytes`, `WireV2`, `WireV3` | the codecs, and the probes' own decoders, byte by byte with the CRC |
| `FrameExchange` | an endpoint of a compiled profile at work: signals and frames on the wire, with transmission faults |
| `Probe` | both probe clients, against endpoints that may be faulty |
| `Startup` | `main.rs`, `startup.rs`, `identity.rs`, the catalog compiler, binding and the healthcheck |
| `...Proofs` | theorems about the module of that name; `ManagementPlaneProofs` also about `HttpRequest` and `RequestReading`, `ServerProofs` about `ReportingClock` and `CommandStream`, `EndpointProofs` about `EventTokens`, `ProfileCompiler`, `FrameExchange` and `Probe` |
| `MC...` | small instances for TLC; `MCTransport` takes `EventTokens`, `CommandStream`, `RequestReading` and `Probe` side by side, a behaviour being one of the four |

### ScenarioController

The four `BTreeMap`s are functions whose domain is the set of keys present.
Each public operation that changes state is one action with one disjunct per
early return; `discard_expired_preparations` and the revision bump are part of
the action that calls them. `now` is the instant the callers pass in, `reply`
the `Result` of the last call. `frame_plan` is a state function, as in the
code. `MaxToken` stands for `u64::MAX`, `MaxInstant` for the largest `Instant`
(so `TokenSpaceExhausted` and `TokenExpiryOverflow` happen), `MaxSample` bounds
the boundaries; `advance_boundary` is called with any index, so skipped and
repeated ones occur. Scenario names, actor labels and signal values are left
out; validation failures on them change no state. `revision` is a natural
number: its overflow panics in the code.

The refinement mapping forgets tokens, clocks and indices: a running target
maps to its scenario, a prepared or pending one to its action and stage.

### PdcServer

A connection is a record with the code's fields and, below them, the kernel's
view of its socket (`armed`, `inbox`, `peer`, `room`). Reading, handling
buffered commands and flushing are pure functions from a connection to a
connection and whether it stays open, exactly as the Rust functions return
`Ok(true)` or `Ok(false)`; the event loop's steps (`Poll`,
`accept_connections`, `dispatch_event`, `expire_connections`, `NoTick`,
`emit_data`) apply them. Peers send, shut down, reset, drain and connect
between any two of these steps.

Abstractions:

- A command is one symbol (`CommandStream` has the bytes). Bytes of a command that is not complete yet count
  as not arrived: they trigger no handling, do not reset a deadline, and EOF
  behind them closes the connection just the same. Header, configuration and
  capability requests differ only in the bytes sent and are one `Request`.
- A frame has `FRAME` units and the socket takes what it has room for. `seen`
  records which contents the peer already got of the unfinished frame, and
  `data_frame` which of two encodings the shared buffer holds.
- Readiness: a socket is reported by the next poll if it is armed (new bytes,
  EOF, room, or a re-registration while ready). On epoll a connection has one
  event per poll; with `SplitEvents` it has one per direction, as on kqueue,
  and only then can an event of a batch be stale.
- Time passes in reporting periods; `age` counts them since the accept or the
  last valid command and saturates at the longer deadline. `due` is set when a
  period has passed, so several missed ones collapse into one tick, as in
  `take_due`.
- The scenario controller enters as the set `FramePlans` of plans it may
  return. Metrics counters are left out. An accept error other than WouldBlock
  ends the process (`"stopped"`, allowed by `AcceptFaults`); errors of the poll
  registry, which also end it, are not modelled.

### ReportingClock

Two clocks: `mono` paces the samples, `wall` is read once to align the first
boundary and afterwards only watched; `origin` is the true time at `mono = 0`,
so properties can compare a stamp with the instant it stands for, whatever
steps the wall clock took. `NANOS` stands for the nanoseconds of a second and
`MaxSoc` for `u32::MAX`; all roundings are those of the code (index down, due
time down, first boundary up, seconds truncated then saturated). `emit_data` is
one loop iteration that finds a sample due, at any later instant, with the
health observation it makes. Whether synchronization is verified is arbitrary.
The 64-bit saturations, out of reach for centuries, are left out, and so is a
loop that runs into its deadline (`run_for`).

Two behaviours a reader should know: the first sample is taken by the first
poll that returns, before its boundary if a client connects that early, since
`take_due` saturates the elapsed time; nobody streams yet, so no frame leaves
early. And once the seconds have saturated, stamps repeat every second.

### ScenarioControl

`management_request_response` in front of the controller. A prepare or clear is
admitted only for a target that `scenario_target_is_admitted` finds (an
endpoint, or a PDC connection that is live, or, for a clear, any target the
controller still tracks). What it answered is added to `held`: the answer
outlives the process that gave it, so confirmations and cancellations arrive
late, twice, and after restarts. `request` is the clear or confirmation of the
last step, with what it was answered. `Boundary` is `emit_data`'s use of the
controller: it advances the boundary and closes the connections the frame plan
names. `Restart` replaces the whole process; nothing is persisted.

### ConsolePages

`management_console_state_response` serves one page of lifecycle records under
a cursor of process, revision and offset; `collectConsolePages` appends pages,
compares each with the first one's fingerprint, retries a stale cursor and a
changed catalog once each, and gives up otherwise. Between two fetches any
controller operation, a change of the facts around it, or a restart may happen.
A fetch meets a whole response or fails. JSON, rendering and the fields that are
only shown are left out. The iteration order of the `BTreeMap`s is `InOrder`:
the key at a place is the one with that many keys below it, by token or by the
derived order of targets. `IsWhole` has the checks made after the last page: the
counts, `assertUniqueLifecycleRecords` and `assertTargetsMatchEndpoints`.

### CommandStream and EventTokens

`CommandStream` complements `PdcServer`, where a command is one symbol: here a
frame has a declared size, a real size, an id, and a verdict of the codec, and
its bytes arrive in any segments into a buffer of `LIMIT` bytes. One read, the
processing of every buffered command and a flush are separate steps, in the
order of `dispatch_events`. `EventTokens` has the arithmetic of
`connection_token`, `management_connection_token` and `event_target` with its
checked operations on words up to `USIZE_MAX`, connections of both planes that
open, close and reuse slots, and events dispatched arbitrarily late.

### HttpRequest and ManagementPlane

A message is a record of what its head and body say and after how many bytes
`httparse` decides (external); `parse` is a function of the message and the
number of bytes received, with the checks in the code's order. Numbers are
sequences of digits, so that leading zeros, stray bytes and overflow are what
they are in the code. In `RequestReading` the bytes of any message of
`Messages` arrive one by one, which is every length at which a read may stop.
`ManagementPlane` runs the accept loop (bounded by the
number of slots per event, every refusal of the code, accept errors that end the
process), one read per event up to the full buffer, the answer, and one chunk
per writable event. Response bodies are units, the metrics text is left out.

### Profile, codecs and FrameExchange

`Accepted` is the conjunction of all checks of `compile_profile`; `Descriptor`
is one endpoint of the result. Floats are integers in millionths of their unit
and the rounding of f32 itself is left out; the fixed-point conversions keep
their rounding and their saturating casts. Names are byte sequences. Frames are
sequences of bytes: every encoder, the command parsers of the server, and the
decoders which the probes implement independently. `FrameExchange` compiles a
profile, then either puts one signal value on the wire or sends one frame
through a network that may damage it, cut it, or let a further byte arrive
behind it. Its readers are `next_command` and the probes' `read_ready`: both wait
until the size that the first bytes declare is there, refuse a size past their
limit (the profile's for a command), and parse just those bytes, `FirstFrame`;
the rest of the buffer stays for the next turn. `Served` and `Probed` are what
they make of a buffer: the command's name or "taken", an error, or "waits". The
probe is in the state that expects the frame; `Probe` has its states. A
descriptor holds the fields of both versions (`pmu_name` is the V2 station name
too), and an encoder reads only those of its own. The random numbers of
the waveform are its extreme and middle values; UUID words (`Mixed`) are
constants. `RawProfile` is what serde can read into the raw structs, and the
profiles of an instance are some of them. A sample carries the step that the
configuration frame announces and the scale that the profile configures: a V2
endpoint encodes with the former, the checks use the latter.

### Probe

One client per endpoint with the code's state, its handshake script, a buffer
of `CAPACITY` halves of frames, and the loop of `run`: deadlines and duration
at the top of a turn, events in any order, `finish` at the end. An endpoint may
refuse, stay silent, reject, announce two different configurations, send a
damaged frame, leave out a sample or close, as `Faults` allows, and records in
`wrong` what it did. `MAX_LAG` bounds how late a sound endpoint's frames are
handled: a verdict about a fleet means nothing if the probe's host may be slow
without limit. `LatenessAssumption` says what lateness an acceptance run can
afford: the handshake and the first sample fit in `HANDSHAKE_TIMEOUT`, what waits
to be read fits in the buffer, and the samples still missing at the end are no
more than the fifth that `finish` forgives.

### Startup

A process reads the profile, then the catalog, compiles both, computes the
identity of the bytes it read, logs it, binds the endpoints' ports in order and
the management port last, publishes the identity and serves; it ends at the
first failure and the host closes its sockets. Files may be rewritten between
any two steps, processes killed and started again by their supervisor
(`restart: unless-stopped`). The healthcheck connects to whoever holds the
management port, also before that process serves, and passes if it is answered
with 200; `/readyz` answers 503 where the fleet's own frames do not pass the
server's parser (`selected_wire_frames_are_valid`). What a profile must satisfy
is `Profile`'s subject: here it is a verdict, whether its frames pass, and a port
range.

## 3. Runs

| Run | Instance | Result |
|---|---|---|
| `scenario_controller` | 1 endpoint, 2 PDC targets, one scenario of each shape, limit of 2 targets, 3 usable tokens, TTL 1, instants 0..2, boundaries 0..2 | 7 properties hold |
| `scenario_control` | the same controller with one endpoint, 2 connection ids, 2 processes, room for one target, a transient omission and a sustained disconnect, boundaries 0 and 1 | 3 properties hold |
| `console_pages` | 2 targets, pages of one record, 2 processes, 2 facts, 2 catalogs; states that differ in `reply` alone, which nothing reads, are one (`VIEW`) | 2 properties hold |
| `pdc_v3` | 2 slots, V3, one event per poll, 2 clients, 2 commands, disconnect and omit plans, accept faults | 2 properties hold |
| `pdc_v2` | 1 slot reused by 2 clients, V2, split events, 2 commands over a buffer of one | 5 properties hold, 4 of them liveness |
| `pdc_slow` | 1 slot, 1 client, V3 | `OnlyBlockedClientsAreSlow` is violated |
| `pdc_accept` | 2 slots, 2 clients, V3, accept faults | `RuntimeFailuresAreIsolated` is violated |
| `reporting_clock` | 10 ns to the second, 3 samples and 6 ticks a second, 2 s, 4 start offsets, lag 0 or 1 ns, up to 2 steps of -30, -5 or 4 ns, seconds saturate at 2 | 6 properties hold |
| `management_plane` | 2 slots, a command with a byte too many and a client that never completes its head nor reads, 2-byte buffer, chunks of half a response, 2 connection ids, accept faults | 3 properties hold, 2 of them liveness |
| `frame_exchange` | a valid profile with every pair of fields at the edges of its range; 10 profiles at the edges that shape a frame, every frame kind, masks over every byte and every two adjacent ones, every cut, a byte more | 4 properties hold |
| `startup` | 2 processes, 4 profiles with overlapping ports (one over the management port), one good catalog and 13 bad ones, 2 rewrites, 1 kill | 3 properties hold, 1 of them liveness |
| `transport` | tokens: 2 endpoints, 2 slots each, 2 management slots, words up to 23; stream: V3, 3 frames of 6 kinds, buffer of 12 bytes; requests: all header lists of up to 3, request lines, bodies and queries, 6-byte buffer; probe: V3, a sound and a faulty endpoint | 5 properties hold, 1 of them liveness |

Why the bounds suffice: two PDC targets and an endpoint fill and overflow a
limit of two; three issued tokens allow prepare, confirm, clear and a
concurrent preparation; boundaries 0..2 allow a skipped index over a one-frame
transient with and without offset. In `scenario_control` one place among the
tracked targets is the hard case: a sustained scenario, or a preparation for a
PDC that has left, is then all there is room for. Two processes are one restart, enough for an
answer or a page of the previous one. Pages of one record over two targets give
loads of one to several pages. For the server, `FRAME = SEND_ROOM = 2` gives
full, partial and refused writes; commands exceed the receive buffer; the two
deadlines, 1 and 2 periods, keep their order. For the clock, neither a period
(3.33 ns) nor a tick (1.67 ns) is a whole number of nanoseconds, so each
rounding happens; 20 ns hold six samples, two carries into the seconds and the
saturation. A word of 23 leaves every kind of token a few ids and lets
them run out. A stream buffer of 12 bytes takes one command of 8 and the size
field of the next, or one frame of exactly its size, and refuses one of 13. In
`frame_exchange` the sizes are the code's own, and the three stamps are zero
and the last sample of a second at the usual and at the largest time base; the
masks make the size byte of each frame declare less and more than it has, so a
reader waits, or cuts elsewhere; a limit of 18 bytes is the shortest that takes a
command. Runs that end at such a bound,
or where clients may do nothing for ever, do not check deadlock.

**Controller.** `ActionsStayApplicable` and `LiveConfirmSucceeds` say that a
premise checked when an action is prepared still holds when it is confirmed and
applied. `TwoStepControl` and `TrackedWithinCapacity` guard what confirm and
prepare rely on. `TransientsEndOnTime` and `ConfirmedScenarioTakesEffect` fix
the arithmetic of boundaries: a confirmed scenario without offset shows in at
least one frame and a transient never in one too many. `ImplementsLifecycle` is
the refinement: the mapping forgets tokens, clocks and indices.

**Control and console.** `NewcomersAreUntargeted` (a scenario prepared for one
client never meets a later one), `ConfirmsWhatWasPrepared`, and
`SustainedCanBeCleared`, which follows a clear to its end: asked for, also for a
PDC that has left and when no place is free, it gets a token unless one is under
way or the process can issue no more; confirmed in time, it is queued; and the
next boundary frees the place. `SnapshotIsOneState` and `IncoherenceIsReal` are the
two sides of paging: nothing mixed is accepted, and nothing consistent is given
up.

**PDC server.** `FramesAreWhole` (no torn frame from the shared buffer),
`QueuedFrameMatchesMode`, `ClosedForOwnFault` (a slow or malformed PDC never
costs another its connection, ADR 0007), `HandledIsTheStream`,
`EventsReachTheirSource`; and, live, `DeadPeersAreClosed`,
`CommandsAreHandled`, `IdleSlotsAreFreed`, `NobodyWaitsAtTheListener`.

**Clock.** `SamplesIncrease` is the premise under which `advance_boundary` never
fails the process; `TicksAreAccounted`, `FramesAreCurrent` and
`SamplesKeepTheirTime` say that a late loop skips, counts what it skipped, does
not spin, and never sends a sample before its time; `TimestampsIncrease` and
`AlarmsAreFresh` are about stamps and time health.

**Management plane.** `RequestsHaveOneReading` is about the parser at every
length, `ActedOnceOnWholeRequests` about the connection around it,
`DecidedClientsAreReleased` and `NobodyIsStranded` about a plane without
deadlines: who has sent enough is served whatever others do.

**Wire, probe, startup.** `FleetIsDistinct`, `SamplesFitTheWire`;
`WholeFramesAreUnderstood`, also with more bytes behind the frame and whatever
command limit the profile sets; `SpoiltFramesAreRefused`: damage of one or two
adjacent bytes, the declared size among them, and any cut make no reader act, and
a cut frame is waited for. One damage is excepted: the size byte of a V2 header
shrinks, and the two characters behind the shorter text happen to be its checksum
(`IsShortenedHeader`), as for some seconds of the stamp they are. A header has no
length of its own to compare with, and the probe makes nothing of the text. No
state of the run needs the exception, the theorem does. `VerdictsAreEvidence`
(neither a false alarm nor a false success) and `ProbeEnds`;
`IdentityNamesWhatRuns`, `HealthyMeansServing`, `SomebodyServes` (processes that
contend for ports all bind in one order, so one of them comes through).

**Fairness.** `PdcServer` and `ManagementPlane` assume that the loop keeps
taking steps unless it was stopped, and the former that time passes: the loop
is an unconditional `loop` whose poll has a timeout, and its steps are enabled
whatever the peers do. Nothing is assumed of PDCs; of management clients only
that those in `Readers` go on reading. `Startup` assumes that the supervisor
starts again what has ended and that a process runs. For the probe: its loop
runs, and its surroundings do not stop altogether while one of a delivery, a tick
of the clock and an answer is possible; which of them comes is left open.

**Findings.** (1) The documents say a client is disconnected when it *cannot
drain its pending frame by the next reporting tick*
(`docs/c37-118-simulator.md:326`, `CONTEXT.md:188`). `emit_data` closes any
streaming connection with a pending frame. When a streaming client's
configuration request is read in the same loop iteration in which a tick is
due, its response is queued, no write is attempted, and the tick closes the
client as slow with its socket empty.

(2) `CONTEXT.md:180` says that "runtime endpoint and PDC failures remain
isolated" and ADR 0007 that "only inconsistent scenario state fails the
process". An `accept` that fails with anything but `WouldBlock` (the attempt was
aborted by its peer, no file descriptor is left) is returned through
`dispatch_events` and `run_until` and ends the process, and with it the streams
of all endpoints.

**Observations** met while modelling, which bound what the properties can say:

- Tokens start again at 1 in every process and a confirm carries nothing but
  the number (`scenario.rs:328`). A confirmation meant for the previous process
  may therefore queue another action that was given the same number after the
  restart; `ConfirmsWhatWasPrepared` is stated within one process.
- `validate_fixed_magnitude_range` (`config.rs:532`) divides by the configured
  scale, while a V2 endpoint encodes with the PHUNIT that scale was rounded to, a
  multiple of 1e-5 (`config.rs:596`, `wire_v2.rs:421`), although
  `docs/c37-118-simulator.md:148` says that the compiler rejects "values that
  cannot fit the fixed-point wire range". With a scale of 0.001234 a magnitude of
  80.7996 V is accepted and sent as full scale, 80.60805 V (`RoundedProfiles` of
  the instance has such profiles). `SamplesFitTheWire` states what does hold: half
  a step, this one case excepted.
- No check rejects a profile whose endpoints include the management port; the
  bind fails at start. `SomebodyServes` excepts such profiles.
- `docs/c37-118-simulator.md:145` says the compiler rejects more than 100 PMUs;
  the code, and lines 126 and 156 of the same document, allow 150.
- A backlog longer than the management slots is not emptied by one accept call
  and the listener is not reported again until another client connects;
  `NobodyIsStranded` is stated for shorter backlogs.

Faulty variants (`X_something` above a definition `X`, marked "Fault") are the
mutants that show each property can fail; the specifications do not use them.

## 4. Proofs

All theorems hold for every value of the constants that satisfies the named
assumptions of the module, which TLC evaluates on the instances.

| Module | Theorems that state a checked property |
|---|---|
| `ScenarioControllerProofs` | `PremisesPersist`, `ConfirmIsNeverRefused`, `TransientsAreBounded`, `CapacityIsKept`, `ControlTakesTwoSteps`, `ConfirmedScenariosShow`, `ControllerImplementsLifecycle` |
| `ScenarioControlProofs` | `NewcomersAreSafe`, `SustainedIsClearable`, `ConfirmationsAreTrue` |
| `ConsolePagesProofs` | `AcceptedSnapshotsAreStates`, `GivingUpIsJustified` |
| `PdcServerProofs` | `QueuedFramesMatch`, `FramesAreNeverTorn`, `ClosingIsOwnFault` |
| `ServerProofs` | `SamplesInOrder`, `TicksAccounted`, `SamplesAreCurrent`, `SamplesAreOnTime`, `StampsInOrder`, `AlarmsFollowSteps`, `StreamIsHandled` |
| `ManagementPlaneProofs` | `RequestsAreActedOnOnce`, `RequestsAreRead` |
| `EndpointProofs` | `EventsAreSound`, `FleetsAreDistinct`, `AcceptedSignalsAreReadBack`, `NothingSpoiltIsRead`, `WholeFramesAreRead`, `ProbeVerdicts` |
| `StartupProofs` | `IdentityIsTrue`, `HealthIsTrue` |

**Controller.** The inductive invariant `IInv` is `TypeOK`,
`PreparationsAreIndexed` and `ActionsStayApplicable` (`TypeCorrect`,
`PreparationIndex`, `PremisesPersist`). None is inductive alone: the index needs
the types; that a premise persists needs the index, since a target's second
preparation is refused by a look at `prepared_targets`; and the boundary
preserves premises because a pending action never shares its target with a
preparation and an ending transient is never the premise of a clear. From
`IInv`: `ConfirmIsNeverRefused`, `TransientsAreBounded`, `CapacityIsKept` (the
tracked targets are finite and every step adds at most one, and only where the
limit was tested), `ControlTakesTwoSteps`, `TokensAreNeverReused`,
`RevisionIsExact`. `ConfirmedScenariosShow` needs one thing more,
`ActionsSuitTheirTargets`: only a compatible scenario is ever prepared for a
target, or `frame_plan` would look for its effect in the wrong place. One lemma
per action (`...KeepsIInv`), and the lemma `StepKinds` that sorts all steps into
a few kinds.

`ControllerImplementsLifecycle` is the refinement of `ScenarioLifecycle` under
the mapping of `ScenarioController`: the lemma `Stages` identifies the abstract
stages with the concrete maps, and each kind of step is shown to be a request, a
boundary or a stutter.

**Control.** `KInv` adds to `IInv` that tracked targets were
admitted (their connection id is below the next one) and that a token held from
this process, if still prepared, stands for what its holder was told.
`SustainedIsClearable` follows a clear through three lemmas. `ClearIsPrepared`:
the target is admitted because the controller still tracks it, capacity is no
reason to refuse since it is counted already, and what makes it busy must be a
clear, because a sustained scenario admits no second activation. `ClearIsConfirmed`:
the checks that confirm repeats hold, by `ConfirmIsNeverRefused`.
`ClearIsCarriedOut`: the boundary takes pending clears off the active map before
it does anything else.

**Console pages.** A cursor names process, revision and offset. The proof rests
on `RevisionIsExact`: as long as process and revision stand still, so do the
records, so pages under one baseline are pieces of one list, adjoining because
each offset is the length of what was collected before. For the converse,
`GivingUpIsJustified`, the number of records is bounded by `CapacityIsKept` and
by a preparation being for a tracked target, so that `MAX_CONSOLE_PAGES` pages
always suffice; and pages of one list never overlap or miscount. Lemmas about
`InOrder` say that it lists every key once.

**PDC server.** Every connection is `Good` (mode and contents of its frame
agree), for any number of slots, frame length and buffers: `QueuedFramesMatch`
and `FramesAreNeverTorn`. The mode is needed for the contents: a tick encodes
the shared frame again, harmless only because an unfinished data frame belongs
to a streaming connection and those were closed before. `ClosingIsOwnFault`
follows every path that takes a connection out of its slot back to what the
connection itself shows.

**Clock.** `SchedulerInv` gives `SamplesInOrder` (the invariant is
needed because `take_due` compares with `next_sample_index` and not with the
last sample), `TicksAccounted` and `SamplesAreCurrent`, by the lemmas `Division`
and `DueSample`; `ReadingInv` (without a step back, the clock is not behind the
last reading) gives `AlarmsFollowSteps`. `SamplesAreOnTime` and `StampsInOrder`
compare nested roundings: the stamp of an index is expressed in ticks, and the
divisions are taken apart by cross-multiplication.

**Receive buffer.** `StreamIsHandled` rests on `StreamInv`, which carries a
function of frame offsets in the stream so that the bytes in the buffer can be
related to the frames taken.

**Management plane.** `PiecesDoNotMatter` is about the parser alone: a message
is acted on at one length at most and waits at all shorter ones, what was refused
at a length is not acted on at a longer one, and a full buffer is decided. The
plane's invariant relates each slot's buffer, the number of bytes its client has
sent and `acted`, and gives `RequestsAreActedOnOnce`.

`RequestsAreRead` adds what a request that is acted on looks like. The header
checks are taken apart until one valid host and at most one length are left. By
induction over the digits, a number that `Decimal` builds with its checked
operations is the value of the text, of any size, or the text is refused; and by
induction over the length, two canonical texts of one value are one text, so no
other text names the token of a confirmation.

**Endpoints.** For the tokens, the codec is a mixed-radix number (lemma `Digits`), and ids are never handed out twice. For the
compiler, `RoundIsNear` and `RoundIsMonotone` are the two facts about
`f32::round` from which `AcceptedSignalsAreReadBack` follows, for every scale
and every amplitude; `FleetsAreDistinct` has only the checks of the identifiers
to go by. The two theorems are about `CompilerSpec`; each step of
`FrameExchange` is a step of it or leaves its variables alone.

**Frames.** `ExchangeInv` is the compiler's invariant and `OnWire`: while no
fault has happened, the wire holds the encoding of the message that was meant
(`Encoded`, one disjunct per kind of frame); after one, it holds such an encoding
with one or two adjacent bytes changed, a proper beginning of it, or it with a
byte behind (`Arrived`).

`NothingSpoiltIsRead` needs one fact about CRC-16 for frames of every length,
`DamageIsDetected`: a change of one byte, or of two adjacent ones, anywhere in the
frame or in the checksum itself, leaves a frame that no longer matches. It is
proved from the bits up. `Xor` of a byte can be undone; a round of the register can be
followed backwards, since the low bit after it tells whether a one fell out; so
the low byte after eight rounds tells the byte that came in, and each byte maps
different registers to different ones. Hence two bytes in a row are told by the
register they lead to, registers that differ stay different over the equal bytes
that follow, and the fold ends in another checksum. This settles damage that
leaves the declared size. A damaged size makes the reader wait, refuse, or cut a
beginning of the frame, whose bytes need not fail the checksum; but of the frames
exchanged every body except a header's has the length its type demands, so a
shorter one is refused (`ShorterIsSpurned`) unless it is a header. What is cut is waited for, since the size
stands in front (`CutIsAwaited`), and a whole frame of the other version is
refused for its version nibble.

`WholeFramesAreRead` is about layout, for a frame by itself and for the
`FirstFrame` of a buffer that holds more. `At(text, k, part)` says that a part stands
behind k bytes of a text, `Peel` takes the last field off a concatenation, and
repeated `Peel` yields the places of all fields: `LayoutOfV2` for the 158 bytes of
CFG-2, `LayoutOfV3` for the 219 + n + m bytes of a V3 configuration with names of
n and m bytes. On the reader's side `ConfigurationOfV2` reads fixed places, while
in V3 the probe walks over names it must count: `Take` and `NamesAreTaken` say
where each step leaves it, and `ConfigurationOfV3` that these places are the
writer's. The bounds on names, scales and identifiers that make the fields fit
come from `Accepted`, so the theorem says that every accepted profile is one a
probe can read; a data frame's stamp is on the probe's grid because both compute
it from the same time base and rate (`OnGrid`). Assumed are only the widths of
stamps (a u32 and three bytes), masks that change something, and 16 bytes of
UUID (`StampsAssumption`, `MasksAssumption`, `MixedAssumption`).

**Startup.** `StartupInv` (what a process holds and knows by its phase)
gives `IdentityIsTrue` and `HealthIsTrue`.

**Probe.** `ProbeInv` is the types, `VerdictsAreEvidence`, and for a run without a
verdict `Underway`. The latter says of every client and its endpoint: the
client's state and step agree with what it asked (`InStep`); a fault of the
endpoint that the client has passed is not one that a success excludes
(`Caught`); the frames that wait are the samples following the last one counted
(`InOrder`); and unless the endpoint did something wrong an event is pending
that carries the exchange on (`Promised`), so that with the lateness bounded the
handshake is over before its deadline (`HandshakeInTime`) and the samples counted
keep up with the time since the start (`CountedSinceStart`). The frames of one
read are handled by a recursive function: by induction, a client that has not
failed has taken each of them in turn.

**Induction over data.** The induction theorems of the library take an operator
as parameter and cannot be used. Where a recursive function has to be followed,
the lemma `SetInduction` is cited instead: a set that holds 0 and the successor of
each of its naturals holds them all, from `WFMin` of `WellFoundedInduction`. That
a recursive function satisfies its equation is proved in the same way.

Only model-checked: all liveness properties (`DeadPeersAreClosed`,
`CommandsAreHandled`, `IdleSlotsAreFreed`, `NobodyWaitsAtTheListener`,
`DecidedClientsAreReleased`, `NobodyIsStranded`, `SomebodyServes`, `ProbeEnds`),
since fairness is out of the prover's reach. Every invariant and every other
action property of a passing run is stated by a theorem.

## 5. Not modelled, and plan

Not modelled, and why:

- `wire.rs`: no build contains it, `lib.rs` does not declare it;
- metrics counters and the text of responses: they follow the control modelled
  here and feed nothing back into it;
- parsing of command lines, YAML and JSON: libraries and data; what the code
  checks on the result is modelled;
- the console's rendering, filters and dialogs: presentation; `ScenarioControl`
  has operators who send any confirmation late or twice;
- `run_for` deadlines, errors of the poll registry (they end the process), f32
  rounding;
- scripts and deployment files: configuration data and acceptance tests.

What could follow: the counters of `PdcServer` (accepted = open + closed);
`PdcServer` with several endpoints and the controller in one module, where
`FramePlans` stands for the latter now; proofs that `PdcServer` and
`CommandStream` agree on the commands of a connection.
