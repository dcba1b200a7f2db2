# Verification of tianbot_core

TLA+ models, TLC runs and TLAPS proofs about `tianbot_core`, the ROS 2 driver
that talks to a Tianbot base over a serial port or UDP, and about the mode
manager of the DYN chassis in particular.  `PROJECT.json` lists the runs, the
mutants, the lines every definition stands for, the hazards and the findings.

    tlc -config DynSwitch.cfg MCDynControl.tla
    tlapm DynControl_proof.tla

## The system

| Part | State | Operations | Talks to |
|---|---|---|---|
| Receiver thread (`serial_recv`, `udp_recv`) | object, descriptor, `running_` | read, hand to `dataProc`, leave | `dataProc` through `recv_cb_` |
| Frame parser (`TianbotCore::dataProc`, `buildCmd`) | statics `state`, `recv_msg`, `len`; `initDone_` | eight cases of a switch, one byte at a time | `tianbotDataProc`, `communication_timer_` |
| Packet dispatch (`TianbotChasis::tianbotDataProc`) | publishers | one case per pack type | topics, `onMotionModeStatus`, debug result |
| Link recovery (`open`, `heartCallback`, the end of every sending callback) | `comm_inf_`, two timers | send; on failure delete, cancel, reopen, reset | transports |
| Transports (`Serial`, `Udp`) | descriptor, `running_`, receiver thread | open, send, close | the device |
| Debug channel (`sendDebugCommandAndWait`, `debugCmdSrv`, `debugCmdCallback`) | `debugResultFlag_`, `debugResultStr_` | send a command, wait for a reply | link, dispatch |
| DYN mode manager (`TianbotDyn`) | `mode_cache_`, `current_mode_`, `param_pc_control_mode_` under `mode_mutex_` | three command callbacks, `set_control_mode`, `onMotionModeStatus` | link, debug channel |
| Other chassis (`differential`, `omni`, `ackermann`, `rover`, `amp`, `ndi`) | none | convert a message, send | link |
| Start-up (`main`, `checkDevType`) | `core` | choose a class, ask the base for its type | debug channel |
| Drift test node (`no_steer_circle_drift_test.py`) | phase, ages of sensor data, last command, radius filter, log | a timer callback per phase, start, abort, sensor callbacks, shutdown | DYN mode manager |
| Spin client (`spin_in_place.py`) | last status, attempt, part of its script | ask for a mode, wait, ask again, publish | DYN mode manager |
| `param_set.py` | none | debug commands one after the other | debug channel |

Threads.  `main` spins a `MultiThreadedExecutor`.  The timers have a mutually
exclusive callback group of their own, everything else is in the default one,
which is mutually exclusive too.  So at any time there is at most one timer
callback (`heartCallback`), at most one subscription or service callback, and a
receiver thread per open transport, which runs `dataProc` and everything it
calls.  `mode_mutex_` protects the mode cache; nothing protects `comm_inf_`, the
timers, or the statics of `dataProc`.

What is hard.  Recovery is copied into every callback and runs on two threads;
a serial receiver outlives its object; status packets are late, lost or stale
when they decide a mode switch; the gate of a motion command is tested before
the command is sent; a length field drives a byte-at-a-time automaton; replies
to debug commands carry no identity.

What makes each part correct.

- Parser: exactly the frames of the stream, whatever the cut into reads; every
  call returns; what is delivered is well formed.
- Link: nobody uses a deleted transport; after any recovery the timers run; a
  device that was lost is given up, and one that comes back is found.
- Mode manager: a confirmed switch happened; no motion is carried over into the
  new mode; a command reaches the base only in its mode; the response describes
  one status and no failed save as done; `current_mode_` never sticks; the
  handler comes back from everything but a device that stays away.
- Debug channel: a reply answers the command that waits for it; a mode reported
  as saved is in flash; start-up ends without an answer, too.
- Drift test: torque is finite, within its limit and its slew, and zero outside
  a test and in an abort; every test ends.
- Spin client: retries and requests left behind do not move the base in the
  wrong mode; every client ends, and the base is at rest then.

## Modules

**FrameParser** models `dataProc` and `buildCmd`.  `stream` is all the device
sends, `p` the next byte, `data_len` what is left of the current call, `state`,
`recv_msg` and `len` the statics.  Each case of the switch is an action:
`SeekHeadLo` (0), `MatchHeadHi` (1), `LenLow` (2), `LenHigh` (3), `PackType`
(4, 5), `Payload` (6), `CheckBcc` (7).  `Dec` is `len--` on a `uint32_t`, and
`LenMod` its modulus; `DataMod` is that of the `uint8_t data_len` of `buildCmd`.
`Frames` is the reference: the frames of a byte string as a whole, by a scan that
goes from every place to the next one (`NextAt`), a recursive function on places.

**FrameTraffic** feeds it with what `buildCmd` makes: a segment is noise, then a
frame, which arrives as sent or damaged behind its length field.  `Kept` is what
the `uint8_t data_len` leaves of the data.

**DynControl** models `TianbotDyn` with the two forms of status packet
(`chassis.cpp`).  `epc` is where the default-group thread is, `rpc` where the
receiver is inside `onMotionModeStatus`.  A callback is split wherever it takes
or releases `mode_mutex_`, sends or sleeps; the assignment of `MODE_SWITCHING`,
which takes no lock, is the action `Mark`.  `toDev` and `toHost` are the link:
it keeps order and loses packets.  The base is external: a set packet changes
the chassis mode, dm mode and motors follow in their own time, a remote control
may take over.  `present`, `disturbed` and `drops` are ghosts.  A send that fails
leaves the thread in `open()` (`conn` is "opening"): the callback does nothing
more until `Reopened`, and nothing says when that is; over UDP `OpenThrows` ends
the process.  The receiver and the base go on meanwhile.

**Link** models the recovery.  `comm_inf_` is an address, `heap` says what is at
each address, `pc[t]` which statement of the recovery thread `t` is at.  Two
threads and the receivers interleave at every statement that touches
`comm_inf_` and at every system call behind it: `send` is `Send` (the pointer is
read), `Write` (which may block) and `Close`, the destructor `Delete` and `Join`,
`open` is `New`, `Open` (`::open`) and `Config` (`flock`, settings, receiver).
In between a thread stays inside its object (`obj`), whatever the others make of
`comm_inf_`.  An object is `live` until it is deleted, and its address may then
be used again.  A callback that comes to a null or freed object ends the
process (`failure`), which is what a null pointer does and what a freed one may
do; a receiver of a freed object may leave, go on or end the process.  `flock`
is the lock of the device; it is "leaked" when a second `open` overwrites the
descriptor that holds it.  The ghost `hit` marks a callback that another
recovery came across, and `lastEnd` says whether the last one to return was a
dyn callback that had failed.

**ModeService** is the abstract specification of `set_control_mode`: one request
is handled at a time, every answer ends one request, a request is confirmed only
when the driver knows the base ready in its mode, and a base enters a mode on
request only at rest.  DynControl implements it: `Service` maps the locals of
the handler to `handled` and `answer` (`Found`), the cache to `known`
(`ReadyMode`), and the base to `chassis` and `moving`.

**DebugChannel** models `sendDebugCommandAndWait`, its callers and the start-up.
The subscription, the service and `set_control_mode` share one callback group,
so one `pc` follows the main thread from the constructors through `checkDevType`
into the executor and through each callback; `job` says who waits.  Commands and
replies carry no number in the code.  The ghost `mine` marks the command sent
since the flag was cleared and its reply, `foreign` says that something was in
flight when the flag was cleared, and `clean` that nothing was when the save
pipeline began.  The base (external) has its parameter in `ram` and in `flash`.
`no_timer` and `no_core` are the two ways the start-up ends the process.  `conn`
is as in DynControl; the constructor begins in `open()`.

**DriftTest** models the drift test node.  Every callback holds the one lock from
end to end, so each is an action, and `control_callback` is one action per way
through it.  Time is counted in units, ages saturate.  A torque is an integer or
`NaN`, which stands for whatever is not finite and passes `min` and `max` as it
does in Python.  The yaw and speed loops may add anything within the clamps at
their ends.  A file operation of the log may throw; then the `finally` clause
runs `shutdown`.

**SpinClient** models several spin clients at once on the node as ModeService
describes it (it EXTENDS ModeService and steps its actions).  `loc` is where a
client is, `attempt` and `step` count its attempts and the parts of its script;
`queue` holds the requests at the node, those of clients that gave up included;
`topic` is the last command not yet taken (queue depth 1).  The ghosts `lag` and
`lapse` mark a switch that timed out after the base had made it, and a status
that said not ready while the base moved.

In each module an operator such as `Null_givesUp`, named after another one, is
that operator with a fault seeded.  `PROJECT.json` pairs it with the property
that must notice it.

The **MC** modules give the constants their values; the modules whose names end
in **_proof** hold the theorems.

## Runs, bounds and what they show

| Run | Bounds | Shows |
|---|---|---|
| frame_exhaustive | all 4096 streams of twelve bits, all cuts, limit 2, `len` modulo 5 | the automaton agrees with `Frames`; delivered frames are well formed; no more than one frame is held back; a call takes two turns per byte and one more at most, and returns |
| frame_traffic | two-bit bytes, noise + frame twice, first frame intact or damaged, data cut modulo 4 | at every moment the first of the intact frames have come out, in order and with their data, and all in the end; everything is read |
| dyn_switch | one motor, one command per mode, two rounds of zeros, one packet lost, one poll, every switch saved, serial port | a confirmed switch happened; no motion carried over; commands meet their mode; ModeService is implemented |
| dyn_save | no motors, one kind of command, one round, one verification, one packet lost, both transports, remote control allowed | typing; `current_mode_`; the response, on every error path of the save; every step takes the handler nearer to its end; it comes back if every `open()` ends |
| dyn_stale | remote control allowed | finding: a stale status confirms |
| debug_channel | two modes, two attempts, one command and two replies in flight, both transports | a wait gets its own reply or none; what is reported as saved is in flash; every step takes the thread nearer to `spin`; every callback and the start-up end if every `open()` does |
| drift_test | every phase one or two units long, torques from -2 to 2 before the clamps, limit 1, slew 1 | torque finite and bounded, at rest outside tests, slew limited; no phase comes again or starts anew; every test ends |
| spin_client | two clients that want different modes, two attempts | motion fits the mode; the base is at rest in the end; every step of a client takes it nearer to its end; every client ends |
| link_heart | one thread, serial port, device lost twice | the heartbeat alone finds the link again |
| link_overlap | two threads, all callbacks, both transports, three addresses, two receivers, device lost twice | the process dies of a transport object only in a callback that another recovery came across; timers run at rest, but for the heartbeat after a failed dyn packet |
| link_two_senders | two threads, device lost once | finding: use of a deleted object |
| link_udp_reopen | UDP, device lost once | finding: the reopen throws |

Why the bounds are enough.  One-bit bytes make every byte a possible header,
length and check byte, so twelve of them hold two frames behind each other,
headers inside headers, lengths at, over and below the limits and the wrap.  A
switch needs a request, a switch already under way and a status from before: two
modes, one status packet in flight and one behind it in the cache.  The order of
polls and packets matters, not their number: a poll that waits longer stands for
several that found nothing.  `Rounds` (2) exceeds `MaxDrop` (1) as the three
rounds of the code exceed two losses; with as many losses as rounds
`ZeroBeforeSwitch` and `ImplementsService` do not hold, and the code does not
claim them.  Motors act alike, and an instance of dyn_switch with two of them and
`MotorSymmetry` (`MCDynControl`) asks nothing new.  dyn_save has none: what it checks is how the handler goes on, and a
motor that is late delays it as the dm mode does.  Requests that are not saved
end where a saved one goes on, so every request of the two runs is saved.
A late reply needs one reply from before and one command behind it: one command
and two replies in flight have it, and the theorems are for any number.  In drift_test
every torque the phases ask for goes over the limit or under it by a unit, and
cycles may be early, on time and late.  Two clients that want different modes,
with two attempts each, leave up to two requests behind while the other one
drives.  Two unplugs make a recovery meet a second failure; three addresses let
an object be deleted, leaked and replaced.  `RecvIds` exceeds `MaxUnplugs` in
the liveness run, so no reopen waits for a receiver name.  In link_overlap it
does not: a reopen may wait there until an old receiver has gone, which costs an
invariant nothing but the states behind a third receiver.

`CHECK_DEADLOCK FALSE` is set where the system may stop: the stream ends
(parser), the process dies or a thread waits for a device that stays away (link),
the process ends in the start-up or in `open()` (debug channel), the node is down
(drift test), or all clients have ended (spin client).  The runs of the mode
manager check for deadlock; where its process has ended, the base goes on.

Fairness.  The parser's receiver runs and the device goes on sending
(`WF` of `dataProc` and `Read`).  In DynControl the executor thread makes
progress with strong fairness, because `mode_mutex_` is free again and again and
the receiver holds it for one assignment only; the receiver finishes that
assignment, and the link carries packets away.  Nothing is assumed about clients,
status packets or the operator, nor about `Reopened`: the device may stay away.
`HandlerReturns` and `ComesToSpin` therefore say that the thread comes back if
the link is up again and again, that is, if every `open()` ends.  In DebugChannel
only the thread is fair: every wait has a timeout, and neither base nor receiver
owe it anything.  In DriftTest
the timer fires, time passes and the `finally` clause runs; sensors and services
may be silent.  In SpinClient only the steps of a client that its timeouts force
are fair, the node is not.  In Link the threads run, the heartbeat timer fires
while it is armed, and receivers look at `running_` at least once a second (the
timeout of `select`).  Nothing is assumed about the device, which need not come
back, nor about commands: `Reconnects` is conditional on the device coming back
for good.

The properties of DynControl that say `~disturbed` exclude what the findings
show: after a timeout, a takeover or a reset the cached status may be older than
the request, and then it confirms a switch too early.  `lag` in SpinClient is the
same seen from the clients, `foreign` and `clean` in DebugChannel exclude the
late reply that the code cannot tell from its own.

## Known disagreements

Those a run shows are under "findings".  The following were met while modelling
and are visible in one place of the code:

- A dyn command that fails recovers the link but leaves the heartbeat timer
  cancelled (`dyn.cpp:138`, `core.cpp:46`); `debugCmdCallback` and the plain
  chassis restart it.  When the device is lost again before the next command,
  nobody notices.  `TimersAtRest` excepts this state and no other (`lastEnd`).
- The receiver of a serial port is created detached (`serial.cpp:269`), so the
  destructor does not wait for it, and it may call `recv_cb_` of the deleted
  object.  Link has that outcome (`CallbackGone`), and `Reconnects` excepts it.
- When two recoveries overlap and both call `open` on the same object, the
  second `::open` overwrites the descriptor of the first: its lock stays
  ("leaked" in Link), and `flock` fails in the loop of `open()` until the device
  is unplugged.
- `len--` twice on a declared length of 0 or 1 wraps (`core.cpp:138`), and the
  parser then takes all later traffic as payload.  `Dec` and `LenMod` model it.
- A compact status leaves `pc_control_mode` at 0 (`chassis.cpp:376`), so a
  confirmed switch to mit may answer `speed`.
- `shouldAcceptSpeedSource` never refuses: each source sets the time of its own
  last command before it asks, so neither source has priority over the other.
- "saved, verified by param get" may be untrue when a late reply is in flight at
  the start of the pipeline, which the ghost `clean` excepts.
- A frame that arrives before the timers exist ends the process, and so does
  `type_verify` with an unknown type (`no_timer`, `no_core`).
- After Ctrl-C the ROS context may be gone, and the zero command of `shutdown` in
  the drift test is not published then; the spin client sends none at all.
- The gate of the driver drops zeros as well: when a status says not ready while
  the base moves, the stop of a client may not get through (`lapse`).
- An unknown rover mode sends an uninitialised struct (`rover.cpp:30`).
- `param_set.py` prints the `param set` lines it reads, but the call that would
  send them is commented out (line 76).

## Proofs

For every value of the constants that satisfies the named assumptions:

- `FrameParser_proof`: `TypeCorrect`, and `DeliveredWellFormed` by an inductive
  invariant that says for each `state` how long `recv_msg` is and what its first
  four bytes are; in cases 6 and 7 the length already collected and `len`
  together make up the declared length, wrap included.  `HoldsBackOneFrame`
  (from the same invariant) is what a damaged length costs.
  `AgreesWithScan`: the scan of every prefix of the stream that holds what has
  been read gives the frames found so far and then goes on where the current
  header begins (`SInv`: `Held`, `History`).  All such prefixes, and not only
  the bytes read: a step lengthens the string that is scanned, and the invariant
  has to say beforehand what the scan of the longer one gives.  Facts about the
  recursive `Scan` go by induction over the natural numbers, stated for a set of
  numbers (`SetInduction`, from the well-foundedness of `<`).
- `FrameTraffic_proof`: `RoundTripHolds`.  The scan of a whole wire finds the
  frames that arrive as sent (`TrafficFound`, segment by segment: no frame begins
  in the noise, and the frame behind it is found if and only if it is not
  damaged), and by `SInv` what has been found is the first part of it.  Assumed
  are the laws of exclusive or on bytes (`XorAssumption`), that two length bytes
  hold every length `buildCmd` writes and `dataProc` accepts it
  (`WidthAssumption`), and the form of the traffic.
- `DynControl_proof`: `TypeCorrect`; `CurrentModeCorrect`, whose invariant adds
  that a pending assignment of the receiver and `MODE_SWITCHING` meet only while
  the handler polls; `ResponseCorrect`, which follows the response from the poll
  that fills it through every error path of the save to the reply: the four
  messages behind a confirmation all describe the requested mode, and success
  is said if and only if nothing failed; `CallbacksAreBounded`, see below.
- `DynService_proof`: `SwitchesAtRest` and `Implements`, assuming
  `Rounds > MaxDrop`.  `ZeroBeforeSwitch` speaks of the moment the base takes a
  set packet, many steps after the zeros were sent, so the invariant (`Swept`)
  looks at the packets on their way: in front of every set packet there are, for
  each kind of command, more zeros behind its last motion than packets can still
  be lost (`Flush`), or the kind already rests and nothing moves it (`Clean`).
  Each zero that is sent adds one, each loss takes at most one from the zeros and
  from the losses to come.  `Implements` maps every step to one of ModeService
  or to a stutter; the step that takes a set packet is where `Swept` is needed.
  `ConfirmationIsTrue` and `CommandsFit` follow the modes on their way round:
  the cache, the status packets, the base and the set packets, in this order,
  agree with each other up to the switch under way (`InOrder`, `AllThere`),
  a status that is complete finds a base that is (`Recent`), and a motion packet
  has nothing but sets of its own mode in front of it (`Fitting`).
- `DebugChannel_proof`: `TypeCorrect`; `ReplyIsMine`, since a wait without
  foreign packets sees only packets sent since (`Own`); `SavedIsInFlash`, whose
  invariant (`Pipeline`) says what each reply in flight tells of memory and flash
  at each stage, and that the link is empty before each command (`Alone`) unless
  a wait has timed out, which only the verification survives.
- `DriftTest_proof`: `TypeCorrect`; `TorqueIsBounded`, which needs that a rate
  that is not finite has a filter that is not either (`RateFinite`), so the bias
  is always finite; `RestIsZero` and `SlewIsLimited`, which need that the last
  published command is `previous_command` (`Follows`).
- `SpinClient_proof`: `TypeCorrect`; `MotionFitsMode`, from what each stage of
  the handler knows of base and driver (`Stages`, `Knows`, `Awake`);
  `AtRestInTheEnd`, from the invariant that for every kind in motion some client
  still has a stop to send, or the stop is on the topic (`Stopped`).
- `Link_proof`: `TypeCorrect`.  `DeathNeedsOverlap`, from an inductive invariant
  (`Windows`) in three parts: while the pointer is unusable, some thread is
  between its delete and its new (`SomeoneResets`); every other callback at work
  then is hit (`HitTells`); and a callback that is not hit is inside the object
  `comm_inf_` points to (`Mine`), so that it meets a freed object only if it is.
  `TimersRestart`: a timer that is
  off has a thread on its way to restart it, or the last callback to return was
  a dyn one that had failed (`Stopped`).

That callbacks, calls and clients end is a liveness property, out of reach of the
prover; its safety half is not.  `TurnsCountDown` and `StepsCountDown` give for
each place the number of steps that are left, and say that the own step lowers
it and that no step of another thread, of the link or of the base raises it,
where the steps of `open()` are the device's and not the thread's own:
`CallsAreBounded` (`dataProc`), `CallbacksAreBounded` (mode manager),
`WaitsAreBounded` (start-up, debug commands, save pipeline), `ClientsAreBounded`
(spin client), for every number of bytes, tries and polls.  `PhasesGoOn` says
the same of the phases of a drift test and of their clock.  Left to TLC is that
the own step is always possible and is taken once `open()` is over.

Model-checked only: the liveness properties themselves (`CallReturns`, `AllRead`,
`HandlerReturns`, `ComesToSpin`, `TestEnds`, `Ends`, `Reconnects`), for the prover
has no rules for fairness and ENABLED.  Every invariant and every action property
of a passing run is stated by a theorem.

## Not modelled

- Field conversions of `tianbotDataProc` and of the plain chassis, termios
  settings, publishers: they carry no control.
- How much a `write` has taken when it fails, a descriptor number reused between
  the two closes of a serial port, and `pthread_join` of a detached thread, which
  is taken to return at once.
- What a callback does with a freed object other than ending the process at once.
- The data race of two receivers inside `dataProc`: Link lets it happen, the
  statics are in FrameParser, which has one receiver.
- Ctrl-C inside a callback of the drift test, between the assignments of
  `enter_abort` for instance: DriftTest interrupts between callbacks.
- Which frames survive a damaged length field: the protocol has no answer to it.
  FrameParser takes any stream, and `BacklogBounded` says how much such a field
  swallows; FrameTraffic damages frames behind the field only.
- Clocks that jump: the drift test takes its times from the ROS clock.
- `param_set.py`, whose commands DebugChannel has as free choices; the shell
  script that starts the spin client.
- What the base does with an uninitialised rover mode.
- Launch files, parameter files, message definitions and the build.
- LinkService, an abstract specification of the link as up, down, recovering or
  dead, was planned and dropped: with two recoveries at once the link has no one
  state, and what is left to promise is `DiesOnlyInOverlap` and `Reconnects`.

## Plan

1. FrameParser, DynControl and Link with their first theorems: done.
2. DebugChannel with the start-up, ModeService and the refinement, the speed
   arbiter, DriftTest, SpinClient, and the proofs of all their invariants: done.
3. The proofs of the scan and the round trip, and the bounds of every wait and
   loop: done.
4. Left: DynControl composed with DebugChannel, so that the save pipeline meets
   late replies and status packets at once; DynControl composed with Link, so that
   a mode switch meets the recovery of the heartbeat; an interrupt inside a
   callback of the drift test.
