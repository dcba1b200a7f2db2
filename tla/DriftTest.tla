------------------------------ MODULE DriftTest ------------------------------
(* The drift test node (no_steer_circle_drift_test.py): a timer callback     *)
(* that drives the wheels through the phases of a test and publishes one     *)
(* torque command in every cycle, and the callbacks that feed it.  All of    *)
(* them hold one lock from end to end on one thread, so each is one action.  *)
(* Time is counted in whole units; ages and phase times stop counting once   *)
(* they are past every limit they are compared with.  A command is the       *)
(* torque of the left and of the right wheels, in units; NaN stands for      *)
(* every value that is not finite.  An operator named after another one with *)
(* an underscore behind it is that one with a fault seeded.                  *)
EXTENDS Integers

CONSTANTS
    NaN,
    Direction,                              \* 1 or -1
    AccelMin, AccelTimeout, InitiateDuration, HoldDuration, StopDuration,
    AbortDuration,                          \* 0.30 s
    SensorTimeout,
    DtMin, DtMax,                           \* 1e-4 s and 0.05 s
    AccelTorque, InitiateBase, InitiateDiff, HoldBase,
    MaxDiff, MaxCorrection,                 \* what the two loops may add
    MaxTorque, MaxSlew,
    MinSamples,                             \* gyro_bias_min_samples
    UseRadius                               \* use_odom_radius_feedback

Durations == {AccelMin, AccelTimeout, InitiateDuration, HoldDuration,
              StopDuration, AbortDuration}

ASSUME NaNAssumption == NaN \notin Int \cup {"finite", "none"}
ASSUME TimeAssumption == /\ Durations \subseteq Nat
                         /\ 0 \notin {AccelMin, StopDuration, AbortDuration}
                         /\ SensorTimeout \in Nat
                         /\ DtMin \in Nat /\ DtMax \in Nat /\ DtMin <= DtMax
ASSUME TorqueAssumption ==
    /\ Direction \in {-1, 1}
    /\ {AccelTorque, InitiateBase, InitiateDiff, HoldBase} \subseteq Int
    /\ {MaxDiff, MaxCorrection, MaxTorque, MaxSlew} \subseteq Nat
ASSUME SetupAssumption == MinSamples \in Nat /\ UseRadius \in BOOLEAN

Phases == {"idle", "accelerate", "initiate", "hold", "stop", "abort"}
Sides == {"left", "right"}
Torque == Int \cup {NaN}
Zero == [s \in Sides |-> 0]

PhaseLimit == CHOOSE n \in Durations : \A m \in Durations : m <= n

VARIABLES
    run,                \* "spin", "finally" (spin was left), "down"
    context,            \* the ROS context is valid, so publish works
    phase, phase_time,
    elapsed,            \* since the last control_callback
    imu_age, odom_age,  \* past SensorTimeout also when there was no message
    mit_mode_ready,
    yaw_rate, speed, odom,  \* what the last messages said
    samples,            \* len(gyro_idle_samples)
    circle_center, radius_filtered, radius_rate,
    previous_command, stop_start_command,
    published,          \* the last torque command on the topic
    log                 \* log_file is open

process == <<run, context>>
clock == <<phase_time, elapsed, imu_age, odom_age>>
sensors == <<mit_mode_ready, yaw_rate, speed, odom, samples>>
radius == <<circle_center, radius_filtered, radius_rate>>
torques == <<previous_command, stop_start_command, published>>
vars == <<process, phase, clock, sensors, radius, torques, log>>

-----------------------------------------------------------------------------
Least(a, b) == IF a <= b THEN a ELSE b
Greatest(a, b) == IF a >= b THEN a ELSE b
Negative(v) == IF v = NaN THEN NaN ELSE -v
Plus(v, w) == IF v = NaN \/ w = NaN THEN NaN ELSE v + w

\* Python's min(max(value, lower), upper) hands a NaN through
clamp(v, lower, upper) == IF v = NaN THEN NaN ELSE Least(Greatest(v, lower), upper)

\* limit_and_slew, for one side
slewed(raw, previous, dt) ==
    LET target == clamp(raw, -MaxTorque, MaxTorque)
        step   == MaxSlew * dt
    IN  Plus(previous, clamp(Plus(target, Negative(previous)), -step, step))

limit_and_slew(raw, dt) == [s \in Sides |-> slewed(raw[s], previous_command[s], dt)]

\* sensors_ready, with require_mit_mode
sensors_ready == /\ mit_mode_ready
                 /\ imu_age <= SensorTimeout
                 /\ odom_age <= SensorTimeout

\* What control_callback asks for: yaw rate and speed are finite and within
\* their limits, too.
Safe == sensors_ready /\ yaw_rate = "ok" /\ speed # "unsafe"

-----------------------------------------------------------------------------
Init == /\ run = "spin"
        /\ context = TRUE
        /\ phase = "idle"
        /\ phase_time = 0
        /\ elapsed = 0
        /\ imu_age = SensorTimeout + 1
        /\ odom_age = SensorTimeout + 1
        /\ mit_mode_ready = FALSE
        /\ yaw_rate = "ok"
        /\ speed = "slow"
        /\ odom = "finite"
        /\ samples = 0
        /\ circle_center = "none"
        /\ radius_filtered = NaN
        /\ radius_rate = "finite"
        /\ previous_command = Zero
        /\ stop_start_command = Zero
        /\ published = Zero
        /\ log = FALSE

\* A file operation throws: the exception leaves the callback and rclpy.spin
Raises == run' = "finally"
Survives == run' = "spin"

-----------------------------------------------------------------------------
(* The callbacks that feed the controller *)

\* A reading near zero while the car is at rest counts for the gyro bias.
imu_callback_unbounded(value) ==
    /\ run = "spin"
    /\ imu_age' = 0
    /\ yaw_rate' = value
    /\ \/ UNCHANGED samples
       \/ /\ phase = "idle" /\ value = "ok" /\ speed = "slow"
          /\ samples' = samples + 1
    /\ UNCHANGED <<process, phase, phase_time, elapsed, odom_age, mit_mode_ready,
                   speed, odom, radius, torques, log>>

imu_callback(value) ==
    /\ run = "spin"
    /\ imu_age' = 0
    /\ yaw_rate' = value
    /\ \/ UNCHANGED samples
       \/ /\ phase = "idle" /\ value = "ok" /\ speed = "slow"
          /\ samples' = Least(samples + 1, MinSamples)
    /\ UNCHANGED <<process, phase, phase_time, elapsed, odom_age, mit_mode_ready,
                   speed, odom, radius, torques, log>>

odom_callback(s, position) ==
    /\ run = "spin"
    /\ odom_age' = 0
    /\ speed' = s
    /\ odom' = position
    /\ UNCHANGED <<process, phase, phase_time, elapsed, imu_age, mit_mode_ready,
                   yaw_rate, samples, radius, torques, log>>

mode_status_callback(ready) ==
    /\ run = "spin"
    /\ mit_mode_ready' = ready
    /\ UNCHANGED <<process, phase, clock, yaw_rate, speed, odom, samples, radius,
                   torques, log>>

\* start_callback, accepted.  The phase is set before the log is opened, which
\* may throw.
start_callback ==
    /\ run = "spin"
    /\ phase = "idle"
    /\ sensors_ready
    /\ samples >= MinSamples
    /\ phase' = "accelerate"
    /\ phase_time' = 0
    /\ circle_center' = "none"
    /\ radius_filtered' = NaN
    /\ previous_command' = Zero
    /\ \/ log' = TRUE /\ (Survives \/ Raises)
       \/ UNCHANGED log /\ Raises
    /\ UNCHANGED <<context, elapsed, imu_age, odom_age, sensors, radius_rate,
                   stop_start_command, published>>

\* What enter_abort and finish_test do to the commands
RestNow_published == /\ published' = Zero
                     /\ UNCHANGED previous_command
RestNow == /\ published' = Zero
           /\ previous_command' = Zero

\* enter_abort does its work once
FirstAbort_always == TRUE
FirstAbort == phase # "abort"

enter_abort == /\ phase' = "abort"
               /\ phase_time' = 0
               /\ RestNow

\* abort_callback; an idle node only repeats the zero command, and a node that
\* aborts already does nothing.
abort_callback ==
    /\ run = "spin"
    /\ phase # "idle"
    /\ FirstAbort
    /\ enter_abort
    /\ UNCHANGED <<process, elapsed, imu_age, odom_age, sensors, radius,
                   stop_start_command, log>>

-----------------------------------------------------------------------------
(* control_callback, one action for each way through it *)

dt_late == Greatest(elapsed, DtMin)
dt == clamp(elapsed, DtMin, DtMax)

Cycle == run = "spin" /\ elapsed' = 0 /\ UNCHANGED <<imu_age, odom_age, sensors>>

ControlIdle == /\ Cycle
               /\ phase = "idle"
               /\ published' = Zero
               /\ UNCHANGED <<process, phase, phase_time, radius,
                              previous_command, stop_start_command, log>>

\* The end of the callback: the command goes out, then a line to the log,
\* which may throw.
Command(raw) ==
    /\ previous_command' = limit_and_slew(raw, dt)
    /\ published' = previous_command'
    /\ Survives \/ (log /\ Raises)
    /\ UNCHANGED <<context, log>>

\* A limit is exceeded: enter_abort publishes a zero, and the rest of the
\* callback runs in its phase.
ControlAborts ==
    /\ Cycle
    /\ phase # "idle"
    /\ ~Safe
    /\ FirstAbort
    /\ enter_abort
    /\ Survives \/ (log /\ Raises)
    /\ UNCHANGED <<context, log, radius, stop_start_command>>

\* finish_test; flushing the log may throw, after the phase is set.
finish_test ==
    /\ RestNow
    /\ phase' = "idle"
    /\ phase_time' = 0
    /\ \/ log' = FALSE /\ Survives
       \/ UNCHANGED log /\ log /\ Raises
    /\ UNCHANGED <<context, radius, stop_start_command>>

\* The phase abort, in which an unsafe reading changes nothing any more.
ControlInAbort ==
    /\ Cycle
    /\ phase = "abort"
    /\ Safe \/ ~FirstAbort
    /\ IF phase_time >= AbortDuration
       THEN finish_test
       ELSE Command(Zero) /\ UNCHANGED <<phase, phase_time, radius, stop_start_command>>

Driving(p) == Cycle /\ phase = p /\ Safe

StayOr(over, next) == IF over THEN phase' = next /\ phase_time' = 0
                              ELSE UNCHANGED <<phase, phase_time>>

ControlAccelerate ==
    /\ Driving("accelerate")
    /\ Command([s \in Sides |->
                  (AccelTorque * Least(phase_time, AccelMin)) \div AccelMin])
    /\ LET over == \/ phase_time >= AccelMin /\ speed = "fast"
                   \/ phase_time >= AccelTimeout
       IN  /\ StayOr(over, "initiate")
           /\ circle_center' = IF over THEN odom ELSE circle_center
    /\ UNCHANGED <<radius_filtered, radius_rate, stop_start_command>>

ControlInitiate ==
    /\ Driving("initiate")
    /\ LET diff == Direction * InitiateDiff
       IN  Command([left |-> InitiateBase - diff, right |-> InitiateBase + diff])
    /\ StayOr(phase_time >= InitiateDuration, "hold")
    /\ UNCHANGED <<radius, stop_start_command>>

\* The filter starts again from the raw value, with rate zero, when what it
\* holds is not finite.
update_radius_estimate ==
    LET raw == IF circle_center = "finite" /\ odom = "finite" THEN "finite" ELSE NaN
    IN  IF circle_center = "none" THEN UNCHANGED <<radius_filtered, radius_rate>>
        ELSE /\ radius_filtered' = raw
             /\ radius_rate' = IF radius_filtered = NaN THEN "finite"
                               ELSE IF raw = NaN THEN NaN ELSE radius_rate

\* calculate_radius_yaw_bias is finite (radius_feedback_delay_s taken to be over)
BiasFinite_unchecked == \/ ~UseRadius
                        \/ radius_filtered' # NaN /\ radius_rate' # NaN
BiasFinite == \/ ~UseRadius
              \/ radius_filtered' = NaN     \* no bias then
              \/ radius_rate' # NaN

\* The yaw loop (a PI controller behind a clamp) and the speed loop may add
\* anything within their limits.
ControlHold ==
    /\ Driving("hold")
    /\ update_radius_estimate
    /\ \E correction \in -MaxCorrection .. MaxCorrection,
          d \in -MaxDiff .. MaxDiff :
         LET base == HoldBase + correction
             diff == IF BiasFinite THEN d ELSE NaN
         IN  Command([left  |-> Plus(base, Negative(diff)),
                      right |-> Plus(base, diff)])
    /\ StayOr(phase_time >= HoldDuration, "stop")
    /\ stop_start_command' = IF phase_time >= HoldDuration THEN previous_command
                                                          ELSE stop_start_command
    /\ UNCHANGED circle_center

\* The torque at the end of the hold is ramped down.
ControlStop ==
    /\ Driving("stop")
    /\ IF phase_time >= StopDuration
       THEN finish_test
       ELSE /\ Command([s \in Sides |->
                          IF stop_start_command[s] = NaN THEN NaN
                          ELSE (stop_start_command[s] * (StopDuration - phase_time))
                                  \div StopDuration])
            /\ UNCHANGED <<phase, phase_time, radius, stop_start_command>>

control_callback == \/ ControlIdle \/ ControlAborts \/ ControlInAbort
                    \/ ControlAccelerate \/ ControlInitiate \/ ControlHold
                    \/ ControlStop

-----------------------------------------------------------------------------
(* The end of the process, and time *)

\* Ctrl-C: rclpy has shut its context down when the exception arrives, and then
\* publish may throw as well.
Interrupt == /\ run = "spin"
             /\ run' = "finally"
             /\ context' = FALSE
             /\ UNCHANGED <<phase, clock, sensors, radius, torques, log>>

\* shutdown: a zero command, then the log is closed, which may throw again.
shutdown == /\ run = "finally"
            /\ run' = "down"
            /\ \/ published' = Zero /\ log' \in {FALSE, log}
               \/ ~context /\ UNCHANGED <<published, log>>
            /\ UNCHANGED <<context, phase, clock, sensors, radius,
                           previous_command, stop_start_command>>

Tick == /\ run = "spin"
        /\ elapsed' = Least(elapsed + 1, DtMax + 1)
        /\ phase_time' = IF phase = "idle" THEN phase_time
                         ELSE Least(phase_time + 1, PhaseLimit)
        /\ imu_age' = Least(imu_age + 1, SensorTimeout + 1)
        /\ odom_age' = Least(odom_age + 1, SensorTimeout + 1)
        /\ UNCHANGED <<process, phase, sensors, radius, torques, log>>

Next == \/ \E value \in {"ok", "unsafe"} : imu_callback(value)
        \/ \E s \in {"slow", "fast", "unsafe"}, position \in {"finite", NaN} :
               odom_callback(s, position)
        \/ \E ready \in BOOLEAN : mode_status_callback(ready)
        \/ start_callback
        \/ abort_callback
        \/ control_callback
        \/ Interrupt
        \/ shutdown
        \/ Tick

\* The timer fires, the finally clause runs, and time passes; messages and
\* requests may stay away.
Fairness == WF_vars(control_callback) /\ WF_vars(shutdown) /\ WF_vars(Tick)

Spec == Init /\ [][Next]_vars /\ Fairness

-----------------------------------------------------------------------------
TypeOK == /\ run \in {"spin", "finally", "down"}
          /\ context \in BOOLEAN
          /\ phase \in Phases
          /\ phase_time \in 0 .. PhaseLimit
          /\ elapsed \in 0 .. DtMax + 1
          /\ imu_age \in 0 .. SensorTimeout + 1
          /\ odom_age \in 0 .. SensorTimeout + 1
          /\ mit_mode_ready \in BOOLEAN
          /\ yaw_rate \in {"ok", "unsafe"}
          /\ speed \in {"slow", "fast", "unsafe"}
          /\ odom \in {"finite", NaN}
          /\ samples \in 0 .. MinSamples
          /\ circle_center \in {"none", "finite", NaN}
          /\ radius_filtered \in {"finite", NaN}
          /\ radius_rate \in {"finite", NaN}
          /\ previous_command \in [Sides -> Torque]
          /\ stop_start_command \in [Sides -> Torque]
          /\ published \in [Sides -> Torque]
          /\ log \in BOOLEAN

\* Every command on the topic is a finite torque within max_wheel_torque_nm:
\* no reading that is not finite gets through the clamps, which hand a NaN on
\* (update_radius_estimate, calculate_radius_yaw_bias, limit_and_slew).
TorqueBounded == \A s \in Sides : published[s] \in -MaxTorque .. MaxTorque

\* Out of a test and during an abort the wheels have no torque, and none is
\* left in previous_command for the next test to start from; a process that
\* ended of an exception has published a zero last (enter_abort, finish_test,
\* start_callback, shutdown).
RestsAtZero ==
    /\ phase \in {"idle", "abort"} => published = Zero /\ previous_command = Zero
    /\ run = "down" /\ context => published = Zero

\* From one command to the next the torque changes by what the slew limit
\* allows for the longest cycle, however late the timer fires and whatever
\* phase comes next, unless it goes to zero (control_callback, dt).
SlewLimited ==
    [][\/ published' = Zero
       \/ \A s \in Sides :
            published'[s] - published[s] \in -(MaxSlew * DtMax) .. MaxSlew * DtMax]_vars

Turn == [idle |-> 0, abort |-> 1, stop |-> 2, hold |-> 3, initiate |-> 4,
         accelerate |-> 5]

\* A test goes through its phases in order, each with a clock of its own that
\* runs from zero and is not set back: no late reading, repeated abort or start
\* request takes a test back to an earlier phase or prolongs one
\* (control_callback, enter_abort, abort_callback, start_callback).
PhasesInOrder ==
    [][phase # "idle" => \/ Turn[phase'] < Turn[phase] /\ phase_time' = 0
                         \/ phase' = phase /\ phase_time' >= phase_time]_vars

\* A test comes to its end, by completion or by abort, whatever the sensors say
\* and however often an abort is asked for, unless the process ends.
TestEnds == phase # "idle" ~> phase = "idle" \/ run # "spin"
=============================================================================
