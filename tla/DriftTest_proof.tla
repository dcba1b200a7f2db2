--------------------------- MODULE DriftTest_proof ---------------------------
(* Proofs about DriftTest, for every setting of its parameters: types, the   *)
(* bound on the torque, rest outside of a test, and the slew limit.          *)
EXTENDS DriftTest, TLAPS

Bounded == [Sides -> -MaxTorque .. MaxTorque]

\* A rate that is not finite belongs to a radius that is not finite.
RateFinite == radius_rate = NaN => radius_filtered = NaN

\* While the process can still publish, the topic carries what the node
\* believes to have commanded.
Follows == run # "down" => published = previous_command

Commands == /\ previous_command \in Bounded
            /\ stop_start_command \in Bounded
            /\ published \in Bounded

IInv == TypeOK /\ Commands /\ RateFinite /\ Follows /\ RestsAtZero

-----------------------------------------------------------------------------
(* The arithmetic *)

LEMMA PhaseLimitType == /\ PhaseLimit \in Nat
                        /\ \A n \in Durations : n <= PhaseLimit
<1>1. \E n \in Durations : \A m \in Durations : m <= n
  <2>1. \A a, b \in Nat : a <= b \/ b <= a
    OBVIOUS
  <2>. QED BY <2>1, TimeAssumption, SMTT(60) DEF Durations
<1>2. PhaseLimit \in Durations /\ \A m \in Durations : m <= PhaseLimit
  BY <1>1 DEF PhaseLimit
<1>. QED BY <1>2, TimeAssumption

LEMMA ZeroBounded == Zero \in Bounded
BY TorqueAssumption DEF Zero, Bounded

LEMMA BoundedTorque == Bounded \subseteq [Sides -> Torque]
BY TorqueAssumption DEF Bounded, Torque

LEMMA Product == ASSUME NEW a \in Nat, NEW b \in Nat, NEW c \in Nat, b <= c
                 PROVE  a * b \in Nat /\ a * b <= a * c
<1>1. PICK e \in Nat : c = b + e
  <2>1. c - b \in Nat /\ c = b + (c - b)
    OBVIOUS
  <2>. QED BY <2>1
<1>2. a * c = a * b + a * e
  BY <1>1
<1>3. a * b \in Nat /\ a * e \in Nat
  BY <1>1
<1>. QED BY <1>2, <1>3

\* A clamp keeps its value within its limits, and a value within them as it is.
LEMMA ClampBounds ==
    ASSUME NEW v \in Int, NEW l \in Int, NEW u \in Int, l <= u
    PROVE  /\ clamp(v, l, u) \in l .. u
           /\ v \in l .. u => clamp(v, l, u) = v
           /\ v < l => clamp(v, l, u) = l
           /\ v > u => clamp(v, l, u) = u
BY NaNAssumption DEF clamp, Least, Greatest

\* A finite command stays within the torque limit and near the last one.
LEMMA Slew ==
    ASSUME NEW raw \in Int, NEW previous \in -MaxTorque .. MaxTorque, NEW d \in Nat
    PROVE  /\ slewed(raw, previous, d) \in -MaxTorque .. MaxTorque
           /\ slewed(raw, previous, d) - previous \in -(MaxSlew * d) .. MaxSlew * d
           /\ raw = 0 /\ previous = 0 => slewed(raw, previous, d) = 0
<1>. DEFINE target == clamp(raw, -MaxTorque, MaxTorque)
            step   == MaxSlew * d
            gap    == target - previous
            change == clamp(gap, -step, step)
<1>1. MaxTorque \in Nat /\ MaxSlew \in Nat /\ previous \in Int
  BY TorqueAssumption
<1>2. target \in -MaxTorque .. MaxTorque /\ (raw = 0 => target = 0)
  BY <1>1, ClampBounds
<1>3. step \in Nat
  BY <1>1
<1>4. gap \in Int /\ -step \in Int /\ -step <= step
  BY <1>1, <1>2, <1>3
<1>5. /\ change \in -step .. step
      /\ gap \in -step .. step => change = gap
      /\ gap < -step => change = -step
      /\ gap > step => change = step
  <2>. HIDE DEF gap, step
  <2>. QED BY <1>3, <1>4, ClampBounds
<1>. HIDE DEF target, step
<1>6. slewed(raw, previous, d) = previous + change
  <2>1. target \in Int /\ target # NaN /\ previous # NaN
    BY <1>1, <1>2, NaNAssumption
  <2>2. -previous \in Int /\ -previous # NaN
    BY <1>1, NaNAssumption
  <2>3. Plus(target, Negative(previous)) = target - previous
    BY <1>1, <2>1, <2>2 DEF Plus, Negative
  <2>4. change \in Int /\ change # NaN
    BY <1>3, <1>5, NaNAssumption
  <2>5. Plus(previous, change) = previous + change
    BY <2>1, <2>4 DEF Plus
  <2>. QED BY <2>3, <2>5 DEF slewed, target, step
<1>. HIDE DEF change
<1>7. previous + change \in -MaxTorque .. MaxTorque
  BY <1>1, <1>2, <1>3, <1>4, <1>5
<1>8. (previous + change) - previous \in -step .. step
  BY <1>1, <1>3, <1>5
<1>9. raw = 0 /\ previous = 0 => previous + change = 0
  BY <1>2, <1>3, <1>5
<1>. QED BY <1>6, <1>7, <1>8, <1>9 DEF step

LEMMA DtType == elapsed \in Nat => dt \in Nat /\ dt <= DtMax
BY TimeAssumption, NaNAssumption DEF dt, clamp, Least, Greatest

-----------------------------------------------------------------------------
(* What the actions do to the commands *)

\* The topic moves on by at most one slew step, or to zero.
Close == \/ published' = Zero
         \/ \A s \in Sides :
              published'[s] - published[s] \in -(MaxSlew * DtMax) .. MaxSlew * DtMax

\* A finite command goes out within the limits.
LEMMA CommandEffect ==
    ASSUME TypeOK, previous_command \in Bounded, published = previous_command,
           NEW raw \in [Sides -> Int], Command(raw)
    PROVE  /\ previous_command' \in Bounded
           /\ published' = previous_command'
           /\ Close
           /\ raw = Zero /\ previous_command = Zero => previous_command' = Zero
<1>1. dt \in Nat /\ dt <= DtMax
  BY DtType, TimeAssumption DEF TypeOK
<1>2. /\ previous_command' = [s \in Sides |-> slewed(raw[s], previous_command[s], dt)]
      /\ published' = previous_command'
  BY DEF Command, limit_and_slew
<1>. HIDE DEF dt
<1>3. ASSUME NEW s \in Sides
      PROVE  /\ previous_command'[s] \in -MaxTorque .. MaxTorque
             /\ published'[s] - published[s] \in -(MaxSlew * DtMax) .. MaxSlew * DtMax
             /\ raw[s] = 0 /\ previous_command[s] = 0 => previous_command'[s] = 0
  <2>1. raw[s] \in Int /\ previous_command[s] \in -MaxTorque .. MaxTorque
    BY DEF Bounded
  <2>2. previous_command'[s] = slewed(raw[s], previous_command[s], dt)
    BY <1>2
  <2>3. /\ previous_command'[s] \in -MaxTorque .. MaxTorque
        /\ previous_command'[s] - previous_command[s] \in -(MaxSlew * dt) .. MaxSlew * dt
        /\ raw[s] = 0 /\ previous_command[s] = 0 => previous_command'[s] = 0
    BY <1>1, <2>1, <2>2, Slew
  <2>4. MaxSlew * dt \in Nat /\ MaxSlew * DtMax \in Nat /\ MaxSlew * dt <= MaxSlew * DtMax
    BY <1>1, TorqueAssumption, TimeAssumption, Product
  <2>5. previous_command'[s] - previous_command[s] \in -(MaxSlew * DtMax) .. MaxSlew * DtMax
    <3>. DEFINE a == MaxSlew * dt
                b == MaxSlew * DtMax
                c == previous_command'[s] - previous_command[s]
    <3>1. c \in -a .. a /\ a \in Nat /\ b \in Nat /\ a <= b
      BY <2>3, <2>4
    <3>. HIDE DEF a, b, c
    <3>2. c \in -b .. b
      BY <3>1
    <3>. QED BY <3>2 DEF b, c
  <2>. QED BY <1>2, <2>3, <2>5
<1>4. previous_command' \in Bounded
  BY <1>2, <1>3 DEF Bounded
<1>5. Close
  BY <1>3 DEF Close
<1>6. ASSUME raw = Zero, previous_command = Zero PROVE previous_command' = Zero
  <2>1. \A s \in Sides : previous_command'[s] = 0
    BY <1>3, <1>6 DEF Zero
  <2>. QED BY <1>2, <2>1 DEF Zero
<1>. QED BY <1>2, <1>4, <1>5, <1>6

\* The bias that update_radius_estimate leaves to calculate_radius_yaw_bias is
\* finite.
LEMMA RadiusEffect ==
    ASSUME TypeOK, RateFinite, update_radius_estimate
    PROVE  RateFinite' /\ BiasFinite
BY NaNAssumption DEF TypeOK, RateFinite, update_radius_estimate, BiasFinite

\* What a cycle leaves behind.
Outcome == /\ Commands'
           /\ published' = previous_command'
           /\ Close
           /\ RateFinite'
           /\ phase' \in {"idle", "abort"} => published' = Zero

LEMMA RestEffect == ASSUME RestNow, TypeOK, RateFinite, Commands,
                           UNCHANGED <<radius, stop_start_command>>
                    PROVE  Outcome
BY ZeroBounded DEF RestNow, Outcome, Commands, Close, RateFinite, radius

LEMMA ControlEffect == ASSUME IInv, control_callback PROVE Outcome
<1>t. TypeOK /\ RateFinite /\ Commands
  BY DEF IInv
<1>f. run = "spin" /\ published = previous_command
  BY DEF IInv, Follows, control_callback, Cycle, Driving, ControlIdle, ControlAborts,
         ControlInAbort, ControlAccelerate, ControlInitiate, ControlHold, ControlStop
<1>p. previous_command \in Bounded
  BY <1>t DEF Commands
<1>. USE DEF Outcome, Commands
<1>1. CASE ControlIdle
  <2>1. previous_command = Zero
    BY <1>1 DEF ControlIdle, IInv, RestsAtZero
  <2>. QED BY <1>t, <1>1, <2>1, ZeroBounded DEF ControlIdle, Close, RateFinite, radius
<1>2. CASE ControlAborts
  BY <1>t, <1>2, RestEffect DEF ControlAborts, enter_abort
<1>3. CASE ControlInAbort
  <2>1. CASE finish_test
    BY <1>t, <2>1, RestEffect DEF finish_test
  <2>2. CASE Command(Zero) /\ UNCHANGED <<phase, phase_time, radius, stop_start_command>>
    <3>1. Zero \in [Sides -> Int]
      BY DEF Zero
    <3>2. previous_command = Zero
      BY <1>3 DEF ControlInAbort, IInv, RestsAtZero
    <3>. QED BY <1>t, <1>f, <1>p, <2>2, <3>1, <3>2, CommandEffect, ZeroBounded
             DEF RateFinite, radius
  <2>. QED BY <1>3, <2>1, <2>2 DEF ControlInAbort
<1>4. CASE ControlAccelerate
  <2>. DEFINE raw == [s \in Sides |-> (AccelTorque * Least(phase_time, AccelMin)) \div AccelMin]
  <2>1. AccelMin \in Nat \ {0} /\ AccelTorque \in Int
    BY TimeAssumption, TorqueAssumption DEF Durations
  <2>2. phase_time \in Int
    BY <1>t, PhaseLimitType DEF TypeOK
  <2>3. Least(phase_time, AccelMin) \in Int
    BY <2>1, <2>2 DEF Least
  <2>4. (AccelTorque * Least(phase_time, AccelMin)) \div AccelMin \in Int
    <3>. DEFINE n == AccelTorque * Least(phase_time, AccelMin)
    <3>1. n \in Int
      BY <2>1, <2>3
    <3>. HIDE DEF n
    <3>2. n \div AccelMin \in Int
      BY <2>1, <3>1
    <3>. QED BY <3>2 DEF n
  <2>5. raw \in [Sides -> Int]
    BY <2>4
  <2>6. Command(raw)
    BY <1>4 DEF ControlAccelerate
  <2>. HIDE DEF raw
  <2>7. phase' \notin {"idle", "abort"}
    BY <1>4 DEF ControlAccelerate, StayOr, Driving
  <2>. QED BY <1>t, <1>f, <1>p, <1>4, <2>5, <2>6, <2>7, CommandEffect
           DEF ControlAccelerate, RateFinite
<1>5. CASE ControlInitiate
  <2>. DEFINE diff == Direction * InitiateDiff
              raw == [left |-> InitiateBase - diff, right |-> InitiateBase + diff]
  <2>1. diff \in Int /\ InitiateBase \in Int
    BY TorqueAssumption
  <2>2. raw \in [Sides -> Int]
    <3>. HIDE DEF diff
    <3>. QED BY <2>1 DEF Sides
  <2>3. Command(raw)
    BY <1>5 DEF ControlInitiate
  <2>. HIDE DEF raw
  <2>4. phase' \notin {"idle", "abort"}
    BY <1>5 DEF ControlInitiate, StayOr, Driving
  <2>. QED BY <1>t, <1>f, <1>p, <1>5, <2>2, <2>3, <2>4, CommandEffect
           DEF ControlInitiate, RateFinite, radius
<1>6. CASE ControlHold
  <2>1. RateFinite' /\ BiasFinite
    BY <1>t, <1>6, RadiusEffect DEF ControlHold
  <2>2. PICK c \in -MaxCorrection .. MaxCorrection, d \in -MaxDiff .. MaxDiff :
               Command([left  |-> Plus(HoldBase + c, Negative(d)),
                        right |-> Plus(HoldBase + c, d)])
    BY <1>6, <2>1 DEF ControlHold
  <2>. DEFINE raw == [left  |-> Plus(HoldBase + c, Negative(d)),
                      right |-> Plus(HoldBase + c, d)]
  <2>3. HoldBase + c \in Int /\ d \in Int /\ -d \in Int
    BY TorqueAssumption
  <2>4. /\ Plus(HoldBase + c, Negative(d)) \in Int
        /\ Plus(HoldBase + c, d) \in Int
    BY <2>3, NaNAssumption DEF Plus, Negative
  <2>5. raw \in [Sides -> Int]
    BY <2>4 DEF Sides
  <2>. HIDE DEF raw
  <2>6. Command(raw)
    BY <2>2 DEF raw
  <2>7. phase' \notin {"idle", "abort"}
    BY <1>6 DEF ControlHold, StayOr, Driving
  <2>8. stop_start_command' \in Bounded
    BY <1>t, <1>6 DEF ControlHold
  <2>. QED BY <1>t, <1>f, <1>p, <2>1, <2>5, <2>6, <2>7, <2>8, CommandEffect
<1>7. CASE ControlStop
  <2>1. CASE finish_test
    BY <1>t, <2>1, RestEffect DEF finish_test
  <2>2. CASE ~finish_test
    <3>. DEFINE raw == [s \in Sides |->
                          IF stop_start_command[s] = NaN THEN NaN
                          ELSE (stop_start_command[s] * (StopDuration - phase_time))
                                  \div StopDuration]
    <3>1. /\ Command(raw)
          /\ UNCHANGED <<phase, radius, stop_start_command>>
          /\ phase = "stop"
      BY <1>7, <2>2 DEF ControlStop, Driving
    <3>2. StopDuration \in Nat \ {0} /\ StopDuration - phase_time \in Int
      BY <1>t, TimeAssumption, PhaseLimitType DEF Durations, TypeOK
    <3>3. ASSUME NEW s \in Sides PROVE raw[s] \in Int
      <4>1. stop_start_command[s] \in Int
        BY <1>t, TorqueAssumption DEF Bounded
      <4>. DEFINE n == stop_start_command[s] * (StopDuration - phase_time)
      <4>2. n \in Int
        BY <3>2, <4>1
      <4>3. raw[s] = n \div StopDuration
        BY <4>1, NaNAssumption
      <4>. HIDE DEF n, raw
      <4>. QED BY <3>2, <4>2, <4>3
    <3>4. raw \in [Sides -> Int]
      BY <3>3
    <3>. HIDE DEF raw
    <3>. QED BY <1>t, <1>f, <1>p, <3>1, <3>4, CommandEffect DEF RateFinite, radius
  <2>. QED BY <2>1, <2>2
<1>. QED BY <1>1, <1>2, <1>3, <1>4, <1>5, <1>6, <1>7 DEF control_callback

-----------------------------------------------------------------------------
(* The invariant *)

\* The types of what no command goes into.
PlainType == /\ run \in {"spin", "finally", "down"}
             /\ context \in BOOLEAN
             /\ phase \in Phases
             /\ phase_time \in 0 .. PhaseLimit
             /\ elapsed \in 0 .. DtMax + 1
             /\ imu_age \in 0 .. SensorTimeout + 1
             /\ odom_age \in 0 .. SensorTimeout + 1
             /\ mit_mode_ready \in BOOLEAN
             /\ yaw_rate \in {"ok", "unsafe"}
             /\ speed \in {"slow", "fast", "unsafe"}
             /\ odom \in {"finite", NaN}
             /\ samples \in 0 .. MinSamples
             /\ circle_center \in {"none", "finite", NaN}
             /\ radius_filtered \in {"finite", NaN}
             /\ radius_rate \in {"finite", NaN}
             /\ log \in BOOLEAN

LEMMA Typed == PlainType /\ Commands => TypeOK
BY BoundedTorque DEF PlainType, Commands, TypeOK

LEMMA InitIInv == Init => IInv
<1>1. ASSUME Init PROVE PlainType
  <2>1. /\ 0 \in 0 .. PhaseLimit
        /\ 0 \in 0 .. DtMax + 1
        /\ 0 \in 0 .. MinSamples
        /\ SensorTimeout + 1 \in 0 .. SensorTimeout + 1
    BY PhaseLimitType, TimeAssumption, SetupAssumption
  <2>. QED BY <1>1, <2>1 DEF Init, PlainType, Phases
<1>2. ASSUME Init PROVE Commands /\ RateFinite /\ Follows /\ RestsAtZero
  BY <1>2, ZeroBounded DEF Init, Commands, RateFinite, Follows, RestsAtZero
<1>. QED BY <1>1, <1>2, Typed DEF IInv

LEMMA ControlType == ASSUME TypeOK, control_callback PROVE PlainType'
<1>1. /\ elapsed' = 0
      /\ UNCHANGED <<imu_age, odom_age, mit_mode_ready, yaw_rate, speed, odom, samples>>
  BY DEF control_callback, Cycle, sensors, Driving, ControlIdle, ControlAborts,
         ControlInAbort, ControlAccelerate, ControlInitiate, ControlHold, ControlStop
<1>2. elapsed' \in 0 .. DtMax + 1 /\ 0 \in 0 .. PhaseLimit
  BY <1>1, TimeAssumption, PhaseLimitType
<1>3. PlainType
  BY DEF TypeOK, PlainType
\* What the branches do to the variables that <1>1 leaves open.
<1>. DEFINE Goes == run' \in {"spin", "finally"} /\ context' = context /\ log' \in BOOLEAN
            Moves == phase' \in Phases /\ phase_time' \in 0 .. PhaseLimit
            Estimates == /\ circle_center' \in {"none", "finite", NaN}
                         /\ radius_filtered' \in {"finite", NaN}
                         /\ radius_rate' \in {"finite", NaN}
<1>4. ASSUME NEW raw, Command(raw) PROVE Goes
  BY <1>3, <1>4 DEF Command, Survives, Raises, PlainType
<1>5. ASSUME finish_test PROVE Goes /\ Moves /\ Estimates
  BY <1>2, <1>3, <1>5 DEF finish_test, PlainType, Survives, Raises, radius, Phases
<1>6. ASSUME NEW over, NEW next \in Phases, StayOr(over, next) PROVE Moves
  BY <1>2, <1>3, <1>6 DEF StayOr, PlainType
<1>7. ASSUME ControlIdle PROVE Goes /\ Moves /\ Estimates
  BY <1>3, <1>7 DEF ControlIdle, process, radius, Cycle, PlainType
<1>8. ASSUME ControlAborts PROVE Goes /\ Moves /\ Estimates
  BY <1>2, <1>3, <1>8 DEF ControlAborts, enter_abort, radius, PlainType, Phases,
                          Survives, Raises
<1>9. ASSUME ControlInAbort PROVE Goes /\ Moves /\ Estimates
  <2>1. CASE finish_test
    BY <1>5, <2>1
  <2>2. CASE Command(Zero) /\ UNCHANGED <<phase, phase_time, radius, stop_start_command>>
    BY <1>3, <1>4, <2>2 DEF PlainType, radius
  <2>. QED BY <1>9, <2>1, <2>2 DEF ControlInAbort
<1>10. ASSUME ControlAccelerate PROVE Goes /\ Moves /\ Estimates
  <2>1. Goes
    BY <1>4, <1>10 DEF ControlAccelerate
  <2>2. Moves
    BY <1>6, <1>10 DEF ControlAccelerate, Phases
  <2>3. Estimates
    BY <1>3, <1>10 DEF ControlAccelerate, PlainType
  <2>. QED BY <2>1, <2>2, <2>3
<1>11. ASSUME ControlInitiate PROVE Goes /\ Moves /\ Estimates
  <2>1. Goes
    BY <1>4, <1>11 DEF ControlInitiate
  <2>2. Moves
    BY <1>6, <1>11 DEF ControlInitiate, Phases
  <2>3. Estimates
    BY <1>3, <1>11 DEF ControlInitiate, PlainType, radius
  <2>. QED BY <2>1, <2>2, <2>3
<1>12. ASSUME ControlHold PROVE Goes /\ Moves /\ Estimates
  <2>1. Goes
    BY <1>4, <1>12 DEF ControlHold
  <2>2. Moves
    BY <1>6, <1>12 DEF ControlHold, Phases
  <2>3. Estimates
    BY <1>3, <1>12 DEF ControlHold, update_radius_estimate, PlainType
  <2>. QED BY <2>1, <2>2, <2>3
<1>13. ASSUME ControlStop PROVE Goes /\ Moves /\ Estimates
  <2>1. CASE finish_test
    BY <1>5, <2>1
  <2>2. CASE ~finish_test
    <3>1. UNCHANGED <<phase, phase_time, radius>>
      BY <1>13, <2>2 DEF ControlStop
    <3>2. Goes
      BY <1>4, <1>13, <2>2 DEF ControlStop
    <3>. QED BY <1>3, <3>1, <3>2 DEF PlainType, radius
  <2>. QED BY <2>1, <2>2
<1>14. Goes /\ Moves /\ Estimates
  BY <1>7, <1>8, <1>9, <1>10, <1>11, <1>12, <1>13 DEF control_callback
<1>. QED BY <1>1, <1>2, <1>3, <1>14 DEF PlainType

LEMMA NextPlain == TypeOK /\ [Next]_vars => PlainType'
<1>. SUFFICES ASSUME TypeOK, [Next]_vars PROVE PlainType'
  OBVIOUS
<1>. USE TimeAssumption, SetupAssumption
         DEF PlainType, TypeOK, process, clock, sensors, radius, torques
<1>1. ASSUME NEW value \in {"ok", "unsafe"}, imu_callback(value) PROVE PlainType'
  BY <1>1 DEF imu_callback, Least
<1>2. ASSUME NEW s \in {"slow", "fast", "unsafe"}, NEW position \in {"finite", NaN},
             odom_callback(s, position)
      PROVE  PlainType'
  BY <1>2 DEF odom_callback
<1>3. ASSUME NEW ready \in BOOLEAN, mode_status_callback(ready) PROVE PlainType'
  BY <1>3 DEF mode_status_callback
<1>4. CASE start_callback
  <2>1. phase' \in Phases /\ phase_time' \in 0 .. PhaseLimit
    BY <1>4, PhaseLimitType DEF start_callback, Phases
  <2>2. run' \in {"spin", "finally"} /\ log' \in BOOLEAN
    BY <1>4 DEF start_callback, Raises, Survives
  <2>3. /\ UNCHANGED <<context, elapsed, imu_age, odom_age, sensors, radius_rate>>
        /\ circle_center' = "none" /\ radius_filtered' = NaN
    BY <1>4 DEF start_callback
  <2>. QED BY <2>1, <2>2, <2>3
<1>5. CASE abort_callback
  BY <1>5, PhaseLimitType DEF abort_callback, enter_abort, Phases
<1>6. CASE control_callback
  BY <1>6, ControlType DEF PlainType
<1>7. CASE Interrupt
  BY <1>7 DEF Interrupt
<1>8. CASE shutdown
  <2>1. /\ UNCHANGED <<context, phase, clock, sensors, radius>>
        /\ run' = "down" /\ log' \in BOOLEAN
    BY <1>8 DEF shutdown
  <2>. QED BY <2>1
<1>9. CASE Tick
  BY <1>9, PhaseLimitType DEF Tick, Least
<1>10. CASE UNCHANGED vars
  BY <1>10 DEF vars
<1>. QED BY <1>1, <1>2, <1>3, <1>4, <1>5, <1>6, <1>7, <1>8, <1>9, <1>10 DEF Next

\* What a step does to the commands, one case for each action.
Kept == Commands' /\ RateFinite' /\ Follows' /\ RestsAtZero' /\ Close

LEMMA NextKept == IInv /\ [Next]_vars => Kept
<1>. SUFFICES ASSUME IInv, [Next]_vars PROVE Kept
  OBVIOUS
<1>t. TypeOK /\ Commands /\ RateFinite /\ Follows /\ RestsAtZero
  BY DEF IInv
<1>. USE DEF Kept, process, clock, sensors, radius, torques
<1>s. ASSUME UNCHANGED published PROVE Close
  <2>1. published \in Bounded
    BY <1>t DEF Commands
  <2>2. MaxSlew * DtMax \in Nat
    BY TorqueAssumption, TimeAssumption
  <2>3. \A s \in Sides : published'[s] - published[s] = 0
    BY <1>s, <2>1, TorqueAssumption DEF Bounded
  <2>. QED BY <2>2, <2>3 DEF Close
<1>1. CASE UNCHANGED <<run, context, phase, torques, radius>>
  BY <1>t, <1>s, <1>1 DEF Commands, RateFinite, Follows, RestsAtZero
<1>2. CASE start_callback
  <2>1. UNCHANGED <<published, stop_start_command, context>> /\ run' # "down" /\ phase = "idle"
    BY <1>2 DEF start_callback, Raises, Survives
  <2>2. published = Zero /\ previous_command' = Zero /\ phase' = "accelerate"
    BY <1>t, <1>2 DEF start_callback, RestsAtZero
  <2>3. RateFinite'
    BY <1>2 DEF start_callback, RateFinite
  <2>. QED BY <1>t, <1>s, <2>1, <2>2, <2>3 DEF Commands, Follows, RestsAtZero
<1>3. CASE abort_callback
  BY <1>t, <1>3, ZeroBounded
     DEF abort_callback, enter_abort, RestNow, Commands, RateFinite, Follows,
         RestsAtZero, Close
<1>4. CASE control_callback
  <2>1. Outcome
    BY <1>4, ControlEffect
  <2>2. run' # "down"
    BY <1>4 DEF control_callback, Cycle, Driving, ControlIdle, ControlAborts,
                ControlInAbort, ControlAccelerate, ControlInitiate, ControlHold,
                ControlStop, Command, finish_test, Raises, Survives
  <2>. QED BY <2>1, <2>2 DEF Outcome, Follows, RestsAtZero
<1>5. CASE Interrupt
  BY <1>t, <1>s, <1>5 DEF Interrupt, Commands, RateFinite, Follows, RestsAtZero
<1>6. CASE shutdown
  <2>1. CASE published' = Zero
    BY <1>t, <1>6, <2>1, ZeroBounded
       DEF shutdown, Commands, RateFinite, Follows, RestsAtZero, Close
  <2>2. CASE ~context /\ UNCHANGED <<published, log>>
    BY <1>t, <1>s, <1>6, <2>2 DEF shutdown, Commands, RateFinite, Follows, RestsAtZero
  <2>. QED BY <1>6, <2>1, <2>2 DEF shutdown
<1>7. CASE UNCHANGED vars
  BY <1>1, <1>7 DEF vars
<1>. QED BY <1>1, <1>2, <1>3, <1>4, <1>5, <1>6, <1>7
         DEF Next, imu_callback, odom_callback, mode_status_callback, Tick

LEMMA Inductive == Spec => []IInv
<1>1. IInv /\ [Next]_vars => IInv'
  <2>. SUFFICES ASSUME IInv, [Next]_vars PROVE IInv'
    OBVIOUS
  <2>1. PlainType'
    BY NextPlain DEF IInv
  <2>2. Kept
    BY NextKept
  <2>3. PlainType' /\ Commands' => TypeOK'
    BY Typed, PTL
  <2>. QED BY <2>1, <2>2, <2>3 DEF IInv, Kept
<1>. QED BY <1>1, InitIInv, PTL DEF Spec

-----------------------------------------------------------------------------
\* The variables of the node keep their types (NoSteerCircleDriftTest).
THEOREM TypeCorrect == Spec => []TypeOK
<1>1. IInv => TypeOK
  BY DEF IInv
<1>. QED BY <1>1, Inductive, PTL

\* Whatever the sensors send, no torque beyond the limit and none that is not
\* a number is ever published (limit_and_slew, calculate_radius_yaw_bias).
THEOREM TorqueIsBounded == Spec => []TorqueBounded
<1>1. IInv => TorqueBounded
  BY DEF IInv, Commands, Bounded, TorqueBounded
<1>. QED BY <1>1, Inductive, PTL

\* There is no torque out of a test, during an abort, or after an exception
\* ended the process (enter_abort, finish_test, shutdown).
THEOREM RestIsZero == Spec => []RestsAtZero
<1>1. IInv => RestsAtZero
  BY DEF IInv
<1>. QED BY <1>1, Inductive, PTL

\* However late the timer fires, a command is at most one slew step of the
\* longest cycle away from the last one, or zero (control_callback).
THEOREM SlewIsLimited == Spec => SlewLimited
<1>1. IInv /\ [Next]_vars =>
        [\/ published' = Zero
         \/ \A s \in Sides :
              published'[s] - published[s] \in -(MaxSlew * DtMax) .. MaxSlew * DtMax]_vars
  BY NextKept DEF Kept, Close
<1>. QED BY <1>1, Inductive, PTL DEF Spec, SlewLimited

-----------------------------------------------------------------------------
(* The order of the phases *)

LEMMA TurnValues == /\ Turn["idle"] = 0 /\ Turn["abort"] = 1 /\ Turn["stop"] = 2
                    /\ Turn["hold"] = 3 /\ Turn["initiate"] = 4
                    /\ Turn["accelerate"] = 5
BY DEF Turn

\* A step of a test: on to a later phase, or time passes in this one.
Onward == \/ Turn[phase'] < Turn[phase] /\ phase_time' = 0
          \/ phase' = phase /\ phase_time' >= phase_time

LEMMA NextOnward == ASSUME TypeOK, [Next]_vars, phase # "idle" PROVE Onward
<1>1. /\ phase \in Phases \ {"idle"} /\ phase_time \in 0 .. PhaseLimit
      /\ PhaseLimit \in Nat
  BY PhaseLimitType DEF TypeOK
<1>2. CASE UNCHANGED <<phase, phase_time>>
  BY <1>1, <1>2 DEF Onward
<1>3. CASE phase' \in {"abort", "idle"} /\ phase_time' = 0 /\ phase # phase' /\ phase # "abort"
  <2>1. Turn[phase'] \in {0, 1} /\ Turn[phase] \in 2 .. 5
    BY <1>1, <1>3, TurnValues DEF Phases
  <2>. QED BY <1>3, <2>1 DEF Onward
<1>4. CASE phase' = "idle" /\ phase_time' = 0
  <2>1. Turn[phase'] = 0 /\ Turn[phase] \in 1 .. 5
    BY <1>1, <1>4, TurnValues DEF Phases
  <2>. QED BY <1>4, <2>1 DEF Onward
<1>5. CASE control_callback
  <2>1. CASE ControlIdle
    BY <2>1 DEF ControlIdle
  <2>2. CASE ControlAborts
    BY <1>3, <2>2 DEF ControlAborts, enter_abort, FirstAbort
  <2>3. CASE ControlInAbort
    BY <1>2, <1>4, <2>3 DEF ControlInAbort, finish_test
  <2>4. CASE ControlAccelerate
    <3>1. /\ phase = "accelerate"
          /\ \/ phase' = "initiate" /\ phase_time' = 0
             \/ UNCHANGED <<phase, phase_time>>
      BY <2>4 DEF ControlAccelerate, Driving, StayOr
    <3>. QED BY <1>2, <3>1, TurnValues DEF Onward
  <2>5. CASE ControlInitiate
    <3>1. /\ phase = "initiate"
          /\ \/ phase' = "hold" /\ phase_time' = 0
             \/ UNCHANGED <<phase, phase_time>>
      BY <2>5 DEF ControlInitiate, Driving, StayOr
    <3>. QED BY <1>2, <3>1, TurnValues DEF Onward
  <2>6. CASE ControlHold
    <3>1. /\ phase = "hold"
          /\ \/ phase' = "stop" /\ phase_time' = 0
             \/ UNCHANGED <<phase, phase_time>>
      BY <2>6 DEF ControlHold, Driving, StayOr
    <3>. QED BY <1>2, <3>1, TurnValues DEF Onward
  <2>7. CASE ControlStop
    BY <1>2, <1>4, <2>7 DEF ControlStop, finish_test
  <2>. QED BY <1>5, <2>1, <2>2, <2>3, <2>4, <2>5, <2>6, <2>7 DEF control_callback
<1>6. CASE abort_callback
  BY <1>3, <1>6 DEF abort_callback, enter_abort, FirstAbort
<1>7. CASE start_callback
  BY <1>7 DEF start_callback
<1>8. CASE Tick
  <2>1. PICK t \in 0 .. PhaseLimit : t = phase_time
    BY <1>1
  <2>2. phase' = phase /\ phase_time' = Least(t + 1, PhaseLimit)
    BY <1>8, <2>1 DEF Tick
  <2>3. Least(t + 1, PhaseLimit) >= t
    BY <1>1, <2>1 DEF Least
  <2>. QED BY <2>1, <2>2, <2>3 DEF Onward
<1>9. ASSUME \/ \E value \in {"ok", "unsafe"} : imu_callback(value)
             \/ \E s \in {"slow", "fast", "unsafe"}, position \in {"finite", NaN} :
                   odom_callback(s, position)
             \/ \E ready \in BOOLEAN : mode_status_callback(ready)
             \/ Interrupt \/ shutdown \/ UNCHANGED vars
      PROVE  UNCHANGED <<phase, phase_time>>
  BY <1>9 DEF imu_callback, odom_callback, mode_status_callback, Interrupt, shutdown,
              clock, vars
<1>. QED BY <1>2, <1>5, <1>6, <1>7, <1>8, <1>9 DEF Next

\* No reading, abort or start request takes a test back to an earlier phase or
\* sets the clock of a phase back (control_callback, abort_callback).
THEOREM PhasesGoOn == Spec => PhasesInOrder
<1>1. TypeOK /\ [Next]_vars =>
         [phase # "idle" => \/ Turn[phase'] < Turn[phase] /\ phase_time' = 0
                            \/ phase' = phase /\ phase_time' >= phase_time]_vars
  BY NextOnward DEF Onward
<1>. QED BY <1>1, TypeCorrect, PTL DEF Spec, PhasesInOrder
=============================================================================
