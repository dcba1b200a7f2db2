------------------------------ MODULE DynControl ------------------------------
(* The mode manager of the DYN chassis (TianbotDyn): motion commands are let *)
(* through only while the last status from the base says that the base is in *)
(* the mode they need, and set_control_mode moves the base from one mode to  *)
(* the other.  Three parties:                                                *)
(*   - the executor thread, which runs the subscription callbacks and the    *)
(*     service one at a time (default callback group): epc, req, i, polls;   *)
(*   - the receiver thread, which runs onMotionModeStatus under mode_mutex_: *)
(*     rpc is "write" while it is between the test and the assignment of     *)
(*     current_mode_, and holds the mutex then;                              *)
(*   - the base behind the link, modelled from the packets exchanged.        *)
(* The link keeps packets in order and may lose them.  A send that fails     *)
(* leaves its callback in open(): over a serial port in a loop that lasts    *)
(* until the device is back, if it comes back, over UDP with an exception.   *)
(* That the heartbeat thread recovers the link as well is in module Link.    *)
(* An operator named after another one with an underscore behind it is that  *)
(* one with a fault seeded.                                                  *)
EXTENDS Integers, Sequences

CONSTANTS
    Motors,     \* the motors of the base (4)
    ZeroOrder,  \* the motion commands, as sendZeroCommands goes through them:
                \* "cmd_vel", "dm_speed", "dm_mit"
    Saves,      \* the values of save_to_flash in requests
    Rounds,     \* rounds of zero commands before a switch (3)
    PollMax,    \* polls that fit before the deadline (10 s / 20 ms)
    VerifyMax,  \* attempts of verifyPcControlModePersisted (5)
    Forms,      \* the sizes of status packet the base sends: "full", "compact"
    QDev,       \* packets the link takes before a write blocks
    QHost,      \* status packets on their way to the host
    Replies,    \* what a reply to "param get" may hold: modes, UNKNOWN for none
    Operator,   \* TRUE when somebody may take over with the remote control
    Transports, \* what the node may be configured for: "serial", "udp"
    MaxDrop     \* bound: packets to the base that are lost or fail to be sent

ASSUME CountAssumption == /\ Rounds \in Nat \ {0}
                          /\ PollMax \in Nat
                          /\ VerifyMax \in Nat
                          /\ QDev \in Nat \ {0}
                          /\ QHost \in Nat \ {0}
                          /\ MaxDrop \in Nat

Modes == {"speed", "mit"}           \* PC_SPEED, PC_MIT
UNKNOWN == "unknown"                \* MODE_UNKNOWN
SWITCHING == "switching"            \* MODE_SWITCHING

ASSUME BaseAssumption == /\ Forms \subseteq {"full", "compact"}
                         /\ Replies \subseteq Modes \cup {UNKNOWN}
                         /\ Operator \in BOOLEAN
                         /\ Transports \subseteq {"serial", "udp"}
ASSUME ClientAssumption ==
    /\ ZeroOrder \in Seq({"cmd_vel", "dm_speed", "dm_mit"}) \ {<< >>}
    /\ Saves \subseteq BOOLEAN

Kinds == {ZeroOrder[j] : j \in DOMAIN ZeroOrder}
Required == [k \in Kinds |-> IF k = "dm_mit" THEN "mit" ELSE "speed"]

\* chassis modes 3 and 0 carry the name of the pc mode they belong to, the
\* remote control modes 1 and 2 are one
ChassisModes == Modes \cup {"rc"}
DmModes == Modes
MotorModes == Modes \cup {"off"}    \* off: motor_state is not 1

VARIABLES
    epc, req, i, polls, res,        \* executor thread
    rpc,                            \* receiver thread
    mode_cache_, current_mode_, param_pc_control_mode_,
    toDev, toHost,                  \* the link: packets on their way
    conn,                           \* "opening": the executor thread is in open()
    dev, moving,                    \* the base; moving: kinds not at zero
    drops, disturbed, present       \* ghosts

executor == <<epc, req, i, polls, res>>
modeVars == <<mode_cache_, current_mode_, param_pc_control_mode_>>
link == <<toDev, toHost, conn>>
base == <<dev, moving>>
ghosts == <<drops, disturbed, present>>
vars == <<executor, rpc, modeVars, link, base, ghosts>>

NoReq == [mode |-> UNKNOWN, save |-> FALSE]
NoRes == [success |-> FALSE, message |-> "none", mode |-> UNKNOWN,
          chassis |-> UNKNOWN, pc |-> UNKNOWN, dm |-> UNKNOWN, ready |-> FALSE]

Status == [form : Forms, chassis : ChassisModes, dm : DmModes, ready : BOOLEAN,
           motor : [Motors -> MotorModes]]
Cache == [has : BOOLEAN, chassis : ChassisModes \cup {UNKNOWN},
          pc : Modes \cup {UNKNOWN}, dm : DmModes \cup {UNKNOWN},
          ready : BOOLEAN, motor : [Motors -> MotorModes]]
Packet == [kind : Kinds, arg : {"zero", "move"}]
             \cup [kind : {"set"}, arg : Modes]
             \cup [kind : {"reset"}, arg : {"reset"}]
Messages == {"none", "unsupported", "send_failed", "confirmed", "timeout",
             "param_failed", "reset_failed", "saved"}
Response == [success : BOOLEAN, message : Messages, mode : Modes \cup {UNKNOWN},
             chassis : ChassisModes \cup {UNKNOWN}, pc : Modes \cup {UNKNOWN},
             dm : DmModes \cup {UNKNOWN}, ready : BOOLEAN]

-----------------------------------------------------------------------------
(* Helpers of the code *)

chassisModeToCurrentMode(chassis) == IF chassis \in Modes THEN chassis ELSE UNKNOWN

\* current_mode_ as the cache determines it
Derived == IF mode_cache_.has THEN chassisModeToCurrentMode(mode_cache_.chassis)
                              ELSE UNKNOWN

isModeReady_flagOnly(m) == mode_cache_.has /\ mode_cache_.ready
isModeReady_noMotors(m) == /\ mode_cache_.has
                           /\ mode_cache_.ready
                           /\ mode_cache_.chassis = m
                           /\ mode_cache_.dm = m
isModeReady(m) == /\ mode_cache_.has
                  /\ mode_cache_.ready
                  /\ mode_cache_.chassis = m
                  /\ mode_cache_.dm = m
                  /\ \A x \in Motors : mode_cache_.motor[x] = m

\* shouldAcceptSpeedSource, told the ages of the last command of the source that
\* asks and of the other one (ms); a source that never spoke counts as too old.
SourceTimeout == 200
shouldAcceptSpeedSource(own, other) ==
    \/ own > SourceTimeout
    \/ other > SourceTimeout
    \/ own <= other

getReportedPcControlMode == IF mode_cache_.has THEN mode_cache_.pc
                                               ELSE param_pc_control_mode_

\* fill_response and the assignments around it
Answer(success, message) ==
    [success |-> success, message |-> message, mode |-> req.mode,
     chassis |-> mode_cache_.chassis, pc |-> getReportedPcControlMode,
     dm |-> mode_cache_.dm, ready |-> mode_cache_.ready]

\* What chassis.cpp hands to onMotionModeStatus: a full status as it came, a
\* compact one with ready recomputed and pc_control_mode left at 0 (speed).
Received(s) ==
    [has |-> TRUE, chassis |-> s.chassis, dm |-> s.dm, motor |-> s.motor,
     ready |-> IF s.form = "full" THEN s.ready
               ELSE s.ready /\ \A x \in Motors : s.motor[x] = s.dm,
     pc |-> IF s.form = "full" /\ s.chassis \in Modes THEN s.chassis ELSE "speed"]

-----------------------------------------------------------------------------
Init == /\ epc = "ctor"
        /\ req = NoReq
        /\ i = 0
        /\ polls = 0
        /\ res = NoRes
        /\ rpc = "idle"
        /\ mode_cache_ = [has |-> FALSE, chassis |-> UNKNOWN, pc |-> UNKNOWN,
                          dm |-> UNKNOWN, ready |-> FALSE,
                          motor |-> [x \in Motors |-> "off"]]
        /\ current_mode_ = UNKNOWN
        /\ param_pc_control_mode_ = UNKNOWN
        /\ toDev = << >>
        /\ toHost = << >>
        /\ conn = "up"
        /\ \E m \in Modes :
               dev = [chassis |-> m, dm |-> m, motor |-> [x \in Motors |-> m]]
        /\ moving = {}
        /\ drops = 0
        /\ disturbed = FALSE
        /\ present = FALSE

\* mode_mutex_ is free
Unlocked == rpc = "idle"

Goto(l) == epc' = l

\* The executor thread is at l, and not in the open() of the step before.
At(l) == conn = "up" /\ epc = l

\* comm_inf_->send: the packet goes out, or the send fails and the link is
\* reopened without it.  Where the callback goes on is set here, but it goes on
\* when open() is over.
SendOk(p) == /\ Len(toDev) < QDev
             /\ toDev' = Append(toDev, p)
             /\ UNCHANGED <<toHost, conn, ghosts>>
SendFails == /\ drops < MaxDrop
             /\ drops' = drops + 1
             /\ "serial" \in Transports
             /\ conn' = "opening"
             /\ UNCHANGED <<toDev, toHost, disturbed, present>>
sendPacket(p) == SendOk(p) \/ SendFails

\* open() has found the device; until then it tries twice a second.
Reopened == /\ conn = "opening"
            /\ conn' = "up"
            /\ UNCHANGED <<executor, rpc, modeVars, toDev, toHost, base, ghosts>>

\* Over UDP open() declares its parameters a second time, which throws through
\* the callback that sends and ends the process.
Sending == \/ epc \in Kinds \cup {"ctor", "zero", "param_set", "param_save", "reset"}
           \/ epc = "verify" /\ polls < VerifyMax
OpenThrows == /\ conn = "up"
              /\ Sending
              /\ "udp" \in Transports
              /\ drops < MaxDrop
              /\ drops' = drops + 1
              /\ conn' = "thrown"
              /\ UNCHANGED <<executor, rpc, modeVars, toDev, toHost, base,
                             disturbed, present>>

-----------------------------------------------------------------------------
(* The executor thread *)

\* The constructor asks for the parameters before the node spins; the reply
\* may hold a mode, something else, or not come within its timeout.
updateModeFromParamResult(value) ==
    param_pc_control_mode_' = IF value \in Modes THEN value
                                                 ELSE param_pc_control_mode_

Constructed == /\ At("ctor")
               /\ \/ /\ Unlocked
                     /\ \E value \in Replies : updateModeFromParamResult(value)
                     /\ UNCHANGED <<link, ghosts>>
                  \/ SendFails /\ UNCHANGED param_pc_control_mode_
               /\ Goto("idle")
               /\ UNCHANGED <<req, i, polls, res, rpc, mode_cache_, current_mode_,
                              base>>

\* velocityCallback, wheelSpeedCallback, wheelMitCallback: the gate is tested
\* under the mutex, the command is sent after it is released.  In between the
\* two speed sources go through shouldAcceptSpeedSource; each has just set the
\* time of its own last command to now.
CommandCallback(k) == /\ At("idle")
                      /\ Unlocked
                      /\ isModeReady(Required[k])
                      /\ k # "dm_mit" => \E other \in {0, SourceTimeout, SourceTimeout + 1} :
                                            shouldAcceptSpeedSource(0, other)
                      /\ Goto(k)
                      /\ UNCHANGED <<req, i, polls, res, rpc, modeVars, link,
                                     base, ghosts>>

SendCommand(k) == /\ At(k)
                  /\ sendPacket([kind |-> k, arg |-> "move"])
                  /\ Goto("idle")
                  /\ UNCHANGED <<req, i, polls, res, rpc, modeVars, base>>

\* setControlModeCallback, an unsupported mode
RequestUnsupported == /\ At("idle")
                      /\ Unlocked
                      /\ res' = Answer(FALSE, "unsupported")
                      /\ Goto("reply")
                      /\ UNCHANGED <<req, i, polls, rpc, modeVars, link, base,
                                     ghosts>>

\* setControlModeCallback, up to the first zero command
Request(m, save) == /\ At("idle")
                    /\ req' = [mode |-> m, save |-> save]
                    /\ i' = 0
                    /\ present' = (dev.chassis = m)
                    /\ Goto("zero")
                    /\ UNCHANGED <<polls, res, rpc, modeVars, link, base, drops,
                                   disturbed>>

\* sendZeroCommands: Rounds times a zero of each kind; failures are ignored
Zeros_oneRound == Len(ZeroOrder)
Zeros == Rounds * Len(ZeroOrder)

SendZero_oneMore ==
    /\ At("zero")
    /\ i <= Zeros
    /\ sendPacket([kind |-> ZeroOrder[1 + (i % Len(ZeroOrder))], arg |-> "zero"])
    /\ i' = i + 1
    /\ UNCHANGED <<epc, req, polls, res, rpc, modeVars, base>>

SendZero == /\ At("zero")
            /\ i < Zeros
            /\ sendPacket([kind |-> ZeroOrder[1 + (i % Len(ZeroOrder))], arg |-> "zero"])
            /\ i' = i + 1
            /\ UNCHANGED <<epc, req, polls, res, rpc, modeVars, base>>

SendSet_again ==
    /\ At("zero")
    /\ i = Zeros
    /\ \/ SendOk([kind |-> "set", arg |-> req.mode]) /\ Goto("mark") /\ UNCHANGED i
       \/ SendFails /\ i' = 0 /\ UNCHANGED epc
    /\ UNCHANGED <<req, polls, res, rpc, modeVars, base>>

SendSet == /\ At("zero")
           /\ i = Zeros
           /\ \/ SendOk([kind |-> "set", arg |-> req.mode]) /\ Goto("mark")
              \/ SendFails /\ Goto("set_failed")
           /\ UNCHANGED <<req, i, polls, res, rpc, modeVars, base>>

SetFailed == /\ At("set_failed")
             /\ Unlocked
             /\ res' = Answer(FALSE, "send_failed")
             /\ Goto("reply")
             /\ UNCHANGED <<req, i, polls, rpc, modeVars, link, base, ghosts>>

\* current_mode_ = MODE_SWITCHING, which takes no lock
Mark == /\ At("mark")
        /\ current_mode_' = SWITCHING
        /\ polls' = 0
        /\ Goto("poll")
        /\ UNCHANGED <<req, i, res, rpc, mode_cache_, param_pc_control_mode_,
                       link, base, ghosts>>

\* one turn of the polling loop
Poll_chassisOnly ==
    /\ At("poll")
    /\ polls < PollMax
    /\ Unlocked
    /\ IF Derived = req.mode
       THEN /\ current_mode_' = req.mode
            /\ res' = Answer(FALSE, "none")
            /\ Goto("matched")
            /\ UNCHANGED polls
       ELSE /\ polls' = polls + 1
            /\ UNCHANGED <<epc, res, current_mode_>>
    /\ UNCHANGED <<req, i, rpc, mode_cache_, param_pc_control_mode_, link,
                   base, ghosts>>

Poll == /\ At("poll")
        /\ polls < PollMax
        /\ Unlocked
        /\ IF isModeReady(req.mode)
           THEN /\ current_mode_' = req.mode
                /\ res' = Answer(FALSE, "none")
                /\ Goto("matched")
                /\ UNCHANGED polls
           ELSE /\ polls' = polls + 1
                /\ UNCHANGED <<epc, res, current_mode_>>
        /\ UNCHANGED <<req, i, rpc, mode_cache_, param_pc_control_mode_, link,
                       base, ghosts>>

Confirm_quotesAgain ==
    /\ At("matched")
    /\ Unlocked
    /\ res' = Answer(TRUE, "confirmed")
    /\ Goto(IF req.save THEN "param_set" ELSE "reply")
    /\ UNCHANGED <<req, i, polls, rpc, modeVars, link, base, ghosts>>

Confirm == /\ At("matched")
           /\ Unlocked
           /\ res' = [res EXCEPT !.success = TRUE, !.message = "confirmed"]
           /\ Goto(IF req.save THEN "param_set" ELSE "reply")
           /\ UNCHANGED <<req, i, polls, rpc, modeVars, link, base, ghosts>>

SwitchTimeout_renewed ==
    /\ At("poll")
    /\ polls = PollMax
    /\ polls' = 0
    /\ UNCHANGED <<epc, req, i, res, rpc, modeVars, link, base, ghosts>>

SwitchTimeout_noRestore ==
    /\ At("poll")
    /\ polls = PollMax
    /\ Unlocked
    /\ res' = Answer(FALSE, "timeout")
    /\ Goto("reply")
    /\ disturbed' = TRUE
    /\ UNCHANGED <<req, i, polls, rpc, modeVars, link, base, drops, present>>

SwitchTimeout == /\ At("poll")
                 /\ polls = PollMax
                 /\ Unlocked
                 /\ current_mode_' = Derived
                 /\ res' = Answer(FALSE, "timeout")
                 /\ Goto("reply")
                 /\ disturbed' = TRUE
                 /\ UNCHANGED <<req, i, polls, rpc, mode_cache_,
                                param_pc_control_mode_, link, base, drops, present>>

\* The rest of the handler with save_to_flash.  A debug command either gets an
\* acceptable reply or not (no reply, or one that holds an error word), or its
\* send fails.
SaveFails == /\ res' = [res EXCEPT !.success = FALSE, !.message = "param_failed"]
             /\ Goto("reply")

ParamCommand(this, next) ==
    /\ At(this)
    /\ \/ Goto(next) /\ UNCHANGED <<res, link, ghosts>>
       \/ SaveFails /\ UNCHANGED <<link, ghosts>>
       \/ SaveFails /\ SendFails
    /\ polls' = 0
    /\ UNCHANGED <<req, i, rpc, modeVars, base>>

\* verifyPcControlModePersisted: one attempt; the reply may hold any mode
VerifyPersisted ==
    /\ At("verify")
    /\ polls < VerifyMax
    /\ \/ UNCHANGED <<epc, param_pc_control_mode_, link, ghosts>>
       \/ SendFails /\ UNCHANGED <<epc, param_pc_control_mode_>>
       \/ \E value \in Replies :
            /\ Unlocked
            /\ updateModeFromParamResult(value)
            /\ IF value = req.mode THEN Goto("reset") ELSE UNCHANGED epc
            /\ UNCHANGED <<link, ghosts>>
    /\ polls' = polls + 1
    /\ UNCHANGED <<req, i, res, rpc, mode_cache_, current_mode_, base>>

VerifyFails == /\ At("verify")
               /\ polls = VerifyMax
               /\ SaveFails
               /\ UNCHANGED <<req, i, polls, rpc, modeVars, link, base, ghosts>>

SendReset == /\ At("reset")
             /\ \/ /\ SendOk([kind |-> "reset", arg |-> "reset"])
                   /\ res' = [res EXCEPT !.message = "saved"]
                \/ /\ SendFails
                   /\ res' = [res EXCEPT !.success = FALSE, !.message = "reset_failed"]
             /\ Goto("reply")
             /\ UNCHANGED <<req, i, polls, rpc, modeVars, base>>

\* The callback returns, the response goes to the client and the handler's
\* locals are gone.
Reply == /\ At("reply")
         /\ Goto("idle")
         /\ req' = NoReq
         /\ res' = NoRes
         /\ i' = 0
         /\ polls' = 0
         /\ present' = FALSE
         /\ UNCHANGED <<rpc, modeVars, link, base, drops, disturbed>>

Executor == \/ Constructed \/ Reply
            \/ \E k \in Kinds : SendCommand(k)
            \/ SendZero \/ SendSet \/ SetFailed
            \/ Mark \/ Poll \/ Confirm \/ SwitchTimeout
            \/ ParamCommand("param_set", "param_save")
            \/ ParamCommand("param_save", "verify")
            \/ VerifyPersisted \/ VerifyFails
            \/ SendReset

Clients == \/ \E k \in Kinds : CommandCallback(k)
           \/ RequestUnsupported
           \/ \E m \in Modes, save \in Saves : Request(m, save)

-----------------------------------------------------------------------------
(* The receiver thread: onMotionModeStatus *)

\* lock, copy the status, test current_mode_
StatusReceived == /\ conn # "thrown"
                  /\ toHost # << >>
                  /\ Unlocked
                  /\ mode_cache_' = Received(Head(toHost))
                  /\ toHost' = Tail(toHost)
                  /\ rpc' = IF current_mode_ # SWITCHING THEN "write" ELSE "idle"
                  /\ UNCHANGED <<executor, current_mode_, param_pc_control_mode_,
                                 toDev, conn, base, ghosts>>

\* assign current_mode_, unlock
StatusApplied == /\ conn # "thrown"
                 /\ rpc = "write"
                 /\ current_mode_' = Derived
                 /\ rpc' = "idle"
                 /\ UNCHANGED <<executor, mode_cache_, param_pc_control_mode_,
                                link, base, ghosts>>

Receiver == StatusReceived \/ StatusApplied

-----------------------------------------------------------------------------
(* The base, as the host sees it *)

\* A set packet changes the chassis mode at once, the dm mode and the motors
\* follow; a reset restarts it in either mode with its motors off.
DevTakes ==
    /\ toDev # << >>
    /\ toDev' = Tail(toDev)
    /\ LET p == Head(toDev) IN
         \/ /\ p.kind \in Kinds
            /\ moving' = IF p.arg = "move" THEN moving \cup {p.kind}
                                           ELSE moving \ {p.kind}
            /\ UNCHANGED <<dev, disturbed, present>>
         \/ /\ p.kind = "set"
            /\ dev' = [dev EXCEPT !.chassis = p.arg]
            /\ present' = (present \/ p.arg = req.mode)
            /\ UNCHANGED <<moving, disturbed>>
         \/ /\ p.kind = "reset"
            /\ \E m \in Modes :
                 dev' = [chassis |-> m, dm |-> m, motor |-> [x \in Motors |-> "off"]]
            /\ moving' = {}
            /\ disturbed' = TRUE
            /\ UNCHANGED present
    /\ UNCHANGED <<executor, rpc, modeVars, toHost, conn, drops>>

DevDmFollows == /\ dev.chassis \in Modes
                /\ dev.dm # dev.chassis
                /\ dev' = [dev EXCEPT !.dm = dev.chassis]
                /\ UNCHANGED <<executor, rpc, modeVars, link, moving, ghosts>>

DevMotorFollows(x) == /\ dev.motor[x] # dev.dm
                      /\ dev' = [dev EXCEPT !.motor[x] = dev.dm]
                      /\ UNCHANGED <<executor, rpc, modeVars, link, moving, ghosts>>

\* The operator takes the base over with the remote control.
RcTakeover == /\ Operator
              /\ dev.chassis # "rc"
              /\ dev' = [dev EXCEPT !.chassis = "rc"]
              /\ disturbed' = TRUE
              /\ UNCHANGED <<executor, rpc, modeVars, link, moving, drops, present>>

\* A status packet; ready is the base's own claim, which need not look at the
\* motors.
DevReports(form) ==
    /\ Len(toHost) < QHost
    /\ toHost' = Append(toHost, [form |-> form, chassis |-> dev.chassis,
                                 dm |-> dev.dm, motor |-> dev.motor,
                                 ready |-> dev.dm = dev.chassis])
    /\ UNCHANGED <<executor, rpc, modeVars, toDev, conn, base, ghosts>>

StatusLost == /\ toHost # << >>
              /\ toHost' = Tail(toHost)
              /\ UNCHANGED <<executor, rpc, modeVars, toDev, conn, base, ghosts>>

PacketLost == /\ toDev # << >>
              /\ drops < MaxDrop
              /\ drops' = drops + 1
              /\ toDev' = Tail(toDev)
              /\ UNCHANGED <<executor, rpc, modeVars, toHost, conn, base,
                             disturbed, present>>

Base == \/ DevTakes \/ DevDmFollows \/ RcTakeover
        \/ \E x \in Motors : DevMotorFollows(x)
        \/ \E form \in Forms : DevReports(form)
        \/ StatusLost \/ PacketLost

Next == Clients \/ Executor \/ Reopened \/ OpenThrows \/ Receiver \/ Base

\* The two threads run, and the link carries packets away; clients may stay
\* away, the base may stay silent, and a device that was lost need not come
\* back.  The executor thread gets mode_mutex_
\* when it keeps asking: the receiver holds it for one assignment and then
\* waits in read() for the next packet.
Fairness == /\ SF_vars(Executor)
            /\ WF_vars(StatusApplied)
            /\ WF_vars(DevTakes)

Spec == Init /\ [][Next]_vars /\ Fairness

-----------------------------------------------------------------------------
Locations == {"ctor", "idle", "zero", "set_failed", "mark", "poll", "matched",
              "param_set", "param_save", "verify", "reset", "reply"}
                \cup Kinds

TypeOK == /\ epc \in Locations
          /\ req \in [mode : Modes \cup {UNKNOWN}, save : BOOLEAN]
          /\ i \in 0..Zeros
          /\ polls \in Nat
          /\ res \in Response
          /\ rpc \in {"idle", "write"}
          /\ mode_cache_ \in Cache
          /\ current_mode_ \in Modes \cup {UNKNOWN, SWITCHING}
          /\ param_pc_control_mode_ \in Modes \cup {UNKNOWN}
          /\ toDev \in Seq(Packet)
          /\ toHost \in Seq(Status)
          /\ conn \in {"up", "opening", "thrown"}
          /\ dev \in [chassis : ChassisModes, dm : DmModes,
                      motor : [Motors -> MotorModes]]
          /\ moving \subseteq Kinds
          /\ drops \in 0..MaxDrop
          /\ disturbed \in BOOLEAN
          /\ present \in BOOLEAN

\* current_mode_ = MODE_SWITCHING is assigned without mode_mutex_ and may fall
\* between the receiver's test and its own assignment.  It does no lasting
\* harm: outside a switch current_mode_ is what the cached status says, and
\* during one it is that or MODE_SWITCHING; it never stays at MODE_SWITCHING
\* (setControlModeCallback, onMotionModeStatus).
CurrentModeAgrees ==
    rpc = "idle" => \/ current_mode_ = Derived
                    \/ epc = "poll" /\ current_mode_ = SWITCHING

\* Once a switch was found confirmed, the response describes it, however the
\* save that follows ends: it quotes the status that was found ready, not one
\* the receiver stored a moment later or earlier.  It reports success only if
\* the switch was confirmed and nothing that was asked for behind it failed
\* (setControlModeCallback with fill_response and its save part).
ConfirmedConsistent ==
    /\ res.message \in {"confirmed", "saved", "param_failed", "reset_failed"} =>
          res.chassis = res.mode /\ res.dm = res.mode /\ res.ready
    /\ res.success <=> res.message \in {"confirmed", "saved"}

\* As long as no switch timed out, no operator took over and no reset was
\* requested, a switch is confirmed only if the base has been in the requested
\* mode since the request, although the poll never asks how old the cached
\* status is (setControlModeCallback, the polling loop).
ConfirmedTruly == epc = "matched" /\ ~disturbed => present

\* The base enters the new mode with no motion left over from the old one: when
\* it takes the set packet, the last command it took of each kind was a zero,
\* even if fewer packets than there are rounds were lost or failed on the way
\* (sendZeroCommands).
ZeroBeforeSwitch ==
    [][DevTakes /\ Head(toDev).kind = "set" =>
          moving = {}]_vars

\* In the same undisturbed operation a motion command reaches the base only
\* when the base and every motor of it is in the mode the command is for,
\* although the gate is tested on a cached status, before the mutex is released
\* and the packet queued (velocityCallback, wheelSpeedCallback,
\* wheelMitCallback, isModeReady).
CommandMatchesMode ==
    [][DevTakes /\ Head(toDev).arg = "move" /\ ~disturbed =>
          LET m == Required[Head(toDev).kind]
          IN  dev = [chassis |-> m, dm |-> m, motor |-> [x \in Motors |-> m]]]_vars

\* The mode the driver holds the base ready in.
ReadyMode == IF isModeReady("speed") THEN "speed"
             ELSE IF isModeReady("mit") THEN "mit" ELSE UNKNOWN

\* What the handler has found so far about the request it is at.
Found == IF epc = "matched" \/ (epc # "idle" /\ res.success) THEN "yes"
         ELSE IF epc = "reply" THEN "no" ELSE "none"

Service == INSTANCE ModeService WITH
    Modes <- Modes, Kinds <- Kinds, UNKNOWN <- UNKNOWN,
    handled <- req.mode, answer <- Found, known <- ReadyMode,
    chassis <- dev.chassis, moving <- moving

\* The mode manager keeps the promises of ModeService through stale and lost
\* status packets, lost commands and failed sends (setControlModeCallback with
\* all it calls, onMotionModeStatus).
ImplementsService == Service!Spec

\* How far the executor thread still is from idle.
StepsLeft ==
    [zero |-> 9 + VerifyMax + PollMax + Zeros - i, mark |-> 8 + VerifyMax + PollMax,
     poll |-> 7 + VerifyMax + PollMax - polls,     matched |-> 6 + VerifyMax,
     param_set |-> 5 + VerifyMax,                  param_save |-> 4 + VerifyMax,
     verify |-> 3 + VerifyMax - polls,             reset |-> 2, set_failed |-> 2,
     reply |-> 1, ctor |-> 1, cmd_vel |-> 1, dm_speed |-> 1, dm_mit |-> 1,
     idle |-> 0][epc]

\* Apart from the time it spends in open(), a callback ends after a number of
\* steps that is known when it begins, whatever the base does and the receiver
\* stores meanwhile: each packet of zeros, poll and attempt of the verification
\* is counted once, a send that failed is not repeated, and no way through the
\* handler leads back to an earlier loop.  How long open() takes is up to the
\* device (setControlModeCallback, sendZeroCommands,
\* verifyPcControlModePersisted).
StepsCountDown == [][epc # "idle" => /\ StepsLeft' \in 0 .. StepsLeft
                                     /\ Executor => StepsLeft' < StepsLeft]_vars

\* The executor thread always comes back to serve the next callback, if every
\* open() it gets into ends: a base that never answers a switch or a debug
\* command only costs the timeout (setControlModeCallback).
Serves == conn = "up" /\ epc = "idle"
HandlerReturns == []<>(conn = "up") => (~Serves ~> Serves)

\* The service answers "mode switch confirmed by rover_motion_mode_status": the
\* base has been in the requested mode since the request was made.
ConfirmedByBase == epc = "matched" => present
=============================================================================
