------------------------------ MODULE SpinClient ------------------------------
(* The clients of the DYN node (spin_in_place.py), several of them at once,   *)
(* on top of the service as ModeService promises it.  A client asks for its   *)
(* mode, asks again when an answer or the status takes too long, and then     *)
(* publishes its script of commands.  The node serves one callback at a time: *)
(* stage says how far it is with the request it handles; the requests of a    *)
(* client that no longer waits stay in its queue.  Packets take no time here  *)
(* (DynControl has the link), except that the driver may learn late of what   *)
(* the base did.                                                              *)
(* An operator named after another one with an underscore behind it is that   *)
(* one with a fault seeded.                                                   *)
EXTENDS ModeService, Integers, Sequences

CONSTANTS
    Clients,
    Want,       \* the mode that each client is started with
    Topic,      \* the kind of command that belongs to a mode
    Retry       \* --set-mode-retry (2)

ASSUME ClientsAssumption == /\ Want \in [Clients -> Modes]
                            /\ Topic \in [Modes -> Kinds]
                            /\ \A m, n \in Modes : Topic[m] = Topic[n] => m = n
                            /\ Retry \in Nat \ {0}

VARIABLES
    loc, attempt, step,     \* of each client
    seen,                   \* the mode its last status was ready in
    topic,                  \* the last command not yet taken, queue depth 1
    queue, stage, current,  \* the node: requests, and the one it is at
    lag, lapse              \* ghosts, see Learns and TimesOut

clientVars == <<loc, attempt, step, seen>>
nodeVars == <<queue, stage, current>>
ghosts == <<lag, lapse>>
spinVars == <<serviceVars, clientVars, topic, nodeVars, ghosts>>

Ended == {"done", "failed", "killed"}
Request == [client : Clients, attempt : 1 .. Retry]

\* run_speed and run_mit: warm-up, forward, pause, reverse, stop
Script_noStop == <<"zero", "move", "zero", "move">>
Script == <<"zero", "move", "zero", "move", "zero">>

-----------------------------------------------------------------------------
SpinInit == /\ Init
            /\ loc = [c \in Clients |-> "check"]
            /\ attempt = [c \in Clients |-> 1]
            /\ step = [c \in Clients |-> 0]
            /\ seen = [c \in Clients |-> UNKNOWN]
            /\ topic = [k \in Kinds |-> "none"]
            /\ queue = << >>
            /\ stage = "idle"
            /\ current = << >>
            /\ lag = FALSE
            /\ lapse = FALSE

Goto(c, l) == loc' = [loc EXCEPT ![c] = l]

-----------------------------------------------------------------------------
(* A client *)

\* _mode_status_callback, while the client spins and looks at the status
StatusSeen(c) ==
    /\ loc[c] \in {"check", "waiting", "confirm", "recheck"}
    /\ seen' = [seen EXCEPT ![c] = known]
    /\ UNCHANGED <<serviceVars, loc, attempt, step, topic, nodeVars, ghosts>>

\* is_mode_ready
IsModeReady(c) == seen[c] = Want[c]

\* call_set_mode, call_async
Ask(c, n) == /\ Goto(c, "waiting")
             /\ attempt' = [attempt EXCEPT ![c] = n]
             /\ queue' = Append(queue, [client |-> c, attempt |-> n])
             /\ UNCHANGED <<step, seen, topic, stage, current>>

\* publish_for, the first message of a part of the script
Publish(c, n) == /\ step' = [step EXCEPT ![c] = n]
                 /\ topic' = [topic EXCEPT ![Topic[Want[c]]] = Script[n]]

\* ensure_mode_ready is left; its variables count no more, and the status is
\* not looked at again
Leave(c, l) == /\ Goto(c, l)
               /\ attempt' = [attempt EXCEPT ![c] = 1]
               /\ seen' = [seen EXCEPT ![c] = UNKNOWN]

StartDriving(c) == /\ Leave(c, "drive")
                   /\ Publish(c, 1)
                   /\ UNCHANGED nodeVars

Fail(c) == Leave(c, "failed") /\ UNCHANGED <<step, topic, nodeVars>>

\* wait_for_service, then ensure_mode_ready up to the first attempt
Check(c) == /\ loc[c] = "check"
            /\ \/ IsModeReady(c) /\ StartDriving(c)
               \/ ~IsModeReady(c) /\ Ask(c, 1)
               \/ Fail(c)
            /\ UNCHANGED <<serviceVars, ghosts>>

\* set_control_mode timeout: the future is dropped, the request is not
CallTimeout(c) == /\ loc[c] = "waiting"
                  /\ Goto(c, "recheck")
                  /\ UNCHANGED <<serviceVars, attempt, step, seen, topic, nodeVars, ghosts>>

\* wait_for_mode_ready after a confirmation
ModeReady(c) == /\ loc[c] = "confirm"
                /\ IsModeReady(c)
                /\ StartDriving(c)
                /\ UNCHANGED <<serviceVars, ghosts>>

ReadyTimeout_never(c) == FALSE /\ UNCHANGED spinVars
ReadyTimeout(c) == /\ loc[c] = "confirm"
                   /\ ~IsModeReady(c)
                   /\ Goto(c, "recheck")
                   /\ UNCHANGED <<serviceVars, attempt, step, seen, topic, nodeVars, ghosts>>

LastAttempt_late(c) == attempt[c] > Retry
LastAttempt(c) == attempt[c] = Retry

Recheck_sameAttempt(c) ==
    /\ loc[c] = "recheck"
    /\ \/ IsModeReady(c) /\ StartDriving(c)
       \/ ~IsModeReady(c) /\ Ask(c, attempt[c])
    /\ UNCHANGED <<serviceVars, ghosts>>

\* The last status is looked at once more before the next attempt.
Recheck(c) == /\ loc[c] = "recheck"
              /\ \/ IsModeReady(c) /\ StartDriving(c)
                 \/ ~IsModeReady(c) /\ LastAttempt(c) /\ Fail(c)
                 \/ ~IsModeReady(c) /\ ~LastAttempt(c) /\ Ask(c, attempt[c] + 1)
              /\ UNCHANGED <<serviceVars, ghosts>>

\* one more message of the same part
Again(c) == /\ loc[c] = "drive"
            /\ Publish(c, step[c])
            /\ UNCHANGED <<serviceVars, loc, attempt, seen, nodeVars, ghosts>>

\* the next part, or the end
Advance(c) == /\ loc[c] = "drive"
              /\ IF step[c] < Len(Script)
                 THEN Publish(c, step[c] + 1) /\ UNCHANGED loc
                 ELSE /\ Goto(c, "done")
                      /\ step' = [step EXCEPT ![c] = 0]
                      /\ UNCHANGED topic
              /\ UNCHANGED <<serviceVars, attempt, seen, nodeVars, ghosts>>

\* Ctrl-C: the node is destroyed, no command is sent
Interrupt(c) == /\ loc[c] \notin Ended
                /\ Leave(c, "killed")
                /\ step' = [step EXCEPT ![c] = 0]
                /\ UNCHANGED <<serviceVars, topic, nodeVars, ghosts>>

ClientStep(c) == \/ Check(c) \/ CallTimeout(c) \/ ModeReady(c) \/ ReadyTimeout(c)
                 \/ Recheck(c) \/ Advance(c)

-----------------------------------------------------------------------------
(* The node and the base *)

Gate_open(k) == TRUE
Gate(k) == \E m \in Modes : known = m /\ Topic[m] = k

\* velocityCallback, wheelMitCallback: the gate drops zeros like any command.
TakeCommand(k) ==
    /\ stage = "idle"
    /\ topic[k] # "none"
    /\ topic' = [topic EXCEPT ![k] = "none"]
    /\ Motion(IF ~Gate(k) THEN moving
              ELSE IF topic[k] = "move" THEN moving \cup {k} ELSE moving \ {k})
    /\ UNCHANGED <<clientVars, nodeVars, ghosts>>

\* setControlModeCallback is entered.
TakeRequest == /\ stage = "idle"
               /\ queue # << >>
               /\ Accept(Want[Head(queue).client])
               /\ current' = <<Head(queue)>>
               /\ queue' = Tail(queue)
               /\ stage' = "zero"
               /\ UNCHANGED <<clientVars, topic, ghosts>>

ZeroAll == /\ stage = "zero"
           /\ Motion({})
           /\ stage' = "set"
           /\ UNCHANGED <<clientVars, topic, queue, current, ghosts>>

SetMode == /\ stage = "set"
           /\ stage' = "poll"
           /\ EnterMode(handled) \/ UNCHANGED serviceVars   \* or it is lost
           /\ UNCHANGED <<clientVars, topic, queue, current, ghosts>>

Poll == /\ stage = "poll"
        /\ Confirm
        /\ stage' = "reply"
        /\ UNCHANGED <<clientVars, topic, queue, current, ghosts>>

\* The deadline, or a set packet that could not be sent.  lag: the driver goes
\* on with a mode that the base has left.
TimesOut == /\ stage \in {"set", "poll"}
            /\ Refuse
            /\ stage' = "reply"
            /\ lag' = (lag \/ known \notin {chassis, UNKNOWN})
            /\ UNCHANGED <<clientVars, topic, queue, current, lapse>>

\* The answer finds its client only if that waits for this very request.
Answer == /\ stage = "reply"
          /\ Reply
          /\ stage' = "idle"
          /\ current' = << >>
          /\ LET r == current[1] IN
               IF loc[r.client] = "waiting" /\ attempt[r.client] = r.attempt
               THEN Goto(r.client, IF answer = "yes" THEN "confirm" ELSE "recheck")
               ELSE UNCHANGED loc
          /\ UNCHANGED <<attempt, step, seen, topic, queue, ghosts>>

\* A status packet: the base is ready in its mode, or not.  lapse: a base in
\* motion is reported as not ready.
Learns == /\ \E m \in {chassis, UNKNOWN} :
               /\ m # known
               /\ Learn(m)
               /\ lapse' = (lapse \/ (m = UNKNOWN /\ moving # {}))
          /\ UNCHANGED <<clientVars, topic, nodeVars, lag>>

Node == TakeRequest \/ ZeroAll \/ SetMode \/ Poll \/ TimesOut \/ Answer

SpinNext == \/ \E c \in Clients : ClientStep(c) \/ StatusSeen(c) \/ Again(c) \/ Interrupt(c)
            \/ \E k \in Kinds : TakeCommand(k)
            \/ Node
            \/ Learns

\* Every wait of a client has a timeout.  Nobody promises that the node answers
\* or that a status comes.
Fairness == \A c \in Clients : WF_spinVars(ClientStep(c))

SpinSpec == SpinInit /\ [][SpinNext]_spinVars /\ Fairness

-----------------------------------------------------------------------------
TypeOK == /\ handled \in Modes \cup {UNKNOWN}
          /\ answer \in {"none", "yes", "no"}
          /\ known \in Modes \cup {UNKNOWN}
          /\ chassis \in Modes
          /\ moving \subseteq Kinds
          /\ loc \in [Clients -> {"check", "waiting", "confirm", "recheck", "drive"} \cup Ended]
          /\ attempt \in [Clients -> 1 .. Retry]
          /\ step \in [Clients -> 0 .. Len(Script)]
          /\ seen \in [Clients -> Modes \cup {UNKNOWN}]
          /\ topic \in [Kinds -> {"none", "zero", "move"}]
          /\ queue \in Seq(Request)
          /\ stage \in {"idle", "zero", "set", "poll", "reply"}
          /\ current \in {<< >>} \cup {<<r>> : r \in Request}
          /\ lag \in BOOLEAN
          /\ lapse \in BOOLEAN

\* Whichever client asks for what and when, also through a request its client
\* has given up, the base moves only as its mode allows, unless a switch timed
\* out behind the driver's back (setControlModeCallback, velocityCallback,
\* wheelMitCallback).
MovesInMode == ~lag => moving \subseteq {Topic[chassis]}

AllEnded == \A c \in Clients : loc[c] \in {"done", "failed"}
Drained == queue = << >> /\ stage = "idle" /\ topic = [k \in Kinds |-> "none"]

\* Once every client has run its script or failed, the base is at rest, although
\* the gate drops zeros too and other clients switch the mode in the middle of a
\* script (publish_for, run_speed, run_mit).
EndsAtRest == AllEnded /\ Drained /\ ~lag /\ ~lapse => moving = {}

\* How far a client still is from its end: the attempts it has left, each of an
\* answer, a status and a last look, and the parts of its script.
StepsLeft(c) ==
    LET place == [check |-> 1 + 3 * Retry,
                  waiting |-> 3 + 3 * (Retry - attempt[c]),
                  confirm |-> 2 + 3 * (Retry - attempt[c]),
                  recheck |-> 1 + 3 * (Retry - attempt[c]),
                  drive |-> 1 - step[c], done |-> 0, failed |-> 0, killed |-> 0]
    IN  place[loc[c]] + IF loc[c] \in Ended THEN 0 ELSE Len(Script)

\* Each client ends after a number of steps that is known when it begins: an
\* attempt is made Retry times at most and a part of the script once, whatever
\* the node answers, to whichever of the attempts, and whatever other clients do
\* (ensure_mode_ready, call_set_mode, publish_for).
StepsCountDown ==
    [][\A c \in Clients : loc[c] \notin Ended =>
          /\ StepsLeft(c)' \in 0 .. StepsLeft(c)
          /\ ClientStep(c) => StepsLeft(c)' < StepsLeft(c)]_spinVars

\* Every client comes to its end even if no status ever comes and its requests
\* wait behind those of others (ensure_mode_ready).
Ends == <>(\A c \in Clients : loc[c] \in Ended)
=============================================================================
