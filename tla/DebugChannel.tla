----------------------------- MODULE DebugChannel -----------------------------
(* The debug command channel (sendDebugCommandAndWait and its callers) and    *)
(* the start-up that uses it first.  Commands and replies are texts without a *)
(* number, so the node tells a reply from another only by when it comes.      *)
(*   - the main thread runs the constructors and checkDevType, then spins:    *)
(*     the debug subscription, the debug service and the save pipeline of     *)
(*     set_control_mode are in one callback group, so one pc is enough;       *)
(*   - the receiver thread hands the replies over (Receive);                  *)
(*   - the base holds its parameter in memory and in flash.                   *)
(* The link keeps the order and may lose anything.  A send that fails leaves  *)
(* its caller in open(), as the constructor begins in it: over a serial port  *)
(* in a loop that lasts until the device is there, over UDP, from the second  *)
(* time on, with an exception.  That the heartbeat thread recovers the link   *)
(* as well is in module Link.                                                 *)
(* An operator named after another one with an underscore behind it is that   *)
(* one with a fault seeded.                                                   *)
EXTENDS Integers, Sequences

CONSTANTS
    Cores,      \* what "type" makes: "dyn", "plain", "none" (arm or unknown)
    Modes,      \* the values of pc_control_mode
    Tries,      \* attempts of checkDevType and of the verification (5)
    Transports, \* what the node may be configured for: "serial", "udp"
    QDev,       \* bound: commands on their way to the base
    QHost       \* bound: replies on their way to the host

ASSUME CoresAssumption == /\ Cores \subseteq {"dyn", "plain", "none"}
                          /\ Transports \subseteq {"serial", "udp"}
ASSUME ModesAssumption == Modes # {} /\ Modes \cap {"ok", "error", "none"} = {}
ASSUME CountAssumption == Tries \in Nat \ {0} /\ QDev \in Nat \ {0} /\ QHost \in Nat \ {0}

VARIABLES
    core, verify,               \* what main made of the parameters
    pc,                         \* main thread, then executor thread
    job,                        \* who waits for the command
    tries, want, cmd,           \* locals of the callers
    result,                     \* what sendDebugCommandAndWait returned
    initDone_, debugResultFlag_, debugResultStr_,
    toDev, toHost,              \* the link
    conn,                       \* "opening": the thread is in open()
    ram, flash,                 \* the parameter in the base
    foreign, clean              \* ghosts: in flight at the last clear; nothing
                                \* was in flight when the pipeline began

setup == <<core, verify>>
locals == <<job, tries, want, cmd, result>>
shared == <<initDone_, debugResultFlag_, debugResultStr_>>
link == <<toDev, toHost, conn>>
base == <<ram, flash>>
ghosts == <<foreign, clean>>
vars == <<setup, pc, locals, shared, link, base, ghosts>>

Get == [op |-> "get", arg |-> "none"]
Save == [op |-> "save", arg |-> "none"]
Reset == [op |-> "reset", arg |-> "none"]
Set(m) == [op |-> "set", arg |-> m]
Commands == {Get, Save, Reset} \cup {Set(m) : m \in Modes}

\* mine is a ghost: the command was sent since the flag was cleared last, to
\* be waited for, or the reply is one to such a command.
Packet == [cmd : Commands, mine : BOOLEAN]
Reply == [val : {"ok", "error"} \cup Modes, mine : BOOLEAN]
NoReply == [val |-> "none", mine |-> FALSE]

-----------------------------------------------------------------------------
(* main, with a core or without one; the constructor of a core begins in      *)
(* open().                                                                    *)
Init == /\ core \in Cores
        /\ verify \in BOOLEAN
        /\ pc = IF core = "none" THEN "main" ELSE "core_ctor"
        /\ job = "none"
        /\ tries = 0
        /\ want = "none"
        /\ cmd = Get
        /\ result = NoReply
        /\ initDone_ = FALSE
        /\ debugResultFlag_ = FALSE
        /\ debugResultStr_ = NoReply
        /\ toDev = << >>
        /\ toHost = << >>
        /\ conn = IF core = "none" THEN "up" ELSE "opening"
        /\ ram \in Modes
        /\ flash = ram
        /\ foreign = FALSE
        /\ clean = FALSE

Goto(l) == pc' = l

\* The thread is at l, and not in the open() of the step before.
At(l) == conn = "up" /\ pc = l

\* sendDebugCommandAndWait is entered; the caller goes on at Return...
Call(j, c) == /\ Goto("clear")
              /\ job' = j
              /\ cmd' = c

\* The callback returns to the executor, its locals are gone.
Spin == /\ Goto("spin")
        /\ job' = "none"
        /\ tries' = 0
        /\ want' = "none"
        /\ cmd' = Get
        /\ result' = NoReply
        /\ clean' = FALSE
        /\ UNCHANGED foreign

\* The timers are made after open() has started the receiver.
CoreCtor == /\ At("core_ctor")
            /\ Goto("derived_ctor")
            /\ UNCHANGED <<setup, locals, shared, link, base, ghosts>>

\* A frame of any type is accepted before that: dataProc restarts a timer that
\* does not exist.
EarlyFrame == /\ At("core_ctor")
              /\ Goto("no_timer")
              /\ UNCHANGED <<setup, locals, shared, link, base, ghosts>>

\* The end of the constructor; only TianbotDyn sends a command in it.
DerivedCtor == /\ At("derived_ctor")
               /\ initDone_' = TRUE
               /\ IF core = "dyn" THEN Call("ctor", Get)
                                  ELSE Goto("main") /\ UNCHANGED <<job, cmd>>
               /\ UNCHANGED <<setup, tries, want, result, debugResultFlag_,
                              debugResultStr_, link, base, ghosts>>

\* type_verify, which TianbotDyn switches off; without a core the call goes
\* through a null pointer.
MainVerifies == /\ At("main")
                /\ verify /\ core = "plain"
                /\ Call("check", Get)
                /\ UNCHANGED <<setup, tries, want, result, shared, link, base, ghosts>>

MainNoCore == /\ At("main")
              /\ verify /\ core = "none"
              /\ Goto("no_core")
              /\ UNCHANGED <<setup, locals, shared, link, base, ghosts>>

MainSpins == /\ At("main")
             /\ ~verify \/ core = "dyn"
             /\ Spin
             /\ UNCHANGED <<setup, shared, link, base>>

-----------------------------------------------------------------------------
(* sendDebugCommandAndWait *)

NotMine(s) == [n \in DOMAIN s |-> [s[n] EXCEPT !.mine = FALSE]]

Clear_keepsFlag ==
    /\ At("clear")
    /\ Goto("send")
    /\ foreign' = (toDev # << >> \/ toHost # << >>)
    /\ toDev' = NotMine(toDev)
    /\ toHost' = NotMine(toHost)
    /\ UNCHANGED <<setup, locals, shared, conn, base, clean>>

Clear == /\ At("clear")
         /\ Goto("send")
         /\ debugResultFlag_' = FALSE
         /\ debugResultStr_' = NoReply
         /\ foreign' = (toDev # << >> \/ toHost # << >>)
         /\ toDev' = NotMine(toDev)
         /\ toHost' = NotMine(toHost)
         /\ UNCHANGED <<setup, locals, initDone_, conn, base, clean>>

SendOk(c, mine) == /\ Len(toDev) < QDev
                   /\ toDev' = Append(toDev, [cmd |-> c, mine |-> mine])
                   /\ UNCHANGED <<toHost, conn>>

\* The caller recovers the link and goes on when open() is over.
Reopens == /\ "serial" \in Transports
           /\ conn' = "opening"
           /\ UNCHANGED <<toDev, toHost>>

\* debugTimeoutForCommand: a reset is not waited for and gives the command back
Send == /\ At("send")
        /\ SendOk(cmd, TRUE)
        /\ IF cmd = Reset
           THEN Goto("return") /\ result' = [val |-> "ok", mine |-> TRUE]
           ELSE Goto("wait") /\ UNCHANGED result
        /\ UNCHANGED <<setup, job, tries, want, cmd, shared, base, ghosts>>

SendFails == /\ At("send")
             /\ Reopens
             /\ Goto("return")
             /\ result' = NoReply
             /\ UNCHANGED <<setup, job, tries, want, cmd, shared, base, ghosts>>

Got == /\ At("wait")
       /\ debugResultFlag_
       /\ Goto("return")
       /\ result' = debugResultStr_
       /\ UNCHANGED <<setup, job, tries, want, cmd, shared, link, base, ghosts>>

Timeout == /\ At("wait")
           /\ ~debugResultFlag_
           /\ Goto("return")
           /\ result' = NoReply
           /\ UNCHANGED <<setup, job, tries, want, cmd, shared, link, base, ghosts>>

-----------------------------------------------------------------------------
(* The callers go on *)

Returned(j) == At("return") /\ job = j

LastTry_late == tries = Tries
LastTry == tries + 1 = Tries

ReturnCtor == /\ Returned("ctor")
              /\ Goto("main")
              /\ UNCHANGED <<setup, locals, shared, link, base, ghosts>>

\* checkDevType: a mismatch of the types is only logged
ReturnCheck_uncounted ==
    /\ Returned("check")
    /\ IF result # NoReply
       THEN Spin
       ELSE /\ Call("check", Get)
            /\ UNCHANGED <<tries, want, result, ghosts>>
    /\ UNCHANGED <<setup, shared, link, base>>

ReturnCheck == /\ Returned("check")
               /\ IF result # NoReply \/ LastTry
                  THEN Spin
                  ELSE /\ Call("check", Get)
                       /\ tries' = tries + 1
                       /\ UNCHANGED <<want, result, ghosts>>
               /\ UNCHANGED <<setup, shared, link, base>>

ReturnSrv == /\ Returned("srv")
             /\ Spin
             /\ UNCHANGED <<setup, shared, link, base>>

\* a reply, and no error word in it (debugResultHasError)
Acceptable_any == result # NoReply
Acceptable == result # NoReply /\ result.val # "error"

ReturnSet == /\ Returned("set")
             /\ IF Acceptable
                THEN Call("save", Save) /\ UNCHANGED <<tries, want, result, ghosts>>
                ELSE Spin
             /\ UNCHANGED <<setup, shared, link, base>>

ReturnSave == /\ Returned("save")
              /\ IF Acceptable
                 THEN Call("verify", Get) /\ UNCHANGED <<tries, want, result, ghosts>>
                 ELSE Spin
              /\ UNCHANGED <<setup, shared, link, base>>

\* verifyPcControlModePersisted
ReturnVerify ==
    /\ Returned("verify")
    /\ \/ /\ result.val = want
          /\ Goto("saved")
          /\ UNCHANGED <<locals, ghosts>>
       \/ /\ result.val # want /\ ~LastTry
          /\ Call("verify", Get)
          /\ tries' = tries + 1
          /\ UNCHANGED <<want, result, ghosts>>
       \/ result.val # want /\ LastTry /\ Spin
    /\ UNCHANGED <<setup, shared, link, base>>

\* "mode switched, saved, verified by param get", and a reset, or without one
SendReset == /\ At("saved")
             /\ SendOk(Reset, FALSE) \/ Reopens
             /\ Spin
             /\ UNCHANGED <<setup, shared, base>>

-----------------------------------------------------------------------------
(* Requests, once the node spins *)

Serving == At("spin") /\ core # "none"

debugCmdSrv(c) == /\ Serving
                  /\ Call("srv", c)
                  /\ UNCHANGED <<setup, tries, want, result, shared, link, base, ghosts>>

\* A command from the topic is sent, and its reply waited for by nobody.
debugCmdCallback(c) == /\ Serving
                       /\ SendOk(c, FALSE) \/ Reopens
                       /\ UNCHANGED <<setup, pc, locals, shared, base, ghosts>>

\* setControlModeCallback with save_to_flash, after the switch
SaveRequest(m) == /\ Serving
                  /\ core = "dyn"
                  /\ want' = m
                  /\ Call("set", Set(m))
                  /\ clean' = (toDev = << >> /\ toHost = << >>)
                  /\ UNCHANGED <<setup, tries, result, shared, link, base, foreign>>

\* open() has succeeded; until then it tries twice a second.
Reopened == /\ conn = "opening"
            /\ conn' = "up"
            /\ UNCHANGED <<setup, pc, locals, shared, toDev, toHost, base, ghosts>>

\* Over UDP a second open() declares its parameters again, which throws through
\* whoever sends and ends the process.
OpenThrows == /\ "udp" \in Transports
              /\ At("send") \/ At("saved") \/ Serving
              /\ conn' = "thrown"
              /\ UNCHANGED <<setup, pc, locals, shared, toDev, toHost, base, ghosts>>

Starting == \/ CoreCtor \/ DerivedCtor
            \/ MainVerifies \/ MainNoCore \/ MainSpins
Waiting == Clear \/ Send \/ SendFails \/ Got \/ Timeout
Returning == \/ ReturnCtor \/ ReturnCheck \/ ReturnSrv
             \/ ReturnSet \/ ReturnSave \/ ReturnVerify \/ SendReset
Thread == Starting \/ Waiting \/ Returning

Clients == \/ \E c \in Commands : debugCmdSrv(c) \/ debugCmdCallback(c)
           \/ \E m \in Modes : SaveRequest(m)

-----------------------------------------------------------------------------
(* The receiver thread, the link and the base *)

\* tianbotDataProc, PACK_TYPE_DEBUG_RESPONSE
Receive == /\ conn # "thrown"
           /\ toHost # << >>
           /\ toHost' = Tail(toHost)
           /\ IF initDone_
              THEN /\ debugResultFlag_' = TRUE
                   /\ debugResultStr_' = Head(toHost)
              ELSE UNCHANGED <<debugResultFlag_, debugResultStr_>>
           /\ UNCHANGED <<setup, pc, locals, initDone_, toDev, conn, base, ghosts>>

Answers(val) == toHost' = Append(toHost, [val |-> val, mine |-> Head(toDev).mine])

BaseTakes ==
    /\ toDev # << >>
    /\ Len(toHost) < QHost
    /\ toDev' = Tail(toDev)
    /\ LET c == Head(toDev).cmd IN
         \/ /\ c.op = "set"
            /\ ram' = c.arg
            /\ Answers("ok")
            /\ UNCHANGED flash
         \/ /\ c.op = "save"
            /\ flash' = ram
            /\ Answers("ok")
            /\ UNCHANGED ram
         \/ /\ c.op \in {"set", "save"}
            /\ Answers("error")
            /\ UNCHANGED base
         \/ /\ c.op = "get"
            /\ Answers(ram)
            /\ UNCHANGED base
         \/ /\ c.op = "reset"
            /\ ram' = flash
            /\ UNCHANGED <<flash, toHost>>
    /\ UNCHANGED <<setup, pc, locals, shared, conn, ghosts>>

CommandLost == /\ toDev # << >>
               /\ toDev' = Tail(toDev)
               /\ UNCHANGED <<setup, pc, locals, shared, toHost, conn, base, ghosts>>

ReplyLost == /\ toHost # << >>
             /\ toHost' = Tail(toHost)
             /\ UNCHANGED <<setup, pc, locals, shared, toDev, conn, base, ghosts>>

Next == \/ EarlyFrame \/ Thread \/ Clients \/ Reopened \/ OpenThrows
        \/ Receive \/ BaseTakes \/ CommandLost \/ ReplyLost

\* The thread runs and every wait has a timeout.  The base may stay silent and
\* the device away; a send that finds the link full can still fail.
Fairness == WF_vars(Thread)

Spec == Init /\ [][Next]_vars /\ Fairness

-----------------------------------------------------------------------------
TypeOK == /\ core \in Cores
          /\ verify \in BOOLEAN
          /\ pc \in {"core_ctor", "derived_ctor", "main", "clear", "send", "wait",
                     "return", "saved", "spin", "no_timer", "no_core"}
          /\ job \in {"none", "ctor", "check", "srv", "set", "save", "verify"}
          /\ tries \in 0 .. Tries - 1
          /\ want \in Modes \cup {"none"}
          /\ cmd \in Commands
          /\ result \in Reply \cup {NoReply}
          /\ initDone_ \in BOOLEAN
          /\ debugResultFlag_ \in BOOLEAN
          /\ debugResultStr_ \in Reply \cup {NoReply}
          /\ toDev \in Seq(Packet)
          /\ toHost \in Seq(Reply)
          /\ conn \in {"up", "opening", "thrown"}
          /\ ram \in Modes
          /\ flash \in Modes
          /\ foreign \in BOOLEAN
          /\ clean \in BOOLEAN

\* However many earlier waits timed out and however late their replies come,
\* a wait that begins with nothing in flight ends with the reply to its own
\* command or with none (sendDebugCommandAndWait, debugCmdCallback).
ReplyMatches == pc = "return" /\ result # NoReply /\ ~foreign => result.mine

\* The verification reads memory, not flash.  Yet when no command was in flight
\* at its start, a pipeline that reports the mode as saved has it in flash,
\* whatever was lost, late or refused by the base on the way
\* (setControlModeCallback, verifyPcControlModePersisted).
SavedIsPersistent == pc = "saved" /\ clean => flash = want

\* How far the thread still is from spin: a call goes from clear by send and wait
\* to return, and a caller makes so many more calls behind the one it is in.
CallsBehind == [none |-> 0, srv |-> 0,
                ctor |-> Tries + 1, set |-> Tries + 1, save |-> Tries,
                check |-> Tries - 1 - tries, verify |-> Tries - 1 - tries][job]
StepsLeft == [core_ctor |-> 4 * Tries + 11, derived_ctor |-> 4 * Tries + 10,
              main |-> 4 * Tries + 2,
              clear |-> 4 * CallsBehind + 5, send |-> 4 * CallsBehind + 4,
              wait |-> 4 * CallsBehind + 3, return |-> 4 * CallsBehind + 2,
              saved |-> 1, spin |-> 0, no_timer |-> 0, no_core |-> 0][pc]

\* Apart from the time they spend in open(), the start-up and a save pipeline,
\* with all their repeated attempts, end after a number of steps that is known
\* when they begin: every step of the thread brings it nearer to spin, and
\* whatever comes over the link meanwhile, late replies included, takes it no
\* further away.  How long open() takes is up to the device (main, checkDevType,
\* setControlModeCallback, verifyPcControlModePersisted).
StepsCountDown == [][pc # "spin" => /\ StepsLeft' \in 0 .. StepsLeft
                                    /\ Thread => StepsLeft' < StepsLeft]_vars

\* If every open() they get into ends, the start-up and every callback come to
\* their end without a reply, except when a frame precedes the timers or
\* type_verify finds no core (main, checkDevType, sendDebugCommandAndWait).
Served == At("spin") \/ pc \in {"no_timer", "no_core"}
ComesToSpin == []<>(conn = "up") => (~Served ~> Served)
=============================================================================
