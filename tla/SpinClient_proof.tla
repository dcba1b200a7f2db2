--------------------------- MODULE SpinClient_proof ---------------------------
(* Proofs about SpinClient, for any number of clients, modes, kinds of command *)
(* and attempts: its type invariant, that the base moves only as its mode      *)
(* allows, and that it is at rest when every client has ended.                 *)
EXTENDS SpinClient, SequenceTheorems, TLAPS

\* What the node is at, in terms of the service.
Stages == /\ stage = "idle" => handled = UNKNOWN /\ answer = "none"
          /\ stage \in {"zero", "set", "poll"} => handled \in Modes /\ answer = "none"
          /\ stage = "reply" => Len(current) = 1 /\ handled \in Modes
          /\ stage # "idle" => current # << >>

\* The driver knows the mode of the base, nothing, or (while it polls) the
\* mode before the switch.
Knows == \/ lag
         \/ known \in {chassis, UNKNOWN}
         \/ stage = "poll" /\ chassis = handled

\* The zeros of a switch have stopped everything; otherwise a base in motion is
\* known to be ready.
Awake == /\ stage \in {"set", "poll", "reply"} => moving = {}
         /\ moving # {} /\ ~lag /\ ~lapse => known = chassis

\* Somebody who still has to send a zero of this kind, or never will.
Driver(k) == \E c \in Clients :
                /\ Topic[Want[c]] = k
                /\ loc[c] = "killed" \/ (loc[c] = "drive" /\ step[c] < 5)

\* A kind that moves, or is about to, has a zero behind it or a client that
\* drives.
Stopped == \A k \in Kinds :
              \/ topic[k] = "zero"
              \/ topic[k] = "none" /\ k \notin moving
              \/ Driver(k)

Rest == ~lag /\ ~lapse => Stopped

Steps == \A c \in Clients : loc[c] = "drive" => step[c] \in 1 .. 5

IInv == TypeOK /\ Stages /\ Knows /\ MovesInMode /\ Awake /\ Steps /\ Rest

-----------------------------------------------------------------------------
LEMMA ScriptValues == /\ Len(Script) = 5
                      /\ \A n \in 1 .. 5 : Script[n] \in {"zero", "move"}
                      /\ Script[1] = "zero"
                      /\ Script[5] = "zero"
BY DEF Script

LEMMA WantType == \A c \in Clients : Want[c] \in Modes /\ Topic[Want[c]] \in Kinds
BY ClientsAssumption

ServiceType == /\ handled \in Modes \cup {UNKNOWN}
               /\ answer \in {"none", "yes", "no"}
               /\ known \in Modes \cup {UNKNOWN}
               /\ chassis \in Modes
               /\ moving \subseteq Kinds

ClientType == /\ loc \in [Clients -> {"check", "waiting", "confirm", "recheck", "drive"} \cup Ended]
              /\ attempt \in [Clients -> 1 .. Retry]
              /\ step \in [Clients -> 0 .. 5]
              /\ seen \in [Clients -> Modes \cup {UNKNOWN}]
              /\ topic \in [Kinds -> {"none", "zero", "move"}]

NodeType == /\ queue \in Seq(Request)
            /\ stage \in {"idle", "zero", "set", "poll", "reply"}
            /\ current \in {<< >>} \cup {<<r>> : r \in Request}
            /\ lag \in BOOLEAN
            /\ lapse \in BOOLEAN

LEMMA Types == TypeOK <=> ServiceType /\ ClientType /\ NodeType
BY ScriptValues DEF TypeOK, ServiceType, ClientType, NodeType

LEMMA InitIInv == SpinInit => IInv
<1>. SUFFICES ASSUME SpinInit PROVE IInv
  OBVIOUS
<1>. USE DEF SpinInit, Init
<1>1. ServiceType
  BY DEF ServiceType
<1>2. ClientType
  BY ClientsAssumption DEF ClientType, Ended
<1>3. NodeType
  BY EmptySeq DEF NodeType
<1>4. Stages /\ Knows /\ MovesInMode /\ Awake
  BY DEF Stages, Knows, MovesInMode, Awake
<1>5. Steps /\ Rest
  BY DEF Steps, Rest, Stopped
<1>. QED BY <1>1, <1>2, <1>3, <1>4, <1>5, Types DEF IInv

-----------------------------------------------------------------------------
(* Types *)

LEMMA NextType == IInv /\ [SpinNext]_spinVars => TypeOK'
<1>. SUFFICES ASSUME IInv, [SpinNext]_spinVars PROVE TypeOK'
  OBVIOUS
<1>t. ServiceType /\ ClientType /\ NodeType /\ Stages /\ Steps
  BY Types DEF IInv
<1>p. ServiceType' /\ ClientType' /\ NodeType' => TypeOK'
  BY ScriptValues DEF TypeOK, ServiceType, ClientType, NodeType
<1>. USE DEF serviceVars, clientVars, nodeVars, ghosts, Goto, Leave, Ended
<1>1. ASSUME NEW c \in Clients, ClientStep(c) \/ StatusSeen(c) \/ Again(c) \/ Interrupt(c)
      PROVE  TypeOK'
  <2>1. ServiceType'
    BY <1>t, <1>1 DEF ClientStep, Check, CallTimeout, ModeReady, ReadyTimeout, Recheck,
                      Advance, StatusSeen, Again, Interrupt, ServiceType
  <2>2. ASSUME NEW n \in 1 .. Retry, Ask(c, n) PROVE queue' \in Seq(Request)
    <3>1. [client |-> c, attempt |-> n] \in Request
      BY DEF Request
    <3>. QED BY <1>t, <2>2, <3>1, AppendProperties DEF Ask, NodeType
  <2>3. ASSUME NEW n \in 1 .. 5, Publish(c, n)
        PROVE  /\ step' \in [Clients -> 0 .. 5]
               /\ topic' \in [Kinds -> {"none", "zero", "move"}]
    BY <1>t, <2>3, ScriptValues, WantType DEF Publish, ClientType
  <2>4. 1 \in 1 .. Retry /\ (~LastAttempt(c) => attempt[c] + 1 \in 1 .. Retry)
    BY <1>t, ClientsAssumption DEF LastAttempt, ClientType
  <2>5. ClientType'
    <3>1. CASE StartDriving(c) \/ Fail(c)
      BY <1>t, <2>3, <2>4, <3>1 DEF StartDriving, Fail, ClientType
    <3>2. ASSUME NEW n \in 1 .. Retry, Ask(c, n) PROVE ClientType'
      BY <1>t, <3>2 DEF Ask, ClientType
    <3>3. CASE Check(c) \/ ModeReady(c) \/ Recheck(c)
      BY <2>4, <3>1, <3>2, <3>3 DEF Check, ModeReady, Recheck
    <3>4. CASE CallTimeout(c) \/ ReadyTimeout(c)
      BY <1>t, <3>4 DEF CallTimeout, ReadyTimeout, ClientType
    <3>5. CASE Advance(c)
      <4>1. step[c] \in 0 .. 5
        BY <1>t DEF ClientType
      <4>2. CASE step[c] < Len(Script)
        <5>1. step[c] + 1 \in 1 .. 5 /\ Publish(c, step[c] + 1)
          BY <3>5, <4>1, <4>2, ScriptValues DEF Advance
        <5>. QED BY <1>t, <2>3, <3>5, <4>2, <5>1 DEF Advance, ClientType
      <4>3. CASE ~(step[c] < Len(Script))
        <5>1. /\ loc' = [loc EXCEPT ![c] = "done"]
              /\ step' = [step EXCEPT ![c] = 0]
              /\ UNCHANGED <<attempt, seen, topic>>
          BY <3>5, <4>3 DEF Advance
        <5>. QED BY <1>t, <5>1 DEF ClientType
      <4>. QED BY <4>2, <4>3
    <3>6. CASE StatusSeen(c)
      BY <1>t, <3>6 DEF StatusSeen, ClientType, ServiceType
    <3>7. CASE Again(c)
      <4>1. step[c] \in 1 .. 5
        BY <1>t, <3>7 DEF Again, Steps
      <4>. QED BY <1>t, <2>3, <3>7, <4>1 DEF Again, ClientType
    <3>8. CASE Interrupt(c)
      BY <1>t, <2>4, <3>8 DEF Interrupt, ClientType
    <3>. QED BY <1>1, <3>3, <3>4, <3>5, <3>6, <3>7, <3>8 DEF ClientStep
  <2>6. NodeType'
    <3>1. UNCHANGED nodeVars \/ \E n \in 1 .. Retry : Ask(c, n)
      BY <1>1, <2>4
         DEF ClientStep, Check, CallTimeout, ModeReady, ReadyTimeout, Recheck, Advance,
             StatusSeen, Again, Interrupt, StartDriving, Fail
    <3>2. UNCHANGED ghosts
      BY <1>1 DEF ClientStep, Check, CallTimeout, ModeReady, ReadyTimeout, Recheck,
                  Advance, StatusSeen, Again, Interrupt
    <3>3. queue' \in Seq(Request) /\ UNCHANGED <<stage, current>>
      BY <1>t, <2>2, <3>1 DEF Ask, NodeType
    <3>. QED BY <1>t, <3>2, <3>3 DEF NodeType
  <2>. QED BY <1>p, <2>1, <2>5, <2>6
<1>2. ASSUME NEW k \in Kinds, TakeCommand(k) PROVE TypeOK'
  <2>1. ServiceType'
    BY <1>t, <1>2 DEF TakeCommand, Motion, ServiceType
  <2>2. ClientType' /\ NodeType'
    BY <1>t, <1>2 DEF TakeCommand, ClientType, NodeType
  <2>. QED BY <1>p, <2>1, <2>2
<1>3. CASE TakeRequest
  <2>1. Head(queue) \in Request /\ Tail(queue) \in Seq(Request)
    BY <1>t, <1>3, HeadTailProperties DEF TakeRequest, NodeType
  <2>2. Want[Head(queue).client] \in Modes
    BY <2>1, WantType DEF Request
  <2>3. ServiceType'
    BY <1>t, <1>3, <2>2 DEF TakeRequest, Accept, ServiceType
  <2>4. ClientType' /\ NodeType'
    BY <1>t, <1>3, <2>1 DEF TakeRequest, ClientType, NodeType
  <2>. QED BY <1>p, <2>3, <2>4
<1>4. CASE ZeroAll \/ SetMode \/ Poll
  <2>1. ServiceType'
    BY <1>t, <1>4 DEF ZeroAll, SetMode, Poll, Motion, EnterMode, Confirm, ServiceType, Stages
  <2>2. ClientType' /\ NodeType'
    BY <1>t, <1>4 DEF ZeroAll, SetMode, Poll, ClientType, NodeType
  <2>. QED BY <1>p, <2>1, <2>2
<1>5. CASE TimesOut
  <2>1. ServiceType' /\ ClientType'
    BY <1>t, <1>5 DEF TimesOut, Refuse, ServiceType, ClientType
  <2>2. NodeType'
    BY <1>t, <1>5 DEF TimesOut, NodeType
  <2>. QED BY <1>p, <2>1, <2>2
<1>6. CASE Answer
  <2>1. ServiceType' /\ NodeType'
    BY <1>t, <1>6 DEF Answer, Reply, ServiceType, NodeType
  <2>2. ClientType'
    BY <1>t, <1>6 DEF Answer, ClientType
  <2>. QED BY <1>p, <2>1, <2>2
<1>7. CASE Learns
  <2>1. ServiceType' /\ ClientType'
    BY <1>t, <1>7 DEF Learns, Learn, ServiceType, ClientType
  <2>2. NodeType'
    BY <1>t, <1>7 DEF Learns, NodeType
  <2>. QED BY <1>p, <2>1, <2>2
<1>8. CASE UNCHANGED spinVars
  BY <1>t, <1>p, <1>8 DEF spinVars, ServiceType, ClientType, NodeType
<1>. QED BY <1>1, <1>2, <1>3, <1>4, <1>5, <1>6, <1>7, <1>8 DEF SpinNext, Node

-----------------------------------------------------------------------------
(* The node *)

NodeInv == Stages /\ Knows /\ MovesInMode /\ Awake

LEMMA ByClient == ASSUME NEW c \in Clients,
                         ClientStep(c) \/ StatusSeen(c) \/ Again(c) \/ Interrupt(c)
                  PROVE  UNCHANGED <<serviceVars, stage, current, ghosts>>
BY DEF ClientStep, Check, CallTimeout, ModeReady, ReadyTimeout, Recheck, Advance,
       StatusSeen, Again, Interrupt, StartDriving, Fail, Ask, nodeVars

\* Only the kind that belongs to the mode the driver knows passes the gate.
LEMMA GateOpens == ASSUME NEW k \in Kinds, NEW m \in Modes \cup {UNKNOWN}, known = m
                   PROVE  Gate(k) <=> m \in Modes /\ Topic[m] = k
BY UnknownAssumption DEF Gate

LEMMA NextNode == IInv /\ [SpinNext]_spinVars => NodeInv'
<1>. SUFFICES ASSUME IInv, [SpinNext]_spinVars PROVE NodeInv'
  OBVIOUS
<1>t. /\ Stages /\ Knows /\ MovesInMode /\ Awake
      /\ ServiceType /\ NodeType
  BY Types DEF IInv
<1>k. known \in Modes \cup {UNKNOWN} /\ chassis \in Modes /\ UNKNOWN \notin Modes
  BY <1>t, UnknownAssumption DEF ServiceType
<1>. USE DEF NodeInv, serviceVars, nodeVars, ghosts, Stages, Knows, MovesInMode, Awake
<1>1. CASE UNCHANGED <<serviceVars, stage, current, ghosts>>
  BY <1>t, <1>1
<1>2. ASSUME NEW k \in Kinds, TakeCommand(k) PROVE NodeInv'
  <2>1. /\ stage = "idle" /\ UNCHANGED <<handled, answer, known, chassis, stage, current, lag, lapse>>
        /\ moving' = IF ~Gate(k) THEN moving
                     ELSE IF topic[k] = "move" THEN moving \cup {k} ELSE moving \ {k}
    BY <1>2 DEF TakeCommand, Motion
  <2>2. ~Gate(k) \/ ((known \in Modes) /\ Topic[known] = k)
    BY <1>k, GateOpens
  <2>3. MovesInMode'
    BY <1>t, <1>k, <2>1, <2>2
  <2>4. Awake'
    BY <1>t, <1>k, <2>1, <2>2
  <2>. QED BY <1>t, <2>1, <2>3, <2>4
<1>3. CASE TakeRequest
  <2>1. Want[Head(queue).client] \in Modes
    <3>1. Head(queue) \in Request
      BY <1>t, <1>3, HeadTailProperties DEF TakeRequest, NodeType
    <3>. QED BY <3>1, WantType DEF Request
  <2>. QED BY <1>t, <1>3, <2>1 DEF TakeRequest, Accept
<1>4. CASE ZeroAll
  BY <1>t, <1>4 DEF ZeroAll, Motion
<1>5. CASE SetMode
  BY <1>t, <1>5 DEF SetMode, EnterMode
<1>6. CASE Poll
  <2>1. stage = "poll" /\ stage' = "reply" /\ known = handled /\ answer' = "yes"
        /\ UNCHANGED <<handled, known, chassis, moving, current, lag, lapse>>
    BY <1>6 DEF Poll, Confirm
  <2>2. Len(current) = 1
    BY <1>t, <2>1 DEF NodeType
  <2>. QED BY <1>t, <1>k, <2>1, <2>2
<1>7. CASE TimesOut
  <2>1. stage \in {"set", "poll"} /\ stage' = "reply" /\ answer' = "no"
        /\ lag' = (lag \/ known \notin {chassis, UNKNOWN})
        /\ UNCHANGED <<handled, known, chassis, moving, current, lapse>>
    BY <1>7 DEF TimesOut, Refuse
  <2>2. Len(current) = 1
    BY <1>t, <2>1 DEF NodeType
  <2>. QED BY <1>t, <1>k, <2>1, <2>2
<1>8. CASE Answer
  BY <1>t, <1>8 DEF Answer, Reply
<1>9. CASE Learns
  <2>1. PICK m \in {chassis, UNKNOWN} :
              /\ m # known
              /\ known' = m
              /\ lapse' = (lapse \/ (m = UNKNOWN /\ moving # {}))
              /\ UNCHANGED <<handled, answer, chassis, moving, stage, current, lag>>
    BY <1>9 DEF Learns, Learn
  <2>. QED BY <1>t, <1>k, <2>1
<1>10. ASSUME NEW c \in Clients, ClientStep(c) \/ StatusSeen(c) \/ Again(c) \/ Interrupt(c)
       PROVE  NodeInv'
  BY <1>1, <1>10, ByClient
<1>11. CASE UNCHANGED spinVars
  BY <1>1, <1>11 DEF spinVars
<1>. QED BY <1>2, <1>3, <1>4, <1>5, <1>6, <1>7, <1>8, <1>9, <1>10, <1>11
         DEF SpinNext, Node

-----------------------------------------------------------------------------
(* The end of the scripts *)

LEMMA NextSteps == IInv /\ [SpinNext]_spinVars => Steps'
<1>. SUFFICES ASSUME IInv, [SpinNext]_spinVars PROVE Steps'
  OBVIOUS
<1>t. ClientType /\ Steps
  BY Types DEF IInv
<1>. USE DEF clientVars, nodeVars, Goto, Leave, Ended, Steps
<1>1. CASE UNCHANGED <<loc, step>>
  BY <1>t, <1>1
<1>2. ASSUME NEW c \in Clients, NEW l \in {"check", "waiting", "confirm", "recheck", "failed", "killed"},
             loc' = [loc EXCEPT ![c] = l],
             UNCHANGED step \/ step' = [step EXCEPT ![c] = 0]
      PROVE  Steps'
  BY <1>t, <1>2 DEF ClientType
<1>3. ASSUME NEW c \in Clients, StartDriving(c) PROVE Steps'
  BY <1>t, <1>3 DEF StartDriving, Publish, ClientType
<1>4. ASSUME NEW c \in Clients, Advance(c) PROVE Steps'
  <2>1. CASE step[c] < Len(Script)
    BY <1>t, <1>4, <2>1, ScriptValues DEF Advance, Publish, ClientType
  <2>2. CASE ~(step[c] < Len(Script))
    BY <1>t, <1>4, <2>2 DEF Advance, ClientType
  <2>. QED BY <2>1, <2>2
<1>5. ASSUME NEW c \in Clients, Again(c) PROVE Steps'
  BY <1>t, <1>5 DEF Again, Publish, ClientType
<1>6. ASSUME NEW c \in Clients, ClientStep(c) \/ StatusSeen(c) \/ Interrupt(c) PROVE Steps'
  <2>1. CASE CallTimeout(c) \/ ReadyTimeout(c)
    BY <1>2, <2>1 DEF CallTimeout, ReadyTimeout
  <2>2. CASE StatusSeen(c)
    BY <1>1, <2>2 DEF StatusSeen
  <2>3. CASE Interrupt(c)
    BY <1>2, <2>3 DEF Interrupt
  <2>4. ASSUME NEW n, Ask(c, n) PROVE Steps'
    BY <1>2, <2>4 DEF Ask
  <2>5. CASE Fail(c)
    BY <1>2, <2>5 DEF Fail
  <2>. QED BY <1>3, <1>4, <1>6, <2>1, <2>2, <2>3, <2>4, <2>5
           DEF ClientStep, Check, ModeReady, Recheck
<1>7. CASE Answer
  <2>1. UNCHANGED loc \/ \E c \in Clients, l \in {"confirm", "recheck"} :
                           loc' = [loc EXCEPT ![c] = l]
    <3>1. current[1] \in Request
      BY <1>7, Types DEF Answer, IInv, Stages, NodeType
    <3>2. current[1].client \in Clients
      BY <3>1 DEF Request
    <3>. QED BY <1>7, <3>2 DEF Answer
  <2>. QED BY <1>1, <1>2, <1>7, <2>1 DEF Answer
<1>8. CASE TakeRequest \/ ZeroAll \/ SetMode \/ Poll \/ TimesOut \/ Learns
           \/ (\E k \in Kinds : TakeCommand(k)) \/ UNCHANGED spinVars
  BY <1>1, <1>8 DEF TakeRequest, ZeroAll, SetMode, Poll, TimesOut, Learns, TakeCommand,
                    spinVars
<1>. QED BY <1>5, <1>6, <1>7, <1>8 DEF SpinNext, Node

LEMMA NextRest == IInv /\ [SpinNext]_spinVars => Rest'
<1>. SUFFICES ASSUME IInv, [SpinNext]_spinVars, ~lag', ~lapse' PROVE Stopped'
  BY DEF Rest
<1>t. /\ ClientType /\ ServiceType /\ NodeType
      /\ Steps /\ MovesInMode /\ Awake /\ Rest /\ Stages /\ Knows
  BY Types DEF IInv
<1>. USE DEF serviceVars, clientVars, nodeVars, ghosts, Goto, Leave, Ended
<1>r. ~lag /\ ~lapse /\ Stopped
  <2>1. ~lag /\ ~lapse
    <3>1. ASSUME NEW c \in Clients,
                 ClientStep(c) \/ StatusSeen(c) \/ Again(c) \/ Interrupt(c)
          PROVE  UNCHANGED ghosts
      BY <3>1, ByClient
    <3>2. CASE TimesOut
      BY <3>2 DEF TimesOut
    <3>3. CASE Learns
      BY <3>3 DEF Learns
    <3>4. CASE TakeRequest \/ ZeroAll \/ SetMode \/ Poll
      BY <3>4 DEF TakeRequest, ZeroAll, SetMode, Poll
    <3>5. CASE Answer
      BY <3>5 DEF Answer
    <3>6. CASE \E k \in Kinds : TakeCommand(k)
      BY <3>6 DEF TakeCommand
    <3>7. CASE UNCHANGED spinVars
      BY <3>7 DEF spinVars
    <3>. QED BY <3>1, <3>2, <3>3, <3>4, <3>5, <3>6, <3>7 DEF SpinNext, Node
  <2>. QED BY <1>t, <2>1 DEF Rest
\* Nobody stops to be a driver.
<1>1. ASSUME NEW k \in Kinds,
             \A c \in Clients : loc'[c] = loc[c] /\ step'[c] = step[c]
      PROVE  Driver(k) => Driver(k)'
  BY <1>1 DEF Driver
<1>2. CASE UNCHANGED <<loc, step, topic>> /\ moving' \subseteq moving
  BY <1>r, <1>1, <1>2 DEF Stopped
<1>3. ASSUME NEW k \in Kinds, TakeCommand(k) PROVE Stopped'
  <2>1. /\ topic[k] # "none" /\ topic' = [topic EXCEPT ![k] = "none"]
        /\ moving' = IF ~Gate(k) THEN moving
                     ELSE IF topic[k] = "move" THEN moving \cup {k} ELSE moving \ {k}
        /\ stage = "idle"
        /\ UNCHANGED <<loc, step>>
    BY <1>3 DEF TakeCommand, Motion
  <2>2. ASSUME NEW j \in Kinds, j # k
        PROVE  topic'[j] = topic[j] /\ (j \in moving' <=> j \in moving)
    BY <1>t, <2>1, <2>2 DEF ClientType
  <2>3. CASE topic[k] = "zero"
    <3>1. topic'[k] = "none"
      BY <1>t, <2>1 DEF ClientType
    <3>2. k \notin moving'
      <4>1. CASE k \notin moving
        BY <2>1, <2>3, <4>1
      <4>2. CASE k \in moving
        <5>1. known = chassis /\ k = Topic[chassis]
          BY <1>t, <1>r, <4>2 DEF Awake, MovesInMode
        <5>2. Gate(k)
          BY <1>t, <5>1, GateOpens DEF ServiceType
        <5>. QED BY <2>1, <2>3, <5>2
      <4>. QED BY <4>1, <4>2
    <3>. QED BY <1>r, <1>1, <2>1, <2>2, <3>1, <3>2 DEF Stopped
  <2>4. CASE topic[k] = "move"
    <3>1. Driver(k)
      BY <1>r, <2>4 DEF Stopped
    <3>. QED BY <1>r, <1>1, <2>1, <2>2, <3>1 DEF Stopped
  <2>. QED BY <1>t, <2>1, <2>3, <2>4 DEF ClientType
\* A client that publishes: its kind is stopped by a zero, or it drives.
<1>4. ASSUME NEW c \in Clients, NEW n \in 1 .. 5, Publish(c, n), UNCHANGED moving,
             loc' = [loc EXCEPT ![c] = "drive"],
             loc[c] # "killed"
      PROVE  Stopped'
  <2>. DEFINE k == Topic[Want[c]]
  <2>0. k \in Kinds
    BY WantType
  <2>1. step' = [step EXCEPT ![c] = n] /\ topic' = [topic EXCEPT ![k] = Script[n]]
    BY <1>4 DEF Publish
  <2>2. topic'[k] = "zero" \/ Driver(k)'
    <3>1. CASE n = 5
      BY <1>t, <2>0, <2>1, <3>1, ScriptValues DEF ClientType
    <3>2. CASE n < 5
      BY <1>t, <1>4, <2>1, <3>2 DEF ClientType, Driver
    <3>. QED BY <3>1, <3>2
  <2>3. ASSUME NEW j \in Kinds, j # k, Driver(j) PROVE Driver(j)'
    <3>1. PICK b \in Clients : /\ Topic[Want[b]] = j
                               /\ loc[b] = "killed" \/ (loc[b] = "drive" /\ step[b] < 5)
      BY <2>3 DEF Driver
    <3>2. b # c
      BY <2>3, <3>1
    <3>. QED BY <1>t, <1>4, <2>1, <3>1, <3>2 DEF Driver, ClientType
  <2>4. \A j \in Kinds : j # k => topic'[j] = topic[j]
    BY <1>t, <2>1 DEF ClientType
  <2>. HIDE DEF k
  <2>. QED BY <1>r, <1>4, <2>2, <2>3, <2>4 DEF Stopped
\* A client that was no driver moves on.
<1>5. ASSUME NEW c \in Clients, NEW l, loc' = [loc EXCEPT ![c] = l],
             UNCHANGED <<topic, moving>>,
             loc[c] # "killed",
             loc[c] = "drive" => ~(step[c] < 5),
             \A b \in Clients : b # c => step'[b] = step[b]
      PROVE  Stopped'
  <2>1. ASSUME NEW k \in Kinds, Driver(k) PROVE Driver(k)'
    <3>1. PICK b \in Clients : /\ Topic[Want[b]] = k
                               /\ loc[b] = "killed" \/ (loc[b] = "drive" /\ step[b] < 5)
      BY <2>1 DEF Driver
    <3>2. b # c
      BY <1>5, <3>1
    <3>. QED BY <1>t, <1>5, <3>1, <3>2 DEF Driver, ClientType
  <2>. QED BY <1>r, <1>5, <2>1 DEF Stopped
<1>6. ASSUME NEW c \in Clients, Interrupt(c) PROVE Stopped'
  <2>1. ASSUME NEW k \in Kinds, Driver(k) PROVE Driver(k)'
    <3>1. PICK b \in Clients : /\ Topic[Want[b]] = k
                               /\ loc[b] = "killed" \/ (loc[b] = "drive" /\ step[b] < 5)
      BY <2>1 DEF Driver
    <3>2. loc'[b] = "killed" \/ (loc'[b] = "drive" /\ step'[b] < 5)
      BY <1>t, <1>6, <3>1 DEF Interrupt, ClientType
    <3>. QED BY <3>1, <3>2 DEF Driver
  <2>. QED BY <1>r, <1>6, <2>1 DEF Interrupt, Stopped
<1>7. ASSUME NEW c \in Clients, ClientStep(c) PROVE Stopped'
  <2>1. ASSUME StartDriving(c), loc[c] \in {"check", "confirm", "recheck"}, UNCHANGED moving
        PROVE  Stopped'
    <3>1. Publish(c, 1) /\ loc' = [loc EXCEPT ![c] = "drive"]
      BY <2>1 DEF StartDriving
    <3>2. 1 \in 1 .. 5 /\ loc[c] # "killed"
      BY <2>1
    <3>. QED BY <1>4, <2>1, <3>1, <3>2
  <2>2. ASSUME NEW n, Ask(c, n) \/ Fail(c), loc[c] \in {"check", "recheck"}, UNCHANGED moving
        PROVE  Stopped'
    BY <1>5, <2>2 DEF Ask, Fail
  <2>3. CASE Check(c) \/ ModeReady(c) \/ Recheck(c)
    BY <2>1, <2>2, <2>3 DEF Check, ModeReady, Recheck
  <2>4. CASE CallTimeout(c) \/ ReadyTimeout(c)
    BY <1>5, <2>4 DEF CallTimeout, ReadyTimeout
  <2>5. CASE Advance(c)
    <3>1. loc[c] = "drive" /\ step[c] \in 1 .. 5 /\ UNCHANGED moving
      BY <1>t, <2>5 DEF Advance, Steps
    <3>2. CASE step[c] < Len(Script)
      <4>1. step[c] + 1 \in 1 .. 5 /\ Publish(c, step[c] + 1) /\ loc' = loc
        BY <2>5, <3>1, <3>2, ScriptValues DEF Advance
      <4>2. loc' = [loc EXCEPT ![c] = "drive"]
        BY <1>t, <3>1, <4>1 DEF ClientType
      <4>. QED BY <1>4, <3>1, <4>1, <4>2
    <3>3. CASE ~(step[c] < Len(Script))
      <4>1. /\ loc' = [loc EXCEPT ![c] = "done"] /\ step' = [step EXCEPT ![c] = 0]
            /\ UNCHANGED <<topic, moving>>
        BY <2>5, <3>3 DEF Advance
      <4>2. \A b \in Clients : b # c => step'[b] = step[b]
        BY <1>t, <4>1 DEF ClientType
      <4>3. ~(step[c] < 5)
        BY <3>3, ScriptValues
      <4>. QED BY <1>5, <3>1, <4>1, <4>2, <4>3
    <3>. QED BY <3>2, <3>3
  <2>. QED BY <1>7, <2>3, <2>4, <2>5 DEF ClientStep
<1>8. ASSUME NEW c \in Clients, Again(c) PROVE Stopped'
  <2>1. loc[c] = "drive" /\ step[c] \in 1 .. 5 /\ Publish(c, step[c]) /\ UNCHANGED <<loc, moving>>
    BY <1>t, <1>8 DEF Again, Steps
  <2>2. loc' = [loc EXCEPT ![c] = "drive"]
    BY <1>t, <2>1 DEF ClientType
  <2>. QED BY <1>4, <2>1, <2>2
<1>9. CASE Answer
  <2>1. UNCHANGED <<step, topic, moving>>
    BY <1>9 DEF Answer, Reply
  <2>2. CASE UNCHANGED loc
    BY <1>2, <2>1, <2>2
  <2>3. CASE ~ UNCHANGED loc
    <3>1. current[1] \in Request
      BY <1>t, <1>9 DEF Answer, Stages, NodeType
    <3>. DEFINE c == current[1].client
    <3>2. c \in Clients /\ loc[c] = "waiting"
      BY <1>9, <2>3, <3>1 DEF Answer, Request
    <3>3. \E l : loc' = [loc EXCEPT ![c] = l]
      BY <1>9, <2>3 DEF Answer
    <3>. HIDE DEF c
    <3>. QED BY <1>5, <2>1, <3>2, <3>3
  <2>. QED BY <2>2, <2>3
<1>10. CASE TakeRequest \/ ZeroAll \/ SetMode \/ Poll \/ TimesOut \/ Learns \/ UNCHANGED spinVars
  BY <1>2, <1>10 DEF TakeRequest, Accept, ZeroAll, Motion, SetMode, EnterMode, Poll,
                     Confirm, TimesOut, Refuse, Learns, Learn, spinVars
<1>11. ASSUME NEW c \in Clients, StatusSeen(c) PROVE Stopped'
  BY <1>2, <1>11 DEF StatusSeen
<1>. QED BY <1>3, <1>6, <1>7, <1>8, <1>9, <1>10, <1>11 DEF SpinNext, Node

LEMMA Inductive == SpinSpec => []IInv
<1>1. IInv /\ [SpinNext]_spinVars => IInv'
  BY NextType, NextNode, NextSteps, NextRest DEF IInv, NodeInv
<1>. QED BY <1>1, InitIInv, PTL DEF SpinSpec

-----------------------------------------------------------------------------
\* The variables of the clients and of the node keep their types.
THEOREM TypeCorrect == SpinSpec => []TypeOK
<1>1. IInv => TypeOK
  BY DEF IInv
<1>. QED BY <1>1, Inductive, PTL

\* However many clients ask for modes, give up and ask again, the base moves
\* only as its mode allows (setControlModeCallback, wheelMitCallback).
THEOREM MotionFitsMode == SpinSpec => []MovesInMode
<1>1. IInv => MovesInMode
  BY DEF IInv
<1>. QED BY <1>1, Inductive, PTL

\* When every client has run its script or failed, the base is at rest
\* (publish_for, run_speed, run_mit).
THEOREM AtRestInTheEnd == SpinSpec => []EndsAtRest
<1>1. IInv => EndsAtRest
  <2>. SUFFICES ASSUME IInv, AllEnded, Drained, ~lag, ~lapse PROVE moving = {}
    BY DEF EndsAtRest
  <2>1. Stopped /\ moving \subseteq Kinds
    BY Types DEF IInv, Rest, ServiceType
  <2>2. \A k \in Kinds : ~Driver(k)
    BY DEF AllEnded, Driver
  <2>3. \A k \in Kinds : topic[k] = "none"
    BY DEF Drained
  <2>. QED BY <2>1, <2>2, <2>3 DEF Stopped
<1>. QED BY <1>1, Inductive, PTL
-----------------------------------------------------------------------------
(* How long a client lasts *)

\* StepsLeft as a function of what a client is at.
Distance(l, a, s) ==
    LET place == [check |-> 1 + 3 * Retry,
                  waiting |-> 3 + 3 * (Retry - a),
                  confirm |-> 2 + 3 * (Retry - a),
                  recheck |-> 1 + 3 * (Retry - a),
                  drive |-> 1 - s, done |-> 0, failed |-> 0, killed |-> 0]
    IN  place[l] + IF l \in Ended THEN 0 ELSE Len(Script)

LEMMA DistanceValues ==
    ASSUME NEW a \in 1 .. Retry, NEW s \in 0 .. 5
    PROVE  /\ Distance("check", a, s) = 6 + 3 * Retry
           /\ Distance("waiting", a, s) = 8 + 3 * (Retry - a)
           /\ Distance("confirm", a, s) = 7 + 3 * (Retry - a)
           /\ Distance("recheck", a, s) = 6 + 3 * (Retry - a)
           /\ Distance("drive", a, s) = 6 - s
           /\ \A l \in Ended : Distance(l, a, s) = 0
<1>1. Retry \in Nat /\ a \in Nat /\ s \in Nat /\ Len(Script) = 5
  BY ClientsAssumption, ScriptValues
<1>2. PICK r \in Nat : r = Retry - a
  BY <1>1
<1>3. /\ Distance("check", a, s) = 1 + 3 * Retry + 5
      /\ Distance("waiting", a, s) = 3 + 3 * (Retry - a) + 5
      /\ Distance("confirm", a, s) = 2 + 3 * (Retry - a) + 5
      /\ Distance("recheck", a, s) = 1 + 3 * (Retry - a) + 5
      /\ Distance("drive", a, s) = 1 - s + 5
  BY <1>1 DEF Distance, Ended
<1>4. \A l \in Ended : Distance(l, a, s) = 0 + 0
  BY <1>1 DEF Distance, Ended
<1>. QED BY <1>1, <1>2, <1>3, <1>4

\* The ways a client may go on.
Proceeds(l, a, s, m, b, t) ==
    \/ l = "check" /\ m = "waiting" /\ b = 1
    \/ l = "waiting" /\ m \in {"confirm", "recheck"} /\ b = a
    \/ l = "confirm" /\ m = "recheck" /\ b = a
    \/ l = "recheck" /\ m = "waiting" /\ b = a + 1
    \/ l \in {"check", "confirm", "recheck"} /\ m = "drive" /\ t = 1
    \/ l = "drive" /\ m = "drive" /\ t = s + 1
    \/ l \notin Ended /\ m \in Ended

LEMMA DistanceType ==
    ASSUME NEW l \in {"check", "waiting", "confirm", "recheck", "drive"} \cup Ended,
           NEW a \in 1 .. Retry, NEW s \in 0 .. 5, l = "drive" => s \in 1 .. 5
    PROVE  Distance(l, a, s) \in Nat /\ (l \notin Ended => Distance(l, a, s) > 0)
<1>1. Retry \in Nat /\ a \in Nat /\ s \in Nat
  BY ClientsAssumption
<1>2. PICK r \in Nat : r = Retry - a
  BY <1>1
<1>3. CASE l \in Ended
  <2>1. Distance(l, a, s) = 0
    BY <1>3, DistanceValues
  <2>. QED BY <1>3, <2>1
<1>4. CASE l = "drive"
  <2>1. Distance(l, a, s) = 6 - s /\ s <= 5
    BY <1>4, DistanceValues
  <2>. QED BY <1>1, <2>1
<1>5. CASE l = "check"
  <2>1. Distance(l, a, s) = 6 + 3 * Retry
    BY <1>5, DistanceValues
  <2>. QED BY <1>1, <2>1
<1>6. CASE l \in {"waiting", "confirm", "recheck"}
  <2>1. Distance(l, a, s) \in {8 + 3 * (Retry - a), 7 + 3 * (Retry - a), 6 + 3 * (Retry - a)}
    BY <1>6, DistanceValues
  <2>2. Distance(l, a, s) \in {8 + 3 * r, 7 + 3 * r, 6 + 3 * r}
    BY <1>2, <2>1
  <2>. QED BY <1>2, <2>2
<1>. QED BY <1>3, <1>4, <1>5, <1>6

\* Each of them takes it nearer to its end.
LEMMA ProceedsCountsDown ==
    ASSUME NEW l \in {"check", "waiting", "confirm", "recheck", "drive"} \cup Ended,
           NEW m \in {"check", "waiting", "confirm", "recheck", "drive"} \cup Ended,
           NEW a \in 1 .. Retry, NEW b \in 1 .. Retry, NEW s \in 0 .. 5, NEW t \in 0 .. 5,
           l = "drive" => s \in 1 .. 5,
           m = "drive" => t \in 1 .. 5,
           Proceeds(l, a, s, m, b, t)
    PROVE  /\ Distance(m, b, t) \in 0 .. Distance(l, a, s)
           /\ Distance(m, b, t) < Distance(l, a, s)
<1>1. Retry \in Nat /\ a \in Nat /\ b \in Nat /\ s \in Nat /\ t \in Nat
  BY ClientsAssumption
<1>2. PICK x \in Nat : x = Distance(l, a, s)
  BY DistanceType
<1>3. PICK y \in Nat : y = Distance(m, b, t)
  BY DistanceType
<1>4. SUFFICES y < x
  BY <1>2, <1>3
<1>5. PICK r \in Nat : r = Retry - a
  BY <1>1
<1>6. CASE l = "check" /\ m = "waiting" /\ b = 1
  <2>1. x = 6 + 3 * Retry /\ y = 8 + 3 * (Retry - 1)
    BY <1>2, <1>3, <1>6, DistanceValues
  <2>. QED BY <1>1, <2>1
<1>7. CASE l = "waiting" /\ m \in {"confirm", "recheck"} /\ b = a
  <2>1. x = 8 + 3 * r /\ y \in {7 + 3 * r, 6 + 3 * r}
    BY <1>2, <1>3, <1>5, <1>7, DistanceValues
  <2>. QED BY <1>5, <2>1
<1>8. CASE l = "confirm" /\ m = "recheck" /\ b = a
  <2>1. x = 7 + 3 * r /\ y = 6 + 3 * r
    BY <1>2, <1>3, <1>5, <1>8, DistanceValues
  <2>. QED BY <1>5, <2>1
<1>9. CASE l = "recheck" /\ m = "waiting" /\ b = a + 1
  <2>1. x = 6 + 3 * (Retry - a) /\ y = 8 + 3 * (Retry - (a + 1))
    BY <1>2, <1>3, <1>9, DistanceValues
  <2>. QED BY <1>1, <2>1
<1>10. CASE l \in {"check", "confirm", "recheck"} /\ m = "drive" /\ t = 1
  <2>1. x \in {6 + 3 * Retry, 7 + 3 * r, 6 + 3 * r}
    BY <1>2, <1>5, <1>10, DistanceValues
  <2>2. y = 6 - 1
    BY <1>3, <1>10, DistanceValues
  <2>. QED BY <1>1, <1>5, <2>1, <2>2
<1>11. CASE l = "drive" /\ m = "drive" /\ t = s + 1
  <2>1. x = 6 - s /\ y = 6 - (s + 1)
    BY <1>2, <1>3, <1>11, DistanceValues
  <2>. QED BY <1>1, <2>1
<1>12. CASE l \notin Ended /\ m \in Ended
  <2>1. y = 0
    BY <1>3, <1>12, DistanceValues
  <2>2. x > 0
    BY <1>2, <1>12, DistanceType
  <2>. QED BY <2>1, <2>2
<1>. QED BY <1>6, <1>7, <1>8, <1>9, <1>10, <1>11, <1>12 DEF Proceeds

Proceeded(c) == Proceeds(loc[c], attempt[c], step[c], loc'[c], attempt'[c], step'[c])
Stayed(c) == loc'[c] = loc[c] /\ attempt'[c] = attempt[c] /\ step'[c] = step[c]

LEMMA OwnStep == ASSUME ClientType, Steps, NEW c \in Clients, ClientStep(c)
                 PROVE  Proceeded(c)
<1>. USE DEF Goto, Leave, Ended
<1>1. ASSUME StartDriving(c), loc[c] \in {"check", "confirm", "recheck"}
      PROVE  Proceeded(c)
  <2>1. loc'[c] = "drive" /\ step'[c] = 1
    BY <1>1 DEF StartDriving, Publish, ClientType
  <2>. QED BY <1>1, <2>1 DEF Proceeded, Proceeds
<1>2. ASSUME Fail(c), loc[c] \in {"check", "recheck"} PROVE Proceeded(c)
  <2>1. loc'[c] = "failed"
    BY <1>2 DEF Fail, ClientType
  <2>. QED BY <1>2, <2>1 DEF Proceeded, Proceeds
<1>3. ASSUME NEW n, Ask(c, n) PROVE loc'[c] = "waiting" /\ attempt'[c] = n
  BY <1>3 DEF Ask, ClientType
<1>4. CASE Check(c)
  <2>1. CASE Ask(c, 1)
    BY <1>3, <1>4, <2>1 DEF Check, Proceeded, Proceeds
  <2>. QED BY <1>1, <1>2, <1>4, <2>1 DEF Check
<1>5. CASE Recheck(c)
  <2>1. CASE Ask(c, attempt[c] + 1)
    BY <1>3, <1>5, <2>1 DEF Recheck, Proceeded, Proceeds
  <2>. QED BY <1>1, <1>2, <1>5, <2>1 DEF Recheck
<1>6. CASE ModeReady(c)
  BY <1>1, <1>6 DEF ModeReady
<1>7. CASE CallTimeout(c) \/ ReadyTimeout(c)
  <2>1. loc[c] \in {"waiting", "confirm"} /\ loc'[c] = "recheck" /\ attempt'[c] = attempt[c]
    BY <1>7 DEF CallTimeout, ReadyTimeout, ClientType
  <2>. QED BY <2>1 DEF Proceeded, Proceeds
<1>8. CASE Advance(c)
  <2>1. loc[c] = "drive"
    BY <1>8 DEF Advance
  <2>2. CASE Publish(c, step[c] + 1) /\ UNCHANGED loc
    <3>1. loc'[c] = "drive" /\ step'[c] = step[c] + 1
      BY <2>1, <2>2 DEF Publish, ClientType
    <3>. QED BY <2>1, <3>1 DEF Proceeded, Proceeds
  <2>3. CASE Goto(c, "done")
    <3>1. loc'[c] = "done"
      BY <2>3 DEF ClientType
    <3>. QED BY <2>1, <3>1 DEF Proceeded, Proceeds
  <2>. QED BY <1>8, <2>2, <2>3 DEF Advance
<1>. QED BY <1>4, <1>5, <1>6, <1>7, <1>8 DEF ClientStep

LEMMA AnyStep == ASSUME IInv, [SpinNext]_spinVars, NEW c \in Clients, loc[c] \notin Ended
                 PROVE  Stayed(c) \/ Proceeded(c)
<1>t. ClientType /\ NodeType /\ Stages /\ Steps
  BY Types DEF IInv
<1>. USE DEF clientVars, nodeVars, Goto, Leave
<1>1. CASE UNCHANGED <<loc, attempt, step>>
  BY <1>1 DEF Stayed
<1>2. CASE ClientStep(c)
  BY <1>t, <1>2, OwnStep
<1>3. ASSUME NEW d \in Clients, d # c, ClientStep(d) \/ Again(d) \/ Interrupt(d)
      PROVE  Stayed(c)
  <2>1. ASSUME NEW f, NEW g, NEW v, DOMAIN f = Clients, g = [f EXCEPT ![d] = v] \/ g = f
        PROVE  g[c] = f[c]
    BY <1>3, <2>1
  <2>2. \/ UNCHANGED loc
        \/ \E v : loc' = [loc EXCEPT ![d] = v]
    BY <1>3 DEF ClientStep, Check, CallTimeout, ModeReady, ReadyTimeout, Recheck, Advance,
                Again, Interrupt, StartDriving, Fail, Ask
  <2>3. \/ UNCHANGED attempt
        \/ \E v : attempt' = [attempt EXCEPT ![d] = v]
    BY <1>3 DEF ClientStep, Check, CallTimeout, ModeReady, ReadyTimeout, Recheck, Advance,
                Again, Interrupt, StartDriving, Fail, Ask
  <2>4. \/ UNCHANGED step
        \/ \E v : step' = [step EXCEPT ![d] = v]
    BY <1>3 DEF ClientStep, Check, CallTimeout, ModeReady, ReadyTimeout, Recheck, Advance,
                Again, Interrupt, StartDriving, Fail, Ask, Publish
  <2>5. DOMAIN loc = Clients /\ DOMAIN attempt = Clients /\ DOMAIN step = Clients
    BY <1>t DEF ClientType
  <2>. QED BY <1>3, <2>2, <2>3, <2>4, <2>5 DEF Stayed
<1>4. CASE Again(c)
  BY <1>t, <1>4 DEF Again, Publish, Stayed, ClientType
<1>5. CASE Interrupt(c)
  <2>1. loc'[c] = "killed"
    BY <1>t, <1>5 DEF Interrupt, ClientType
  <2>. QED BY <2>1 DEF Proceeded, Proceeds, Ended
<1>6. ASSUME NEW d \in Clients, StatusSeen(d) PROVE Stayed(c)
  BY <1>6 DEF StatusSeen, Stayed
<1>7. CASE Answer
  <2>1. UNCHANGED <<attempt, step>>
    BY <1>7 DEF Answer
  <2>2. CASE UNCHANGED loc
    BY <1>1, <2>1, <2>2
  <2>3. CASE ~ UNCHANGED loc
    <3>. DEFINE d == current[1].client
    <3>1. loc[d] = "waiting" /\ \E l \in {"confirm", "recheck"} : loc' = [loc EXCEPT ![d] = l]
      BY <1>7, <2>3 DEF Answer
    <3>. HIDE DEF d
    <3>2. CASE d = c
      BY <1>t, <2>1, <3>1, <3>2 DEF Proceeded, Proceeds, ClientType
    <3>3. CASE d # c
      BY <1>t, <2>1, <3>1, <3>3 DEF Stayed, ClientType
    <3>. QED BY <3>2, <3>3
  <2>. QED BY <2>2, <2>3
<1>8. CASE TakeRequest \/ ZeroAll \/ SetMode \/ Poll \/ TimesOut \/ Learns
           \/ (\E k \in Kinds : TakeCommand(k)) \/ UNCHANGED spinVars
  BY <1>1, <1>8 DEF TakeRequest, ZeroAll, SetMode, Poll, TimesOut, Learns, TakeCommand,
                    spinVars
<1>. QED BY <1>2, <1>3, <1>4, <1>5, <1>6, <1>7, <1>8 DEF SpinNext, Node

LEMMA NextCountsDown ==
    ASSUME IInv, [SpinNext]_spinVars, NEW c \in Clients, loc[c] \notin Ended
    PROVE  /\ StepsLeft(c)' \in 0 .. StepsLeft(c)
           /\ ClientStep(c) => StepsLeft(c)' < StepsLeft(c)
<1>. DEFINE x == Distance(loc[c], attempt[c], step[c])
            y == Distance(loc'[c], attempt'[c], step'[c])
<1>1. StepsLeft(c) = x /\ StepsLeft(c)' = y
  BY DEF StepsLeft, Distance
<1>2. ClientType /\ Steps /\ TypeOK' /\ Steps'
  BY Types, NextType, NextSteps DEF IInv
<1>3. /\ loc[c] \in {"check", "waiting", "confirm", "recheck", "drive"} \cup Ended
      /\ attempt[c] \in 1 .. Retry
      /\ step[c] \in 0 .. 5
      /\ loc[c] = "drive" => step[c] \in 1 .. 5
  BY <1>2 DEF ClientType, Steps
<1>4. /\ loc'[c] \in {"check", "waiting", "confirm", "recheck", "drive"} \cup Ended
      /\ attempt'[c] \in 1 .. Retry
      /\ step'[c] \in 0 .. 5
      /\ loc'[c] = "drive" => step'[c] \in 1 .. 5
  BY <1>2, ScriptValues DEF TypeOK, Steps
<1>5. CASE Proceeded(c)
  <2>1. y \in 0 .. x /\ y < x
    BY <1>3, <1>4, <1>5, ProceedsCountsDown DEF Proceeded
  <2>. QED BY <1>1, <2>1
<1>6. CASE Stayed(c)
  <2>1. x \in Nat /\ y = x
    BY <1>3, <1>6, DistanceType DEF Stayed
  <2>2. ~Proceeded(c) => ~ClientStep(c)
    BY <1>2, OwnStep
  <2>3. y \in 0 .. x
    <3>. HIDE DEF x, y
    <3>. QED BY <2>1
  <2>. QED BY <1>1, <1>5, <2>2, <2>3
<1>. QED BY <1>5, <1>6, AnyStep

\* However late the node answers and whatever it answers, to whichever of a
\* client's attempts, and whatever other clients do meanwhile, a client ends
\* after a number of steps that is known when it begins (ensure_mode_ready,
\* call_set_mode, publish_for).
THEOREM ClientsAreBounded == SpinSpec => StepsCountDown
<1>1. IInv /\ [SpinNext]_spinVars =>
         [\A c \in Clients : loc[c] \notin Ended =>
             /\ StepsLeft(c)' \in 0 .. StepsLeft(c)
             /\ ClientStep(c) => StepsLeft(c)' < StepsLeft(c)]_spinVars
  BY NextCountsDown
<1>. QED BY <1>1, Inductive, PTL DEF SpinSpec, StepsCountDown
=============================================================================
