--------------------------- MODULE DynControl_proof ---------------------------
(* Proofs about DynControl, for every number of motors, rounds, polls and    *)
(* lost packets: its type invariant, that the unlocked assignment of         *)
(* current_mode_ does no lasting harm, and that a response that confirms a   *)
(* switch describes the requested mode.                                      *)
EXTENDS DynControl, SequenceTheorems, TLAPS

USE DEF At

SaveStages == {"param_set", "param_save", "verify", "reset"}

\* What the locals of the executor thread are at each of its locations.
Busy == {"zero", "set_failed", "mark", "poll", "matched"} \cup SaveStages

Locals ==
    /\ epc \in Busy => req.mode \in Modes
    /\ epc \in {"matched"} \cup SaveStages =>
          res.chassis = res.mode /\ res.dm = res.mode /\ res.ready = TRUE
    /\ epc \in SaveStages => res.success = TRUE /\ res.message = "confirmed"
    /\ epc \in {"matched", "ctor", "idle", "zero", "set_failed", "mark", "poll"} \cup Kinds
          => res.message = "none"

IInv == TypeOK /\ CurrentModeAgrees /\ Locals /\ ConfirmedConsistent

-----------------------------------------------------------------------------
LEMMA DerivedType == TypeOK => Derived \in Modes \cup {UNKNOWN} /\ Derived # SWITCHING
BY DEF TypeOK, Derived, chassisModeToCurrentMode, Modes, UNKNOWN, SWITCHING

\* The mode the cache was found ready for is the mode it determines.
LEMMA ReadyDerived == ASSUME TypeOK, NEW m \in Modes, isModeReady(m)
                      PROVE  Derived = m
BY DEF isModeReady, Derived, chassisModeToCurrentMode

LEMMA AnswerType ==
    ASSUME TypeOK, NEW s \in BOOLEAN, NEW m \in Messages
    PROVE  Answer(s, m) \in Response
BY DEF TypeOK, Answer, Response, Cache, getReportedPcControlMode, Modes

LEMMA KindsType == /\ Kinds \subseteq {"cmd_vel", "dm_speed", "dm_mit"}
                   /\ Len(ZeroOrder) \in Nat \ {0}
                   /\ Zeros \in Nat
<1>1. ZeroOrder \in Seq({"cmd_vel", "dm_speed", "dm_mit"}) /\ ZeroOrder # << >>
  BY ClientAssumption
<1>2. Kinds \subseteq {"cmd_vel", "dm_speed", "dm_mit"}
  <2>1. ASSUME NEW j \in DOMAIN ZeroOrder
        PROVE  ZeroOrder[j] \in {"cmd_vel", "dm_speed", "dm_mit"}
    <3>1. j \in 1..Len(ZeroOrder)
      BY <1>1, LenProperties
    <3>. QED BY <1>1, <3>1, ElementOfSeq
  <2>. QED BY <2>1 DEF Kinds
<1>3. Len(ZeroOrder) \in Nat \ {0}
  BY <1>1, EmptySeq, LenProperties
<1>4. Zeros \in Nat
  BY <1>3, CountAssumption DEF Zeros
<1>. QED BY <1>2, <1>3, <1>4

\* The zero packet of each turn is a packet.
LEMMA ZeroPacket ==
    ASSUME NEW j \in Nat
    PROVE  [kind |-> ZeroOrder[1 + (j % Len(ZeroOrder))], arg |-> "zero"] \in Packet
<1>1. 1 + (j % Len(ZeroOrder)) \in 1..Len(ZeroOrder)
  BY KindsType
<1>2. DOMAIN ZeroOrder = 1..Len(ZeroOrder)
  BY ClientAssumption, LenProperties
<1>3. ZeroOrder[1 + (j % Len(ZeroOrder))] \in Kinds
  BY <1>1, <1>2 DEF Kinds
<1>. QED BY <1>3 DEF Packet

\* The part of the state that the link and the ghosts make up.
LinkType == /\ toDev \in Seq(Packet)
            /\ toHost \in Seq(Status)
            /\ conn \in {"up", "opening", "thrown"}
            /\ drops \in 0..MaxDrop
            /\ disturbed \in BOOLEAN
            /\ present \in BOOLEAN

LEMMA FailType == ASSUME LinkType, SendFails PROVE LinkType'
BY CountAssumption DEF SendFails, LinkType

LEMMA SendType == ASSUME LinkType, NEW p \in Packet, SendOk(p) \/ SendFails
                  PROVE  LinkType'
<1>1. CASE SendOk(p)
  <2>1. toDev' \in Seq(Packet)
    BY <1>1, AppendProperties DEF SendOk, LinkType
  <2>. QED BY <1>1, <2>1 DEF SendOk, LinkType, ghosts
<1>. QED BY <1>1, FailType

\* open() changes nothing but the state of the link.
LEMMA OpenLeaves ==
    ASSUME Reopened \/ OpenThrows
    PROVE  /\ UNCHANGED <<executor, rpc, modeVars, toDev, toHost, base, disturbed, present>>
           /\ LinkType => LinkType'
           /\ drops' = drops \/ (drops' = drops + 1 /\ drops < MaxDrop)
BY CountAssumption DEF Reopened, OpenThrows, ghosts, LinkType

-----------------------------------------------------------------------------
LEMMA InitIInv == Init => IInv
<1>. SUFFICES ASSUME Init PROVE IInv
  OBVIOUS
<1>1. TypeOK
  <2>1. toDev \in Seq(Packet) /\ toHost \in Seq(Status)
    BY EmptySeq DEF Init
  <2>2. res \in Response /\ req \in [mode : Modes \cup {UNKNOWN}, save : BOOLEAN]
    BY DEF Init, NoRes, NoReq, Response, Messages
  <2>3. mode_cache_ \in Cache
    BY DEF Init, Cache, MotorModes
  <2>4. dev \in [chassis : ChassisModes, dm : DmModes, motor : [Motors -> MotorModes]]
    BY DEF Init, ChassisModes, DmModes, MotorModes
  <2>5. disturbed \in BOOLEAN /\ present \in BOOLEAN
    BY Zenon DEF Init
  <2>6. /\ epc \in Locations /\ i \in 0..Zeros /\ polls \in Nat
        /\ rpc \in {"idle", "write"} /\ drops \in 0..MaxDrop
        /\ conn \in {"up", "opening", "thrown"}
        /\ current_mode_ \in Modes \cup {UNKNOWN, SWITCHING}
        /\ param_pc_control_mode_ \in Modes \cup {UNKNOWN}
        /\ moving \subseteq Kinds
    BY KindsType, CountAssumption DEF Init, Locations
  <2>. QED BY <2>1, <2>2, <2>3, <2>4, <2>5, <2>6 DEF TypeOK
<1>2. CurrentModeAgrees
  BY DEF Init, CurrentModeAgrees, Derived
<1>3. Locals
  BY DEF Init, Locals, Busy, SaveStages, NoRes
<1>4. ConfirmedConsistent
  BY DEF Init, ConfirmedConsistent, NoRes
<1>. QED BY <1>1, <1>2, <1>3, <1>4 DEF IInv

LEMMA NextTypeOK == IInv /\ [Next]_vars => TypeOK'
<1>. SUFFICES ASSUME IInv, [Next]_vars PROVE TypeOK'
  OBVIOUS
<1>t. TypeOK /\ LinkType
  BY DEF IInv, TypeOK, LinkType
<1>k. Kinds \subseteq {"cmd_vel", "dm_speed", "dm_mit"}
  BY KindsType
<1>. USE DEF executor, modeVars, link, base, ghosts, Goto
<1>1. CASE Clients
  <2>1. ASSUME NEW k \in Kinds, CommandCallback(k) PROVE TypeOK'
    BY <1>t, <2>1 DEF CommandCallback, TypeOK, Locations
  <2>2. CASE RequestUnsupported
    <3>1. res' \in Response
      BY <1>t, <2>2, AnswerType DEF RequestUnsupported, Messages
    <3>. QED BY <1>t, <2>2, <3>1 DEF RequestUnsupported, TypeOK, Locations
  <2>3. ASSUME NEW m \in Modes, NEW save \in Saves, Request(m, save) PROVE TypeOK'
    <3>1. req' \in [mode : Modes \cup {UNKNOWN}, save : BOOLEAN]
      BY <2>3, ClientAssumption DEF Request
    <3>2. i' \in 0..Zeros
      BY <2>3, KindsType DEF Request
    <3>3. present' \in BOOLEAN
      BY <2>3 DEF Request
    <3>. QED BY <1>t, <2>3, <3>1, <3>2, <3>3 DEF Request, TypeOK, Locations
  <2>. QED BY <1>1, <2>1, <2>2, <2>3 DEF Clients
<1>2. CASE Executor
  <2>1. CASE Constructed
    <3>1. LinkType'
      BY <1>t, <2>1, FailType DEF Constructed, LinkType
    <3>. QED BY <1>t, <2>1, <3>1, BaseAssumption
             DEF Constructed, updateModeFromParamResult, TypeOK, LinkType, Locations
  <2>2. CASE Reply
    <3>1. /\ res' \in Response /\ req' \in [mode : Modes \cup {UNKNOWN}, save : BOOLEAN]
          /\ i' \in 0..Zeros /\ present' \in BOOLEAN
      <4>1. res' \in Response
        BY <2>2 DEF Reply, NoRes, Response, Messages
      <4>2. req' \in [mode : Modes \cup {UNKNOWN}, save : BOOLEAN]
        BY <2>2 DEF Reply, NoReq
      <4>3. i' \in 0..Zeros
        BY <2>2, KindsType DEF Reply
      <4>4. present' \in BOOLEAN
        BY <2>2, Zenon DEF Reply
      <4>. QED BY <4>1, <4>2, <4>3, <4>4
    <3>. QED BY <1>t, <2>2, <3>1 DEF Reply, TypeOK, Locations
  <2>3. ASSUME NEW k \in Kinds, SendCommand(k) PROVE TypeOK'
    <3>1. [kind |-> k, arg |-> "move"] \in Packet
      BY <2>3 DEF Packet
    <3>2. LinkType'
      BY <1>t, <2>3, <3>1, SendType DEF SendCommand, sendPacket
    <3>. QED BY <1>t, <2>3, <3>2 DEF SendCommand, TypeOK, Locations, LinkType
  <2>4. CASE SendZero
    <3>1. [kind |-> ZeroOrder[1 + (i % Len(ZeroOrder))], arg |-> "zero"] \in Packet
      BY <1>t, ZeroPacket DEF TypeOK
    <3>2. LinkType'
      BY <1>t, <2>4, <3>1, SendType DEF SendZero, sendPacket
    <3>3. i' \in 0..Zeros
      BY <1>t, <2>4, KindsType DEF SendZero, TypeOK
    <3>. QED BY <1>t, <2>4, <3>2, <3>3 DEF SendZero, TypeOK, LinkType
  <2>5. CASE SendSet
    <3>1. [kind |-> "set", arg |-> req.mode] \in Packet
      BY <2>5 DEF SendSet, IInv, Locals, Busy, Packet
    <3>2. LinkType'
      BY <1>t, <2>5, <3>1, SendType DEF SendSet
    <3>. QED BY <1>t, <2>5, <3>2 DEF SendSet, TypeOK, Locations, LinkType
  <2>6. CASE SetFailed
    <3>1. res' \in Response
      BY <1>t, <2>6, AnswerType DEF SetFailed, Messages
    <3>. QED BY <1>t, <2>6, <3>1 DEF SetFailed, TypeOK, Locations
  <2>7. CASE Mark
    BY <1>t, <2>7 DEF Mark, TypeOK, Locations
  <2>8. CASE Poll
    <3>1. CASE isModeReady(req.mode)
      <4>1. res' \in Response
        BY <1>t, <2>8, <3>1, AnswerType DEF Poll, Messages
      <4>. QED BY <1>t, <2>8, <3>1, <4>1 DEF Poll, TypeOK, Locations
    <3>2. CASE ~isModeReady(req.mode)
      BY <1>t, <2>8, <3>2 DEF Poll, TypeOK, Locations
    <3>. QED BY <3>1, <3>2
  <2>9. CASE Confirm
    <3>1. res' \in Response
      BY <1>t, <2>9 DEF Confirm, TypeOK, Response, Messages
    <3>. QED BY <1>t, <2>9, <3>1 DEF Confirm, TypeOK, Locations
  <2>10. CASE SwitchTimeout
    <3>1. res' \in Response
      BY <1>t, <2>10, AnswerType DEF SwitchTimeout, Messages
    <3>2. current_mode_' \in Modes \cup {UNKNOWN, SWITCHING}
      BY <1>t, <2>10, DerivedType DEF SwitchTimeout
    <3>3. disturbed' \in BOOLEAN
      BY <2>10 DEF SwitchTimeout
    <3>. QED BY <1>t, <2>10, <3>1, <3>2, <3>3 DEF SwitchTimeout, TypeOK, Locations
  <2>11. ASSUME NEW this \in SaveStages, NEW next \in SaveStages, ParamCommand(this, next)
         PROVE  TypeOK'
    <3>1. res' \in Response
      <4>1. \A b \in BOOLEAN, m \in Messages :
              [res EXCEPT !.success = b, !.message = m] \in Response
        BY <1>t DEF TypeOK, Response
      <4>. QED BY <1>t, <2>11, <4>1 DEF ParamCommand, SaveFails, TypeOK, Messages
    <3>2. LinkType'
      BY <1>t, <2>11, FailType DEF ParamCommand, LinkType
    <3>. QED BY <1>t, <2>11, <3>1, <3>2
             DEF ParamCommand, SaveFails, TypeOK, LinkType, Locations, SaveStages
  <2>12. CASE VerifyPersisted
    <3>1. polls' \in Nat
      BY <1>t, <2>12 DEF VerifyPersisted, TypeOK
    <3>2. param_pc_control_mode_' \in Modes \cup {UNKNOWN}
      BY <1>t, <2>12 DEF VerifyPersisted, updateModeFromParamResult, TypeOK
    <3>3. LinkType'
      BY <1>t, <2>12, FailType DEF VerifyPersisted, LinkType
    <3>. QED BY <1>t, <2>12, <3>1, <3>2, <3>3 DEF VerifyPersisted, TypeOK, LinkType, Locations
  <2>13. CASE VerifyFails
    <3>1. res' \in Response
      BY <1>t, <2>13 DEF VerifyFails, SaveFails, TypeOK, Response, Messages
    <3>. QED BY <1>t, <2>13, <3>1 DEF VerifyFails, SaveFails, TypeOK, Locations
  <2>14. CASE SendReset
    <3>1. [kind |-> "reset", arg |-> "reset"] \in Packet
      BY DEF Packet
    <3>2. LinkType'
      BY <1>t, <2>14, <3>1, SendType DEF SendReset
    <3>3. res' \in Response
      <4>1. \A m \in Messages :
              /\ [res EXCEPT !.message = m] \in Response
              /\ [res EXCEPT !.success = FALSE, !.message = m] \in Response
        BY <1>t DEF TypeOK, Response
      <4>2. \E m \in Messages : res' = [res EXCEPT !.message = m]
                            \/ res' = [res EXCEPT !.success = FALSE, !.message = m]
        BY <2>14 DEF SendReset, Messages
      <4>. QED BY <4>1, <4>2
    <3>. QED BY <1>t, <2>14, <3>2, <3>3 DEF SendReset, TypeOK, Locations, LinkType
  <2>. QED BY <1>2, <2>1, <2>2, <2>3, <2>4, <2>5, <2>6, <2>7, <2>8, <2>9, <2>10,
              <2>11, <2>12, <2>13, <2>14 DEF Executor, SaveStages
<1>3. CASE Receiver
  <2>1. CASE StatusReceived
    <3>1. Head(toHost) \in Status /\ Tail(toHost) \in Seq(Status)
      BY <1>t, <2>1, HeadTailProperties DEF StatusReceived, LinkType
    <3>2. mode_cache_' \in Cache
      BY <2>1, <3>1 DEF StatusReceived, Received, Cache, Status, Modes
    <3>. QED BY <1>t, <2>1, <3>1, <3>2 DEF StatusReceived, TypeOK
  <2>2. CASE StatusApplied
    BY <1>t, <2>2, DerivedType DEF StatusApplied, TypeOK
  <2>. QED BY <1>3, <2>1, <2>2 DEF Receiver
<1>4. CASE Base
  <2>1. CASE DevTakes
    <3>1. Head(toDev) \in Packet /\ Tail(toDev) \in Seq(Packet)
      BY <1>t, <2>1, HeadTailProperties DEF DevTakes, LinkType
    <3>2. moving' \subseteq Kinds
      BY <1>t, <2>1 DEF DevTakes, TypeOK
    <3>3. dev' \in [chassis : ChassisModes, dm : DmModes, motor : [Motors -> MotorModes]]
      <4>1. Head(toDev).kind = "set" => Head(toDev).arg \in Modes
        BY <1>k, <3>1 DEF Packet
      <4>2. CASE Head(toDev).kind \in Kinds /\ UNCHANGED dev
        BY <1>t, <4>2 DEF TypeOK
      <4>3. CASE /\ Head(toDev).kind = "set"
                 /\ dev' = [dev EXCEPT !.chassis = Head(toDev).arg]
        BY <1>t, <4>1, <4>3 DEF TypeOK, ChassisModes
      <4>4. ASSUME NEW m \in Modes,
                   dev' = [chassis |-> m, dm |-> m, motor |-> [x \in Motors |-> "off"]]
            PROVE  dev' \in [chassis : ChassisModes, dm : DmModes,
                              motor : [Motors -> MotorModes]]
        BY <4>4 DEF ChassisModes, DmModes, MotorModes
      <4>. QED BY <2>1, <4>2, <4>3, <4>4 DEF DevTakes
    <3>4. disturbed' \in BOOLEAN /\ present' \in BOOLEAN
      BY <1>t, <2>1 DEF DevTakes, TypeOK
    <3>. QED BY <1>t, <2>1, <3>1, <3>2, <3>3, <3>4 DEF DevTakes, TypeOK
  <2>2. CASE DevDmFollows
    BY <1>t, <2>2 DEF DevDmFollows, TypeOK, DmModes
  <2>3. CASE RcTakeover
    <3>1. disturbed' \in BOOLEAN
      BY <2>3 DEF RcTakeover
    <3>. QED BY <1>t, <2>3, <3>1 DEF RcTakeover, TypeOK, ChassisModes
  <2>4. ASSUME NEW x \in Motors, DevMotorFollows(x) PROVE TypeOK'
    BY <1>t, <2>4 DEF DevMotorFollows, TypeOK, DmModes, MotorModes
  <2>5. ASSUME NEW form \in Forms, DevReports(form) PROVE TypeOK'
    <3>1. [form |-> form, chassis |-> dev.chassis, dm |-> dev.dm, motor |-> dev.motor,
           ready |-> dev.dm = dev.chassis] \in Status
      BY <1>t DEF Status, TypeOK
    <3>2. toHost' \in Seq(Status)
      BY <1>t, <2>5, <3>1, AppendProperties DEF DevReports, LinkType
    <3>. QED BY <1>t, <2>5, <3>2 DEF DevReports, TypeOK
  <2>6. CASE StatusLost
    <3>1. Tail(toHost) \in Seq(Status)
      BY <1>t, <2>6, HeadTailProperties DEF StatusLost, LinkType
    <3>. QED BY <1>t, <2>6, <3>1 DEF StatusLost, TypeOK
  <2>7. CASE PacketLost
    <3>1. Tail(toDev) \in Seq(Packet)
      BY <1>t, <2>7, HeadTailProperties DEF PacketLost, LinkType
    <3>2. drops' \in 0..MaxDrop
      BY <1>t, <2>7, CountAssumption DEF PacketLost, TypeOK
    <3>. QED BY <1>t, <2>7, <3>1, <3>2 DEF PacketLost, TypeOK
  <2>. QED BY <1>4, <2>1, <2>2, <2>3, <2>4, <2>5, <2>6, <2>7 DEF Base
<1>5. CASE UNCHANGED vars
  BY <1>t, <1>5 DEF vars, TypeOK
<1>6. CASE Reopened \/ OpenThrows
  <2>1. LinkType' /\ UNCHANGED <<executor, rpc, modeVars, base>>
    BY <1>t, <1>6, OpenLeaves
  <2>. QED BY <1>t, <2>1 DEF TypeOK, LinkType
<1>. QED BY <1>1, <1>2, <1>3, <1>4, <1>5, <1>6 DEF Next

\* The unlocked assignment may fall inside the receiver's critical section; the
\* receiver then overwrites it with what the status says, and otherwise leaves
\* it in place until the executor thread is done polling.
LEMMA NextCurrentMode == IInv /\ [Next]_vars => CurrentModeAgrees'
<1>. SUFFICES ASSUME IInv, [Next]_vars PROVE CurrentModeAgrees'
  OBVIOUS
<1>t. TypeOK
  BY DEF IInv
<1>k. Kinds \subseteq {"cmd_vel", "dm_speed", "dm_mit"}
  BY KindsType
<1>c. CurrentModeAgrees
  BY DEF IInv
<1>q. Derived \in Modes \cup {UNKNOWN} /\ Derived # SWITCHING
  BY <1>t, DerivedType
<1>. USE DEF executor, modeVars, link, base, ghosts, Goto
<1>1. CASE mode_cache_' = mode_cache_ /\ current_mode_' = current_mode_ /\ rpc' = rpc
           /\ (epc = "poll" => epc' = "poll")
  BY <1>c, <1>1 DEF CurrentModeAgrees, Derived
<1>2. CASE Mark
  BY <1>2 DEF Mark, CurrentModeAgrees
<1>3. CASE Poll
  <2>1. CASE isModeReady(req.mode)
    <3>1. req.mode \in Modes
      BY <1>3 DEF Poll, IInv, Locals, Busy
    <3>2. Derived = req.mode
      BY <1>t, <2>1, <3>1, ReadyDerived
    <3>3. current_mode_' = req.mode /\ mode_cache_' = mode_cache_
      BY <1>3, <2>1 DEF Poll
    <3>. QED BY <3>2, <3>3 DEF CurrentModeAgrees, Derived
  <2>2. CASE ~isModeReady(req.mode)
    BY <1>c, <1>3, <2>2 DEF Poll, CurrentModeAgrees, Derived
  <2>. QED BY <2>1, <2>2
<1>4. CASE SwitchTimeout
  BY <1>4 DEF SwitchTimeout, CurrentModeAgrees, Derived
<1>5. CASE StatusReceived
  <2>1. CASE current_mode_ = SWITCHING
    BY <1>c, <1>q, <1>5, <2>1 DEF StatusReceived, Unlocked, CurrentModeAgrees
  <2>2. CASE current_mode_ # SWITCHING
    BY <1>5, <2>2 DEF StatusReceived, CurrentModeAgrees
  <2>. QED BY <2>1, <2>2
<1>6. CASE StatusApplied
  BY <1>6 DEF StatusApplied, CurrentModeAgrees, Derived
<1>7. CASE Clients
  <2>1. ASSUME NEW k \in Kinds, CommandCallback(k) PROVE CurrentModeAgrees'
    BY <1>1, <2>1 DEF CommandCallback
  <2>2. CASE RequestUnsupported
    BY <1>1, <2>2 DEF RequestUnsupported
  <2>3. ASSUME NEW m \in Modes, NEW save \in Saves, Request(m, save)
        PROVE  CurrentModeAgrees'
    BY <1>1, <2>3 DEF Request
  <2>. QED BY <1>7, <2>1, <2>2, <2>3 DEF Clients
<1>8. CASE Executor
  <2>1. CASE Constructed
    BY <1>1, <2>1 DEF Constructed
  <2>2. CASE Reply
    BY <1>1, <2>2 DEF Reply
  <2>3. ASSUME NEW k \in Kinds, SendCommand(k) PROVE CurrentModeAgrees'
    BY <1>1, <1>k, <2>3 DEF SendCommand
  <2>4. CASE SendZero
    BY <1>1, <2>4 DEF SendZero
  <2>5. CASE SendSet
    BY <1>1, <2>5 DEF SendSet
  <2>6. CASE SetFailed
    BY <1>1, <2>6 DEF SetFailed
  <2>7. CASE Confirm
    BY <1>1, <2>7 DEF Confirm
  <2>8. ASSUME NEW this \in SaveStages, NEW next \in SaveStages, ParamCommand(this, next)
        PROVE  CurrentModeAgrees'
    BY <1>1, <2>8 DEF ParamCommand, SaveStages
  <2>9. CASE VerifyPersisted
    BY <1>1, <2>9 DEF VerifyPersisted
  <2>10. CASE VerifyFails
    BY <1>1, <2>10 DEF VerifyFails
  <2>11. CASE SendReset
    BY <1>1, <2>11 DEF SendReset
  <2>. QED BY <1>2, <1>3, <1>4, <1>8, <2>1, <2>2, <2>3, <2>4, <2>5, <2>6, <2>7,
              <2>8, <2>9, <2>10, <2>11 DEF Executor, SaveStages
<1>9. CASE Base
  <2>1. CASE DevTakes \/ DevDmFollows \/ RcTakeover \/ StatusLost \/ PacketLost
    BY <1>1, <2>1 DEF DevTakes, DevDmFollows, RcTakeover, StatusLost, PacketLost
  <2>2. ASSUME NEW x \in Motors, DevMotorFollows(x) PROVE CurrentModeAgrees'
    BY <1>1, <2>2 DEF DevMotorFollows
  <2>3. ASSUME NEW form \in Forms, DevReports(form) PROVE CurrentModeAgrees'
    BY <1>1, <2>3 DEF DevReports
  <2>. QED BY <1>9, <2>1, <2>2, <2>3 DEF Base
<1>10. CASE UNCHANGED vars \/ Reopened \/ OpenThrows
  BY <1>1, <1>10, OpenLeaves DEF vars
<1>. QED BY <1>5, <1>6, <1>7, <1>8, <1>9, <1>10 DEF Next, Receiver

\* The response is filled from the cache in the very step that finds it ready,
\* and later steps of the handler change only its success and its message.
Answered == Locals /\ ConfirmedConsistent

LEMMA NextAnswered == IInv /\ [Next]_vars => Answered'
<1>. SUFFICES ASSUME IInv, [Next]_vars PROVE Answered'
  OBVIOUS
<1>t. TypeOK /\ Locals /\ ConfirmedConsistent
  BY DEF IInv
<1>k. Kinds \subseteq {"cmd_vel", "dm_speed", "dm_mit"}
  BY KindsType
<1>. USE DEF executor, modeVars, link, base, ghosts, Goto, Answered, Locals,
             ConfirmedConsistent, Busy, SaveStages
<1>1. CASE UNCHANGED executor
  BY <1>t, <1>1
<1>2. CASE Clients
  <2>1. ASSUME NEW k \in Kinds, CommandCallback(k) PROVE Answered'
    BY <1>t, <1>k, <2>1 DEF CommandCallback
  <2>2. CASE RequestUnsupported
    BY <1>k, <2>2 DEF RequestUnsupported, Answer
  <2>3. ASSUME NEW m \in Modes, NEW save \in Saves, Request(m, save) PROVE Answered'
    BY <1>t, <1>k, <2>3 DEF Request
  <2>. QED BY <1>2, <2>1, <2>2, <2>3 DEF Clients
<1>3. CASE Executor
  <2>1. CASE Constructed
    BY <1>t, <1>k, <2>1 DEF Constructed
  <2>2. CASE Reply
    BY <1>k, <2>2 DEF Reply, NoRes
  <2>3. ASSUME NEW k \in Kinds, SendCommand(k) PROVE Answered'
    BY <1>t, <1>k, <2>3 DEF SendCommand
  <2>4. CASE SendZero
    BY <1>t, <2>4 DEF SendZero
  <2>5. CASE SendSet
    BY <1>t, <1>k, <2>5 DEF SendSet
  <2>6. CASE SetFailed
    BY <1>k, <2>6 DEF SetFailed, Answer
  <2>7. CASE Mark
    BY <1>t, <1>k, <2>7 DEF Mark
  <2>8. CASE Poll
    <3>1. CASE isModeReady(req.mode)
      <4>1. req.mode \in Modes
        BY <1>t, <2>8 DEF Poll
      <4>2. /\ mode_cache_.chassis = req.mode /\ mode_cache_.dm = req.mode
            /\ mode_cache_.ready = TRUE
        BY <1>t, <3>1 DEF isModeReady, TypeOK, Cache
      <4>3. epc' = "matched" /\ req' = req /\ res' = Answer(FALSE, "none")
        BY <2>8, <3>1 DEF Poll
      <4>4. /\ res'.chassis = res'.mode /\ res'.dm = res'.mode
            /\ res'.ready = TRUE /\ res'.message = "none" /\ res'.success = FALSE
        BY <4>2, <4>3 DEF Answer
      <4>. QED BY <1>k, <4>1, <4>3, <4>4
    <3>2. CASE ~isModeReady(req.mode)
      BY <1>t, <2>8, <3>2 DEF Poll
    <3>. QED BY <3>1, <3>2
  <2>9. CASE Confirm
    <3>1. /\ res'.chassis = res.chassis /\ res'.dm = res.dm /\ res'.mode = res.mode
          /\ res'.ready = res.ready /\ res'.success = TRUE
          /\ res'.message = "confirmed"
      BY <1>t, <2>9 DEF Confirm, TypeOK, Response
    <3>2. /\ res.chassis = res.mode /\ res.dm = res.mode /\ res.ready = TRUE
          /\ req' = req /\ req.mode \in Modes
      BY <1>t, <2>9 DEF Confirm
    <3>3. epc' \in {"param_set", "reply"}
      BY <2>9 DEF Confirm
    <3>. QED BY <1>k, <3>1, <3>2, <3>3
  <2>10. CASE SwitchTimeout
    BY <1>k, <2>10 DEF SwitchTimeout, Answer
  <2>11. ASSUME NEW this \in SaveStages, NEW next \in SaveStages, ParamCommand(this, next)
         PROVE  Answered'
    <3>1. CASE Goto(next) /\ UNCHANGED res
      BY <1>t, <1>k, <2>11, <3>1 DEF ParamCommand
    <3>2. CASE SaveFails
      <4>1. /\ res'.message = "param_failed" /\ res'.success = FALSE
            /\ res'.chassis = res.chassis /\ res'.dm = res.dm /\ res'.mode = res.mode
            /\ res'.ready = res.ready
        BY <1>t, <3>2 DEF SaveFails, TypeOK, Response
      <4>2. epc' = "reply"
        BY <3>2 DEF SaveFails
      <4>3. res.chassis = res.mode /\ res.dm = res.mode /\ res.ready = TRUE
        BY <1>t, <2>11 DEF ParamCommand
      <4>. QED BY <1>k, <4>1, <4>2, <4>3
    <3>. QED BY <2>11, <3>1, <3>2 DEF ParamCommand
  <2>12. CASE VerifyPersisted
    BY <1>t, <1>k, <2>12 DEF VerifyPersisted
  <2>13. CASE VerifyFails
    <3>1. /\ res'.message = "param_failed" /\ res'.success = FALSE /\ epc' = "reply"
          /\ res'.chassis = res.chassis /\ res'.dm = res.dm /\ res'.mode = res.mode
          /\ res'.ready = res.ready
      BY <1>t, <2>13 DEF VerifyFails, SaveFails, TypeOK, Response
    <3>2. res.chassis = res.mode /\ res.dm = res.mode /\ res.ready = TRUE
      BY <1>t, <2>13 DEF VerifyFails
    <3>. QED BY <1>k, <3>1, <3>2
  <2>14. CASE SendReset
    <3>0. /\ res.chassis = res.mode /\ res.dm = res.mode /\ res.ready = TRUE
          /\ res.success = TRUE
      BY <1>t, <2>14 DEF SendReset
    <3>1. epc' = "reply"
      BY <2>14 DEF SendReset
    <3>2. CASE res' = [res EXCEPT !.message = "saved"]
      <4>1. /\ res'.chassis = res.chassis /\ res'.dm = res.dm /\ res'.mode = res.mode
            /\ res'.ready = res.ready /\ res'.success = res.success
            /\ res'.message = "saved"
        BY <1>t, <3>2 DEF TypeOK, Response
      <4>. QED BY <1>k, <3>0, <3>1, <4>1
    <3>3. CASE res' = [res EXCEPT !.success = FALSE, !.message = "reset_failed"]
      <4>1. /\ res'.chassis = res.chassis /\ res'.dm = res.dm /\ res'.mode = res.mode
            /\ res'.ready = res.ready /\ res'.success = FALSE
            /\ res'.message = "reset_failed"
        BY <1>t, <3>3 DEF TypeOK, Response
      <4>. QED BY <1>k, <3>0, <3>1, <4>1
    <3>. QED BY <2>14, <3>2, <3>3 DEF SendReset
  <2>. QED BY <1>3, <2>1, <2>2, <2>3, <2>4, <2>5, <2>6, <2>7, <2>8, <2>9, <2>10,
              <2>11, <2>12, <2>13, <2>14 DEF Executor
<1>4. CASE Receiver
  BY <1>1, <1>4 DEF Receiver, StatusReceived, StatusApplied
<1>5. CASE Base
  BY <1>1, <1>5 DEF Base, DevTakes, DevDmFollows, RcTakeover, DevMotorFollows,
                    DevReports, StatusLost, PacketLost
<1>6. CASE UNCHANGED vars \/ Reopened \/ OpenThrows
  BY <1>1, <1>6, OpenLeaves DEF vars
<1>. QED BY <1>2, <1>3, <1>4, <1>5, <1>6 DEF Next

LEMMA Inductive == Spec => []IInv
<1>1. IInv /\ [Next]_vars => IInv'
  BY NextTypeOK, NextCurrentMode, NextAnswered DEF IInv, Answered
<1>. QED BY <1>1, InitIInv, PTL DEF Spec

-----------------------------------------------------------------------------
\* The variables stay within their types (TianbotDyn).
THEOREM TypeCorrect == Spec => []TypeOK
<1>1. IInv => TypeOK
  BY DEF IInv
<1>. QED BY <1>1, Inductive, PTL

\* The unlocked current_mode_ = MODE_SWITCHING never leaves current_mode_ at
\* odds with the cached status outside a switch, and never leaves it at
\* MODE_SWITCHING (setControlModeCallback, onMotionModeStatus).
THEOREM CurrentModeCorrect == Spec => []CurrentModeAgrees
<1>1. IInv => CurrentModeAgrees
  BY DEF IInv
<1>. QED BY <1>1, Inductive, PTL

\* Every response to a switch that was confirmed, also one whose save failed,
\* describes the mode that was requested, and it reports success only if nothing
\* behind the confirmation failed (setControlModeCallback, fill_response).
THEOREM ResponseCorrect == Spec => []ConfirmedConsistent
<1>1. IInv => ConfirmedConsistent
  BY DEF IInv
<1>. QED BY <1>1, Inductive, PTL

-----------------------------------------------------------------------------
(* How long a callback takes *)

\* What each loop has counted so far is within its limit.
Counted == /\ epc = "poll" => polls <= PollMax
           /\ epc = "verify" => polls <= VerifyMax

\* StepsLeft of any location and counters.
Distance(l, a, b) ==
    [zero |-> 9 + VerifyMax + PollMax + Zeros - a, mark |-> 8 + VerifyMax + PollMax,
     poll |-> 7 + VerifyMax + PollMax - b,         matched |-> 6 + VerifyMax,
     param_set |-> 5 + VerifyMax,                  param_save |-> 4 + VerifyMax,
     verify |-> 3 + VerifyMax - b,                 reset |-> 2, set_failed |-> 2,
     reply |-> 1, ctor |-> 1, cmd_vel |-> 1, dm_speed |-> 1, dm_mit |-> 1,
     idle |-> 0][l]

LEMMA DistanceValues ==
    \A a, b : /\ Distance("zero", a, b) = 9 + VerifyMax + PollMax + Zeros - a
              /\ Distance("mark", a, b) = 8 + VerifyMax + PollMax
              /\ Distance("poll", a, b) = 7 + VerifyMax + PollMax - b
              /\ Distance("matched", a, b) = 6 + VerifyMax
              /\ Distance("param_set", a, b) = 5 + VerifyMax
              /\ Distance("param_save", a, b) = 4 + VerifyMax
              /\ Distance("verify", a, b) = 3 + VerifyMax - b
              /\ Distance("reset", a, b) = 2 /\ Distance("set_failed", a, b) = 2
              /\ Distance("reply", a, b) = 1 /\ Distance("ctor", a, b) = 1
              /\ \A k \in Kinds : Distance(k, a, b) = 1
              /\ Distance("idle", a, b) = 0
<1>. TAKE a, b
<1>1. /\ Distance("cmd_vel", a, b) = 1 /\ Distance("dm_speed", a, b) = 1
      /\ Distance("dm_mit", a, b) = 1
  BY DEF Distance
<1>2. \A k \in Kinds : Distance(k, a, b) = 1
  BY <1>1, KindsType
<1>. QED BY <1>2 DEF Distance

LEMMA LimitTypes == /\ PollMax \in Nat /\ VerifyMax \in Nat /\ Zeros \in Nat
BY CountAssumption, KindsType

LEMMA StepsLeftType == TypeOK /\ Counted => StepsLeft \in Nat
<1>. SUFFICES ASSUME TypeOK, Counted PROVE Distance(epc, i, polls) \in Nat
  BY DEF StepsLeft, Distance
<1>1. i \in 0..Zeros /\ polls \in Nat /\ epc \in Locations
  BY DEF TypeOK
<1>2. CASE epc = "zero"
  <2>1. Distance(epc, i, polls) = 9 + VerifyMax + PollMax + Zeros - i
    BY <1>2, DistanceValues
  <2>. QED BY <1>1, <2>1, LimitTypes
<1>3. CASE epc = "poll"
  <2>1. Distance(epc, i, polls) = 7 + VerifyMax + PollMax - polls /\ polls <= PollMax
    BY <1>3, DistanceValues DEF Counted
  <2>. QED BY <1>1, <2>1, LimitTypes
<1>4. CASE epc = "verify"
  <2>1. Distance(epc, i, polls) = 3 + VerifyMax - polls /\ polls <= VerifyMax
    BY <1>4, DistanceValues DEF Counted
  <2>. QED BY <1>1, <2>1, LimitTypes
<1>5. CASE epc \in {"mark", "matched", "param_set", "param_save"}
  <2>1. Distance(epc, i, polls) \in {8 + VerifyMax + PollMax, 6 + VerifyMax, 5 + VerifyMax,
                                     4 + VerifyMax}
    BY <1>5, DistanceValues
  <2>. QED BY <2>1, LimitTypes
<1>6. CASE epc \in {"reset", "set_failed", "reply", "ctor", "idle"} \cup Kinds
  <2>1. Distance(epc, i, polls) \in {0, 1, 2}
    BY <1>6, DistanceValues
  <2>. QED BY <2>1
<1>. QED BY <1>1, <1>2, <1>3, <1>4, <1>5, <1>6 DEF Locations

\* Every step of the executor thread takes it nearer to idle.
LEMMA ExecutorCountsDown ==
    ASSUME TypeOK, Counted, Executor
    PROVE  /\ StepsLeft' \in 0 .. StepsLeft /\ StepsLeft' < StepsLeft
           /\ Counted'
<1>1. i \in 0..Zeros /\ polls \in Nat /\ epc \in Locations
  BY DEF TypeOK
<1>2. PICK x \in Nat : x = StepsLeft /\ x = Distance(epc, i, polls)
  <2>1. StepsLeft = Distance(epc, i, polls)
    BY DEF StepsLeft, Distance
  <2>. QED BY <2>1, StepsLeftType
<1>3. StepsLeft' = Distance(epc', i', polls')
  BY DEF StepsLeft, Distance
<1>. DEFINE y == Distance(epc', i', polls')
<1>4. SUFFICES y \in 0 .. x - 1 /\ Counted'
  BY <1>2, <1>3
<1>k. \A k \in Kinds : k \notin {"poll", "verify"}
  BY KindsType
<1>5. CASE SendZero
  <2>1. epc = "zero" /\ epc' = "zero" /\ i < Zeros /\ i' = i + 1
    BY <1>5 DEF SendZero
  <2>2. x = 9 + VerifyMax + PollMax + Zeros - i
    BY <1>2, <2>1, DistanceValues
  <2>3. y = 9 + VerifyMax + PollMax + Zeros - (i + 1)
    BY <2>1, DistanceValues
  <2>4. y \in 0 .. x - 1
    <3>. HIDE DEF y
    <3>. QED BY <1>1, <2>1, <2>2, <2>3, LimitTypes
  <2>. QED BY <2>1, <2>4 DEF Counted
<1>6. CASE SendSet
  <2>1. epc = "zero" /\ epc' \in {"mark", "set_failed"} /\ i = Zeros
    BY <1>6 DEF SendSet, Goto
  <2>2. x = 9 + VerifyMax + PollMax
    <3>1. x = 9 + VerifyMax + PollMax + Zeros - Zeros
      BY <1>2, <2>1, DistanceValues
    <3>. QED BY <3>1, LimitTypes
  <2>3. y \in {8 + VerifyMax + PollMax, 2}
    BY <2>1, DistanceValues
  <2>4. y \in 0 .. x - 1
    <3>. HIDE DEF y
    <3>. QED BY <2>2, <2>3, LimitTypes
  <2>. QED BY <2>1, <2>4 DEF Counted
<1>7. CASE Mark
  <2>1. epc = "mark" /\ epc' = "poll" /\ polls' = 0
    BY <1>7 DEF Mark, Goto
  <2>2. x = 8 + VerifyMax + PollMax
    BY <1>2, <2>1, DistanceValues
  <2>3. y = 7 + VerifyMax + PollMax - 0
    BY <2>1, DistanceValues
  <2>4. y \in 0 .. x - 1
    <3>. HIDE DEF y
    <3>. QED BY <2>2, <2>3, LimitTypes
  <2>. QED BY <2>1, <2>4, LimitTypes DEF Counted
<1>8. CASE Poll
  <2>0. epc = "poll" /\ polls < PollMax
    BY <1>8 DEF Poll
  <2>1. x = 7 + VerifyMax + PollMax - polls
    BY <1>2, <2>0, DistanceValues
  <2>2. CASE epc' = "matched"
    <3>1. y = 6 + VerifyMax
      BY <2>2, DistanceValues
    <3>2. y \in 0 .. x - 1
      <4>. HIDE DEF y
      <4>. QED BY <1>1, <2>0, <2>1, <3>1, LimitTypes
    <3>. QED BY <2>2, <3>2 DEF Counted
  <2>3. CASE epc' = epc /\ polls' = polls + 1
    <3>1. y = 7 + VerifyMax + PollMax - (polls + 1)
      BY <2>0, <2>3, DistanceValues
    <3>2. y \in 0 .. x - 1
      <4>. HIDE DEF y
      <4>. QED BY <1>1, <2>0, <2>1, <3>1, LimitTypes
    <3>3. polls + 1 <= PollMax
      BY <1>1, <2>0, LimitTypes
    <3>. QED BY <2>0, <2>3, <3>2, <3>3 DEF Counted
  <2>4. epc' = "matched" \/ (epc' = epc /\ polls' = polls + 1)
    BY <1>8 DEF Poll, Goto
  <2>. QED BY <2>2, <2>3, <2>4
<1>9. CASE SwitchTimeout
  <2>1. epc = "poll" /\ polls = PollMax /\ epc' = "reply"
    BY <1>9 DEF SwitchTimeout, Goto
  <2>2. x = 7 + VerifyMax + PollMax - polls
    BY <1>2, <2>1, DistanceValues
  <2>3. y = 1
    BY <2>1, DistanceValues
  <2>4. y \in 0 .. x - 1
    <3>. HIDE DEF y
    <3>. QED BY <2>1, <2>2, <2>3, LimitTypes
  <2>. QED BY <2>1, <2>4 DEF Counted
<1>10. CASE Confirm
  <2>1. epc = "matched" /\ epc' \in {"param_set", "reply"}
    BY <1>10 DEF Confirm, Goto
  <2>2. x = 6 + VerifyMax /\ y \in {5 + VerifyMax, 1}
    BY <1>2, <2>1, DistanceValues
  <2>4. y \in 0 .. x - 1
    <3>. HIDE DEF y
    <3>. QED BY <2>2, LimitTypes
  <2>. QED BY <2>1, <2>4 DEF Counted
<1>11. CASE ParamCommand("param_set", "param_save")
  <2>1. epc = "param_set" /\ epc' \in {"param_save", "reply"}
    BY <1>11 DEF ParamCommand, SaveFails, Goto
  <2>2. x = 5 + VerifyMax /\ y \in {4 + VerifyMax, 1}
    BY <1>2, <2>1, DistanceValues
  <2>4. y \in 0 .. x - 1
    <3>. HIDE DEF y
    <3>. QED BY <2>2, LimitTypes
  <2>. QED BY <2>1, <2>4 DEF Counted
<1>12. CASE ParamCommand("param_save", "verify")
  <2>1. epc = "param_save" /\ epc' \in {"verify", "reply"} /\ polls' = 0
    BY <1>12 DEF ParamCommand, SaveFails, Goto
  <2>2. x = 4 + VerifyMax /\ y \in {3 + VerifyMax - 0, 1}
    BY <1>2, <2>1, DistanceValues
  <2>4. y \in 0 .. x - 1
    <3>. HIDE DEF y
    <3>. QED BY <2>2, LimitTypes
  <2>. QED BY <2>1, <2>4, LimitTypes DEF Counted
<1>13. CASE VerifyPersisted
  <2>1. epc = "verify" /\ polls < VerifyMax /\ epc' \in {"verify", "reset"} /\ polls' = polls + 1
    BY <1>13 DEF VerifyPersisted, Goto
  <2>2. x = 3 + VerifyMax - polls
    BY <1>2, <2>1, DistanceValues
  <2>3. y \in {3 + VerifyMax - (polls + 1), 2}
    BY <2>1, DistanceValues
  <2>4. y \in 0 .. x - 1
    <3>. HIDE DEF y
    <3>. QED BY <1>1, <2>1, <2>2, <2>3, LimitTypes
  <2>5. polls + 1 <= VerifyMax
    BY <1>1, <2>1, LimitTypes
  <2>. QED BY <2>1, <2>4, <2>5 DEF Counted
<1>14. CASE VerifyFails
  <2>1. epc = "verify" /\ polls = VerifyMax /\ epc' = "reply"
    BY <1>14 DEF VerifyFails, SaveFails, Goto
  <2>2. x = 3 + VerifyMax - polls
    BY <1>2, <2>1, DistanceValues
  <2>3. y = 1
    BY <2>1, DistanceValues
  <2>4. y \in 0 .. x - 1
    <3>. HIDE DEF y
    <3>. QED BY <2>1, <2>2, <2>3, LimitTypes
  <2>. QED BY <2>1, <2>4 DEF Counted
<1>15. CASE SetFailed \/ SendReset
  <2>1. epc \in {"set_failed", "reset"} /\ epc' = "reply"
    BY <1>15 DEF SetFailed, SendReset, Goto
  <2>2. x = 2 /\ y = 1
    BY <1>2, <2>1, DistanceValues
  <2>3. y \in 0 .. x - 1
    <3>. HIDE DEF y
    <3>. QED BY <2>2
  <2>. QED BY <2>1, <2>3 DEF Counted
<1>16. CASE Constructed \/ Reply \/ \E k \in Kinds : SendCommand(k)
  <2>1. epc \in {"ctor", "reply"} \cup Kinds /\ epc' = "idle"
    BY <1>16 DEF Constructed, Reply, SendCommand, Goto
  <2>2. x = 1 /\ y = 0
    BY <1>2, <2>1, DistanceValues
  <2>3. y \in 0 .. x - 1
    <3>. HIDE DEF y
    <3>. QED BY <2>2
  <2>. QED BY <2>1, <2>3 DEF Counted
<1>. QED
  <2>. HIDE DEF y
  <2>. QED BY <1>5, <1>6, <1>7, <1>8, <1>9, <1>10, <1>11, <1>12, <1>13, <1>14, <1>15,
              <1>16 DEF Executor

LEMMA NextCountsDown ==
    ASSUME TypeOK, Counted, [Next]_vars
    PROVE  /\ Counted'
           /\ epc # "idle" => /\ StepsLeft' \in 0 .. StepsLeft
                              /\ Executor => StepsLeft' < StepsLeft
<1>1. CASE Executor
  BY <1>1, ExecutorCountsDown
<1>2. CASE UNCHANGED executor
  <2>1. StepsLeft' = StepsLeft /\ Counted'
    BY <1>2 DEF executor, StepsLeft, Counted
  <2>. QED BY <1>1, <2>1, StepsLeftType
<1>3. CASE Clients
  <2>1. epc = "idle" /\ epc' \in Kinds \cup {"reply", "zero"}
    BY <1>3 DEF Clients, CommandCallback, RequestUnsupported, Request, Goto
  <2>2. Counted'
    BY <2>1, KindsType DEF Counted
  <2>. QED BY <2>1, <2>2
<1>4. Receiver \/ Base \/ Reopened \/ OpenThrows \/ UNCHANGED vars => UNCHANGED executor
  BY OpenLeaves DEF Receiver, StatusReceived, StatusApplied, Base, DevTakes, DevDmFollows,
         RcTakeover, DevMotorFollows, DevReports, StatusLost, PacketLost, vars
<1>. QED BY <1>1, <1>2, <1>3, <1>4 DEF Next

\* Whatever the base does and the receiver stores meanwhile, a callback takes a
\* number of steps outside open() that is known when it begins; an open() it
\* gets into adds its own time and none of these steps
\* (setControlModeCallback, sendZeroCommands, verifyPcControlModePersisted).
THEOREM CallbacksAreBounded == Spec => StepsCountDown
<1>1. Init => Counted
  BY DEF Init, Counted
<1>2. IInv /\ Counted /\ [Next]_vars => Counted'
  BY NextCountsDown DEF IInv
<1>3. IInv /\ Counted /\ [Next]_vars =>
         [epc # "idle" => /\ StepsLeft' \in 0 .. StepsLeft
                          /\ Executor => StepsLeft' < StepsLeft]_vars
  BY NextCountsDown DEF IInv
<1>. QED BY <1>1, <1>2, <1>3, Inductive, PTL DEF Spec, StepsCountDown
=============================================================================
