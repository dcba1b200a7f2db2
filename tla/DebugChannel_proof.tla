-------------------------- MODULE DebugChannel_proof --------------------------
(* Proofs about DebugChannel, for every set of modes, any number of attempts   *)
(* and any number of commands and replies in flight: its type invariant, that  *)
(* a wait begun with nothing in flight gets its own reply, and that a pipeline *)
(* begun so has written to flash what it reports as saved.                     *)
(* What a sequence in flight may hold is said as a set of sequences, so that   *)
(* the facts about Append, Head and Tail carry it from step to step.           *)
EXTENDS DebugChannel, SequenceTheorems, TLAPS

USE DEF At

Values == {"ok", "error"} \cup Modes

\* The values that a reply may have at this point of the pipeline: unless it is
\* an error, the command that is waited for has been carried out.
Telling == {v \in Values : /\ job = "set" => v = "error" \/ ram = want
                           /\ job = "save" => v = "error" \/ flash = want}

Expected == IF job = "set" THEN Set(want) ELSE IF job = "save" THEN Save ELSE Get

Empty == toDev = << >> /\ toHost = << >>

\* Set and save are waited for one at a time: their reply is the only packet.
Alone == /\ pc \in {"clear", "send"} => Empty
         /\ pc = "send" => ~debugResultFlag_
         /\ pc = "wait" => Len(toDev) + Len(toHost) <= IF debugResultFlag_ THEN 0 ELSE 1
         /\ pc = "return" /\ result # NoReply => Empty
         /\ pc # "saved"

Pipeline == /\ job \in {"set", "save", "verify"}
            /\ pc \in {"clear", "send", "wait", "return", "saved"}
            /\ want \in Modes
            /\ cmd = Expected
            /\ job = "save" => ram = want
            /\ job = "verify" => flash = want
            /\ toDev \in Seq([cmd : {cmd}, mine : BOOLEAN])
            /\ toHost \in Seq([val : Telling, mine : BOOLEAN])
            /\ pc \in {"send", "wait"} /\ debugResultFlag_
                  => debugResultStr_.val \in Telling
            /\ pc = "return" /\ result # NoReply => result.val \in Telling
            /\ job \in {"set", "save"} => Alone

Own == pc \in {"send", "wait"} /\ ~foreign =>
          /\ toDev \in Seq([cmd : Commands, mine : {TRUE}])
          /\ toHost \in Seq([val : Values, mine : {TRUE}])
          /\ debugResultFlag_ => debugResultStr_.mine

IInv == TypeOK /\ Own /\ ReplyMatches /\ (clean => Pipeline)

-----------------------------------------------------------------------------
LEMMA NotMineDev ==
    ASSUME NEW C, NEW s \in Seq([cmd : C, mine : BOOLEAN])
    PROVE  /\ NotMine(s) \in Seq([cmd : C, mine : BOOLEAN])
           /\ s = << >> => NotMine(s) = << >>
<1>. DEFINE P == [cmd : C, mine : BOOLEAN]
            e(n) == [s[n] EXCEPT !.mine = FALSE]
<1>1. /\ Len(s) \in Nat
      /\ DOMAIN s = 1 .. Len(s)
      /\ \A n \in 1 .. Len(s) : s[n] \in P
  BY LenProperties, ElementOfSeq
<1>2. \A n \in 1 .. Len(s) : e(n) \in P
  BY <1>1
<1>3. [n \in 1 .. Len(s) |-> e(n)] \in Seq(P)
  <2>. HIDE DEF e, P
  <2>. QED BY <1>1, <1>2, IsASeq
<1>4. s = << >> => NotMine(s) = << >>
  BY <1>1, EmptySeq DEF NotMine
<1>. QED BY <1>1, <1>3, <1>4 DEF NotMine

LEMMA NotMineHost ==
    ASSUME NEW V, NEW s \in Seq([val : V, mine : BOOLEAN])
    PROVE  /\ NotMine(s) \in Seq([val : V, mine : BOOLEAN])
           /\ s = << >> => NotMine(s) = << >>
<1>. DEFINE P == [val : V, mine : BOOLEAN]
            e(n) == [s[n] EXCEPT !.mine = FALSE]
<1>1. /\ Len(s) \in Nat
      /\ DOMAIN s = 1 .. Len(s)
      /\ \A n \in 1 .. Len(s) : s[n] \in P
  BY LenProperties, ElementOfSeq
<1>2. \A n \in 1 .. Len(s) : e(n) \in P
  BY <1>1
<1>3. [n \in 1 .. Len(s) |-> e(n)] \in Seq(P)
  <2>. HIDE DEF e, P
  <2>. QED BY <1>1, <1>2, IsASeq
<1>4. s = << >> => NotMine(s) = << >>
  BY <1>1, EmptySeq DEF NotMine
<1>. QED BY <1>1, <1>3, <1>4 DEF NotMine

LEMMA CommandsType == /\ {Get, Save, Reset} \subseteq Commands
                      /\ \A m \in Modes : Set(m) \in Commands
BY DEF Commands

LEMMA ArgType == \A c \in Commands : c.op = "set" => c.arg \in Modes
BY DEF Commands, Get, Save, Reset, Set

-----------------------------------------------------------------------------
(* Types *)

Threadlike == /\ core \in Cores
              /\ verify \in BOOLEAN
              /\ pc \in {"core_ctor", "derived_ctor", "main", "clear", "send", "wait",
                         "return", "saved", "spin", "no_timer", "no_core"}
              /\ job \in {"none", "ctor", "check", "srv", "set", "save", "verify"}
              /\ tries \in 0 .. Tries - 1
              /\ want \in Modes \cup {"none"}
              /\ cmd \in Commands
              /\ result \in Reply \cup {NoReply}
              /\ initDone_ \in BOOLEAN
              /\ debugResultFlag_ \in BOOLEAN
              /\ debugResultStr_ \in Reply \cup {NoReply}
              /\ foreign \in BOOLEAN
              /\ clean \in BOOLEAN

Linklike == /\ toDev \in Seq(Packet)
            /\ toHost \in Seq(Reply)
            /\ conn \in {"up", "opening", "thrown"}
            /\ ram \in Modes
            /\ flash \in Modes

\* open() changes nothing but the state of the link.
LEMMA OpenLeaves ==
    ASSUME Reopened \/ OpenThrows
    PROVE  /\ UNCHANGED <<setup, pc, locals, shared, toDev, toHost, base, ghosts>>
           /\ conn' \in {"up", "thrown"}
BY DEF Reopened, OpenThrows

LEMMA InitIInv == Init => IInv
<1>. SUFFICES ASSUME Init PROVE IInv
  OBVIOUS
<1>1. Linklike
  BY EmptySeq DEF Init, Linklike
<1>2. Threadlike
  <2>1. Get \in Commands /\ 0 \in 0 .. Tries - 1
    BY CommandsType, CountAssumption
  <2>2. verify \in BOOLEAN /\ initDone_ \in BOOLEAN /\ debugResultFlag_ \in BOOLEAN
        /\ foreign \in BOOLEAN /\ clean \in BOOLEAN
    BY Zenon DEF Init
  <2>3. pc \in {"main", "core_ctor"} /\ core \in Cores
    BY DEF Init
  <2>. QED BY <2>1, <2>2, <2>3 DEF Init, Threadlike
<1>3. Own /\ ReplyMatches /\ ~clean
  BY DEF Init, Own, ReplyMatches
<1>. QED BY <1>1, <1>2, <1>3 DEF IInv, TypeOK, Linklike, Threadlike

LEMMA NextLink == TypeOK /\ [Next]_vars => Linklike'
<1>. SUFFICES ASSUME TypeOK, [Next]_vars PROVE Linklike'
  OBVIOUS
<1>t. Linklike /\ cmd \in Commands
  BY DEF TypeOK, Linklike
<1>. USE DEF link, base
<1>s. ASSUME NEW c \in Commands, NEW b \in BOOLEAN, SendOk(c, b)
      PROVE  toDev' \in Seq(Packet)
  <2>1. [cmd |-> c, mine |-> b] \in Packet
    BY DEF Packet
  <2>. QED BY <1>t, <1>s, <2>1, AppendProperties DEF SendOk, Linklike
<1>1. CASE UNCHANGED <<link, base>>
  BY <1>t, <1>1 DEF Linklike
<1>2. CASE Clear
  <2>1. toDev' \in Seq(Packet)
    BY <1>t, <1>2, NotMineDev DEF Clear, Linklike, Packet
  <2>2. toHost' \in Seq(Reply)
    BY <1>t, <1>2, NotMineHost DEF Clear, Linklike, Reply
  <2>. QED BY <1>t, <1>2, <2>1, <2>2 DEF Clear, Linklike
<1>3. CASE Send
  BY <1>t, <1>s, <1>3 DEF Send, SendOk, Linklike
<1>r. ASSUME Reopens, UNCHANGED base PROVE Linklike'
  BY <1>t, <1>r DEF Reopens, Linklike
<1>4. CASE SendReset
  BY <1>t, <1>s, <1>r, <1>4, CommandsType DEF SendReset, SendOk, Linklike
<1>5. ASSUME NEW c \in Commands, debugCmdCallback(c) PROVE Linklike'
  BY <1>t, <1>s, <1>r, <1>5 DEF debugCmdCallback, SendOk, Linklike
<1>6. CASE BaseTakes
  <2>1. Head(toDev) \in Packet /\ toDev' \in Seq(Packet) /\ conn' = conn
    BY <1>t, <1>6, HeadTailProperties DEF BaseTakes, Linklike
  <2>2. ASSUME NEW v \in Values, Answers(v) PROVE toHost' \in Seq(Reply)
    <3>1. [val |-> v, mine |-> Head(toDev).mine] \in Reply
      BY <2>1 DEF Packet, Reply, Values
    <3>. QED BY <1>t, <2>2, <3>1, AppendProperties DEF Answers, Linklike
  <2>. DEFINE c == Head(toDev).cmd
  <2>3. c \in Commands
    BY <2>1 DEF Packet
  <2>4. CASE c.op = "set" /\ ram' = c.arg /\ Answers("ok") /\ UNCHANGED flash
    BY <1>t, <2>1, <2>2, <2>3, <2>4, ArgType DEF Linklike, Values
  <2>5. CASE flash' = ram /\ Answers("ok") /\ UNCHANGED ram
    BY <1>t, <2>1, <2>2, <2>5 DEF Linklike, Values
  <2>6. CASE Answers("error") /\ UNCHANGED base
    BY <1>t, <2>1, <2>2, <2>6 DEF Linklike, Values
  <2>7. CASE Answers(ram) /\ UNCHANGED base
    BY <1>t, <2>1, <2>2, <2>7 DEF Linklike, Values
  <2>8. CASE ram' = flash /\ UNCHANGED <<flash, toHost>>
    BY <1>t, <2>1, <2>8 DEF Linklike
  <2>. QED BY <1>6, <2>4, <2>5, <2>6, <2>7, <2>8 DEF BaseTakes
<1>7. CASE CommandLost
  BY <1>t, <1>7, HeadTailProperties DEF CommandLost, Linklike
<1>8. CASE ReplyLost \/ Receive
  BY <1>t, <1>8, HeadTailProperties DEF ReplyLost, Receive, Linklike
<1>9. CASE Starting \/ Got \/ Timeout \/ ReturnCtor \/ ReturnCheck
              \/ ReturnSrv \/ ReturnSet \/ ReturnSave \/ ReturnVerify \/ EarlyFrame
  BY <1>1, <1>9
     DEF Starting, CoreCtor, DerivedCtor, MainVerifies, MainNoCore, MainSpins,
         Got, Timeout, ReturnCtor, ReturnCheck, ReturnSrv, ReturnSet, ReturnSave,
         ReturnVerify, EarlyFrame
<1>12. CASE SendFails
  BY <1>r, <1>12 DEF SendFails
<1>13. CASE Reopened \/ OpenThrows
  BY <1>t, <1>13, OpenLeaves DEF Linklike
<1>10. CASE (\E c \in Commands : debugCmdSrv(c)) \/ (\E m \in Modes : SaveRequest(m))
  BY <1>1, <1>10 DEF debugCmdSrv, SaveRequest
<1>11. CASE UNCHANGED vars
  BY <1>1, <1>11 DEF vars
<1>. QED BY <1>2, <1>3, <1>4, <1>5, <1>6, <1>7, <1>8, <1>9, <1>10, <1>11, <1>12, <1>13
         DEF Next, Thread, Waiting, Returning, Clients

LEMMA NextThread == TypeOK /\ [Next]_vars => Threadlike'
<1>. SUFFICES ASSUME TypeOK, [Next]_vars PROVE Threadlike'
  OBVIOUS
<1>t. Threadlike /\ Linklike
  BY DEF TypeOK, Threadlike, Linklike
<1>c. {Get, Save, Reset} \subseteq Commands /\ 0 \in 0 .. Tries - 1
  BY CommandsType, CountAssumption
<1>. USE DEF setup, locals, shared, link, base, ghosts, Goto, Spin, Call, Returned
<1>1. CASE UNCHANGED <<setup, pc, locals, shared, ghosts>>
  BY <1>t, <1>1 DEF Threadlike
<1>2. CASE Starting
  BY <1>t, <1>c, <1>2 DEF Starting, CoreCtor, DerivedCtor, MainVerifies, MainNoCore,
                          MainSpins, Threadlike
<1>3. CASE Clear
  BY <1>t, <1>3 DEF Clear, Threadlike
<1>4. CASE Send
  <2>1. [val |-> "ok", mine |-> TRUE] \in Reply
    BY DEF Reply
  <2>2. result' \in Reply \cup {NoReply}
    BY <1>t, <1>4, <2>1 DEF Send, Threadlike
  <2>. QED BY <1>t, <1>4, <2>2 DEF Send, Threadlike
<1>5. CASE SendFails \/ Got \/ Timeout \/ ReturnCtor
  BY <1>t, <1>5 DEF SendFails, Got, Timeout, ReturnCtor, Threadlike
<1>6. ASSUME ~LastTry PROVE tries + 1 \in 0 .. Tries - 1
  BY <1>t, <1>6, CountAssumption DEF LastTry, Threadlike
<1>7. CASE ReturnCheck
  BY <1>t, <1>c, <1>6, <1>7 DEF ReturnCheck, Threadlike
<1>8. CASE ReturnVerify
  BY <1>t, <1>c, <1>6, <1>8 DEF ReturnVerify, Threadlike
<1>9. CASE ReturnSrv \/ ReturnSet \/ ReturnSave \/ SendReset
  BY <1>t, <1>c, <1>9 DEF ReturnSrv, ReturnSet, ReturnSave, SendReset, Threadlike
<1>10. ASSUME NEW c \in Commands, debugCmdSrv(c) PROVE Threadlike'
  BY <1>t, <1>10 DEF debugCmdSrv, Threadlike
<1>11. ASSUME NEW m \in Modes, SaveRequest(m) PROVE Threadlike'
  <2>1. cmd' \in Commands /\ clean' \in BOOLEAN
    BY <1>11, CommandsType DEF SaveRequest
  <2>. QED BY <1>t, <1>11, <2>1 DEF SaveRequest, Threadlike
<1>12. CASE Receive
  <2>1. Head(toHost) \in Reply
    BY <1>t, <1>12, HeadTailProperties DEF Receive, Linklike
  <2>2. debugResultFlag_' \in BOOLEAN
    BY <1>t, <1>12, Zenon DEF Receive, Threadlike
  <2>3. debugResultStr_' \in Reply \cup {NoReply}
    BY <1>t, <1>12, <2>1 DEF Receive, Threadlike
  <2>4. UNCHANGED <<setup, pc, locals, initDone_, ghosts>>
    BY <1>12 DEF Receive
  <2>. QED BY <1>t, <2>2, <2>3, <2>4 DEF Threadlike
<1>13. CASE EarlyFrame
  BY <1>t, <1>13 DEF EarlyFrame, Threadlike
<1>14. CASE BaseTakes \/ CommandLost \/ ReplyLost
  BY <1>1, <1>14 DEF BaseTakes, CommandLost, ReplyLost
<1>15. ASSUME NEW c \in Commands, debugCmdCallback(c) PROVE Threadlike'
  BY <1>1, <1>15 DEF debugCmdCallback
<1>16. CASE UNCHANGED vars \/ Reopened \/ OpenThrows
  BY <1>1, <1>16, OpenLeaves DEF vars
<1>. QED BY <1>2, <1>3, <1>4, <1>5, <1>7, <1>8, <1>9, <1>10, <1>11, <1>12, <1>13,
            <1>14, <1>15, <1>16
         DEF Next, Thread, Waiting, Returning, Clients

-----------------------------------------------------------------------------
(* A wait begun with nothing in flight *)

LEMMA NextOwn == TypeOK /\ Own /\ ReplyMatches /\ [Next]_vars => Own' /\ ReplyMatches'
<1>. SUFFICES ASSUME TypeOK, Own, ReplyMatches, [Next]_vars
              PROVE  Own' /\ ReplyMatches'
  OBVIOUS
<1>. DEFINE MyCommand == [cmd : Commands, mine : {TRUE}]
            MyReply == [val : Values, mine : {TRUE}]
<1>t. cmd \in Commands /\ toDev \in Seq(Packet) /\ toHost \in Seq(Reply)
  BY DEF TypeOK
<1>. USE DEF setup, locals, shared, link, base, ghosts, Goto, Spin, Call, Returned
<1>0. CASE pc' \notin {"send", "wait", "return"}
  BY <1>0 DEF Own, ReplyMatches
<1>1. CASE UNCHANGED <<pc, result, foreign, debugResultFlag_, debugResultStr_, toDev, toHost>>
  BY <1>1 DEF Own, ReplyMatches
<1>2. CASE Clear
  <2>1. ASSUME ~foreign' PROVE toDev' = << >> /\ toHost' = << >>
    BY <1>t, <1>2, <2>1, NotMineDev, NotMineHost DEF Clear, Packet, Reply
  <2>2. << >> \in Seq(MyCommand) /\ << >> \in Seq(MyReply)
    BY EmptySeq
  <2>. QED BY <1>2, <2>1, <2>2 DEF Clear, Own, ReplyMatches
<1>3. CASE Send
  <2>1. ASSUME pc' = "wait", ~foreign' PROVE toDev' \in Seq(MyCommand)
    <3>1. [cmd |-> cmd, mine |-> TRUE] \in MyCommand
      BY <1>t
    <3>2. toDev \in Seq(MyCommand)
      BY <1>3, <2>1 DEF Send, Own
    <3>. HIDE DEF MyCommand
    <3>. QED BY <1>3, <3>1, <3>2, AppendProperties DEF Send, SendOk
  <2>2. pc' = "return" => result'.mine
    BY <1>3 DEF Send
  <2>. QED BY <1>3, <2>1, <2>2 DEF Send, SendOk, Own, ReplyMatches
<1>4. CASE SendFails \/ Timeout
  BY <1>4 DEF SendFails, Reopens, Timeout, Own, ReplyMatches
<1>5. CASE Got
  BY <1>5 DEF Got, Own, ReplyMatches
<1>6. CASE Receive
  <2>1. ASSUME pc \in {"send", "wait"}, ~foreign
        PROVE  Head(toHost).mine /\ toHost' \in Seq(MyReply)
    <3>1. toHost \in Seq(MyReply)
      BY <2>1 DEF Own
    <3>2. Head(toHost) \in MyReply /\ toHost' \in Seq(MyReply)
      <4>. HIDE DEF MyReply
      <4>. QED BY <1>6, <3>1, HeadTailProperties DEF Receive
    <3>. QED BY <3>2
  <2>. QED BY <1>6, <2>1 DEF Receive, Own, ReplyMatches
<1>7. CASE BaseTakes
  <2>1. ASSUME pc \in {"send", "wait"}, ~foreign
        PROVE  toDev' \in Seq(MyCommand) /\ toHost' \in Seq(MyReply)
    <3>1. toDev \in Seq(MyCommand) /\ toHost \in Seq(MyReply)
      BY <2>1 DEF Own
    <3>2. Head(toDev) \in MyCommand /\ toDev' \in Seq(MyCommand)
      <4>. HIDE DEF MyCommand
      <4>. QED BY <1>7, <3>1, HeadTailProperties DEF BaseTakes
    <3>3. ASSUME NEW v \in Values, Answers(v) PROVE toHost' \in Seq(MyReply)
      <4>1. [val |-> v, mine |-> Head(toDev).mine] \in MyReply
        BY <3>2
      <4>. HIDE DEF MyReply
      <4>. QED BY <3>1, <3>3, <4>1, AppendProperties DEF Answers
    <3>4. \/ \E v \in Values : Answers(v)
          \/ UNCHANGED toHost
      BY <1>7 DEF BaseTakes, Values, TypeOK
    <3>. QED BY <3>1, <3>2, <3>3, <3>4
  <2>. QED BY <1>7, <2>1 DEF BaseTakes, Own, ReplyMatches
<1>8. CASE CommandLost
  <2>1. ASSUME pc \in {"send", "wait"}, ~foreign PROVE toDev' \in Seq(MyCommand)
    <3>. HIDE DEF MyCommand
    <3>. QED BY <1>8, <2>1, HeadTailProperties DEF CommandLost, Own, MyCommand
  <2>. QED BY <1>8, <2>1 DEF CommandLost, Own, ReplyMatches
<1>9. CASE ReplyLost
  <2>1. ASSUME pc \in {"send", "wait"}, ~foreign PROVE toHost' \in Seq(MyReply)
    BY <1>9, <2>1, HeadTailProperties DEF ReplyLost, Own
  <2>. QED BY <1>9, <2>1 DEF ReplyLost, Own, ReplyMatches
<1>10. CASE Starting \/ EarlyFrame \/ Returning
  BY <1>0, <1>10
     DEF Starting, CoreCtor, DerivedCtor, MainVerifies, MainNoCore, MainSpins,
         EarlyFrame, Returning, ReturnCtor, ReturnCheck, ReturnSrv, ReturnSet,
         ReturnSave, ReturnVerify, SendReset
<1>11. CASE Clients
  BY <1>0, <1>11 DEF Clients, debugCmdSrv, debugCmdCallback, SaveRequest, Serving
<1>12. CASE UNCHANGED vars \/ Reopened \/ OpenThrows
  BY <1>1, <1>12, OpenLeaves DEF vars
<1>. QED BY <1>2, <1>3, <1>4, <1>5, <1>6, <1>7, <1>8, <1>9, <1>10, <1>11, <1>12
         DEF Next, Thread, Waiting

-----------------------------------------------------------------------------
(* The pipeline *)

LEMMA ExpectedDistinct == Set(want) # Save /\ Set(want) # Get /\ Save # Get
BY DEF Set, Save, Get

\* Nothing but the packets in flight, memory and flash changes.
LEMMA PipelineInFlight ==
    ASSUME TypeOK, clean, Pipeline,
           BaseTakes \/ CommandLost \/ ReplyLost
    PROVE  Pipeline'
<1>. DEFINE D == [cmd : {cmd}, mine : BOOLEAN]
            H == [val : Telling, mine : BOOLEAN]
<1>p. /\ toDev \in Seq(D) /\ toHost \in Seq(H)
      /\ Len(toDev) \in Nat /\ Len(toHost) \in Nat
  BY LenProperties DEF Pipeline
<1>u. UNCHANGED <<pc, job, want, cmd, result, debugResultFlag_, debugResultStr_, clean>>
  BY DEF BaseTakes, CommandLost, ReplyLost, locals, shared, ghosts
<1>. USE DEF base
<1>1. CASE BaseTakes
  <2>1. toDev # << >> /\ toDev' = Tail(toDev)
    BY <1>1 DEF BaseTakes
  <2>2. /\ Head(toDev).cmd = cmd /\ Head(toDev).mine \in BOOLEAN
        /\ toDev' \in Seq(D) /\ Len(toDev') = Len(toDev) - 1
    <3>1. Head(toDev) \in D /\ toDev' \in Seq(D) /\ Len(toDev') = Len(toDev) - 1
      <4>. HIDE DEF D
      <4>. QED BY <1>p, <2>1, HeadTailProperties
    <3>. QED BY <3>1
  <2>3. /\ cmd = Expected /\ want \in Modes /\ ram \in Modes
        /\ job \in {"set", "save", "verify"}
        /\ job = "save" => ram = want
        /\ job = "verify" => flash = want
    BY DEF Pipeline, TypeOK
  <2>4. PICK v \in Values :
             /\ Answers(v)
             /\ v \in Telling'
             /\ Telling \subseteq Telling'
             /\ job = "save" => ram' = want
             /\ job = "verify" => flash' = want
    <3>1. CASE job = "set"
      <4>1. Head(toDev).cmd = Set(want)
        BY <2>2, <2>3, <3>1 DEF Expected
      <4>2. \/ ram' = want /\ Answers("ok")
            \/ UNCHANGED base /\ Answers("error")
        BY <1>1, <4>1 DEF BaseTakes, Set
      <4>. QED BY <1>u, <3>1, <4>2 DEF Telling, Values
    <3>2. CASE job = "save"
      <4>1. Head(toDev).cmd = Save
        BY <2>2, <2>3, <3>2 DEF Expected
      <4>2. \/ flash' = ram /\ UNCHANGED ram /\ Answers("ok")
            \/ UNCHANGED base /\ Answers("error")
        BY <1>1, <4>1 DEF BaseTakes, Save
      <4>. QED BY <1>u, <2>3, <3>2, <4>2 DEF Telling, Values
    <3>3. CASE job = "verify"
      <4>1. Head(toDev).cmd = Get
        BY <2>2, <2>3, <3>3 DEF Expected
      <4>2. UNCHANGED base /\ Answers(ram)
        BY <1>1, <4>1 DEF BaseTakes, Get
      <4>. QED BY <1>u, <2>3, <3>3, <4>2 DEF Telling, Values
    <3>. QED BY <2>3, <3>1, <3>2, <3>3
  <2>. DEFINE G == [val : Telling', mine : BOOLEAN]
  <2>5. toHost' \in Seq(G) /\ Len(toHost') = Len(toHost) + 1
    <3>1. H \subseteq G
      BY <2>4
    <3>2. [val |-> v, mine |-> Head(toDev).mine] \in G
      BY <2>2, <2>4
    <3>. HIDE DEF G, H
    <3>3. toHost \in Seq(G)
      BY <1>p, <3>1, SeqMonotonic
    <3>. QED BY <2>4, <3>2, <3>3, AppendProperties DEF Answers
  <2>6. job \in {"set", "save"} => Alone'
    <3>1. job \in {"set", "save"} => Alone
      BY DEF Pipeline
    <3>2. Len(toDev') + Len(toHost') = Len(toDev) + Len(toHost)
      BY <1>p, <2>2, <2>5
    <3>. QED BY <1>u, <2>1, <3>1, <3>2 DEF Alone, Empty
  <2>. QED BY <1>u, <2>2, <2>3, <2>4, <2>5, <2>6 DEF Pipeline, Expected
<1>2. CASE CommandLost
  <2>1. /\ toDev # << >> /\ toDev' = Tail(toDev)
        /\ UNCHANGED <<toHost, ram, flash>>
    BY <1>2 DEF CommandLost
  <2>2. toDev' \in Seq(D) /\ Len(toDev') = Len(toDev) - 1
    <3>. HIDE DEF D
    <3>. QED BY <1>p, <2>1, HeadTailProperties
  <2>3. Telling' = Telling
    BY <1>u, <2>1 DEF Telling
  <2>4. job \in {"set", "save"} => Alone'
    BY <1>u, <1>p, <2>1, <2>2 DEF Pipeline, Alone, Empty
  <2>. QED BY <1>u, <2>1, <2>2, <2>3, <2>4 DEF Pipeline, Expected
<1>3. CASE ReplyLost
  <2>1. /\ toHost # << >> /\ toHost' = Tail(toHost)
        /\ UNCHANGED <<toDev, ram, flash>>
    BY <1>3 DEF ReplyLost
  <2>2. toHost' \in Seq(H) /\ Len(toHost') = Len(toHost) - 1
    <3>. HIDE DEF H
    <3>. QED BY <1>p, <2>1, HeadTailProperties
  <2>3. Telling' = Telling
    BY <1>u, <2>1 DEF Telling
  <2>4. job \in {"set", "save"} => Alone'
    BY <1>u, <1>p, <2>1, <2>2 DEF Pipeline, Alone, Empty
  <2>. QED BY <1>u, <2>1, <2>2, <2>3, <2>4 DEF Pipeline, Expected
<1>. QED BY <1>1, <1>2, <1>3

LEMMA PipelineReceive ==
    ASSUME TypeOK, clean, Pipeline, Receive PROVE Pipeline'
<1>. DEFINE H == [val : Telling, mine : BOOLEAN]
<1>u. /\ UNCHANGED <<pc, job, want, cmd, result, clean, toDev, ram, flash>>
      /\ toHost # << >> /\ toHost' = Tail(toHost)
  BY DEF Receive, locals, base, ghosts
<1>p. toHost \in Seq(H) /\ Len(toHost) \in Nat /\ Len(toDev) \in Nat
  BY LenProperties DEF Pipeline
<1>1. /\ Head(toHost).val \in Telling
      /\ toHost' \in Seq(H) /\ Len(toHost') = Len(toHost) - 1
  <2>1. Head(toHost) \in H /\ toHost' \in Seq(H) /\ Len(toHost') = Len(toHost) - 1
    <3>. HIDE DEF H
    <3>. QED BY <1>u, <1>p, HeadTailProperties
  <2>. QED BY <2>1
<1>2. Telling' = Telling
  BY <1>u DEF Telling
<1>3. job \in {"set", "save"} => Alone'
  <2>1. CASE job \notin {"set", "save"}
    BY <2>1
  <2>2. CASE Alone
    <3>1. pc \notin {"clear", "send"}
      BY <1>u, <2>2 DEF Alone, Empty
    <3>2. pc = "wait" => /\ ~debugResultFlag_
                         /\ Len(toDev') + Len(toHost') <= 0
      BY <1>u, <1>p, <1>1, <2>2 DEF Alone
    <3>3. \A k \in Nat : k <= 0 => k <= IF debugResultFlag_' THEN 0 ELSE 1
      OBVIOUS
    <3>4. Len(toDev') \in Nat /\ Len(toHost') \in Nat
      BY <1>u, <1>p, <1>1, LenProperties
    <3>5. pc = "return" => result = NoReply
      BY <1>u, <2>2 DEF Alone, Empty
    <3>. QED BY <1>u, <2>2, <3>1, <3>2, <3>3, <3>4, <3>5 DEF Alone
  <2>. QED BY <2>1, <2>2 DEF Pipeline
<1>4. pc' \in {"send", "wait"} /\ debugResultFlag_' => debugResultStr_'.val \in Telling
  BY <1>u, <1>1 DEF Receive, Pipeline
<1>. QED BY <1>u, <1>1, <1>2, <1>3, <1>4 DEF Pipeline, Expected

LEMMA PipelineWaits ==
    ASSUME TypeOK, clean, Pipeline, Waiting PROVE Pipeline'
<1>. DEFINE D == [cmd : {cmd}, mine : BOOLEAN]
            H == [val : Telling, mine : BOOLEAN]
<1>u. UNCHANGED <<job, want, cmd, clean, ram, flash>>
  BY DEF Waiting, Clear, Send, SendFails, Got, Timeout, locals, base, ghosts
<1>p. /\ toDev \in Seq(D) /\ toHost \in Seq(H)
      /\ Len(toDev) \in Nat /\ Len(toHost) \in Nat
  BY LenProperties DEF Pipeline
<1>e. Telling' = Telling
  BY <1>u DEF Telling
<1>r. cmd # Reset
  BY DEF Pipeline, Expected, Set, Save, Get, Reset
<1>. USE DEF Goto, shared, link, locals
<1>1. CASE Clear
  <2>1. /\ toDev' \in Seq(D) /\ toHost' \in Seq(H)
        /\ toDev = << >> => toDev' = << >>
        /\ toHost = << >> => toHost' = << >>
    BY <1>1, <1>p, NotMineDev, NotMineHost DEF Clear
  <2>2. pc = "clear" /\ pc' = "send" /\ ~debugResultFlag_'
    BY <1>1 DEF Clear
  <2>3. job \in {"set", "save"} => Alone'
    BY <1>u, <2>1, <2>2 DEF Pipeline, Alone, Empty
  <2>. QED BY <1>u, <1>e, <2>1, <2>2, <2>3 DEF Pipeline, Expected
<1>2. CASE Send
  <2>1. /\ pc = "send" /\ pc' = "wait"
        /\ UNCHANGED <<toHost, debugResultFlag_, debugResultStr_>>
        /\ toDev' = Append(toDev, [cmd |-> cmd, mine |-> TRUE])
    BY <1>2, <1>r DEF Send, SendOk
  <2>2. toDev' \in Seq(D) /\ Len(toDev') = Len(toDev) + 1
    <3>1. [cmd |-> cmd, mine |-> TRUE] \in D
      OBVIOUS
    <3>. HIDE DEF D
    <3>. QED BY <1>p, <2>1, <3>1, AppendProperties
  <2>3. job \in {"set", "save"} => Alone'
    <3>1. Len(<< >>) = 0
      BY EmptySeq
    <3>. QED BY <1>u, <2>1, <2>2, <3>1 DEF Pipeline, Alone, Empty
  <2>. QED BY <1>u, <1>e, <2>1, <2>2, <2>3 DEF Pipeline, Expected
<1>3. CASE SendFails \/ Timeout
  <2>1. /\ pc' = "return" /\ result' = NoReply
        /\ UNCHANGED <<toDev, toHost, debugResultFlag_, debugResultStr_>>
    BY <1>3 DEF SendFails, Reopens, Timeout
  <2>. QED BY <1>u, <1>e, <2>1 DEF Pipeline, Expected, Alone
<1>4. CASE Got
  <2>1. /\ pc = "wait" /\ debugResultFlag_ /\ pc' = "return"
        /\ result' = debugResultStr_
        /\ UNCHANGED <<toDev, toHost, debugResultFlag_, debugResultStr_>>
    BY <1>4 DEF Got
  <2>2. job \in {"set", "save"} => Alone'
    <3>1. ASSUME job \in {"set", "save"} PROVE toDev = << >> /\ toHost = << >>
      <4>1. Len(toDev) + Len(toHost) <= 0
        BY <2>1, <3>1 DEF Pipeline, Alone
      <4>2. Len(toDev) = 0 /\ Len(toHost) = 0
        BY <1>p, <4>1
      <4>. QED BY <1>p, <4>2, EmptySeq
    <3>. QED BY <1>u, <2>1, <3>1 DEF Alone, Empty
  <2>. QED BY <1>u, <1>e, <2>1, <2>2 DEF Pipeline, Expected
<1>. QED BY <1>1, <1>2, <1>3, <1>4 DEF Waiting

\* A caller goes on with the next command, or the pipeline is left.
LEMMA PipelineReturns ==
    ASSUME TypeOK, clean, Pipeline, Returning, clean' PROVE Pipeline'
<1>. USE DEF Goto, shared, link, locals, base, ghosts, Returned, Call, Spin
<1>n. \A V : << >> \in Seq(V)
  BY EmptySeq
<1>1. CASE ReturnSet
  <2>1. /\ job = "set" /\ job' = "save" /\ cmd' = Save /\ pc = "return" /\ pc' = "clear"
        /\ result # NoReply /\ result.val # "error"
        /\ UNCHANGED <<want, ram, flash, toDev, toHost>>
    BY <1>1 DEF ReturnSet, Acceptable
  <2>2. Empty
    BY <2>1 DEF Pipeline, Alone
  <2>3. ram = want
    BY <2>1 DEF Pipeline, Telling
  <2>. QED BY <1>n, <2>1, <2>2, <2>3 DEF Pipeline, Expected, Alone, Empty
<1>2. CASE ReturnSave
  <2>1. /\ job = "save" /\ job' = "verify" /\ cmd' = Get /\ pc = "return" /\ pc' = "clear"
        /\ result # NoReply /\ result.val # "error"
        /\ UNCHANGED <<want, ram, flash, toDev, toHost>>
    BY <1>2 DEF ReturnSave, Acceptable
  <2>2. Empty
    BY <2>1 DEF Pipeline, Alone
  <2>3. flash = want
    BY <2>1 DEF Pipeline, Telling
  <2>. QED BY <1>n, <2>1, <2>2, <2>3 DEF Pipeline, Expected, Empty
<1>3. CASE ReturnVerify
  <2>1. /\ job = "verify" /\ job' = "verify" /\ pc' \in {"clear", "saved"}
        /\ UNCHANGED <<want, ram, flash, toDev, toHost>>
        /\ cmd' = Get
    BY <1>3 DEF ReturnVerify, Pipeline, Expected
  <2>2. cmd = Get
    BY <2>1 DEF Pipeline, Expected
  <2>3. Telling' = Telling
    BY <2>1 DEF Telling
  <2>. QED BY <2>1, <2>2, <2>3 DEF Pipeline, Expected
<1>4. CASE ReturnCtor \/ ReturnCheck \/ ReturnSrv \/ SendReset
  BY <1>4 DEF ReturnCtor, ReturnCheck, ReturnSrv, SendReset, Pipeline
<1>. QED BY <1>1, <1>2, <1>3, <1>4 DEF Returning

LEMMA NextPipeline ==
    TypeOK /\ (clean => Pipeline) /\ [Next]_vars => (clean => Pipeline)'
<1>. SUFFICES ASSUME TypeOK, clean => Pipeline, [Next]_vars, clean' PROVE Pipeline'
  OBVIOUS
<1>. USE DEF setup, locals, shared, link, base, ghosts, Goto, Spin, Call
<1>1. ASSUME NEW m \in Modes, SaveRequest(m) PROVE Pipeline'
  <2>1. /\ want' = m /\ job' = "set" /\ cmd' = Set(m) /\ pc' = "clear"
        /\ toDev' = << >> /\ toHost' = << >>
    BY <1>1 DEF SaveRequest
  <2>2. \A V : << >> \in Seq(V)
    BY EmptySeq
  <2>. QED BY <2>1, <2>2 DEF Pipeline, Expected, Alone, Empty
<1>2. CASE clean /\ (BaseTakes \/ CommandLost \/ ReplyLost)
  BY <1>2, PipelineInFlight
<1>3. CASE clean /\ Receive
  BY <1>3, PipelineReceive
<1>4. CASE clean /\ Waiting
  BY <1>4, PipelineWaits
<1>5. CASE clean /\ Returning
  BY <1>5, PipelineReturns
<1>6. CASE clean /\ (Starting \/ EarlyFrame)
  BY <1>6 DEF Starting, CoreCtor, DerivedCtor, MainVerifies, MainNoCore, MainSpins,
              EarlyFrame, Pipeline
<1>7. CASE clean /\ (\E c \in Commands : debugCmdSrv(c) \/ debugCmdCallback(c))
  BY <1>7 DEF debugCmdSrv, debugCmdCallback, Serving, Pipeline
<1>8. CASE UNCHANGED vars \/ Reopened \/ OpenThrows
  <2>1. UNCHANGED <<pc, locals, shared, toDev, toHost, base, ghosts>>
    BY <1>8, OpenLeaves DEF vars
  <2>. QED BY <2>1 DEF Pipeline, Expected, Telling, Alone, Empty
<1>9. ASSUME Next, ~\E m \in Modes : SaveRequest(m) PROVE clean
  <2>1. UNCHANGED clean \/ clean' = FALSE
    BY <1>9, OpenLeaves DEF Next, Thread, Starting, CoreCtor, DerivedCtor, MainVerifies, MainNoCore,
         MainSpins, EarlyFrame, Waiting, Clear, Send, SendFails, Got, Timeout,
         Returning, ReturnCtor, ReturnCheck, ReturnSrv, ReturnSet, ReturnSave,
         ReturnVerify, SendReset, Clients, debugCmdSrv, debugCmdCallback, Receive,
         BaseTakes, CommandLost, ReplyLost
  <2>. QED BY <2>1
<1>. QED BY <1>1, <1>2, <1>3, <1>4, <1>5, <1>6, <1>7, <1>8, <1>9
         DEF Next, Thread, Clients

LEMMA Inductive == Spec => []IInv
<1>1. IInv /\ [Next]_vars => IInv'
  <2>. SUFFICES ASSUME IInv, [Next]_vars PROVE IInv'
    OBVIOUS
  <2>1. TypeOK'
    BY NextLink, NextThread DEF IInv, TypeOK, Linklike, Threadlike
  <2>. QED BY <2>1, NextOwn, NextPipeline DEF IInv
<1>. QED BY <1>1, InitIInv, PTL DEF Spec

-----------------------------------------------------------------------------
\* The variables keep their types (TianbotCore, main).
THEOREM TypeCorrect == Spec => []TypeOK
<1>1. IInv => TypeOK
  BY DEF IInv
<1>. QED BY <1>1, Inductive, PTL

\* A wait begun with nothing in flight ends with its own reply or with none
\* (sendDebugCommandAndWait).
THEOREM ReplyIsMine == Spec => []ReplyMatches
<1>1. IInv => ReplyMatches
  BY DEF IInv
<1>. QED BY <1>1, Inductive, PTL

\* A pipeline begun with nothing in flight has written to flash what it says
\* it has (setControlModeCallback, verifyPcControlModePersisted).
THEOREM SavedIsInFlash == Spec => []SavedIsPersistent
<1>1. IInv => SavedIsPersistent
  BY DEF IInv, Pipeline, Alone, SavedIsPersistent
<1>. QED BY <1>1, Inductive, PTL

-----------------------------------------------------------------------------
(* How long the thread takes to come back to spin *)

\* StepsLeft and CallsBehind of any place, job and number of tries.
Behind(j, t) == [none |-> 0, srv |-> 0,
                 ctor |-> Tries + 1, set |-> Tries + 1, save |-> Tries,
                 check |-> Tries - 1 - t, verify |-> Tries - 1 - t][j]
Distance(l, n) ==
    [core_ctor |-> 4 * Tries + 11, derived_ctor |-> 4 * Tries + 10,
     main |-> 4 * Tries + 2,
     clear |-> 4 * n + 5, send |-> 4 * n + 4, wait |-> 4 * n + 3, return |-> 4 * n + 2,
     saved |-> 1, spin |-> 0, no_timer |-> 0, no_core |-> 0][l]

Jobs == {"none", "ctor", "check", "srv", "set", "save", "verify"}
Places == {"core_ctor", "derived_ctor", "main", "clear", "send", "wait",
           "return", "saved", "spin", "no_timer", "no_core"}

LEMMA BehindValues ==
    ASSUME NEW t \in 0 .. Tries - 1
    PROVE  /\ Behind("none", t) = 0 /\ Behind("srv", t) = 0
           /\ Behind("ctor", t) = Tries + 1 /\ Behind("set", t) = Tries + 1
           /\ Behind("save", t) = Tries
           /\ Behind("check", t) = Tries - 1 - t /\ Behind("verify", t) = Tries - 1 - t
           /\ \A j \in Jobs : Behind(j, t) \in Nat
<1>1. /\ Behind("none", t) = 0 /\ Behind("srv", t) = 0
      /\ Behind("ctor", t) = Tries + 1 /\ Behind("set", t) = Tries + 1
      /\ Behind("save", t) = Tries
      /\ Behind("check", t) = Tries - 1 - t /\ Behind("verify", t) = Tries - 1 - t
  BY DEF Behind
<1>2. Tries \in Nat /\ Tries - 1 - t \in Nat
  BY CountAssumption
<1>. QED BY <1>1, <1>2 DEF Jobs

LEMMA DistanceValues ==
    ASSUME NEW n \in Nat
    PROVE  /\ Distance("core_ctor", n) = 4 * Tries + 11
           /\ Distance("derived_ctor", n) = 4 * Tries + 10
           /\ Distance("main", n) = 4 * Tries + 2
           /\ Distance("clear", n) = 4 * n + 5 /\ Distance("send", n) = 4 * n + 4
           /\ Distance("wait", n) = 4 * n + 3 /\ Distance("return", n) = 4 * n + 2
           /\ Distance("saved", n) = 1 /\ Distance("spin", n) = 0
           /\ Distance("no_timer", n) = 0 /\ Distance("no_core", n) = 0
           /\ \A l \in Places : Distance(l, n) \in Nat
<1>1. /\ Distance("core_ctor", n) = 4 * Tries + 11
      /\ Distance("derived_ctor", n) = 4 * Tries + 10
      /\ Distance("main", n) = 4 * Tries + 2
      /\ Distance("clear", n) = 4 * n + 5 /\ Distance("send", n) = 4 * n + 4
      /\ Distance("wait", n) = 4 * n + 3 /\ Distance("return", n) = 4 * n + 2
      /\ Distance("saved", n) = 1 /\ Distance("spin", n) = 0
      /\ Distance("no_timer", n) = 0 /\ Distance("no_core", n) = 0
  BY DEF Distance
<1>2. Tries \in Nat
  BY CountAssumption
<1>. QED BY <1>1, <1>2 DEF Places

\* Every step of the thread takes it nearer to spin.
LEMMA ThreadCountsDown ==
    ASSUME TypeOK, Threadlike', Thread
    PROVE  StepsLeft' \in 0 .. StepsLeft /\ StepsLeft' < StepsLeft
<1>1. /\ pc \in Places /\ job \in Jobs /\ tries \in 0 .. Tries - 1
      /\ pc' \in Places /\ job' \in Jobs /\ tries' \in 0 .. Tries - 1
  BY DEF TypeOK, Threadlike, Places, Jobs
<1>2. PICK a \in Nat : a = Behind(job, tries)
  BY <1>1, BehindValues
<1>3. PICK b \in Nat : b = Behind(job', tries')
  BY <1>1, BehindValues
<1>4. PICK x \in Nat : x = Distance(pc, a) /\ x = StepsLeft
  <2>1. StepsLeft = Distance(pc, a)
    BY <1>2 DEF StepsLeft, CallsBehind, Distance, Behind
  <2>. QED BY <1>1, <2>1, DistanceValues
<1>5. PICK y \in Nat : y = Distance(pc', b) /\ y = StepsLeft'
  <2>1. StepsLeft' = Distance(pc', b)
    BY <1>3 DEF StepsLeft, CallsBehind, Distance, Behind
  <2>. QED BY <1>1, <2>1, DistanceValues
<1>6. SUFFICES y < x
  BY <1>4, <1>5
<1>t. PICK u \in 0 .. Tries - 1 : u = tries'
  BY <1>1
<1>7. Tries \in Nat \ {0}
  BY CountAssumption
<1>8. CASE Starting
  <2>1. CASE CoreCtor
    <3>1. pc = "core_ctor" /\ pc' = "derived_ctor"
      BY <2>1 DEF CoreCtor, Goto
    <3>2. x = 4 * Tries + 11 /\ y = 4 * Tries + 10
      BY <1>4, <1>5, <3>1, DistanceValues
    <3>. QED BY <1>7, <3>2
  <2>2. CASE DerivedCtor
    <3>1. pc = "derived_ctor" /\ (pc' = "main" \/ (pc' = "clear" /\ job' = "ctor"))
      <4>1. CASE core = "dyn"
        BY <2>2, <4>1 DEF DerivedCtor, Call, Goto
      <4>2. CASE core # "dyn"
        BY <2>2, <4>2 DEF DerivedCtor, Goto
      <4>. QED BY <4>1, <4>2
    <3>2. x = 4 * Tries + 10
      BY <1>4, <3>1, DistanceValues
    <3>3. CASE pc' = "main"
      <4>1. y = 4 * Tries + 2
        BY <1>5, <3>3, DistanceValues
      <4>. QED BY <1>7, <3>2, <4>1
    <3>4. CASE pc' = "clear" /\ job' = "ctor"
      <4>1. b = Tries + 1
        BY <1>1, <1>3, <3>4, BehindValues
      <4>2. y = 4 * b + 5
        BY <1>5, <3>4, DistanceValues
      <4>. QED BY <1>7, <3>2, <4>1, <4>2
    <3>. QED BY <3>1, <3>3, <3>4
  <2>3. CASE MainVerifies
    <3>1. pc = "main" /\ pc' = "clear" /\ job' = "check"
      BY <2>3 DEF MainVerifies, Goto, Call
    <3>2. x = 4 * Tries + 2
      BY <1>4, <3>1, DistanceValues
    <3>3. y = 4 * b + 5
      BY <1>5, <3>1, DistanceValues
    <3>4. b = Tries - 1 - u
      BY <1>1, <1>3, <1>t, <3>1, BehindValues
    <3>5. b <= Tries - 1
      BY <1>7, <3>4
    <3>. QED BY <1>7, <3>2, <3>3, <3>5
  <2>4. CASE MainNoCore \/ MainSpins
    <3>1. pc = "main" /\ pc' \in {"no_core", "spin"}
      BY <2>4 DEF MainNoCore, MainSpins, Goto, Spin
    <3>2. x = 4 * Tries + 2
      BY <1>4, <3>1, DistanceValues
    <3>3. CASE pc' = "spin"
      <4>1. y = 0
        BY <1>5, <3>3, DistanceValues
      <4>. QED BY <1>7, <3>2, <4>1
    <3>4. CASE pc' = "no_core"
      <4>1. y = 0
        BY <1>5, <3>4, DistanceValues
      <4>. QED BY <1>7, <3>2, <4>1
    <3>. QED BY <3>1, <3>3, <3>4
  <2>. QED BY <1>8, <2>1, <2>2, <2>3, <2>4 DEF Starting
<1>9. CASE Waiting
  <2>1. job' = job /\ tries' = tries
    BY <1>9 DEF Waiting, Clear, Send, SendFails, Got, Timeout, locals
  <2>2. b = a
    BY <1>2, <1>3, <2>1
  <2>3. CASE Clear
    <3>1. pc = "clear" /\ pc' = "send"
      BY <2>3 DEF Clear, Goto
    <3>2. x = 4 * a + 5 /\ y = 4 * a + 4
      BY <1>4, <1>5, <2>2, <3>1, DistanceValues
    <3>. QED BY <3>2
  <2>4. CASE Send \/ SendFails
    <3>1. pc = "send" /\ pc' \in {"wait", "return"}
      BY <2>4 DEF Send, SendFails, Goto
    <3>2. x = 4 * a + 4 /\ y \in {4 * a + 3, 4 * a + 2}
      BY <1>4, <1>5, <2>2, <3>1, DistanceValues
    <3>. QED BY <3>2
  <2>5. CASE Got \/ Timeout
    <3>1. pc = "wait" /\ pc' = "return"
      BY <2>5 DEF Got, Timeout, Goto
    <3>2. x = 4 * a + 3 /\ y = 4 * a + 2
      BY <1>4, <1>5, <2>2, <3>1, DistanceValues
    <3>. QED BY <3>2
  <2>. QED BY <1>9, <2>3, <2>4, <2>5 DEF Waiting
<1>10. CASE Returning
  <2>1. CASE SendReset
    <3>1. pc = "saved" /\ pc' = "spin"
      BY <2>1 DEF SendReset, Spin, Goto
    <3>2. x = 1 /\ y = 0
      BY <1>4, <1>5, <3>1, DistanceValues
    <3>. QED BY <3>2
  <2>2. CASE pc = "return" /\ pc' \in {"spin", "saved"}
    <3>1. x = 4 * a + 2 /\ y \in {0, 1}
      BY <1>4, <1>5, <2>2, DistanceValues
    <3>. QED BY <3>1
  <2>3. CASE ReturnCtor
    <3>1. pc = "return" /\ job = "ctor" /\ pc' = "main"
      BY <2>3 DEF ReturnCtor, Returned, Goto
    <3>2. x = 4 * a + 2 /\ y = 4 * Tries + 2
      BY <1>4, <1>5, <3>1, DistanceValues
    <3>3. a = Tries + 1
      BY <1>1, <1>2, <3>1, BehindValues
    <3>. QED BY <1>7, <3>2, <3>3
  <2>4. CASE /\ pc = "return" /\ pc' = "clear"
             /\ \/ job = "set" /\ job' = "save"
                \/ job = "save" /\ job' = "verify"
                \/ job \in {"check", "verify"} /\ job' = job /\ tries' = tries + 1
    <3>1. x = 4 * a + 2 /\ y = 4 * b + 5
      BY <1>4, <1>5, <2>4, DistanceValues
    <3>2. CASE job = "set" /\ job' = "save"
      <4>1. a = Tries + 1 /\ b = Tries
        BY <1>1, <1>2, <1>3, <3>2, BehindValues
      <4>. QED BY <1>7, <3>1, <4>1
    <3>3. CASE job = "save" /\ job' = "verify"
      <4>1. a = Tries /\ b = Tries - 1 - u
        BY <1>1, <1>2, <1>3, <1>t, <3>3, BehindValues
      <4>2. b <= Tries - 1
        BY <1>7, <4>1
      <4>. QED BY <1>7, <3>1, <4>1, <4>2
    <3>4. CASE job \in {"check", "verify"} /\ job' = job /\ tries' = tries + 1
      <4>1. a = Tries - 1 - tries /\ b = Tries - 1 - tries'
        BY <1>1, <1>2, <1>3, <3>4, BehindValues
      <4>2. b = a - 1
        BY <1>1, <1>7, <3>4, <4>1
      <4>. QED BY <3>1, <4>2
    <3>. QED BY <2>4, <3>2, <3>3, <3>4
  <2>5. ASSUME Returning, ~SendReset, ~ReturnCtor
        PROVE  /\ pc = "return"
               /\ \/ pc' \in {"spin", "saved"}
                  \/ /\ pc' = "clear"
                     /\ \/ job = "set" /\ job' = "save"
                        \/ job = "save" /\ job' = "verify"
                        \/ job \in {"check", "verify"} /\ job' = job /\ tries' = tries + 1
    BY <2>5 DEF Returning, ReturnCheck, ReturnSrv, ReturnSet, ReturnSave, ReturnVerify,
                Returned, Spin, Call, Goto
  <2>. QED BY <1>10, <2>1, <2>2, <2>3, <2>4, <2>5
<1>. QED BY <1>8, <1>9, <1>10 DEF Thread

LEMMA NextCountsDown ==
    ASSUME TypeOK, [Next]_vars, pc # "spin"
    PROVE  /\ StepsLeft' \in 0 .. StepsLeft
           /\ Thread => StepsLeft' < StepsLeft
<1>1. Threadlike'
  BY NextThread
<1>2. CASE Thread
  BY <1>1, <1>2, ThreadCountsDown
<1>3. StepsLeft \in Nat
  <2>1. pc \in Places /\ job \in Jobs /\ tries \in 0 .. Tries - 1
    BY DEF TypeOK, Places, Jobs
  <2>2. PICK a \in Nat : a = Behind(job, tries)
    BY <2>1, BehindValues
  <2>3. StepsLeft = Distance(pc, a)
    BY <2>2 DEF StepsLeft, CallsBehind, Distance, Behind
  <2>. QED BY <2>1, <2>3, DistanceValues
<1>4. CASE EarlyFrame
  <2>1. pc' = "no_timer"
    BY <1>4 DEF EarlyFrame, Goto
  <2>2. StepsLeft' = 0
    BY <2>1 DEF StepsLeft
  <2>3. pc = "core_ctor"
    BY <1>4 DEF EarlyFrame
  <2>4. StepsLeft = 4 * Tries + 11 /\ Tries \in Nat
    BY <2>3, CountAssumption DEF StepsLeft
  <2>5. ~Thread
    BY <1>4, <2>1, <2>3 DEF Thread, Starting, CoreCtor, DerivedCtor, MainVerifies, MainNoCore,
      MainSpins, Waiting, Clear, Send, SendFails, Got, Timeout, Returning, ReturnCtor,
      ReturnCheck, ReturnSrv, ReturnSet, ReturnSave, ReturnVerify, SendReset, Returned, Goto
  <2>. QED BY <1>3, <2>2, <2>5
<1>5. CASE pc' = pc /\ job' = job /\ tries' = tries
  <2>1. StepsLeft' = StepsLeft
    BY <1>5 DEF StepsLeft, CallsBehind
  <2>. QED BY <1>2, <1>3, <2>1
<1>6. Thread \/ EarlyFrame \/ (pc' = pc /\ job' = job /\ tries' = tries)
  BY OpenLeaves
     DEF Next, Clients, debugCmdSrv, debugCmdCallback, SaveRequest, Serving, Receive,
         BaseTakes, CommandLost, ReplyLost, vars, locals
<1>. QED BY <1>2, <1>4, <1>5, <1>6

\* The start-up, a debug command and a save pipeline with all its attempts take
\* a number of steps outside open() that is known when they begin, whatever
\* comes over the link; an open() they get into adds its own time and none of
\* these steps (main, checkDevType, sendDebugCommandAndWait,
\* verifyPcControlModePersisted).
THEOREM WaitsAreBounded == Spec => StepsCountDown
<1>1. IInv /\ [Next]_vars =>
         [pc # "spin" => /\ StepsLeft' \in 0 .. StepsLeft
                         /\ Thread => StepsLeft' < StepsLeft]_vars
  BY NextCountsDown DEF IInv
<1>. QED BY <1>1, Inductive, PTL DEF Spec, StepsCountDown
=============================================================================
