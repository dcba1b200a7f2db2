------------------------------ MODULE Link_proof ------------------------------
(* Proofs about Link, for every set of callbacks, addresses and receivers.   *)
EXTENDS Link, TLAPS

\* The places inside a call that goes on with its object.
Calling == {"write", "close", "join", "config"}

\* The pointer is unusable only while a thread is between its delete and its
\* new; a callback at work meanwhile knows of it; and a callback that nobody
\* came across is inside the object that comm_inf_ points to.
SomeoneResets == ~Usable => \E u \in Threads : pc[u] \in Resetting
HitTells == \A t, u \in Threads :
                t # u /\ pc[t] # "idle" /\ pc[u] \in Resetting => hit[t]
Mine == \A t \in Threads : pc[t] \in Calling /\ ~hit[t] => obj[t] = comm_inf_

Windows == SomeoneResets /\ HitTells /\ Mine
IInv == TypeOK /\ Windows /\ DiesOnlyInOverlap

LEMMA ThreadsOfCallers == \A c \in Callers : ThreadOf[c] \in Threads
  BY CallersAssumption DEF Threads, ThreadOf

-----------------------------------------------------------------------------
(* What the operators on the heap return. *)
LEMMA ShutHeap ==
  ASSUME TypeOK, NEW a
  PROVE  /\ Shut(a) \in [Addr -> Object]
         /\ \A b \in Addr : Shut(a)[b].live = heap[b].live
<1>1. heap \in [Addr -> Object]
  BY DEF TypeOK
<1>2. CASE a \in Addr
  <2> DEFINE f == IF heap[a].fd = "none" THEN heap[a].fd ELSE "closed"
             o == [heap[a] EXCEPT !.fd = f, !.running_ = FALSE]
  <2>1. heap[a] \in Object
    BY <1>1, <1>2
  <2>2. o \in Object /\ o.live = heap[a].live
    BY <2>1 DEF Object
  <2>3. Shut(a) = [heap EXCEPT ![a] = o]
    BY <1>1, <1>2, <2>1 DEF Shut, Object
  <2> QED
    BY <1>1, <1>2, <2>2, <2>3
<1>3. CASE a \notin Addr
  BY <1>1, <1>3 DEF Shut
<1> QED
  BY <1>2, <1>3

LEMMA FreeTyped == Free \in Object /\ [Free EXCEPT !.live = TRUE] \in Object
  BY DEF Free, Object

LEMMA UnlockedTyped ==
  ASSUME TypeOK, NEW a
  PROVE  Unlocked(a) \in Addr \cup {NULL, "leaked"}
  BY DEF TypeOK, Unlocked

LEMMA DiesTyped ==
  ASSUME TypeOK, NEW t \in Threads, Dies(t)
  PROVE  pc' \in [Threads -> Locations] /\ failure' \in Failures
  BY DEF TypeOK, Dies, Goto, Locations, Failures

LEMMA InitTyped == Init => TypeOK
<1> SUFFICES ASSUME Init PROVE TypeOK
  OBVIOUS
<1>1. heap \in [Addr -> Object]
  BY DEF Init, Object, Free
<1>2. /\ pc \in [Threads -> Locations] /\ call \in [Threads -> Callers \cup {"none"}]
      /\ obj \in [Threads -> Addr \cup {NULL}] /\ hit \in [Threads -> BOOLEAN]
  BY DEF Init, Locations
<1>3. flock \in Addr \cup {NULL, "leaked"}
  BY DEF Init
<1>4. recv \in [RecvIds -> Addr \cup {NULL}] /\ inProc \subseteq RecvIds
  BY DEF Init
<1> QED
  BY <1>1, <1>2, <1>3, <1>4, MaxUnplugsAssumption DEF Init, TypeOK, Failures

-----------------------------------------------------------------------------
(* Type correctness, one case for each action. *)
LEMMA StepTyped == ASSUME TypeOK, NEW t \in Threads, Step(t) PROVE TypeOK'
<1> USE DEF timers, receivers, device, ghosts
<1>t. /\ heap \in [Addr -> Object] /\ pc \in [Threads -> Locations]
      /\ obj \in [Threads -> Addr \cup {NULL}] /\ comm_inf_ \in Addr \cup {NULL}
      /\ hit \in [Threads -> BOOLEAN] /\ failure \in Failures
      /\ flock \in Addr \cup {NULL, "leaked"} /\ recv \in [RecvIds -> Addr \cup {NULL}]
  BY DEF TypeOK
<1>n. Inside(t, NULL) => obj' \in [Threads -> Addr \cup {NULL}]
  BY <1>t DEF Inside
<1>i. Inside(t, comm_inf_) => obj' \in [Threads -> Addr \cup {NULL}]
  BY <1>t DEF Inside
<1>g. ASSUME NEW l \in Locations, Goto(t, l) PROVE pc' \in [Threads -> Locations]
  BY <1>t, <1>g DEF Goto
<1>l. /\ "write" \in Locations /\ "close" \in Locations /\ "delete" \in Locations
      /\ "join" \in Locations /\ "null" \in Locations /\ "cancel" \in Locations
      /\ "new" \in Locations /\ "open" \in Locations /\ "config" \in Locations
      /\ "restart" \in Locations /\ "sent" \in Locations /\ "failed" \in Locations
      /\ "idle" \in Locations
  BY DEF Locations
<1>h. [u \in Threads |-> hit[u] \/ (u # t /\ pc[u] # "idle")] \in [Threads -> BOOLEAN]
  OBVIOUS
<1>1. CASE Send(t)
  <2>1. pc' \in [Threads -> Locations] /\ failure' \in Failures
    BY <1>1, <1>t, <1>g, <1>l, DiesTyped DEF Send
  <2>2. obj' \in [Threads -> Addr \cup {NULL}]
    BY <1>1, <1>t, <1>i DEF Send
  <2> QED
    BY <1>1, <2>1, <2>2 DEF Send, TypeOK
<1>2. CASE Write(t)
  <2>1. pc' \in [Threads -> Locations] /\ failure' \in Failures
    BY <1>2, <1>t, <1>g, <1>l, DiesTyped DEF Write
  <2>2. obj' \in [Threads -> Addr \cup {NULL}]
    BY <1>2, <1>t, <1>n DEF Write
  <2> QED
    BY <1>2, <2>1, <2>2 DEF Write, TypeOK
<1>3. CASE Close(t)
  <2>1. pc' \in [Threads -> Locations] /\ failure' \in Failures
    BY <1>3, <1>t, <1>g, <1>l, DiesTyped DEF Close
  <2>2. obj' \in [Threads -> Addr \cup {NULL}]
    BY <1>3, <1>t, <1>n DEF Close
  <2>3. [heap EXCEPT ![obj[t]].fd = "closed"] \in [Addr -> Object]
    BY <1>t DEF Object
  <2>4. heap' \in [Addr -> Object]
    BY <1>3, <1>t, <2>3, ShutHeap DEF Close
  <2>5. flock' \in Addr \cup {NULL, "leaked"}
    BY <1>3, <1>t, UnlockedTyped DEF Close
  <2> QED
    BY <1>3, <2>1, <2>2, <2>4, <2>5 DEF Close, TypeOK
<1>4. CASE Delete(t)
  <2>1. pc' \in [Threads -> Locations] /\ failure' \in Failures
    BY <1>4, <1>t, <1>g, <1>l, DiesTyped DEF Delete
  <2>2. obj' \in [Threads -> Addr \cup {NULL}]
    BY <1>4, <1>t, <1>i DEF Delete
  <2>3. [heap EXCEPT ![comm_inf_].running_ = FALSE] \in [Addr -> Object]
    BY <1>t DEF Object
  <2>4. heap' \in [Addr -> Object]
    BY <1>4, <1>t, <2>3, ShutHeap DEF Delete
  <2>5. flock' \in Addr \cup {NULL, "leaked"}
    BY <1>4, <1>t, UnlockedTyped DEF Delete
  <2>6. hit' \in [Threads -> BOOLEAN]
    BY <1>4, <1>t, <1>h DEF Delete
  <2> QED
    BY <1>4, <2>1, <2>2, <2>4, <2>5, <2>6 DEF Delete, TypeOK
<1>5. CASE Join(t)
  <2>1. pc' \in [Threads -> Locations] /\ failure' \in Failures
    BY <1>5, <1>t, <1>g, <1>l, DiesTyped DEF Join
  <2>2. obj' \in [Threads -> Addr \cup {NULL}]
    BY <1>5, <1>t, <1>n DEF Join
  <2>4. heap' \in [Addr -> Object]
    BY <1>5, <1>t, FreeTyped DEF Join
  <2>5. flock' \in Addr \cup {NULL, "leaked"}
    BY <1>5, <1>t, UnlockedTyped DEF Join
  <2>6. hit' \in [Threads -> BOOLEAN]
    BY <1>5, <1>t, <1>h DEF Join
  <2> QED
    BY <1>5, <2>1, <2>2, <2>4, <2>5, <2>6 DEF Join, TypeOK
<1>6. CASE Null(t)
  BY <1>6, <1>g, <1>l DEF Null, TypeOK
<1>7. CASE Cancel(t)
  BY <1>7, <1>g, <1>l DEF Cancel, TypeOK
<1>8. CASE New(t)
  <2>1. pc' \in [Threads -> Locations] /\ failure' \in Failures
    BY <1>8, <1>t, <1>g, <1>l DEF New, Failures
  <2>2. comm_inf_' \in Addr /\ heap' \in [Addr -> Object]
    BY <1>8, <1>t, FreeTyped DEF New
  <2> QED
    BY <1>8, <2>1, <2>2 DEF New, TypeOK
<1>9. CASE Open(t)
  <2>1. pc' \in [Threads -> Locations] /\ failure' \in Failures
    BY <1>9, <1>t, <1>g, <1>l, DiesTyped DEF Open
  <2>2. obj' \in [Threads -> Addr \cup {NULL}]
    BY <1>9, <1>t, <1>i DEF Open
  <2>4. heap' \in [Addr -> Object]
    <3>1. \A f \in {"open", "none"} :
            [heap EXCEPT ![comm_inf_].fd = f] \in [Addr -> Object]
      BY <1>t DEF Object
    <3> QED
      BY <1>9, <1>t, <3>1 DEF Open
  <2>5. flock' \in Addr \cup {NULL, "leaked"}
    BY <1>9, <1>t DEF Open
  <2> QED
    BY <1>9, <2>1, <2>2, <2>4, <2>5 DEF Open, TypeOK
<1>10. CASE Config(t)
  <2>1. pc' \in [Threads -> Locations] /\ failure' \in Failures
    BY <1>10, <1>t, <1>g, <1>l, DiesTyped DEF Config
  <2>2. obj' \in [Threads -> Addr \cup {NULL}]
    BY <1>10, <1>t, <1>n DEF Config
  <2>3. \/ heap' = heap
        \/ heap' = [heap EXCEPT ![obj[t]].running_ = TRUE]
        \/ heap' = Shut(obj[t])
    BY <1>10 DEF Config
  <2>4. heap' \in [Addr -> Object]
    <3>1. [heap EXCEPT ![obj[t]].running_ = TRUE] \in [Addr -> Object]
      BY <1>t DEF Object
    <3>2. Shut(obj[t]) \in [Addr -> Object]
      BY ShutHeap
    <3> QED
      BY <1>t, <2>3, <3>1, <3>2
  <2>5. flock' \in Addr \cup {NULL, "leaked"}
    BY <1>10, <1>t, UnlockedTyped DEF Config
  <2>6. recv' \in [RecvIds -> Addr \cup {NULL}]
    BY <1>10, <1>t DEF Config
  <2> QED
    BY <1>10, <2>1, <2>2, <2>4, <2>5, <2>6 DEF Config, TypeOK
<1>11. CASE RestartComm(t)
  BY <1>11, <1>g, <1>l DEF RestartComm, TypeOK
<1>12. CASE Return(t)
  <2>1. hb' \in BOOLEAN /\ hit' \in [Threads -> BOOLEAN] /\ lastEnd' \in {"reset", "left"}
    BY <1>12, <1>t DEF Return, Ended
  <2>2. pc' \in [Threads -> Locations]
    BY <1>12, <1>g, <1>l DEF Return, Ended
  <2> QED
    BY <1>12, <2>1, <2>2 DEF Return, Ended, TypeOK
<1> QED
  BY <1>1, <1>2, <1>3, <1>4, <1>5, <1>6, <1>7, <1>8, <1>9, <1>10, <1>11, <1>12 DEF Step

LEMMA UnplugTyped == ASSUME TypeOK, Unplug PROVE TypeOK'
<1>1. heap' \in [Addr -> Object]
  <2>1. \A a \in Addr : [heap[a] EXCEPT !.fd = "hung"] \in Object
    BY DEF TypeOK, Object
  <2>2. \A a \in Addr :
          (IF transport = "serial" /\ heap[a].fd = "open"
           THEN [heap[a] EXCEPT !.fd = "hung"] ELSE heap[a]) \in Object
    BY <2>1 DEF TypeOK
  <2> QED
    BY <2>2 DEF Unplug
<1>2. unplugs' \in 0 .. MaxUnplugs
  <2>1. unplugs \in 0 .. MaxUnplugs /\ unplugs < MaxUnplugs /\ unplugs' = unplugs + 1
    BY DEF Unplug, TypeOK
  <2> QED
    BY <2>1, MaxUnplugsAssumption
<1>3. plugged' \in BOOLEAN /\ flock' \in Addr \cup {NULL, "leaked"}
  BY DEF Unplug
<1>4. UNCHANGED <<comm_inf_, pc, call, obj, hb, comm, recv, inProc, transport,
                  failure, hit, lastEnd>>
  BY DEF Unplug, timers, receivers, ghosts
<1> QED
  BY <1>1, <1>2, <1>3, <1>4 DEF TypeOK

LEMMA ReceiverTyped ==
  ASSUME TypeOK, NEW r \in RecvIds, Exit(r) \/ Receive(r) \/ CallbackGone(r) \/ Processed(r)
  PROVE  TypeOK'
<1> USE DEF executors, timers, receivers, device, ghosts
<1>1. CASE Exit(r)
  BY <1>1 DEF Exit, TypeOK
<1>2. CASE Receive(r)
  BY <1>2 DEF Receive, TypeOK
<1>3. CASE CallbackGone(r)
  BY <1>3 DEF CallbackGone, TypeOK, Failures
<1>4. CASE Processed(r)
  <2>1. comm' \in BOOLEAN
    BY <1>4 DEF Processed, TypeOK
  <2> QED
    BY <1>4, <2>1 DEF Processed, TypeOK
<1> QED
  BY <1>1, <1>2, <1>3, <1>4

LEMMA NextTyped == TypeOK /\ [Next]_vars => TypeOK'
<1> SUFFICES ASSUME TypeOK, [Next]_vars PROVE TypeOK'
  OBVIOUS
<1>1. ASSUME NEW c \in Callers, Start(c) PROVE TypeOK'
  <2>1. pc' \in [Threads -> Locations] /\ hit' \in [Threads -> BOOLEAN]
    BY <1>1 DEF Start, Goto, Locations, TypeOK
  <2>2. call' \in [Threads -> Callers \cup {"none"}]
    BY <1>1 DEF Start, TypeOK
  <2> QED
    BY <1>1, <2>1, <2>2 DEF Start, timers, receivers, device, TypeOK
<1>2. CASE Plug
  BY <1>2 DEF Plug, timers, receivers, ghosts, TypeOK
<1>3. CASE UNCHANGED vars
  BY <1>3 DEF vars, TypeOK
<1> QED
  BY <1>1, <1>2, <1>3, StepTyped, ReceiverTyped, UnplugTyped DEF Next

\* Every variable keeps its type.
THEOREM TypeCorrect == Spec => []TypeOK
<1>1. Init => TypeOK
  BY InitTyped
<1>2. TypeOK /\ [Next]_vars => TypeOK'
  BY NextTyped
<1> QED
  BY <1>1, <1>2, PTL DEF Spec

-----------------------------------------------------------------------------
(* The windows of the recoveries. *)
LEMMA InitWindows == Init => Windows
<1> SUFFICES ASSUME Init PROVE Windows
  OBVIOUS
<1>1. Usable
  BY AddrAssumption DEF Init, Usable
<1>2. \A t \in Threads : pc[t] = "idle"
  BY DEF Init
<1> QED
  BY <1>1, <1>2 DEF Windows, SomeoneResets, HitTells, Mine, Calling

\* No object is freed or made.
LiveKept == \A a \in Addr : heap'[a].live = heap[a].live

LEMMA UsableKept ==
  ASSUME TypeOK, UNCHANGED comm_inf_, LiveKept PROVE Usable' = Usable
  BY DEF TypeOK, Usable, LiveKept

\* A step outside the window leaves the pointer and all objects where they
\* are, and its thread outside.
LEMMA Outside ==
  ASSUME TypeOK, Windows, NEW t \in Threads, NEW l,
         UNCHANGED <<comm_inf_, hit>>, LiveKept,
         pc[t] \notin Resetting, pc[t] # "idle",
         pc' = [pc EXCEPT ![t] = l], l \notin Resetting,
         \A u \in Threads : u # t => obj'[u] = obj[u],
         l \in Calling /\ ~hit[t] => obj'[t] = comm_inf_
  PROVE  Windows'
<1>1. \A u \in Threads : /\ u # t => pc'[u] = pc[u]
                         /\ pc'[u] \in Resetting <=> pc[u] \in Resetting
                         /\ pc'[u] # "idle" => pc[u] # "idle"
  BY DEF TypeOK
<1>2. pc'[t] = l
  BY DEF TypeOK
<1>3. SomeoneResets'
  BY <1>1, UsableKept DEF Windows, SomeoneResets
<1>4. HitTells'
  BY <1>1 DEF Windows, HitTells
<1>5. Mine'
  BY <1>1, <1>2 DEF Windows, Mine
<1> QED
  BY <1>3, <1>4, <1>5 DEF Windows

\* A callback that comes to an object that is not there has been hit.
LEMMA FoundFreed ==
  ASSUME TypeOK, Windows, NEW t \in Threads,
         \/ pc[t] \in {"send", "delete", "open"} /\ ~Usable
         \/ pc[t] \in Calling /\ ~heap[obj[t]].live
  PROVE  hit[t]
<1> SUFFICES ASSUME ~hit[t] PROVE FALSE
  OBVIOUS
<1>1. ~Usable
  BY DEF Windows, Mine, Usable
<1>2. PICK u \in Threads : pc[u] \in Resetting
  BY <1>1 DEF Windows, SomeoneResets
<1> QED
  BY <1>2 DEF Windows, HitTells, Calling, Resetting

\* It goes to "dead", which is outside the window.
LEMMA DeadOutside ==
  ASSUME TypeOK, Windows, NEW t \in Threads, Alive, Dies(t),
         UNCHANGED <<comm_inf_, heap, obj, hit>>,
         \/ pc[t] \in {"send", "delete", "open"} /\ ~Usable
         \/ pc[t] \in Calling /\ ~heap[obj[t]].live
  PROVE  Windows' /\ DiesOnlyInOverlap'
<1>1. hit[t]
  BY FoundFreed
<1>2. pc[t] \notin Resetting /\ pc[t] # "idle"
  BY DEF Calling, Resetting
<1>3. pc' = [pc EXCEPT ![t] = "dead"] /\ pc'[t] = "dead"
  BY DEF Dies, Goto, TypeOK
<1>4. Windows'
  BY <1>2, <1>3, Outside DEF LiveKept, Calling, Resetting
<1> QED
  BY <1>1, <1>3, <1>4 DEF DiesOnlyInOverlap

\* The thread that has freed the object, or found it gone, opens the window,
\* and every callback at work is hit.
LEMMA Opens ==
  ASSUME TypeOK, Windows, NEW t \in Threads, UNCHANGED comm_inf_,
         pc[t] \in {"delete", "join"}, pc' = [pc EXCEPT ![t] = "null"],
         hit' = [u \in Threads |-> hit[u] \/ (u # t /\ pc[u] # "idle")],
         \A u \in Threads : u # t => obj'[u] = obj[u]
  PROVE  Windows'
<1>1. pc'[t] = "null" /\ \A u \in Threads : u # t => pc'[u] = pc[u]
  BY DEF TypeOK
<1>2. SomeoneResets'
  BY <1>1 DEF SomeoneResets, Resetting
<1>3. HitTells'
  <2> SUFFICES ASSUME NEW x \in Threads, NEW u \in Threads, x # u,
                      pc'[x] # "idle", pc'[u] \in Resetting
               PROVE  hit'[x]
    BY DEF HitTells
  <2>1. CASE x = t
    BY <1>1, <2>1 DEF Windows, HitTells
  <2>2. CASE x # t
    BY <1>1, <2>2
  <2> QED
    BY <2>1, <2>2
<1>4. Mine'
  BY <1>1 DEF Windows, Mine, Calling
<1> QED
  BY <1>2, <1>3, <1>4 DEF Windows

\* In the window the pointer changes under callbacks that all know of it.
LEMMA Within ==
  ASSUME TypeOK, Windows, NEW t \in Threads, NEW l \in Locations,
         pc[t] \in Resetting, pc' = [pc EXCEPT ![t] = l],
         l \notin Calling \cup {"idle"}, UNCHANGED <<obj, hit>>,
         l \in Resetting \/ Usable'
  PROVE  Windows'
<1>1. pc'[t] = l /\ \A u \in Threads : u # t => pc'[u] = pc[u]
  BY DEF TypeOK
<1>2. SomeoneResets'
  BY <1>1 DEF SomeoneResets
<1>3. HitTells'
  BY <1>1 DEF Windows, HitTells, Resetting
<1>4. Mine'
  <2> SUFFICES ASSUME NEW u \in Threads, pc'[u] \in Calling, ~hit'[u] PROVE FALSE
    BY DEF Mine
  <2>1. u # t /\ pc[u] # "idle"
    BY <1>1 DEF Calling
  <2> QED
    BY <2>1 DEF Windows, HitTells
<1> QED
  BY <1>2, <1>3, <1>4 DEF Windows

\* A step that kills nobody leaves DiesOnlyInOverlap as it is.
LEMMA NobodyDies ==
  ASSUME Alive, failure' \notin {"null", "freed"} PROVE DiesOnlyInOverlap'
  BY DEF DiesOnlyInOverlap

LEMMA StepWindows ==
  ASSUME TypeOK, Windows, NEW t \in Threads, Alive, Step(t)
  PROVE  Windows' /\ DiesOnlyInOverlap'
<1> USE DEF At, Goto
<1>t. /\ heap \in [Addr -> Object] /\ pc \in [Threads -> Locations]
      /\ obj \in [Threads -> Addr \cup {NULL}] /\ comm_inf_ \in Addr \cup {NULL}
  BY DEF TypeOK
<1>a. failure' = failure => DiesOnlyInOverlap'
  BY NobodyDies DEF Alive
<1>1. CASE Send(t)
  <2>1. CASE Dies(t) /\ ~Usable
    BY <1>1, <2>1, DeadOutside DEF Send, ghosts
  <2>2. CASE Usable /\ failure' = failure
    <3>1. PICK l \in {"delete", "write"} : /\ pc' = [pc EXCEPT ![t] = l]
                                           /\ l = "write" => obj' = [obj EXCEPT ![t] = comm_inf_]
                                           /\ l = "delete" => obj' = obj
      BY <1>1, <2>2 DEF Send, Inside
    <3>2. l \in Calling => obj'[t] = comm_inf_
      BY <1>t, <3>1 DEF Calling
    <3>3. \A u \in Threads : u # t => obj'[u] = obj[u]
      BY <1>t, <3>1
    <3>4. UNCHANGED <<comm_inf_, hit>> /\ LiveKept /\ pc[t] = "send"
      BY <1>1 DEF Send, LiveKept, ghosts
    <3> QED
      BY <1>a, <2>2, <3>1, <3>2, <3>3, <3>4, Outside DEF Resetting
  <2> QED
    BY <1>1, <2>1, <2>2 DEF Send
<1>2. CASE Write(t)
  <2>1. CASE ~heap[obj[t]].live
    BY <1>2, <2>1, DeadOutside DEF Write, Calling, ghosts
  <2>2. CASE heap[obj[t]].live
    <3>1. PICK l \in {"sent", "close"} : /\ pc' = [pc EXCEPT ![t] = l]
                                         /\ l = "close" => obj' = obj
                                         /\ obj' = obj \/ obj' = [obj EXCEPT ![t] = NULL]
      BY <1>2, <2>2 DEF Write, Inside
    <3>2. UNCHANGED <<comm_inf_, hit>> /\ LiveKept /\ pc[t] = "write" /\ failure' = failure
      BY <1>2, <2>2 DEF Write, LiveKept, ghosts
    <3>3. \A u \in Threads : u # t => obj'[u] = obj[u]
      BY <1>t, <3>1
    <3>4. l \in Calling /\ ~hit[t] => obj'[t] = comm_inf_
      BY <3>1, <3>2 DEF Windows, Mine, Calling
    <3> QED
      BY <1>a, <3>1, <3>2, <3>3, <3>4, Outside DEF Resetting
  <2> QED
    BY <2>1, <2>2
<1>3. CASE Close(t)
  <2>1. CASE ~heap[obj[t]].live
    BY <1>3, <2>1, DeadOutside DEF Close, Calling, ghosts
  <2>2. CASE heap[obj[t]].live
    <3>1. pc' = [pc EXCEPT ![t] = "delete"] /\ obj' = [obj EXCEPT ![t] = NULL]
      BY <1>3, <2>2 DEF Close, Inside
    <3>2. UNCHANGED <<comm_inf_, hit>> /\ pc[t] = "close" /\ failure' = failure
      BY <1>3, <2>2 DEF Close, ghosts
    <3>3. \/ heap' = Shut(obj[t])
          \/ heap' = [heap EXCEPT ![obj[t]].fd = "closed"]
      BY <1>3, <2>2 DEF Close
    <3>4. \A b \in Addr :
            [heap EXCEPT ![obj[t]].fd = "closed"][b].live = heap[b].live
      BY <1>t DEF Object
    <3>7. \A b \in Addr : Shut(obj[t])[b].live = heap[b].live
      BY <1>t, ShutHeap
    <3>5. LiveKept
      BY <3>3, <3>4, <3>7 DEF LiveKept
    <3>6. \A u \in Threads : u # t => obj'[u] = obj[u]
      BY <1>t, <3>1
    <3> QED
      BY <1>a, <3>1, <3>2, <3>5, <3>6, Outside DEF Resetting, Calling
  <2> QED
    BY <2>1, <2>2
<1>4. CASE Delete(t)
  <2>1. CASE Dies(t) /\ ~Usable /\ UNCHANGED <<heap, obj, hit>>
    BY <1>4, <2>1, DeadOutside DEF Delete
  <2>2. CASE comm_inf_ = NULL /\ pc' = [pc EXCEPT ![t] = "null"] /\ failure' = failure
    <3>1. hit' = [u \in Threads |-> hit[u] \/ (u # t /\ pc[u] # "idle")] /\ obj' = obj
      BY <1>4, <2>2 DEF Delete, Usable, Inside
    <3> QED
      BY <1>a, <1>4, <2>2, <3>1, Opens DEF Delete
  <2>3. CASE Usable /\ pc' = [pc EXCEPT ![t] = "join"] /\ failure' = failure
    <3>1. obj' = [obj EXCEPT ![t] = comm_inf_] /\ UNCHANGED <<comm_inf_, hit>>
      BY <1>4, <2>3 DEF Delete, Usable, Inside
    <3>2. \/ heap' = Shut(comm_inf_)
          \/ heap' = [heap EXCEPT ![comm_inf_].running_ = FALSE]
      BY <1>4, <2>3 DEF Delete, Usable
    <3>3. \A b \in Addr :
            [heap EXCEPT ![comm_inf_].running_ = FALSE][b].live = heap[b].live
      BY <1>t DEF Object
    <3>7. \A b \in Addr : Shut(comm_inf_)[b].live = heap[b].live
      BY <1>t, ShutHeap
    <3>4. LiveKept
      BY <3>2, <3>3, <3>7 DEF LiveKept
    <3>5. obj'[t] = comm_inf_ /\ \A u \in Threads : u # t => obj'[u] = obj[u]
      BY <1>t, <3>1
    <3>6. pc[t] = "delete"
      BY <1>4 DEF Delete
    <3> QED
      BY <1>a, <2>3, <3>1, <3>4, <3>5, <3>6, Outside DEF Resetting
  <2> QED
    BY <1>4, <2>1, <2>2, <2>3 DEF Delete
<1>5. CASE Join(t)
  <2>1. CASE ~heap[obj[t]].live
    BY <1>5, <2>1, DeadOutside DEF Join, Calling
  <2>2. CASE heap[obj[t]].live
    <3>1. /\ pc[t] = "join" /\ pc' = [pc EXCEPT ![t] = "null"]
          /\ hit' = [u \in Threads |-> hit[u] \/ (u # t /\ pc[u] # "idle")]
          /\ UNCHANGED <<comm_inf_, failure>> /\ obj' = [obj EXCEPT ![t] = NULL]
      BY <1>5, <2>2 DEF Join, Inside
    <3>2. \A u \in Threads : u # t => obj'[u] = obj[u]
      BY <1>t, <3>1
    <3> QED
      BY <1>a, <3>1, <3>2, Opens
  <2> QED
    BY <2>1, <2>2
<1>6. CASE Null(t)
  <2>1. /\ pc[t] = "null" /\ pc' = [pc EXCEPT ![t] = "cancel"]
        /\ UNCHANGED <<obj, hit, failure>>
    BY <1>6 DEF Null, ghosts
  <2> QED
    BY <1>a, <2>1, Within DEF Resetting, Calling, Locations
<1>7. CASE Cancel(t)
  <2>1. /\ pc[t] = "cancel" /\ pc' = [pc EXCEPT ![t] = "new"]
        /\ UNCHANGED <<obj, hit, failure>>
    BY <1>7 DEF Cancel, ghosts
  <2> QED
    BY <1>a, <2>1, Within DEF Resetting, Calling, Locations
<1>8. CASE New(t)
  <2>1. PICK l \in {"new", "open"} : pc' = [pc EXCEPT ![t] = l]
    BY <1>8, <1>t DEF New
  <2>2. pc[t] = "new" /\ UNCHANGED <<obj, hit>> /\ failure' \in {failure, "throw"}
    BY <1>8 DEF New, ghosts
  <2>3. Usable'
    BY <1>8, <1>t, AddrAssumption DEF New, Usable, Free
  <2>4. Windows'
    BY <2>1, <2>2, <2>3, Within DEF Resetting, Calling, Locations
  <2> QED
    BY <2>2, <2>4, NobodyDies DEF Alive
<1>9. CASE Open(t)
  <2>1. CASE Dies(t) /\ ~Usable
    BY <1>9, <2>1, DeadOutside DEF Open, ghosts, Usable
  <2>2. CASE Usable /\ failure' = failure
    <3>1. PICK l \in {"open", "config"} : pc' = [pc EXCEPT ![t] = l]
      BY <1>9, <1>t, <2>2 DEF Open
    <3>2. \/ obj' = [obj EXCEPT ![t] = comm_inf_]
          \/ obj' = obj /\ pc' = pc
      BY <1>9, <2>2 DEF Open, Inside
    <3>3. pc[t] = "open" /\ UNCHANGED <<comm_inf_, hit>>
      BY <1>9 DEF Open, ghosts
    <3>4. l \in Calling => obj'[t] = comm_inf_
      BY <1>t, <3>1, <3>2, <3>3 DEF Calling
    <3>5. \A u \in Threads : u # t => obj'[u] = obj[u]
      BY <1>t, <3>2
    <3>6. LiveKept
      <4>1. \E f : heap' = [heap EXCEPT ![comm_inf_].fd = f]
        BY <1>9, <2>2 DEF Open
      <4> QED
        BY <4>1, <1>t DEF LiveKept, Object
    <3> QED
      BY <1>a, <2>2, <3>1, <3>3, <3>4, <3>5, <3>6, Outside DEF Resetting
  <2> QED
    BY <1>9, <2>1, <2>2 DEF Open
<1>10. CASE Config(t)
  <2>1. CASE ~heap[obj[t]].live
    BY <1>10, <2>1, DeadOutside DEF Config, Calling, ghosts
  <2>2. CASE heap[obj[t]].live
    <3>1. PICK l \in {"open", "restart"} : pc' = [pc EXCEPT ![t] = l]
      BY <1>10, <2>2 DEF Config
    <3>2. /\ pc[t] = "config" /\ UNCHANGED <<comm_inf_, hit, failure>>
          /\ obj' = [obj EXCEPT ![t] = NULL]
      BY <1>10, <2>2 DEF Config, Inside, ghosts
    <3>3. \/ heap' = Shut(obj[t])
          \/ heap' = [heap EXCEPT ![obj[t]].running_ = TRUE]
      BY <1>10, <2>2 DEF Config
    <3>4. \A b \in Addr :
            [heap EXCEPT ![obj[t]].running_ = TRUE][b].live = heap[b].live
      BY <1>t DEF Object
    <3>5. LiveKept
      <4>1. \A b \in Addr : Shut(obj[t])[b].live = heap[b].live
        BY ShutHeap
      <4> QED
        BY <3>3, <3>4, <4>1 DEF LiveKept
    <3>6. \A u \in Threads : u # t => obj'[u] = obj[u]
      BY <1>t, <3>2
    <3> QED
      BY <1>a, <3>1, <3>2, <3>5, <3>6, Outside DEF Resetting, Calling
  <2> QED
    BY <2>1, <2>2
<1>11. CASE RestartComm(t)
  <2>1. /\ pc[t] = "restart" /\ pc' = [pc EXCEPT ![t] = "failed"]
        /\ UNCHANGED <<comm_inf_, heap, obj, hit, failure>>
    BY <1>11 DEF RestartComm, ghosts
  <2> QED
    BY <1>a, <2>1, Outside DEF Resetting, Calling, LiveKept
<1>12. CASE Return(t)
  <2>1. /\ pc[t] \in {"sent", "failed"} /\ pc' = [pc EXCEPT ![t] = "idle"]
        /\ hit' = [hit EXCEPT ![t] = FALSE]
        /\ UNCHANGED <<comm_inf_, heap, obj, failure>>
    BY <1>12 DEF Return, Ended
  <2>2. \A u \in Threads : /\ u # t => pc'[u] = pc[u] /\ hit'[u] = hit[u]
                           /\ pc'[u] \in Resetting <=> pc[u] \in Resetting
    BY <1>t, <2>1 DEF Resetting, TypeOK
  <2>3. pc'[t] = "idle"
    BY <1>t, <2>1
  <2>4. SomeoneResets'
    BY <2>1, <2>2 DEF Windows, SomeoneResets, Usable
  <2>5. HitTells' /\ Mine'
    BY <2>1, <2>2, <2>3 DEF Windows, HitTells, Mine, Calling
  <2> QED
    BY <1>a, <2>1, <2>4, <2>5 DEF Windows
<1> QED
  BY <1>1, <1>2, <1>3, <1>4, <1>5, <1>6, <1>7, <1>8, <1>9, <1>10, <1>11, <1>12 DEF Step

LEMMA NextWindows == IInv /\ [Next]_vars => Windows' /\ DiesOnlyInOverlap'
<1> SUFFICES ASSUME TypeOK, Windows, DiesOnlyInOverlap, [Next]_vars
             PROVE  Windows' /\ DiesOnlyInOverlap'
  BY DEF IInv
<1>1. ASSUME UNCHANGED <<comm_inf_, pc, obj, hit>>, LiveKept PROVE Windows'
  BY <1>1, UsableKept DEF Windows, SomeoneResets, HitTells, Mine
<1>2. ASSUME NEW t \in Threads, Step(t) PROVE Windows' /\ DiesOnlyInOverlap'
  <2>1. Alive
    BY <1>2 DEF Step, Send, Write, Close, Delete, Join, Null, Cancel, New, Open,
                Config, RestartComm, Return, Ended, At
  <2> QED
    BY <1>2, <2>1, StepWindows
<1>3. ASSUME NEW c \in Callers, Start(c) PROVE Windows' /\ DiesOnlyInOverlap'
  <2> DEFINE t == ThreadOf[c]
  <2>1. /\ t \in Threads /\ Alive /\ pc[t] = "idle" /\ pc' = [pc EXCEPT ![t] = "send"]
        /\ hit' = [hit EXCEPT ![t] = \E u \in Threads : pc[u] \in Resetting]
        /\ UNCHANGED <<comm_inf_, heap, obj, failure>>
    BY <1>3, ThreadsOfCallers DEF Start, At, Goto
  <2> HIDE DEF t
  <2>2. /\ pc'[t] = "send" /\ hit'[t] = (\E u \in Threads : pc[u] \in Resetting)
        /\ \A u \in Threads : u # t => pc'[u] = pc[u] /\ hit'[u] = hit[u]
    BY <2>1 DEF TypeOK
  <2>3. \A u \in Threads : pc'[u] \in Resetting <=> pc[u] \in Resetting
    BY <2>1, <2>2 DEF Resetting
  <2>4. SomeoneResets'
    BY <2>1, <2>3 DEF Windows, SomeoneResets, Usable
  <2>5. HitTells'
    BY <2>2, <2>3 DEF Windows, HitTells
  <2>6. Mine'
    BY <2>1, <2>2 DEF Windows, Mine, Calling
  <2> QED
    BY <2>1, <2>4, <2>5, <2>6, NobodyDies DEF Windows, Alive
<1>4. ASSUME NEW r \in RecvIds, Exit(r) \/ Receive(r) \/ CallbackGone(r) \/ Processed(r)
      PROVE  Windows' /\ DiesOnlyInOverlap'
  <2>1. UNCHANGED <<comm_inf_, heap, pc, obj, hit>>
    BY <1>4 DEF Exit, Receive, CallbackGone, Processed, executors, ghosts
  <2>2. Alive /\ failure' \in {failure, "reader"}
    BY <1>4 DEF Exit, Receive, CallbackGone, Processed
  <2> QED
    BY <1>1, <2>1, <2>2, NobodyDies DEF LiveKept, Alive
<1>5. CASE Unplug
  <2>1. LiveKept
    BY <1>5 DEF Unplug, Object, LiveKept, TypeOK
  <2> QED
    BY <1>1, <1>5, <2>1, NobodyDies DEF Unplug, Alive, ghosts
<1>6. CASE Plug
  BY <1>1, <1>6, NobodyDies DEF Plug, Alive, ghosts, LiveKept
<1>7. CASE UNCHANGED vars
  BY <1>1, <1>7 DEF vars, LiveKept, DiesOnlyInOverlap
<1> QED
  BY <1>2, <1>3, <1>4, <1>5, <1>6, <1>7 DEF Next

\* The process dies of its transport object only in a callback that another
\* thread's recovery came across, although send, open and the destructors go
\* on with their object after every system call.
THEOREM DeathNeedsOverlap == Spec => []DiesOnlyInOverlap
<1>1. Init => IInv
  <2>1. Init => DiesOnlyInOverlap
    BY DEF Init, DiesOnlyInOverlap
  <2> QED
    BY <2>1, InitTyped, InitWindows DEF IInv
<1>2. IInv /\ [Next]_vars => IInv'
  BY NextTyped, NextWindows DEF IInv
<1>3. IInv => DiesOnlyInOverlap
  BY DEF IInv
<1> QED
  BY <1>1, <1>2, <1>3, PTL DEF Spec

-----------------------------------------------------------------------------
\* A timer is stopped only while the callback that stopped it is under way, or
\* behind a dyn callback that failed.
AtWork(S) == \E t \in Threads : pc[t] \in S
Stopped == Alive => /\ ~comm => AtWork({"new", "open", "config", "restart"})
                    /\ ~hb => \/ lastEnd = "left"
                              \/ AtWork({"new", "open", "config", "restart", "failed"})

LEMMA NextStopped == TypeOK /\ Stopped /\ [Next]_vars => Stopped'
<1> SUFFICES ASSUME TypeOK, Stopped, [Next]_vars, Alive' PROVE Stopped'
  BY DEF Stopped
<1>t. pc \in [Threads -> Locations] /\ hb \in BOOLEAN /\ comm \in BOOLEAN
  BY DEF TypeOK
<1> USE DEF Stopped, AtWork, timers, receivers, device, ghosts
<1>1. ASSUME Alive, UNCHANGED <<hb, lastEnd>>, comm' \in {comm, TRUE},
             \A u \in Threads :
                /\ pc[u] \in {"new", "open", "config", "restart"} =>
                        pc'[u] \in {"new", "open", "config", "restart"}
                /\ pc[u] = "failed" => pc'[u] = "failed"
      PROVE  Stopped'
  <2>1. ~comm' => \E t \in Threads : pc'[t] \in {"new", "open", "config", "restart"}
    <3> SUFFICES ASSUME ~comm'
                 PROVE  \E t \in Threads : pc'[t] \in {"new", "open", "config", "restart"}
      OBVIOUS
    <3>1. ~comm
      BY <1>1
    <3>2. PICK t \in Threads : pc[t] \in {"new", "open", "config", "restart"}
      BY <1>1, <3>1
    <3> QED
      BY <1>1, <3>2
  <2>2. ~hb' => \/ lastEnd' = "left"
                \/ \E t \in Threads :
                     pc'[t] \in {"new", "open", "config", "restart", "failed"}
    <3> SUFFICES ASSUME ~hb, lastEnd # "left"
                 PROVE  \E t \in Threads :
                          pc'[t] \in {"new", "open", "config", "restart", "failed"}
      BY <1>1
    <3>1. PICK t \in Threads : pc[t] \in {"new", "open", "config", "restart", "failed"}
      BY <1>1
    <3> QED
      BY <1>1, <3>1
  <2> QED
    BY <2>1, <2>2
<1>2. ASSUME NEW c \in Callers, Start(c) PROVE Stopped'
  BY <1>t, <1>1, <1>2, ThreadsOfCallers DEF Start, At, Goto
<1>3. ASSUME NEW t \in Threads, Step(t) PROVE Stopped'
  <2>d. ~Dies(t)
    BY DEF Dies, Alive
  <2>1. CASE Send(t) \/ Write(t)
    BY <1>t, <1>1, <2>1, <2>d DEF Send, Write, At, Goto
  <2>2. CASE Close(t) \/ Delete(t)
    BY <1>t, <1>1, <2>2, <2>d DEF Close, Delete, At, Goto
  <2>3. CASE Join(t) \/ Null(t)
    BY <1>t, <1>1, <2>3, <2>d DEF Join, Null, At, Goto
  <2>4. CASE Cancel(t)
    <3>1. pc'[t] = "new"
      BY <1>t, <2>4 DEF Cancel, Goto
    <3> QED
      BY <3>1
  <2>5. CASE New(t) \/ Open(t) \/ Config(t)
    <3>1. Alive /\ UNCHANGED <<hb, comm, lastEnd>>
      BY <2>5 DEF New, Open, Config, At
    <3>2. \A u \in Threads : \/ pc'[u] = pc[u]
                             \/ u = t /\ pc'[u] \in {"open", "config", "restart"}
                                      /\ pc[u] # "failed"
      BY <1>t, <2>5, <2>d DEF New, Open, Config, Goto, At
    <3> QED
      BY <1>1, <3>1, <3>2
  <2>6. CASE RestartComm(t)
    <3>1. comm' /\ UNCHANGED <<hb, lastEnd>> /\ Alive
      BY <2>6 DEF RestartComm, At
    <3>2. \A u \in Threads : pc'[u] = pc[u] \/ (u = t /\ pc'[u] = "failed")
      BY <1>t, <2>6 DEF RestartComm, Goto
    <3> QED
      BY <3>1, <3>2
  <2>7. CASE Return(t)
    <3>1. /\ UNCHANGED comm /\ Alive
          /\ \A u \in Threads :
               pc[u] \in {"new", "open", "config", "restart"} => pc'[u] = pc[u]
      BY <1>t, <2>7 DEF Return, Ended, Goto
    <3>2. hb' \/ lastEnd' = "left"
      BY <1>t, <2>7 DEF Return, Ended
    <3> QED
      BY <3>1, <3>2
  <2> QED
    BY <1>3, <2>1, <2>2, <2>3, <2>4, <2>5, <2>6, <2>7 DEF Step
<1>4. ASSUME NEW r \in RecvIds, Exit(r) \/ Receive(r) \/ CallbackGone(r) \/ Processed(r)
      PROVE  Stopped'
  BY <1>1, <1>4 DEF Exit, Receive, CallbackGone, Processed, executors
<1>5. CASE Unplug \/ Plug
  BY <1>1, <1>5 DEF Unplug, Plug
<1>6. CASE UNCHANGED vars
  BY <1>6 DEF vars, Alive
<1> QED
  BY <1>2, <1>3, <1>4, <1>5, <1>6 DEF Next

\* However two recoveries interleave, when both threads rest the communication
\* timer runs, and the heartbeat timer unless a dyn callback was the last to
\* return and had failed (heartCallback, sendPacket, sendDebugCommandAndWait).
THEOREM TimersRestart == Spec => []TimersAtRest
<1>1. Init => Stopped
  BY DEF Init, Stopped
<1>2. Stopped => TimersAtRest
  BY DEF Stopped, AtWork, TimersAtRest
<1> QED
  BY <1>1, <1>2, NextStopped, TypeCorrect, PTL DEF Spec
=============================================================================
