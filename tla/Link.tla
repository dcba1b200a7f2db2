--------------------------------- MODULE Link ---------------------------------
(* The link to the base and its recovery.  comm_inf_ points to a Serial or a *)
(* Udp object with a receiver thread of its own.  Every callback that sends  *)
(* ends in the same way when the send fails: delete the object, cancel the   *)
(* timers, open() a new one, reset the communication timer.  The callbacks   *)
(* run on two executor threads that share no lock:                           *)
(*   "T"  the timer callback group: heartCallback ("heart");                 *)
(*   "E"  the default callback group: the chassis callbacks and              *)
(*        debugCmdCallback ("plain"), and TianbotDyn::sendPacket and         *)
(*        sendDebugCommandAndWait ("dyn").                                   *)
(* A statement that touches comm_inf_ is a step of its own, and so is each   *)
(* system call that send, open and the destructors make: they go on with     *)
(* their object (obj) after it, whatever comm_inf_ points to by then.  An    *)
(* operator named after another one with an underscore behind it is that one *)
(* with a fault seeded.                                                      *)
EXTENDS Integers, FiniteSets

CONSTANTS
    Callers,    \* the callbacks this node has: of "heart", "plain", "dyn"
    Transports, \* what the node may be configured for: "serial", "udp"
    Addr,       \* addresses the allocator may return
    NULL,       \* the null pointer
    RecvIds,    \* bound: receiver threads alive at the same time
    MaxUnplugs  \* bound: how often the device is lost

ASSUME CallersAssumption == Callers \subseteq {"heart", "plain", "dyn"}
ASSUME TransportAssumption == Transports \subseteq {"serial", "udp"}
ASSUME AddrAssumption == NULL \notin Addr /\ Addr # {}
ASSUME MaxUnplugsAssumption == MaxUnplugs \in Nat

ThreadOf == [c \in {"heart", "plain", "dyn"} |-> IF c = "heart" THEN "T" ELSE "E"]
Threads == {ThreadOf[c] : c \in Callers}

VARIABLES
    comm_inf_,      \* the shared pointer
    heap,           \* what is at each address
    flock,          \* whose descriptor holds the lock of the device; "leaked":
                    \* one that no object remembers
    pc, call, obj,  \* per executor thread: where it is, in which callback, and
                    \* the object of the call it is inside of
    hb, comm,       \* heartbeat_timer_ and communication_timer_ are running
    recv,           \* receiver threads: the object each one works for
    inProc,         \* receiver threads inside dataProc
    transport,      \* which of serial_port and client_ip is set
    plugged,        \* the device answers: writes and opens succeed
    unplugs,        \* how often the device was lost
    failure,        \* how the process died, "none" while it lives
    hit,            \* ghost: a recovery of another thread came across the callback
    lastEnd         \* ghost: "left" if the last callback to return was a dyn one
                    \* whose send had failed

vars == <<comm_inf_, heap, flock, pc, call, obj, hb, comm, recv, inProc,
          transport, plugged, unplugs, failure, hit, lastEnd>>
timers == <<hb, comm>>
receivers == <<recv, inProc>>
device == <<transport, plugged, unplugs>>
ghosts == <<hit, lastEnd>>

Free == [live |-> FALSE, running_ |-> FALSE, fd |-> "none"]
Object == [live : BOOLEAN, running_ : BOOLEAN, fd : {"none", "open", "hung", "closed"}]
Failures == {"none", "null", "freed", "throw", "reader"}
Locations == {"idle", "send", "write", "close", "delete", "join", "null", "cancel",
              "new", "open", "config", "restart", "sent", "failed", "dead"}

-----------------------------------------------------------------------------
(* The first open() is over and the timers run (TianbotCore constructor). *)
Init == /\ comm_inf_ \in Addr
        /\ heap = [a \in Addr |-> IF a = comm_inf_
                                  THEN [live |-> TRUE, running_ |-> TRUE, fd |-> "open"]
                                  ELSE Free]
        /\ pc = [t \in Threads |-> "idle"]
        /\ call = [t \in Threads |-> "none"]
        /\ obj = [t \in Threads |-> NULL]
        /\ hb = TRUE
        /\ comm = TRUE
        /\ \E r \in RecvIds : recv = [x \in RecvIds |-> IF x = r THEN comm_inf_ ELSE NULL]
        /\ inProc = {}
        /\ transport \in Transports
        /\ flock = IF transport = "serial" THEN comm_inf_ ELSE NULL
        /\ plugged = TRUE
        /\ unplugs = 0
        /\ failure = "none"
        /\ hit = [t \in Threads |-> FALSE]
        /\ lastEnd = "reset"

Alive == failure = "none"

At(t, l) == Alive /\ pc[t] = l
Goto(t, l) == pc' = [pc EXCEPT ![t] = l]
Inside(t, a) == obj' = [obj EXCEPT ![t] = a]

\* The object behind comm_inf_ may be used; otherwise the process dies, which
\* is what the build does with a null pointer and may do with a freed object.
Usable == comm_inf_ # NULL /\ heap[comm_inf_].live
Dies(t) == /\ failure' = IF pc[t] \in {"send", "open"} /\ comm_inf_ = NULL
                         THEN "null" ELSE "freed"
           /\ Goto(t, "dead")

\* The steps of the recovery during which comm_inf_ points to no object.
Resetting == {"null", "cancel", "new"}

\* The executor starts a callback; the heartbeat needs its timer.
Start(c) == LET t == ThreadOf[c] IN
    /\ At(t, "idle")
    /\ c = "heart" => hb
    /\ Goto(t, "send")
    /\ call' = [call EXCEPT ![t] = c]
    /\ hit' = [hit EXCEPT ![t] = \E u \in Threads : pc[u] \in Resetting]
    /\ UNCHANGED <<comm_inf_, heap, flock, obj, timers, receivers, device,
                   failure, lastEnd>>

-----------------------------------------------------------------------------
(* comm_inf_->send().  A Serial whose open() has not come to its descriptor  *)
(* refuses.                                                                  *)
Send(t) ==
    /\ At(t, "send")
    /\ \/ /\ Usable
          /\ IF heap[comm_inf_].fd = "none"
             THEN Goto(t, "delete") /\ UNCHANGED obj
             ELSE Goto(t, "write") /\ Inside(t, comm_inf_)
          /\ UNCHANGED failure
       \/ ~Usable /\ Dies(t) /\ UNCHANGED obj
    /\ UNCHANGED <<comm_inf_, heap, flock, call, timers, receivers, device, ghosts>>

\* write() or sendto(), the last one if it takes several; it may block before.
Write(t) ==
    /\ At(t, "write")
    /\ IF heap[obj[t]].live
       THEN /\ IF heap[obj[t]].fd = "open" /\ plugged
               THEN Goto(t, "sent") /\ Inside(t, NULL)
               ELSE Goto(t, "close") /\ UNCHANGED obj
            /\ UNCHANGED failure
       ELSE Dies(t) /\ UNCHANGED obj
    /\ UNCHANGED <<comm_inf_, heap, flock, call, timers, receivers, device, ghosts>>

\* The descriptor is closed and takes its lock with it.
Unlocked(a) == IF flock = a THEN NULL ELSE flock
Shut(a) == [heap EXCEPT ![a].fd = IF @ = "none" THEN @ ELSE "closed",
                        ![a].running_ = FALSE]

\* The write has failed.  A Serial closes itself with running_ (its
\* pthread_join does not wait, the thread is detached), a Udp only its socket.
Close(t) ==
    /\ At(t, "close")
    /\ IF heap[obj[t]].live
       THEN /\ heap' = IF transport = "serial" THEN Shut(obj[t])
                       ELSE [heap EXCEPT ![obj[t]].fd = "closed"]
            /\ flock' = Unlocked(obj[t])
            /\ Goto(t, "delete")
            /\ Inside(t, NULL)
            /\ UNCHANGED failure
       ELSE Dies(t) /\ UNCHANGED <<heap, flock, obj>>
    /\ UNCHANGED <<comm_inf_, call, timers, receivers, device, ghosts>>

\* delete comm_inf_: nothing for NULL.  Serial::close shuts the descriptor and
\* goes on, Udp::close clears running_ and waits for its receiver first.
Delete(t) ==
    /\ At(t, "delete")
    /\ \/ /\ comm_inf_ = NULL
          /\ Goto(t, "null")
          /\ hit' = [u \in Threads |-> hit[u] \/ (u # t /\ pc[u] # "idle")]
          /\ UNCHANGED <<heap, flock, obj, failure>>
       \/ /\ Usable
          /\ Goto(t, "join")
          /\ Inside(t, comm_inf_)
          /\ heap' = IF transport = "serial" THEN Shut(comm_inf_)
                     ELSE [heap EXCEPT ![comm_inf_].running_ = FALSE]
          /\ flock' = Unlocked(comm_inf_)
          /\ UNCHANGED <<failure, hit>>
       \/ /\ comm_inf_ # NULL /\ ~Usable
          /\ Dies(t)
          /\ UNCHANGED <<heap, flock, obj, hit>>
    /\ UNCHANGED <<comm_inf_, call, timers, receivers, device, lastEnd>>

\* The end of the destructor: the memory is free.
Workers(a) == {r \in RecvIds : recv[r] = a}

Join(t) ==
    /\ At(t, "join")
    /\ IF heap[obj[t]].live
       THEN /\ transport = "udp" => Workers(obj[t]) = {}
            /\ heap' = [heap EXCEPT ![obj[t]] = Free]
            /\ flock' = Unlocked(obj[t])
            /\ Goto(t, "null")
            /\ Inside(t, NULL)
            /\ hit' = [u \in Threads |-> hit[u] \/ (u # t /\ pc[u] # "idle")]
            /\ UNCHANGED failure
       ELSE Dies(t) /\ UNCHANGED <<heap, flock, obj, hit>>
    /\ UNCHANGED <<comm_inf_, call, timers, receivers, device, lastEnd>>

\* comm_inf_ = NULL
Null_givesUp(t) ==
    /\ At(t, "null")
    /\ comm_inf_' = NULL
    /\ Goto(t, "failed")
    /\ UNCHANGED <<heap, flock, call, obj, timers, receivers, device, failure, ghosts>>

Null(t) ==
    /\ At(t, "null")
    /\ comm_inf_' = NULL
    /\ Goto(t, "cancel")
    /\ UNCHANGED <<heap, flock, call, obj, timers, receivers, device, failure, ghosts>>

Cancel(t) ==
    /\ At(t, "cancel")
    /\ hb' = FALSE
    /\ comm' = FALSE
    /\ Goto(t, "new")
    /\ UNCHANGED <<comm_inf_, heap, flock, call, obj, receivers, device, failure, ghosts>>

-----------------------------------------------------------------------------
(* open(), up to the loop: the pointer is set before the object has a        *)
(* descriptor.  The udp branch declares its parameters every time it runs,   *)
(* and they have been declared by the first open().                          *)
New(t) ==
    /\ At(t, "new")
    /\ \E a \in Addr :
         /\ ~heap[a].live
         /\ comm_inf_' = a
         /\ heap' = [heap EXCEPT ![a] = [Free EXCEPT !.live = TRUE]]
    /\ IF transport = "udp" THEN failure' = "throw" /\ UNCHANGED pc
                            ELSE Goto(t, "open") /\ UNCHANGED failure
    /\ UNCHANGED <<flock, call, obj, timers, receivers, device, ghosts>>

\* The loop: comm_inf_->open(), which begins with ::open.  An attempt that
\* fails sleeps and comes again, for as long as the device is away.  A
\* descriptor the object has from another open() is overwritten, and its lock
\* stays.
Open(t) ==
    /\ At(t, "open")
    /\ \/ /\ Usable
          /\ heap' = [heap EXCEPT ![comm_inf_].fd = IF plugged THEN "open" ELSE "none"]
          /\ flock' = IF flock = comm_inf_ THEN "leaked" ELSE flock
          /\ IF plugged THEN Goto(t, "config") /\ Inside(t, comm_inf_)
                        ELSE UNCHANGED <<pc, obj>>
          /\ UNCHANGED failure
       \/ ~Usable /\ Dies(t) /\ UNCHANGED <<heap, flock, obj>>
    /\ UNCHANGED <<comm_inf_, call, timers, receivers, device, ghosts>>

\* The rest of Serial::open: flock, config, and the receiver thread; if another
\* descriptor has the lock or the device is gone again, back to the loop.
Config(t) ==
    /\ At(t, "config")
    /\ IF heap[obj[t]].live
       THEN /\ IF flock = NULL /\ heap[obj[t]].fd = "open"
               THEN /\ \E r \in RecvIds :
                         /\ recv[r] = NULL
                         /\ recv' = [recv EXCEPT ![r] = obj[t]]
                    /\ heap' = [heap EXCEPT ![obj[t]].running_ = TRUE]
                    /\ flock' = obj[t]
                    /\ Goto(t, "restart")
               ELSE /\ heap' = Shut(obj[t])
                    /\ flock' = Unlocked(obj[t])
                    /\ Goto(t, "open")
                    /\ UNCHANGED recv
            /\ Inside(t, NULL)
            /\ UNCHANGED failure
       ELSE Dies(t) /\ UNCHANGED <<heap, flock, obj, recv>>
    /\ UNCHANGED <<comm_inf_, call, timers, inProc, device, ghosts>>

RestartComm(t) ==
    /\ At(t, "restart")
    /\ comm' = TRUE
    /\ Goto(t, "failed")
    /\ UNCHANGED <<comm_inf_, heap, flock, call, obj, hb, receivers, device,
                   failure, ghosts>>

\* The end of the callback: heartCallback and the plain ones restart the
\* heartbeat timer in any case, the dyn ones only after a send that succeeded.
Ended(t) == /\ Alive
            /\ pc[t] \in {"sent", "failed"}
            /\ Goto(t, "idle")
            /\ call' = [call EXCEPT ![t] = "none"]
            /\ hit' = [hit EXCEPT ![t] = FALSE]
            /\ lastEnd' = IF pc[t] = "failed" /\ call[t] = "dyn" THEN "left" ELSE "reset"
            /\ UNCHANGED <<comm_inf_, heap, flock, obj, comm, receivers, device, failure>>

Return_onlyWhenSent(t) == Ended(t) /\ hb' = (hb \/ pc[t] = "sent")
Return(t) == Ended(t) /\ hb' = (hb \/ pc[t] = "sent" \/ call[t] # "dyn")

Step(t) == \/ Send(t) \/ Write(t) \/ Close(t) \/ Delete(t) \/ Join(t) \/ Null(t)
           \/ Cancel(t) \/ New(t) \/ Open(t) \/ Config(t) \/ RestartComm(t) \/ Return(t)

-----------------------------------------------------------------------------
(* The receiver threads (serial_recv, udp_recv).  One that works for a freed *)
(* object reads whatever is there: it may leave its loop, go on, or bring    *)
(* the process down through the destroyed callback.                          *)
executors == <<comm_inf_, heap, flock, pc, call, obj, device, ghosts>>

Freed(r) == recv[r] # NULL /\ ~heap[recv[r]].live

\* running_ is clear, or select() refuses a descriptor that was closed.
Exit(r) == /\ Alive
           /\ recv[r] # NULL
           /\ r \notin inProc
           /\ \/ Freed(r)
              \/ ~heap[recv[r]].running_
              \/ heap[recv[r]].fd \in {"closed", "none"}
           /\ recv' = [recv EXCEPT ![r] = NULL]
           /\ UNCHANGED <<executors, timers, inProc, failure>>

\* select() reports data, which is read and handed to dataProc.
Receive(r) == /\ Alive
              /\ recv[r] # NULL
              /\ r \notin inProc
              /\ plugged
              /\ \/ Freed(r)
                 \/ heap[recv[r]].running_ /\ heap[recv[r]].fd = "open"
              /\ inProc' = inProc \cup {r}
              /\ UNCHANGED <<executors, timers, recv, failure>>

CallbackGone(r) == /\ Alive
                   /\ Freed(r)
                   /\ r \notin inProc
                   /\ failure' = "reader"
                   /\ UNCHANGED <<executors, timers, receivers>>

\* dataProc returns; on the way it may have restarted the communication timer
\* (case 7 of its switch).
Processed(r) == /\ Alive
                /\ r \in inProc
                /\ inProc' = inProc \ {r}
                /\ comm' \in {comm, TRUE}
                /\ UNCHANGED <<executors, hb, recv, failure>>

-----------------------------------------------------------------------------
(* The device.  A serial descriptor stays useless after its device was lost, *)
(* with its lock; a UDP socket works again once the network is back.         *)
Unplug == /\ Alive
          /\ plugged
          /\ unplugs < MaxUnplugs
          /\ plugged' = FALSE
          /\ unplugs' = unplugs + 1
          /\ heap' = [a \in Addr |->
                        IF transport = "serial" /\ heap[a].fd = "open"
                        THEN [heap[a] EXCEPT !.fd = "hung"] ELSE heap[a]]
          /\ flock' = NULL
          /\ UNCHANGED <<comm_inf_, pc, call, obj, timers, receivers, transport,
                         failure, ghosts>>

Plug == /\ Alive
        /\ ~plugged
        /\ plugged' = TRUE
        /\ UNCHANGED <<comm_inf_, heap, flock, pc, call, obj, timers, receivers,
                       transport, unplugs, failure, ghosts>>

Next == \/ \E c \in Callers : Start(c)
        \/ \E t \in Threads : Step(t)
        \/ \E r \in RecvIds : Exit(r) \/ Receive(r) \/ CallbackGone(r) \/ Processed(r)
        \/ Unplug
        \/ Plug

\* The executor runs its threads and fires the timer, a receiver looks at
\* running_ at least once a second; nobody has to send a command, and the
\* device need not come back.
Fairness == /\ \A t \in Threads : WF_vars(Step(t))
            /\ "heart" \in Callers => WF_vars(Start("heart"))
            /\ \A r \in RecvIds : WF_vars(Exit(r)) /\ WF_vars(Processed(r))

Spec == Init /\ [][Next]_vars /\ Fairness

-----------------------------------------------------------------------------
(* Every variable has its type.  comm_inf_ and obj keep their values when    *)
(* the object goes, so they may dangle: that is not a matter of type.        *)
TypeOK == /\ comm_inf_ \in Addr \cup {NULL}
          /\ heap \in [Addr -> Object]
          /\ flock \in Addr \cup {NULL, "leaked"}
          /\ pc \in [Threads -> Locations]
          /\ call \in [Threads -> Callers \cup {"none"}]
          /\ obj \in [Threads -> Addr \cup {NULL}]
          /\ hb \in BOOLEAN
          /\ comm \in BOOLEAN
          /\ recv \in [RecvIds -> Addr \cup {NULL}]
          /\ inProc \subseteq RecvIds
          /\ transport \in Transports
          /\ plugged \in BOOLEAN
          /\ unplugs \in 0 .. MaxUnplugs
          /\ failure \in Failures
          /\ hit \in [Threads -> BOOLEAN]
          /\ lastEnd \in {"reset", "left"}

\* The process dies of a null or a freed transport object only in a callback
\* that the recovery of another thread came across: that thread deleted the
\* object while the callback was at work, or had deleted it and not renewed it
\* when the callback began.  A recovery that nobody interrupts never hurts a
\* callback, its own or a later one (core.cpp heartCallback, dyn.cpp
\* sendPacket; Serial::send and Serial::open, which go on with their object
\* after every system call).
DiesOnlyInOverlap ==
    failure \in {"null", "freed"} => \E t \in Threads : pc[t] = "dead" /\ hit[t]

\* No callback ever uses a null or a freed transport object: what is left of
\* the reconnect is lost with the process otherwise (heartCallback and the
\* callbacks of the default group, which run on two executor threads).
SenderSafe == failure \notin {"null", "freed"}

\* With no callback at work the communication timer runs, and so does the
\* heartbeat timer unless the last callback to return was a sendPacket or
\* sendDebugCommandAndWait that failed: no interleaving of two recoveries, in
\* which one cancels what the other has just reset, ends with a dead watchdog,
\* and a command that is sent or any other callback repairs the one that
\* sendPacket leaves.
TimersAtRest ==
    (Alive /\ \A t \in Threads : pc[t] = "idle") =>
        comm /\ (hb \/ lastEnd = "left")

\* The link is up: an object in working order, with a receiver.
LinkUp == /\ Usable
          /\ heap[comm_inf_].running_
          /\ heap[comm_inf_].fd = "open"
          /\ \E r \in RecvIds : recv[r] = comm_inf_

\* A device that is back for good is found again: the link comes up and stays
\* up, unless a receiver of a deleted Serial brought the process down before
\* ("reconnect behavior").
Reconnects == <>[]plugged => <>(failure = "reader" \/ []LinkUp)
=============================================================================
