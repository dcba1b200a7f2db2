----------------------------- MODULE ModeService -----------------------------
(* What set_control_mode promises, without the link, the polling and the     *)
(* save pipeline behind it:                                                  *)
(*   - one request is handled at a time, and every answer ends one request;  *)
(*   - a request is confirmed only when the driver knows the base to be      *)
(*     ready in the requested mode;                                          *)
(*   - the base enters a mode on request only when nothing moves.            *)
(* DynControl implements it; SpinClient is built on it.                      *)
CONSTANTS
    Modes,      \* the modes of the base: "speed", "mit"
    Kinds,      \* the kinds of motion command
    UNKNOWN     \* no mode

ASSUME UnknownAssumption == UNKNOWN \notin Modes

VARIABLES
    handled,    \* the mode of the request in the handler, or UNKNOWN
    answer,     \* what the handler has found so far: "none", "yes", "no"
    known,      \* the mode the driver holds the base ready in, or UNKNOWN
    chassis,    \* the mode of the base, or "rc"
    moving      \* the kinds of motion the base carries out

serviceVars == <<handled, answer, known, chassis, moving>>

Init == /\ handled = UNKNOWN
        /\ answer = "none"
        /\ known = UNKNOWN
        /\ chassis \in Modes
        /\ moving = {}

\* A request is taken up.
Accept(m) == /\ handled = UNKNOWN
             /\ answer = "none"
             /\ handled' = m
             /\ UNCHANGED <<answer, known, chassis, moving>>

\* It asks for a mode there is not.
RefuseUnsupported == /\ handled = UNKNOWN
                     /\ answer = "none"
                     /\ answer' = "no"
                     /\ UNCHANGED <<handled, known, chassis, moving>>

Confirm == /\ handled # UNKNOWN
           /\ answer = "none"
           /\ known = handled
           /\ answer' = "yes"
           /\ UNCHANGED <<handled, known, chassis, moving>>

\* The packet could not be sent, or the time is over.
Refuse == /\ handled # UNKNOWN
          /\ answer = "none"
          /\ answer' = "no"
          /\ UNCHANGED <<handled, known, chassis, moving>>

\* The switch was confirmed, but saving it failed.
Withdraw == /\ answer = "yes"
            /\ answer' = "no"
            /\ UNCHANGED <<handled, known, chassis, moving>>

Reply == /\ answer # "none"
         /\ handled' = UNKNOWN
         /\ answer' = "none"
         /\ UNCHANGED <<known, chassis, moving>>

\* A status arrives.
Learn(m) == /\ known' = m
            /\ UNCHANGED <<handled, answer, chassis, moving>>

\* The base does what a switch asks of it.
EnterMode(m) == /\ moving = {}
                /\ chassis' = m
                /\ UNCHANGED <<handled, answer, known, moving>>

\* A reset at the end of the save pipeline.
Restart(m) == /\ chassis' = m
              /\ moving' = {}
              /\ UNCHANGED <<handled, answer, known>>

TakeOver == /\ chassis' = "rc"
            /\ UNCHANGED <<handled, answer, known, moving>>

\* Commands reach the base.
Motion(kinds) == /\ moving' = kinds
                 /\ UNCHANGED <<handled, answer, known, chassis>>

Next == \/ \E m \in Modes : Accept(m) \/ EnterMode(m) \/ Restart(m)
        \/ \E m \in Modes \cup {UNKNOWN} : Learn(m)
        \/ RefuseUnsupported \/ Confirm \/ Refuse \/ Withdraw \/ Reply
        \/ TakeOver
        \/ \E kinds \in SUBSET Kinds : Motion(kinds)

Spec == Init /\ [][Next]_serviceVars
=============================================================================
