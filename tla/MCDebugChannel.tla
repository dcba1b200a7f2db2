--------------------------- MODULE MCDebugChannel ---------------------------
(* A base with two modes, one command and two replies in flight, and two      *)
(* attempts for every loop of attempts.                                       *)
EXTENDS DebugChannel

MCModes == {"speed", "mit"}
MCCores == {"dyn", "plain", "none"}
=============================================================================
