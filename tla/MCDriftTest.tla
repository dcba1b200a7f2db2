----------------------------- MODULE MCDriftTest -----------------------------
(* A short drift test.  The torques it asks for exceed the limits here and   *)
(* there, so that the clamps have work to do.                                *)
EXTENDS DriftTest

Counterclockwise == 1
=============================================================================
