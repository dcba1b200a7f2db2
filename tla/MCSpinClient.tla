---------------------------- MODULE MCSpinClient ----------------------------
(* Two clients that want different modes.                                     *)
EXTENDS SpinClient

MCModes == {"speed", "mit"}
MCKinds == {"cmd_vel", "dm_mit"}
MCTopic == [m \in MCModes |-> IF m = "mit" THEN "dm_mit" ELSE "cmd_vel"]
MCClients == {"a", "b"}
MCWant == [c \in MCClients |-> IF c = "a" THEN "speed" ELSE "mit"]
=============================================================================
