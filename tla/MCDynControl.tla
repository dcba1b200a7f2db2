----------------------------- MODULE MCDynControl -----------------------------
(* DynControl with interchangeable motors, and with fewer kinds of motion    *)
(* command: cmd_vel and dm_speed need the same mode.                         *)
EXTENDS DynControl, TLC

MotorSymmetry == Permutations(Motors)

AllKinds == <<"cmd_vel", "dm_speed", "dm_mit">>
OnePerMode == <<"cmd_vel", "dm_mit">>
OnlyMit == <<"dm_mit">>
OnlySpeed == <<"dm_speed">>
=============================================================================
