-------------------------------- MODULE MCLink --------------------------------
(* Instances of Link for TLC.                                                *)
EXTENDS Link, TLC

\* Receivers are interchangeable, and so are addresses.  Not for liveness.
LinkSymmetry == Permutations(Addr) \cup Permutations(RecvIds)
=============================================================================
