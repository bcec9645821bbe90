------------------------- MODULE MCSessionRegistry -------------------------
(* Instances of SessionRegistry for TLC.                                   *)
EXTENDS SessionRegistry, TLC

CONSTANTS s1, s2, r1, p1, p2

\* Pid numbers are interchangeable, and so are the sessions of this device.
PidSymmetry  == Permutations({p1, p2})
LaneSymmetry == PidSymmetry \cup Permutations({s1, s2})
=============================================================================
