-------------------------- MODULE MCRuntimeLauncher --------------------------
(* Instances of RuntimeLauncher for TLC.                                   *)
EXTENDS RuntimeLauncher, TLC

CONSTANTS l1, l2, p1, p2, p3

\* Launchers and pid numbers are interchangeable.
Interchangeable == Permutations({l1, l2}) \cup Permutations({p1, p2, p3})
=============================================================================
