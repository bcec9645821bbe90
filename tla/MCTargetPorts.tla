---------------------------- MODULE MCTargetPorts ----------------------------
(* Instances of TargetPorts for TLC.                                       *)
EXTENDS TargetPorts, TLC

CONSTANTS i1, i2, cursor, antigravity, manual, alpha

\* Installers and targets are interchangeable.
Interchangeable == Permutations({i1, i2}) \cup Permutations({cursor, antigravity, manual})
=============================================================================
