---------------------------- MODULE MCUpdateSwap ----------------------------
(* Instances of UpdateSwap for TLC.                                        *)
EXTENDS UpdateSwap, TLC

CONSTANTS l1, l2

BadVersions == {1, 3}
BadVersion  == {1}
LauncherSymmetry == Permutations(Launchers)
=============================================================================
