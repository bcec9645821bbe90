--------------------------- MODULE MCSettingsMerge ---------------------------
(* SettingsMerge for TLC: one array, one scalar, two entries. *)
EXTENDS SettingsMerge, TLC

CONSTANTS allow, mode, a, b, v1, v2

\* Neither the entries nor the releases differ but by what is made of them.
Symmetry == Permutations({a, b}) \cup Permutations({v1, v2})
=============================================================================
