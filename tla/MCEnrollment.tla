----------------------------- MODULE MCEnrollment -----------------------------
(* Instances of Enrollment for TLC.                                        *)
EXTENDS Enrollment, TLC

CONSTANTS l1, l2, t1, t2, a, b

\* Launchers, tabs and tenants are interchangeable.
Interchangeable ==
    Permutations({l1, l2}) \cup Permutations({t1, t2}) \cup Permutations({a, b})
=============================================================================
