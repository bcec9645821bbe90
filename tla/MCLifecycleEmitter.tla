-------------------------- MODULE MCLifecycleEmitter --------------------------
(* Instance of LifecycleEmitter for TLC.                                   *)
EXTENDS LifecycleEmitter

CONSTANTS d1, d2
=============================================================================
