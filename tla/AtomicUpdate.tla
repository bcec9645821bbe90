----------------------------- MODULE AtomicUpdate -----------------------------
(***************************************************************************)
(* What the user of `hivemind update` may rely on: one installed version   *)
(* at any moment, replaced in one step by a later one, and put back at     *)
(* most once, with no daemon running.  No trees, no clone, no marker, no   *)
(* killed command.                                                         *)
(***************************************************************************)
EXTENDS Naturals

CONSTANTS
    MaxVersion,   \* bound: the last version published
    None          \* no version

VARIABLES
    published,    \* the last version published
    installed,    \* the version installed
    previous,     \* the version it replaced, while it can be put back
    serving,      \* the version the daemon runs
    ruined        \* an update was run on a half-removed tree, or passed over a failure

installation == <<published, installed, previous, serving, ruined>>

Init ==
    /\ published = 0 /\ installed = 0 /\ previous = None
    /\ serving = None /\ ruined = FALSE

Publish ==
    /\ published < MaxVersion
    /\ published' = published + 1
    /\ UNCHANGED <<installed, previous, serving, ruined>>

\* Under a daemon that runs as well: it keeps the version it has loaded.
Upgrade ==
    /\ installed' \in (installed + 1)..published
    /\ previous' = installed
    /\ UNCHANGED <<published, serving, ruined>>

\* The new version is taken back, for the one it replaced.
Undo ==
    /\ previous # None /\ serving = None
    /\ installed' = previous /\ previous' = None
    /\ UNCHANGED <<published, serving, ruined>>

\* From now on the installed version stays until the next upgrade.
Forget ==
    /\ previous' = None
    /\ UNCHANGED <<published, installed, serving, ruined>>

Serve ==
    /\ serving = None /\ serving' = installed
    /\ UNCHANGED <<published, installed, previous, ruined>>

Cease ==
    /\ serving' = None
    /\ UNCHANGED <<published, installed, previous, ruined>>

\* Nothing is promised of what an update makes of a half-removed tree, nor of one
\* that goes on after a rename or a removal has failed.
Astray == ruined' = TRUE

Next == Publish \/ Upgrade \/ Undo \/ Forget \/ Serve \/ Cease \/ Astray

Spec == Init /\ [][Next]_installation
===============================================================================
