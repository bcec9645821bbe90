------------------------------ MODULE UpdateSwap ------------------------------
(***************************************************************************)
(* `hivemind update` and the restart it defers (bin/hivemind: cmd_update,  *)
(* _apply_pending_restart).  An update moves the clone to the new commit,  *)
(* builds a staged tree, swaps it for $HIVEMIND_HOME in two renames, and   *)
(* restarts the daemon, or, with clients attached, leaves a marker for the *)
(* next start that finds none.  A version that does not come up is rolled  *)
(* back to the last-good tree.                                             *)
(*                                                                         *)
(* A launcher is one command, the name of its next step.  Commands take no *)
(* lock; each may be killed between two steps, or in the middle of one     *)
(* that removes or builds a tree, and where the code passes over a step    *)
(* that fails, the step may.  A tree is a version, or torn, or absent.     *)
(***************************************************************************)
EXTENDS Naturals

CONSTANTS
    Launchers,    \* terminals that run hivemind
    Bad,          \* the versions whose daemon does not come up
    MaxVersion    \* bound: the last version published

ASSUME UpdateAssumption ==
    /\ MaxVersion \in Nat /\ Bad \subseteq 1..MaxVersion

Versions == 0..MaxVersion
Absent   == MaxVersion + 1
Torn     == MaxVersion + 2
Nothing  == MaxVersion + 3
Trees    == Versions \cup {Absent, Torn}

VARIABLES
    upstream,   \* origin/main
    source,     \* HEAD of the clone, HIVEMIND_SOURCE_DIR
    home,       \* $HIVEMIND_HOME
    lastGood,   \* $HIVEMIND_HOME.last-good
    staging,    \* $HIVEMIND_HOME.staging
    daemon,     \* the version the running daemon was loaded from, or Nothing
    marker,     \* hivemind-restart-pending: its two versions
    lane,       \* the command each launcher runs
    mishaps     \* history: what has gone wrong so far

trees == <<home, lastGood, staging>>
vars  == <<upstream, source, trees, daemon, marker, lane, mishaps>>

-----------------------------------------------------------------------------
Commands == {"start", "update", "launch"}

\* The steps of a deferred restart, of a start, of an update, of a rollback.
Applying  == {"pending", "clear", "applyStop", "applyStart", "applyJudge"}
Updating  == {"fetch", "stage", "report", "stop", "drop", "park", "place", "mark",
              "restart", "judge"}
Undoing   == {"undoStop", "remove", "restore", "rewind", "relaunch"}
Steps     == {"rest", "start"} \cup Applying \cup Updating \cup Undoing

NoMarker == [new |-> Nothing, old |-> Nothing]

\* step: where it stands; cmd: what it was asked for; in: the procedure a
\* rollback belongs to; before, after: the versions it goes from and to; live:
\* it was told that clients are attached; pinned: it knows HIVEMIND_SOURCE_DIR,
\* which it has read from $HIVEMIND_HOME/.env.  History: served, it began with a
\* daemon whose tree was in place, nothing else has ended the daemon since and no
\* step of it has failed.
Lanes == [step : Steps, cmd : Commands, in : {"apply", "update"},
          before : Versions \cup {Nothing}, after : Versions \cup {Nothing},
          live : BOOLEAN, pinned : BOOLEAN, served : BOOLEAN]

AtRest == [step |-> "rest", cmd |-> "start", in |-> "apply", before |-> Nothing,
           after |-> Nothing, live |-> FALSE, pinned |-> FALSE, served |-> FALSE]

\* What may go wrong: a command was killed; a swap was left without its marker; an
\* update began with no whole tree in home; a reset of the clone, or the return of
\* last-good, or another step on the trees failed and the command went on.
Mishaps == {"killed", "unmarked", "tornBase", "ahead", "unrestored", "failed"}

\* After these the trees are not what the steps take them for.
Ruined == "tornBase" \in mishaps \/ "failed" \in mishaps

\* Nothing has gone wrong, except for a reset of the clone.
Calm == mishaps \subseteq {"ahead"}

\* Every version is one that was published; the clone is never ahead.
TypeOK ==
    /\ upstream \in Versions /\ source \in 0..upstream
    /\ home \in Trees /\ lastGood \in Trees /\ staging \in Trees
    /\ daemon \in (Versions \ Bad) \cup {Nothing}
    /\ marker \in [new : Versions, old : Versions] \cup {NoMarker}
    /\ lane \in [Launchers -> Lanes]
    /\ mishaps \subseteq Mishaps

Init ==
    /\ upstream = 0 /\ source = 0 /\ home = 0
    /\ lastGood = Absent /\ staging = Absent
    /\ daemon = Nothing
    /\ marker = NoMarker
    /\ lane = [l \in Launchers |-> AtRest]
    /\ mishaps = {}

At(l, step) == lane[l].step = step
Go(l, step) == lane' = [lane EXCEPT ![l].step = step]

\* The daemon a start leaves: a running one is reused, else that of home.
Started == IF daemon # Nothing THEN daemon
           ELSE IF home \in Versions \ Bad THEN home ELSE Nothing

StartDaemon == daemon' = Started
StopDaemon  == daemon' = Nothing

\* mv into a directory that exists leaves that directory's tree in place.
Renamed(from, to) == IF to = Absent THEN from ELSE to

\* After the deferred restart; after an update, which a launch goes on from.
Proceed(l) == IF lane[l].cmd = "start" THEN "start" ELSE "fetch"
EndUpdate(l) ==
    lane' = [lane EXCEPT ![l] =
        [@ EXCEPT !.step = IF lane[l].cmd = "launch" THEN "pending" ELSE "rest",
                  !.cmd = "start"]]

\* There is a daemon, and its tree is installed or can be restored.
InPlace == daemon = home \/ (marker # NoMarker /\ daemon = lastGood)

\* _live_clients_report.  What it cannot read of a daemon that runs is live; but
\* it asks healthz first, and a daemon that takes more than 2 s is not live,
\* whoever is attached (936).  So it may say of a running daemon what it likes.
MayBeLive == daemon # Nothing

\* git reset --hard ... || true: it may fail, and the clone stays ahead.
ResetBack(l) ==
    \/ source' = lane[l].before /\ UNCHANGED mishaps
    \/ /\ source # lane[l].before
       /\ UNCHANGED source
       /\ mishaps' = mishaps \cup {"ahead"}

-----------------------------------------------------------------------------
(* Commands.                                                               *)

Give(l, cmd) ==
    /\ At(l, "rest")
    /\ \E pinned \in BOOLEAN :
          /\ (home \in Versions => pinned) /\ (home = Absent => ~pinned)
          /\ lane' = [lane EXCEPT ![l] =
                 [AtRest EXCEPT !.step = "pending", !.cmd = cmd, !.pinned = pinned,
                                !.served = InPlace]]
    /\ UNCHANGED <<upstream, source, trees, daemon, marker, mishaps>>

\* _start_proxy once the deferred restart is dealt with.
Start(l) ==
    /\ At(l, "start")
    /\ StartDaemon
    /\ Go(l, "rest")
    /\ UNCHANGED <<upstream, source, trees, marker, mishaps>>

-----------------------------------------------------------------------------
(* _apply_pending_restart.                                                 *)

SkipPending(l) ==
    /\ At(l, "pending")
    /\ marker = NoMarker \/ MayBeLive
    /\ Go(l, Proceed(l))
    /\ UNCHANGED <<upstream, source, trees, daemon, marker, mishaps>>

\* Mutant of Take: the marker is read after it has been removed.
TakeAfterClear(l) ==
    lane' = [lane EXCEPT ![l] =
        [@ EXCEPT !.step = "clear", !.in = "apply", !.live = FALSE,
                  !.before = Nothing, !.after = Nothing]]

Take(l) ==
    lane' = [lane EXCEPT ![l] =
        [@ EXCEPT !.step = "clear", !.in = "apply", !.live = FALSE,
                  !.before = marker.old, !.after = marker.new]]

TakePending(l) ==
    /\ At(l, "pending")
    /\ marker # NoMarker
    /\ Take(l)
    /\ UNCHANGED <<upstream, source, trees, daemon, marker, mishaps>>

Clear(l) ==
    /\ At(l, "clear")
    /\ marker' = NoMarker
    /\ Go(l, "applyStop")
    /\ UNCHANGED <<upstream, source, trees, daemon, mishaps>>

ApplyStop(l) ==
    /\ At(l, "applyStop")
    /\ StopDaemon
    /\ Go(l, "applyStart")
    /\ UNCHANGED <<upstream, source, trees, marker, mishaps>>

ApplyStart(l) ==
    /\ At(l, "applyStart")
    /\ StartDaemon
    /\ Go(l, "applyJudge")
    /\ UNCHANGED <<upstream, source, trees, marker, mishaps>>

ApplyJudge(l) ==
    /\ At(l, "applyJudge")
    /\ Go(l, IF daemon # Nothing THEN Proceed(l) ELSE "undoStop")
    /\ UNCHANGED <<upstream, source, trees, daemon, marker, mishaps>>

-----------------------------------------------------------------------------
(* cmd_update.                                                             *)

\* A restart still pending, no clone known, no network, nothing new.
Refuse(l) ==
    /\ At(l, "fetch")
    /\ EndUpdate(l)
    /\ UNCHANGED <<upstream, source, trees, daemon, marker, mishaps>>

\* Mutant of Fetch: without the look at the marker.
FetchAnyway(l) ==
    /\ At(l, "fetch")
    /\ lane[l].pinned /\ source # upstream
    /\ source' = upstream
    /\ lane' = [lane EXCEPT ![l] =
           [@ EXCEPT !.step = "stage", !.in = "update", !.before = source,
                     !.after = upstream]]
    /\ mishaps' = mishaps \cup (IF home \in Versions THEN {} ELSE {"tornBase"})
    /\ UNCHANGED <<upstream, trees, daemon, marker>>

\* Mutant of Fetch: the version to go back to is read after the reset.
FetchLate(l) ==
    /\ At(l, "fetch")
    /\ marker = NoMarker /\ lane[l].pinned /\ source # upstream
    /\ source' = upstream
    /\ lane' = [lane EXCEPT ![l] =
           [@ EXCEPT !.step = "stage", !.in = "update", !.before = upstream,
                     !.after = upstream]]
    /\ mishaps' = mishaps \cup (IF home \in Versions THEN {} ELSE {"tornBase"})
    /\ UNCHANGED <<upstream, trees, daemon, marker>>

Fetch(l) ==
    /\ At(l, "fetch")
    /\ marker = NoMarker /\ lane[l].pinned /\ source # upstream
    /\ source' = upstream
    /\ lane' = [lane EXCEPT ![l] =
           [@ EXCEPT !.step = "stage", !.in = "update", !.before = source,
                     !.after = upstream]]
    /\ mishaps' = mishaps \cup (IF home \in Versions THEN {} ELSE {"tornBase"})
    /\ UNCHANGED <<upstream, trees, daemon, marker>>

\* The commit is not trusted, or the build fails.
StageFails(l) ==
    /\ At(l, "stage")
    /\ ResetBack(l)
    /\ staging' \in {staging, Absent}
    /\ EndUpdate(l)
    /\ UNCHANGED <<upstream, home, lastGood, daemon, marker>>

Stage(l) ==
    /\ At(l, "stage")
    /\ staging' = source
    /\ Go(l, "report")
    /\ UNCHANGED <<upstream, source, home, lastGood, daemon, marker, mishaps>>

Report(l) ==
    /\ At(l, "report")
    /\ \E live \in BOOLEAN :
          /\ live => MayBeLive
          /\ lane' = [lane EXCEPT ![l] =
                 [@ EXCEPT !.live = live, !.step = IF live THEN "drop" ELSE "stop"]]
    /\ UNCHANGED <<upstream, source, trees, daemon, marker, mishaps>>

Stop(l) ==
    /\ At(l, "stop")
    /\ StopDaemon
    /\ Go(l, "drop")
    /\ UNCHANGED <<upstream, source, trees, marker, mishaps>>

\* Mutant of Drop: an older last-good is left for the rename to meet.
DropSkipped(l) ==
    /\ At(l, "drop")
    /\ Go(l, "park")
    /\ UNCHANGED <<upstream, source, trees, daemon, marker, mishaps>>

Drop(l) ==
    /\ At(l, "drop")
    /\ lastGood' = Absent
    /\ Go(l, "park")
    /\ UNCHANGED <<upstream, source, home, staging, daemon, marker, mishaps>>

\* Mutant of Park: the tree is removed, not renamed.
ParkRemoves(l) ==
    /\ At(l, "park")
    /\ home' = Absent
    /\ Go(l, "place")
    /\ UNCHANGED <<upstream, source, lastGood, staging, daemon, marker, mishaps>>

\* Mutant of Park: the tree is copied, and the new one then moved into it.
ParkCopies(l) ==
    /\ At(l, "park")
    /\ lastGood' = IF home = Absent THEN lastGood ELSE Renamed(home, lastGood)
    /\ Go(l, "place")
    /\ UNCHANGED <<upstream, source, home, staging, daemon, marker, mishaps>>

Park(l) ==
    /\ At(l, "park")
    /\ home' = Absent
    /\ lastGood' = IF home = Absent THEN lastGood ELSE Renamed(home, lastGood)
    /\ Go(l, "place")
    /\ UNCHANGED <<upstream, source, staging, daemon, marker, mishaps>>

Place(l) ==
    /\ At(l, "place") /\ staging # Absent
    /\ home' = Renamed(staging, home)
    /\ staging' = Absent
    /\ Go(l, "mark")
    /\ UNCHANGED <<upstream, source, lastGood, daemon, marker, mishaps>>

Mark(l) ==
    /\ At(l, "mark")
    /\ IF lane[l].live
          THEN /\ marker' = [new |-> lane[l].after, old |-> lane[l].before]
               /\ Go(l, "judge")
          ELSE /\ marker' = NoMarker
               /\ Go(l, "restart")
    /\ UNCHANGED <<upstream, source, trees, daemon, mishaps>>

\* The marker cannot be written: a warning, and on.
MarkFails(l) ==
    /\ At(l, "mark") /\ lane[l].live
    /\ mishaps' = mishaps \cup {"unmarked"}
    /\ Go(l, "judge")
    /\ UNCHANGED <<upstream, source, trees, daemon, marker>>

Restart(l) ==
    /\ At(l, "restart")
    /\ StartDaemon
    /\ Go(l, "judge")
    /\ UNCHANGED <<upstream, source, trees, marker, mishaps>>

Judge(l) ==
    /\ At(l, "judge")
    /\ IF daemon # Nothing THEN EndUpdate(l)
       ELSE Go(l, IF lane[l].live THEN "remove" ELSE "undoStop")
    /\ UNCHANGED <<upstream, source, trees, daemon, marker, mishaps>>

-----------------------------------------------------------------------------
(* The rollback, of either.                                                *)

UndoStop(l) ==
    /\ At(l, "undoStop")
    /\ StopDaemon
    /\ Go(l, IF lane[l].in = "apply" /\ lastGood = Absent THEN "relaunch" ELSE "remove")
    /\ UNCHANGED <<upstream, source, trees, marker, mishaps>>

Remove(l) ==
    /\ At(l, "remove")
    /\ home' = Absent
    /\ Go(l, "restore")
    /\ UNCHANGED <<upstream, source, lastGood, staging, daemon, marker, mishaps>>

Restore(l) ==
    /\ At(l, "restore") /\ lastGood # Absent
    /\ home' = Renamed(lastGood, home)
    /\ lastGood' = Absent
    /\ Go(l, "rewind")
    /\ UNCHANGED <<upstream, source, staging, daemon, marker, mishaps>>

Rewind(l) ==
    /\ At(l, "rewind")
    /\ IF lane[l].pinned THEN ResetBack(l) ELSE UNCHANGED <<source, mishaps>>
    /\ Go(l, "relaunch")
    /\ UNCHANGED <<upstream, trees, daemon, marker>>

\* Mutant of Relaunch: the old version is not started again.
RelaunchSkipped(l) ==
    /\ At(l, "relaunch")
    /\ marker' = IF lane[l].live THEN NoMarker ELSE marker
    /\ IF lane[l].in = "apply" THEN Go(l, Proceed(l)) ELSE EndUpdate(l)
    /\ UNCHANGED <<upstream, source, trees, daemon, mishaps>>

Relaunch(l) ==
    /\ At(l, "relaunch")
    /\ IF lane[l].live THEN marker' = NoMarker /\ UNCHANGED daemon
       ELSE StartDaemon /\ UNCHANGED marker
    /\ IF lane[l].in = "apply" THEN Go(l, Proceed(l)) ELSE EndUpdate(l)
    /\ UNCHANGED <<upstream, source, trees, mishaps>>

-----------------------------------------------------------------------------
(* Failing steps.                                                          *)

\* What a removal that is cut short may leave.
Cut(tree) == IF tree = Absent THEN {Absent} ELSE {tree, Torn, Absent}

\* The command goes on after a step that fails: in the rollback of a deferred
\* restart (1032-1033), and in the update of a launch, whose subshell is part of
\* an || list (2142), so that set -e is off in it.  Elsewhere set -e ends it.
PassesOver(l) ==
    \/ lane[l].cmd = "launch"
    \/ lane[l].in = "apply" /\ lane[l].step \in {"remove", "restore"}

Follows == [drop |-> "park", park |-> "place", place |-> "mark",
            remove |-> "restore", restore |-> "rewind"]

\* There is nothing to rename.
Missing(l) ==
    /\ (At(l, "place") /\ staging = Absent) \/ (At(l, "restore") /\ lastGood = Absent)
    /\ IF PassesOver(l) THEN Go(l, Follows[lane[l].step])
       ELSE lane' = [lane EXCEPT ![l] = AtRest]
    /\ UNCHANGED <<upstream, source, trees, daemon, marker, mishaps>>

\* rm or mv fails, and the command goes on.
Fails(l) ==
    /\ lane[l].step \in DOMAIN Follows /\ PassesOver(l)
    /\ home' \in IF At(l, "remove") THEN Cut(home) \ {Absent} ELSE {home}
    /\ lastGood' \in IF At(l, "drop") THEN Cut(lastGood) \ {Absent} ELSE {lastGood}
    /\ lane' = [lane EXCEPT ![l] =
           [@ EXCEPT !.step = Follows[lane[l].step], !.served = FALSE]]
    /\ mishaps' = mishaps \cup {IF At(l, "restore") THEN "unrestored" ELSE "failed"}
    /\ UNCHANGED <<upstream, source, staging, daemon, marker>>

-----------------------------------------------------------------------------
(* The environment.                                                        *)

\* Ctrl-C, SIGKILL, or a failure that set -e makes the end of the command; a
\* removal or a build in progress leaves its tree torn.
Kill(l) ==
    /\ ~At(l, "rest")
    /\ home' \in IF At(l, "remove") THEN Cut(home) ELSE {home}
    /\ lastGood' \in IF At(l, "drop") THEN Cut(lastGood) ELSE {lastGood}
    /\ staging' \in IF At(l, "stage") THEN {staging, Torn, Absent} ELSE {staging}
    /\ lane' = [lane EXCEPT ![l] = AtRest]
    /\ mishaps' = mishaps \cup {"killed"}
          \cup (IF At(l, "applyStop") \/ (At(l, "mark") /\ lane[l].live)
                   THEN {"unmarked"} ELSE {})
    /\ UNCHANGED <<upstream, source, daemon, marker>>

Publish ==
    /\ upstream < MaxVersion
    /\ upstream' = upstream + 1
    /\ UNCHANGED <<source, trees, daemon, marker, lane, mishaps>>

\* `hivemind stop`, or the daemon crashes.
DaemonEnds ==
    /\ daemon # Nothing
    /\ StopDaemon
    /\ lane' = [l \in Launchers |-> [lane[l] EXCEPT !.served = FALSE]]
    /\ UNCHANGED <<upstream, source, trees, marker, mishaps>>

Step(l) ==
    \/ \E cmd \in Commands : Give(l, cmd)
    \/ Start(l) \/ SkipPending(l) \/ TakePending(l) \/ Clear(l) \/ ApplyStop(l)
    \/ ApplyStart(l) \/ ApplyJudge(l) \/ Refuse(l) \/ Fetch(l) \/ StageFails(l)
    \/ Stage(l) \/ Report(l) \/ Stop(l) \/ Drop(l) \/ Park(l) \/ Place(l)
    \/ Mark(l) \/ MarkFails(l) \/ Restart(l) \/ Judge(l) \/ UndoStop(l)
    \/ Remove(l) \/ Restore(l) \/ Rewind(l) \/ Relaunch(l) \/ Missing(l)
    \/ Fails(l) \/ Kill(l)

Next ==
    \/ \E l \in Launchers : Step(l)
    \/ Publish \/ DaemonEnds

Spec == Init /\ [][Next]_vars

-----------------------------------------------------------------------------
(* Properties.                                                             *)

\* Comment of _apply_pending_restart (1002-1004): "a new build that does not
\* come up is rolled back to last-good and the old version restarted (never
\* leaves the user proxy-less)": with no command killed and no step on the trees
\* failed, a whole tree is installed once the commands have ended.
NeverTreeless ==
    Calm /\ (\A l \in Launchers : At(l, "rest")) => home \in Versions

\* Whatever step a command is killed at, and even if last-good could not be put
\* back, a whole tree is in $HIVEMIND_HOME or in last-good, which is the way back
\* the comment on the swap tells (2037-2044); unless an update was run with no
\* whole tree in home, which it parks as last-good, or another rename or a removal
\* failed and the command went on, so that the next rename moved a tree into
\* another one.
Restorable ==
    /\ Ruined \/ home \in Versions \/ lastGood \in Versions
    /\ NeverTreeless

\* Restorable is what one lock would buy, held by an update or a launch, and by a
\* start from where it applies a pending restart: of two commands one is at rest,
\* or a start that has nothing to apply.  The code has no such lock.
Idle(l) ==
    \/ At(l, "rest")
    \/ lane[l].cmd = "start" /\ lane[l].step \in {"pending", "start"}

OneSwap == \A l, m \in Launchers : l # m => Idle(l) \/ Idle(m)

\* The other properties need more: that no start looks at a swap under way.
OneCommand == \A l, m \in Launchers : l # m => At(l, "rest") \/ At(m, "rest")

\* While the marker exists, last-good is the tree the running daemon was loaded
\* from, which is what its rollback needs (comment of _apply_pending_restart,
\* 1005-1006), or the daemon has ended meanwhile and a start that had looked
\* before it ended has brought up the new tree; unless a swap was left without
\* its marker, or is none because a step of it failed.
MarkerMeans ==
    marker # NoMarker /\ daemon # Nothing /\ mishaps \cap {"unmarked", "failed"} = {}
        => lastGood \in Versions /\ daemon \in {lastGood, home}

\* Between commands the clone, the installed tree and the daemon agree: the
\* clone is at the installed version, so that "Already up to date" (1983) is
\* true of it, and a daemon of another version is the one the marker defers.
\* After a reset that failed (|| true) the clone may be ahead, and a marker may name
\* the clone's version as the one to go back to; the rest remains true.
Coherent ==
    Calm /\ (\A l \in Launchers : At(l, "rest")) =>
        /\ home = source \/ "ahead" \in mishaps
        /\ daemon \in {home, Nothing} \/ (marker # NoMarker /\ daemon = lastGood)
        /\ marker # NoMarker => marker.new = home
        /\ marker # NoMarker => marker.old = lastGood \/ "ahead" \in mishaps

\* A command that began with a daemon whose tree was in place, that nobody
\* disturbed and no rename or removal of which failed, leaves a daemon with its last
\* step: a new version that does not come up is undone and the old one runs again
\* (1002-1004).
NeverProxyless ==
    [][\A l \in Launchers :
          ~At(l, "rest") /\ At(l, "rest")' /\ lane'[l].served => daemon' # Nothing]_vars

\* When an update ends with "Updated: before -> after" (2095), what is installed is
\* that version, whatever was killed before, and either the daemon runs it or
\* the marker says that a start has yet to bring it up (2097); unless a step on the
\* trees failed and the command went on.
UpdatedIsInstalled ==
    [][\A l \in Launchers :
          Judge(l) /\ daemon # Nothing /\ "failed" \notin mishaps =>
             /\ home = lane[l].after
             /\ IF lane[l].live
                   THEN "unmarked" \in mishaps
                        \/ marker = [new |-> lane[l].after, old |-> lane[l].before]
                   ELSE daemon = home]_vars

\* The tree that is there or, while it is not, the one to restore it from, now or
\* by hand (2042-2043); and the one to go back to.
Installed == IF home \in Versions THEN home ELSE lastGood
Previous  == IF home \in Versions /\ lastGood \in Versions THEN lastGood ELSE Nothing

Installation == INSTANCE AtomicUpdate
    WITH published <- upstream, installed <- Installed, previous <- Previous,
         serving <- daemon, ruined <- Ruined, None <- Nothing

\* "Apply atomically", "rename swap" (2011-2012), over two renames, removals cut
\* short, rollbacks now or at a deferred restart, and a kill at every step: the
\* installed version changes only in one step to a later published one, when the
\* staged tree is in place, or, with no daemon running, back to the one it
\* replaced; and a daemon is started from nothing but the installed version.
AppliesAtomically == Installation!Spec
===============================================================================
