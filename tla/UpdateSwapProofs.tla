---------------------------- MODULE UpdateSwapProofs ----------------------------
(* Theorems about UpdateSwap, for any number of launchers.  TypeOK holds as *)
(* it stands; Restorable if no two swaps overlap (OneSwap); the others if   *)
(* no two commands do (OneCommand).  Nothing in the code ensures either.    *)
EXTENDS UpdateSwap, TLAPS

-----------------------------------------------------------------------------
(* Invariants of all launchers.                                            *)

Picking == {"rest", "start", "pending", "fetch"}

\* A command that is past its look at the versions goes between published ones.
Known ==
    /\ marker # NoMarker => marker.new \in 0..upstream /\ marker.old \in 0..upstream
    /\ \A l \in Launchers : lane[l].step \notin Picking
          => lane[l].before \in 0..upstream /\ lane[l].after \in 0..upstream

-----------------------------------------------------------------------------
(* Invariants of commands given one at a time.  It is the turn of a        *)
(* launcher while the others are at rest, and the environment's steps are  *)
(* then its own: what is said of a lane is said when it has its turn.      *)

Turn(l) == \A m \in Launchers \ {l} : At(m, "rest")
Own(l)  == Step(l) \/ Publish \/ DaemonEnds \/ UNCHANGED vars

Good == Versions \ Bad

\* What each step has made of the trees, unless they are ruined.
Whole(l) ==
    /\ home \in Versions \/ lastGood \in Versions
    /\ lane[l].step \in {"stage", "report", "stop", "drop", "park"}
          => home \in Versions /\ marker = NoMarker
    /\ lane[l].step = "park" => lastGood = Absent
    /\ lane[l].step \in {"place", "mark"} => lastGood \in Versions /\ marker = NoMarker
    /\ lane[l].step \in {"restart", "judge"} => lastGood \in Versions
    /\ lane[l].step = "place" => home = Absent
    /\ lane[l].step \in {"remove", "restore"} => lastGood \in Versions
    /\ lane[l].step = "restore" => home = Absent
    /\ lane[l].step = "undoStop" /\ lane[l].in = "update" => lastGood \in Versions
    /\ marker # NoMarker \/ lane[l].step \in Applying \ {"pending"}
          \/ (lane[l].step = "undoStop" /\ lane[l].in = "apply")
          => lastGood \in Versions \cup {Absent}
    /\ lane[l].step \in Applying \ {"pending"} => lane[l].in = "apply"
    /\ lane[l].step \in Updating \ {"fetch"} => lane[l].in = "update"
    /\ lane[l].step = "fetch" => lane[l].cmd # "start"

Anchored ==
    \/ Ruined
    \/ (home \in Versions \/ lastGood \in Versions) /\ \A l \in Launchers : Whole(l)

\* Between the two renames of a swap or of a rollback home is missing, and what is
\* about to take its place is a whole tree, in the calm.
Placed(l) ==
    /\ lane[l].step \notin {"place", "restore"} => home \in Versions
    /\ lane[l].step \in {"report", "stop", "drop", "park", "place"} => staging \in Versions

Housed ==
    Calm =>
        /\ home \in Versions \/ \E l \in Launchers : lane[l].step \in {"place", "restore"}
        /\ \A l \in Launchers :
              lane[l].step \in {"report", "stop", "drop", "park", "place"} => staging \in Versions

\* What a command that nobody has disturbed still has to bring a daemon up with.
Served(l) ==
    /\ lane[l].step \in {"rest", "start", "pending", "clear", "applyStop", "fetch",
                         "stage", "report", "stop"} => daemon # Nothing
    /\ lane[l].step = "pending"
          => \/ daemon = home
             \/ marker # NoMarker /\ daemon = lastGood
             \/ marker = NoMarker /\ lane[l].cmd = "start"
    /\ lane[l].step \in {"clear", "applyStop"} => daemon \in {home, lastGood}
    /\ lane[l].step = "applyStart" => home \in Good \/ lastGood \in Good
    /\ lane[l].step = "applyJudge" /\ daemon = Nothing => lastGood \in Good
    /\ lane[l].step = "applyJudge" /\ daemon # Nothing => daemon = home
    /\ lane[l].step \in {"applyStart", "restart"} => daemon = Nothing
    /\ lane[l].step = "fetch" => daemon = home \/ (marker # NoMarker /\ daemon = lastGood)
    /\ lane[l].step \in {"stage", "report", "stop"} => daemon = home
    /\ lane[l].step \in {"drop", "park"} =>
          home \in Good /\ daemon = IF lane[l].live THEN home ELSE Nothing
    /\ lane[l].step \in {"place", "mark"} =>
          lastGood \in Good /\ daemon = IF lane[l].live THEN lastGood ELSE Nothing
    /\ lane[l].step \in {"clear", "applyStop", "applyStart", "applyJudge", "stop", "restart"}
          => ~lane[l].live
    /\ lane[l].step \in {"restart", "judge", "undoStop", "remove", "restore"}
          => lastGood \in Good
    /\ lane[l].step = "judge" =>
          IF lane[l].live THEN daemon = lastGood ELSE daemon \in {home, Nothing}
    /\ lane[l].step = "park" => lastGood = Absent
    /\ lane[l].step = "restore" => home = Absent
    /\ lane[l].step \in Undoing => ~lane[l].live /\ daemon = Nothing
    /\ lane[l].step \in {"rewind", "relaunch"} => home \in Good

StillServed == \A l \in Launchers : ~At(l, "rest") /\ lane[l].served => Served(l)

\* Whom the clone, the trees, the marker and the daemon stand for at each step
\* of an update during which nothing has gone wrong but a reset of the clone: then
\* what a command takes for the old version is one that was never installed.
Ahead == "ahead" \in mishaps
Deferred == marker.new = home /\ (marker.old = lastGood \/ Ahead)
Agrees(l) ==
    /\ lane[l].step # "rest" => lane[l].pinned
    /\ lane[l].step = "undoStop" => home \in Versions
    /\ lane[l].step \in Picking \cup {"clear", "applyStop", "applyStart", "applyJudge"}
          => home \in Versions /\ (home = source \/ Ahead)
    /\ lane[l].step \in Picking =>
          /\ daemon \in {home, Nothing} \/ (marker # NoMarker /\ daemon = lastGood)
          /\ marker # NoMarker => Deferred
    /\ lane[l].step = "clear" => Deferred
    /\ lane[l].step \in {"clear", "applyStop"} => daemon \in {home, lastGood, Nothing}
    /\ lane[l].step \in Applying \ {"pending"} => lane[l].before = lastGood \/ Ahead
    /\ lane[l].step \in {"applyStop", "applyStart", "applyJudge", "restart"}
          => marker = NoMarker
    /\ lane[l].step \in {"applyStart", "restart"} => daemon = Nothing
    /\ lane[l].step = "applyJudge" => daemon \in {home, Nothing}
    /\ lane[l].step \in {"stage", "report", "stop", "drop", "park"} =>
          /\ lane[l].before = home \/ Ahead
          /\ daemon \in {home, Nothing} /\ marker = NoMarker
    /\ lane[l].step \in {"stage", "report", "stop", "drop", "park", "place", "mark",
                         "restart", "judge"} => source = lane[l].after
    /\ lane[l].step \in {"report", "stop", "drop", "park", "place"} => staging = source
    /\ lane[l].step \in {"drop", "park", "place", "mark"} /\ ~lane[l].live
          => daemon = Nothing
    /\ lane[l].step \in {"place", "mark", "restart", "judge"}
          => lane[l].before = lastGood \/ Ahead
    /\ lane[l].step \in {"place", "mark"} => daemon \in {lastGood, Nothing} /\ marker = NoMarker
    /\ lane[l].step \in {"mark", "restart", "judge"} => home = source
    /\ lane[l].step = "restart" => ~lane[l].live
    /\ lane[l].step = "judge" /\ lane[l].live => Deferred /\ daemon \in {lastGood, Nothing}
    /\ lane[l].step = "judge" /\ ~lane[l].live
          => marker = NoMarker /\ daemon \in {home, Nothing}
    /\ lane[l].step \in {"undoStop", "remove", "restore"} => lane[l].before = lastGood \/ Ahead
    /\ lane[l].step \in {"rewind", "relaunch"} =>
          home \in Versions /\ (lane[l].before = home \/ Ahead)
    /\ lane[l].step = "relaunch" => source = home \/ Ahead
    /\ lane[l].step \in Undoing => daemon = Nothing /\ (~lane[l].live => marker = NoMarker)

Agreed == Calm => \A l \in Launchers : Turn(l) => Agrees(l)

\* What the marker, and its absence, say of the daemon, unless a swap was left
\* without its marker or a step of one has failed.
Marks(l) ==
    /\ marker # NoMarker /\ daemon # Nothing
          => lastGood \in Versions /\ daemon \in {lastGood, home}
    /\ marker = NoMarker /\ daemon # Nothing /\ lane[l].step \in Picking
          => daemon = home \/ home = Absent
    /\ lane[l].step = "start" /\ marker # NoMarker => lastGood \in Versions
    /\ lane[l].step = "clear" => marker # NoMarker
    /\ lane[l].step \in {"applyStop", "applyStart", "applyJudge", "stage", "report",
                         "stop", "drop", "park", "place", "mark", "restart"}
          => marker = NoMarker
    /\ lane[l].step \in {"stage", "report", "stop", "drop", "park"}
          => daemon \in {home, Nothing}
    /\ lane[l].step \in {"drop", "park", "place", "mark"} /\ ~lane[l].live
          => daemon = Nothing
    /\ lane[l].step = "park" => lastGood = Absent
    /\ lane[l].step = "place" => home = Absent
    /\ lane[l].step \in {"place", "mark"} => daemon \in {lastGood, Nothing}
    /\ lane[l].step \in {"applyStart", "restart"} \cup Undoing => daemon = Nothing
    /\ lane[l].step = "applyJudge" => daemon \in {home, Nothing}
    /\ lane[l].step = "judge" =>
          IF lane[l].live THEN marker # NoMarker
          ELSE marker = NoMarker /\ daemon \in {home, Nothing}
    /\ lane[l].step \in Undoing /\ ~lane[l].live => marker = NoMarker
    /\ lane[l].step \in {"clear", "applyStop", "applyStart", "applyJudge", "restart"}
          => ~lane[l].live
    /\ lane[l].cmd # "start" /\ lane[l].step \in Applying \cup {"fetch"}
          => lane[l].in = "apply"
    /\ lane[l].in = "apply" /\ lane[l].cmd # "start" /\ lane[l].pinned
          /\ lane[l].step # "rest" => home # Absent \/ daemon = Nothing
    /\ lane[l].step \in Updating \ {"fetch"} => lane[l].in = "update"
    /\ lane[l].step \in Applying \ {"pending"} => lane[l].in = "apply"
    /\ lane[l].step = "fetch" => lane[l].cmd # "start"

Marked == mishaps \cap {"unmarked", "failed"} # {} \/ \A l \in Launchers : Turn(l) => Marks(l)

\* What each step knows of the versions in the trees, unless they are ruined: none
\* is newer than the clone, last-good is no newer than the version a rollback goes
\* back to, what is staged is newer than both; and a rollback has no daemon.
Climbs(l) ==
    /\ home \in Versions => home <= source
    /\ lastGood \in Versions => lastGood <= source
    /\ marker # NoMarker /\ lastGood \in Versions => lastGood <= marker.old
    /\ lane[l].step \in {"clear", "applyStop", "applyStart", "applyJudge", "stage", "report",
                         "stop", "drop", "park", "place", "mark", "restart", "judge",
                         "undoStop", "remove", "restore", "rewind"}
          /\ lastGood \in Versions => lastGood <= lane[l].before
    /\ lane[l].step \in {"stage", "report", "stop", "drop", "park", "place"} =>
          /\ lane[l].before < source
          /\ home \in Versions => home <= lane[l].before
    /\ lane[l].step \in {"report", "stop", "drop", "park", "place"} => staging = source
    /\ lane[l].step = "rewind" /\ home \in Versions => home <= lane[l].before
    /\ lane[l].step \in Undoing => daemon = Nothing

Climbing == Ruined \/ \A l \in Launchers : Turn(l) => Climbs(l)

\* What each step of an update knows of the version it installs and of who runs it,
\* unless one has failed.
Told(l) ==
    /\ lane[l].step \in {"stage", "report", "stop", "drop", "park", "place", "mark",
                         "restart", "judge"} => source = lane[l].after
    /\ lane[l].step \in {"report", "stop", "drop", "park", "place"} => staging = source
    /\ lane[l].step = "place" => home = Absent
    /\ lane[l].step \in {"mark", "restart", "judge"} => home = source
    /\ lane[l].step \in {"drop", "park", "place", "mark"} /\ ~lane[l].live
          => daemon = Nothing
    /\ lane[l].step = "restart" => daemon = Nothing /\ ~lane[l].live
    /\ lane[l].step = "judge" =>
          IF lane[l].live
             THEN "unmarked" \in mishaps
                  \/ marker = [new |-> lane[l].after, old |-> lane[l].before]
             ELSE daemon \in {home, Nothing}

Telling == "failed" \in mishaps \/ \A l \in Launchers : Turn(l) => Told(l)

\* What holds of any number of launchers.
Inv == TypeOK /\ Known

\* The lane that each command leaves is of its type.
LEMMA LaneTypes == ASSUME TypeOK, Known, NEW l \in Launchers PROVE
    /\ EndUpdate(l) => lane' \in [Launchers -> Lanes]
    /\ Take(l) /\ marker # NoMarker => lane' \in [Launchers -> Lanes]
    /\ Fetch(l) => lane' \in [Launchers -> Lanes]
    /\ Report(l) => lane' \in [Launchers -> Lanes]
    /\ \A cmd \in Commands : Give(l, cmd) => lane' \in [Launchers -> Lanes]
<1> /\ lane \in [Launchers -> Lanes] /\ lane[l] \in Lanes
    /\ source \in Versions /\ upstream \in Versions
  BY UpdateAssumption DEF TypeOK, Versions
<1>1. EndUpdate(l) => lane' \in [Launchers -> Lanes]
  <2>1. \A step \in {"pending", "rest"} : [lane[l] EXCEPT !.step = step, !.cmd = "start"] \in Lanes
    BY DEF Lanes, Steps, Applying, Commands
  <2> QED BY <2>1 DEF EndUpdate
<1>2. ASSUME Take(l), marker # NoMarker PROVE lane' \in [Launchers -> Lanes]
  <2>1. marker.old \in Versions /\ marker.new \in Versions
    BY <1>2 DEF TypeOK
  <2>2. [lane[l] EXCEPT !.step = "clear", !.in = "apply", !.live = FALSE,
           !.before = marker.old, !.after = marker.new] \in Lanes
    BY <2>1 DEF Lanes, Steps, Applying
  <2> QED BY <1>2, <2>2 DEF Take
<1>3. Fetch(l) => lane' \in [Launchers -> Lanes]
  <2>1. [lane[l] EXCEPT !.step = "stage", !.in = "update", !.before = source,
           !.after = upstream] \in Lanes
    BY DEF Lanes, Steps, Updating
  <2> QED BY <2>1 DEF Fetch
<1>4. ASSUME NEW cmd \in Commands, Give(l, cmd) PROVE lane' \in [Launchers -> Lanes]
  <2>1. \A pinned, served \in BOOLEAN :
          [AtRest EXCEPT !.step = "pending", !.cmd = cmd, !.pinned = pinned, !.served = served] \in Lanes
    BY DEF AtRest, Lanes, Steps, Applying, Commands
  <2>2. InPlace \in BOOLEAN
    BY DEF InPlace
  <2> QED BY <1>4, <2>1, <2>2 DEF Give
<1>5. Report(l) => lane' \in [Launchers -> Lanes]
  <2>1. \A live \in BOOLEAN, step \in {"drop", "stop"} :
          [lane[l] EXCEPT !.live = live, !.step = step] \in Lanes
    BY DEF Lanes, Steps, Updating
  <2> QED BY <2>1 DEF Report
<1> QED BY <1>1, <1>2, <1>3, <1>4, <1>5

\* What the end of an update leaves of its lane.
LEMMA EndedLane ==
    ASSUME TypeOK, NEW l \in Launchers, EndUpdate(l)
    PROVE  /\ lane'[l].step = IF lane[l].cmd = "launch" THEN "pending" ELSE "rest"
           /\ lane'[l].cmd = "start" /\ lane'[l].in = lane[l].in
           /\ lane'[l].before = lane[l].before /\ lane'[l].after = lane[l].after
           /\ lane'[l].live = lane[l].live
           /\ lane'[l].pinned = lane[l].pinned /\ lane'[l].served = lane[l].served
           /\ \A m \in Launchers \ {l} : lane'[m] = lane[m]
<1> lane[l] \in Lanes /\ lane \in [Launchers -> Lanes]
  BY DEF TypeOK
<1> DEFINE step == IF lane[l].cmd = "launch" THEN "pending" ELSE "rest"
           r == [lane[l] EXCEPT !.step = step, !.cmd = "start"]
<1>1. lane' = [lane EXCEPT ![l] = r]
  BY DEF EndUpdate
<1>2. lane'[l] = r /\ \A m \in Launchers \ {l} : lane'[m] = lane[m]
  BY <1>1
<1>3. /\ r.step = step /\ r.cmd = "start" /\ r.in = lane[l].in
      /\ r.before = lane[l].before /\ r.after = lane[l].after
      /\ r.live = lane[l].live
      /\ r.pinned = lane[l].pinned /\ r.served = lane[l].served
  BY DEF Lanes
<1> QED BY <1>2, <1>3

\* A command goes on with what it knew.
Kept(l) ==
    /\ lane'[l].cmd = lane[l].cmd /\ lane'[l].in = lane[l].in
    /\ lane'[l].before = lane[l].before /\ lane'[l].after = lane[l].after
    /\ lane'[l].live = lane[l].live /\ lane'[l].pinned = lane[l].pinned

\* A step with nothing to rename is passed over, or the last one of its command.
LEMMA MissedStep ==
    ASSUME TypeOK, NEW l \in Launchers, Missing(l)
    PROVE  /\ \/ At(l, "place") /\ staging = Absent
              \/ At(l, "restore") /\ lastGood = Absent
           /\ \/ lane'[l] = AtRest
              \/ /\ lane'[l].step = IF At(l, "place") THEN "mark" ELSE "rewind"
                 /\ Kept(l) /\ lane'[l].served = lane[l].served
           /\ \A m \in Launchers \ {l} : lane'[m] = lane[m]
           /\ UNCHANGED <<upstream, source, home, lastGood, staging, daemon, marker, mishaps>>
<1> lane \in [Launchers -> Lanes] /\ lane[l] \in Lanes
  BY DEF TypeOK
<1>1. \/ At(l, "place") /\ staging = Absent
      \/ At(l, "restore") /\ lastGood = Absent
  BY DEF Missing
<1>2. lane' = [lane EXCEPT ![l] = AtRest] \/ Go(l, Follows[lane[l].step])
  BY DEF Missing
<1>3. Follows[lane[l].step] = IF At(l, "place") THEN "mark" ELSE "rewind"
  BY <1>1 DEF Follows, At
<1>4. CASE lane' = [lane EXCEPT ![l] = AtRest]
  BY <1>1, <1>4 DEF Missing, trees
<1>5. CASE Go(l, Follows[lane[l].step])
  <2>1. /\ lane'[l] = [lane[l] EXCEPT !.step = Follows[lane[l].step]]
        /\ \A m \in Launchers \ {l} : lane'[m] = lane[m]
    BY <1>5 DEF Go
  <2>2. /\ lane'[l].step = Follows[lane[l].step]
        /\ Kept(l) /\ lane'[l].served = lane[l].served
    BY <2>1 DEF Lanes, Kept
  <2> QED BY <1>1, <1>3, <2>1, <2>2 DEF Missing, trees
<1> QED BY <1>2, <1>4, <1>5

\* What a failed step on the trees leaves of the lane is a lane (Missing).
LEMMA MissedTypes ==
    ASSUME TypeOK, NEW l \in Launchers, Missing(l) PROVE lane' \in [Launchers -> Lanes]
<1> lane \in [Launchers -> Lanes] /\ lane[l] \in Lanes
  BY DEF TypeOK
<1>1. AtRest \in Lanes /\ \A step \in Steps : [lane[l] EXCEPT !.step = step] \in Lanes
  BY DEF AtRest, Lanes, Steps, Commands
<1>2. Follows[lane[l].step] \in Steps
  BY DEF Missing, Follows, At, Steps, Updating, Undoing
<1> QED BY <1>1, <1>2 DEF Missing, Go

\* A step that fails is passed over; of the trees it spoils none but the one it
\* was removing, and the return of last-good spoils none.
LEMMA FailedStep ==
    ASSUME TypeOK, NEW l \in Launchers, Fails(l)
    PROVE  /\ \/ At(l, "drop") /\ lane'[l].step = "park"
              \/ At(l, "park") /\ lane'[l].step = "place"
              \/ At(l, "place") /\ lane'[l].step = "mark"
              \/ At(l, "remove") /\ lane'[l].step = "restore"
              \/ At(l, "restore") /\ lane'[l].step = "rewind"
           /\ \/ /\ At(l, "restore") /\ mishaps' = mishaps \cup {"unrestored"}
                 /\ UNCHANGED <<home, lastGood>>
              \/ ~At(l, "restore") /\ mishaps' = mishaps \cup {"failed"}
           /\ Kept(l) /\ lane'[l].served = FALSE
           /\ \A m \in Launchers \ {l} : lane'[m] = lane[m]
           /\ UNCHANGED <<upstream, source, staging, daemon, marker>>
           /\ lane' \in [Launchers -> Lanes] /\ home' \in Trees /\ lastGood' \in Trees
<1> lane \in [Launchers -> Lanes] /\ lane[l] \in Lanes /\ home \in Trees /\ lastGood \in Trees
  BY DEF TypeOK
<1>1. lane[l].step \in {"drop", "park", "place", "remove", "restore"}
  BY DEF Fails, Follows
<1>2. Follows[lane[l].step] =
         IF At(l, "drop") THEN "park" ELSE IF At(l, "park") THEN "place"
         ELSE IF At(l, "place") THEN "mark" ELSE IF At(l, "remove") THEN "restore"
         ELSE "rewind"
  BY <1>1 DEF Follows, At
<1>3. Follows[lane[l].step] \in Steps
  BY <1>2 DEF Steps, Updating, Undoing
<1> DEFINE r == [lane[l] EXCEPT !.step = Follows[lane[l].step], !.served = FALSE]
<1>4. /\ r \in Lanes /\ r.step = Follows[lane[l].step] /\ r.served = FALSE
      /\ r.cmd = lane[l].cmd /\ r.in = lane[l].in
      /\ r.before = lane[l].before /\ r.after = lane[l].after
      /\ r.live = lane[l].live /\ r.pinned = lane[l].pinned
  BY <1>3 DEF Lanes
<1>5. lane' = [lane EXCEPT ![l] = r]
  BY DEF Fails
<1> HIDE DEF r
<1>6. lane'[l] = r /\ lane' \in [Launchers -> Lanes]
      /\ \A m \in Launchers \ {l} : lane'[m] = lane[m]
  BY <1>4, <1>5
<1>7. home' \in Trees /\ lastGood' \in Trees
  BY DEF Fails, Cut, Trees, At
<1>8. CASE At(l, "restore")
  <2>1. mishaps' = mishaps \cup {"unrestored"} /\ UNCHANGED <<home, lastGood>>
    BY <1>8 DEF Fails, At
  <2> QED BY <1>2, <1>4, <1>6, <1>7, <1>8, <2>1 DEF Fails, At, Kept
<1>9. CASE ~At(l, "restore")
  <2>1. mishaps' = mishaps \cup {"failed"}
    BY <1>9 DEF Fails
  <2> QED BY <1>1, <1>2, <1>4, <1>6, <1>7, <1>9, <2>1 DEF Fails, At, Kept
<1> QED BY <1>8, <1>9

\* A step that fails without a kill is among the mishaps, and ruins nothing only
\* when it is the mv that puts last-good back (1033, 2079).
LEMMA FailureTold ==
    ASSUME TypeOK, NEW l \in Launchers, Fails(l)
    PROVE  ~Calm' /\ (~Ruined' => At(l, "restore"))
  BY DEF Fails, Calm, Ruined

\* What the environment makes of the lanes is of their type.
LEMMA EnvironmentTypes == ASSUME TypeOK, DaemonEnds PROVE lane' \in [Launchers -> Lanes]
<1>1. \A l \in Launchers : [lane[l] EXCEPT !.served = FALSE] \in Lanes
  BY DEF TypeOK, Lanes
<1> QED BY <1>1 DEF DaemonEnds

\* Every step keeps the types and the versions commands go between.
LEMMA KnownNext == TypeOK /\ Known /\ [Next]_vars => TypeOK' /\ Known'
<1> SUFFICES ASSUME TypeOK, Known, [Next]_vars PROVE TypeOK' /\ Known'
  OBVIOUS
<1> USE UpdateAssumption DEF Versions, Absent, Torn, Nothing, Trees, NoMarker, Picking,
    Steps, Applying, Updating, Undoing,
    Commands, Lanes, Mishaps, TypeOK, Known, At, Go, trees
<1>1. ASSUME NEW l \in Launchers, NEW cmd \in Commands, Give(l, cmd)
      PROVE  TypeOK' /\ Known'
  <2>1. lane' \in [Launchers -> Lanes]
    BY ONLY TypeOK, Known, <1>1, LaneTypes
  <2>2. TypeOK'
    BY <1>1, <2>1 DEF Give, AtRest
  <2>3. Known'
    BY <1>1 DEF Give, AtRest
  <2> QED BY <2>2, <2>3
<1>2. ASSUME NEW l \in Launchers, Start(l)
      PROVE  TypeOK' /\ Known'
  BY <1>2 DEF Start, StartDaemon, Started
<1>3. ASSUME NEW l \in Launchers, SkipPending(l)
      PROVE  TypeOK' /\ Known'
  BY <1>3 DEF SkipPending, Proceed
<1>4. ASSUME NEW l \in Launchers, TakePending(l)
      PROVE  TypeOK' /\ Known'
  <2>1. lane' \in [Launchers -> Lanes]
    BY ONLY TypeOK, Known, <1>4, LaneTypes DEF TakePending
  <2>2. TypeOK'
    BY <1>4, <2>1 DEF TakePending, Take
  <2>3. Known'
    BY <1>4 DEF TakePending, Take
  <2> QED BY <2>2, <2>3
<1>5. ASSUME NEW l \in Launchers, Clear(l)
      PROVE  TypeOK' /\ Known'
  BY <1>5 DEF Clear
<1>6. ASSUME NEW l \in Launchers, ApplyStop(l)
      PROVE  TypeOK' /\ Known'
  <2>1. lane' \in [Launchers -> Lanes]
    BY <1>6 DEF ApplyStop, StopDaemon
  <2>2. TypeOK'
    BY <1>6, <2>1 DEF ApplyStop, StopDaemon
  <2>3. Known'
    BY <1>6 DEF ApplyStop, StopDaemon
  <2> QED BY <2>2, <2>3
<1>7. ASSUME NEW l \in Launchers, ApplyStart(l)
      PROVE  TypeOK' /\ Known'
  BY <1>7 DEF ApplyStart, StartDaemon, Started
<1>8. ASSUME NEW l \in Launchers, ApplyJudge(l)
      PROVE  TypeOK' /\ Known'
  BY <1>8 DEF ApplyJudge, Proceed
<1>9. ASSUME NEW l \in Launchers, Refuse(l)
      PROVE  TypeOK' /\ Known'
  <2>1. lane' \in [Launchers -> Lanes]
    BY ONLY TypeOK, Known, <1>9, LaneTypes DEF Refuse, trees
  <2>2. TypeOK'
    BY <1>9, <2>1 DEF Refuse, EndUpdate
  <2>3. Known'
    BY <1>9 DEF Refuse, EndUpdate
  <2> QED BY <2>2, <2>3
<1>10. ASSUME NEW l \in Launchers, Fetch(l)
      PROVE  TypeOK' /\ Known'
  <2>1. lane' \in [Launchers -> Lanes]
    BY ONLY TypeOK, Known, <1>10, LaneTypes
  <2>2. TypeOK'
    BY <1>10, <2>1 DEF Fetch
  <2>3. Known'
    BY <1>10 DEF Fetch
  <2> QED BY <2>2, <2>3
<1>11. ASSUME NEW l \in Launchers, StageFails(l)
      PROVE  TypeOK' /\ Known'
  <2>1. lane' \in [Launchers -> Lanes]
    BY ONLY TypeOK, Known, <1>11, LaneTypes DEF StageFails
  <2>2. TypeOK'
    BY <1>11, <2>1 DEF StageFails, ResetBack, EndUpdate
  <2>3. Known'
    BY <1>11 DEF StageFails, ResetBack, EndUpdate
  <2> QED BY <2>2, <2>3
<1>12. ASSUME NEW l \in Launchers, Stage(l)
      PROVE  TypeOK' /\ Known'
  BY <1>12 DEF Stage
<1>13. ASSUME NEW l \in Launchers, Report(l)
      PROVE  TypeOK' /\ Known'
  <2>1. lane' \in [Launchers -> Lanes]
    BY ONLY TypeOK, Known, <1>13, LaneTypes
  <2>2. TypeOK'
    BY <1>13, <2>1 DEF Report, MayBeLive
  <2>3. Known'
    BY <1>13 DEF Report, MayBeLive
  <2> QED BY <2>2, <2>3
<1>14. ASSUME NEW l \in Launchers, Stop(l)
      PROVE  TypeOK' /\ Known'
  <2>1. lane' \in [Launchers -> Lanes]
    BY <1>14 DEF Stop, StopDaemon
  <2>2. TypeOK'
    BY <1>14, <2>1 DEF Stop, StopDaemon
  <2>3. Known'
    BY <1>14 DEF Stop, StopDaemon
  <2> QED BY <2>2, <2>3
<1>15. ASSUME NEW l \in Launchers, Drop(l)
      PROVE  TypeOK' /\ Known'
  BY <1>15 DEF Drop
<1>16. ASSUME NEW l \in Launchers, Park(l)
      PROVE  TypeOK' /\ Known'
  BY <1>16 DEF Park, Renamed
<1>17. ASSUME NEW l \in Launchers, Place(l)
      PROVE  TypeOK' /\ Known'
  BY <1>17 DEF Place, Renamed
<1>18. ASSUME NEW l \in Launchers, Mark(l)
      PROVE  TypeOK' /\ Known'
  BY <1>18 DEF Mark
<1>19. ASSUME NEW l \in Launchers, MarkFails(l)
      PROVE  TypeOK' /\ Known'
  BY <1>19 DEF MarkFails
<1>20. ASSUME NEW l \in Launchers, Restart(l)
      PROVE  TypeOK' /\ Known'
  BY <1>20 DEF Restart, StartDaemon, Started
<1>21. ASSUME NEW l \in Launchers, Judge(l)
      PROVE  TypeOK' /\ Known'
  <2>1. lane' \in [Launchers -> Lanes]
    <3>1. CASE EndUpdate(l)
      BY <3>1, LaneTypes
    <3>2. CASE \E step \in Steps : Go(l, step)
      BY <3>2
    <3> QED BY <1>21, <3>1, <3>2 DEF Judge, Proceed
  <2>2. TypeOK'
    BY <1>21, <2>1 DEF Judge, EndUpdate
  <2>3. Known'
    <3>1. \A m \in Launchers : m # l => lane'[m] = lane[m]
      BY <1>21 DEF Judge, EndUpdate
    <3>2. lane'[l].step \in Picking
          \/ (lane'[l].before = lane[l].before /\ lane'[l].after = lane[l].after)
      <4>1. CASE EndUpdate(l)
        BY <4>1, EndedLane
      <4>2. CASE \E step \in Steps : Go(l, step)
        BY <4>2
      <4> QED BY <1>21, <4>1, <4>2 DEF Judge, Proceed
    <3> QED BY <1>21, <3>1, <3>2 DEF Judge
  <2> QED BY <2>2, <2>3
<1>22. ASSUME NEW l \in Launchers, UndoStop(l)
      PROVE  TypeOK' /\ Known'
  <2>1. lane' \in [Launchers -> Lanes]
    BY <1>22 DEF UndoStop, StopDaemon
  <2>2. TypeOK'
    BY <1>22, <2>1 DEF UndoStop, StopDaemon
  <2>3. Known'
    BY <1>22 DEF UndoStop, StopDaemon
  <2> QED BY <2>2, <2>3
<1>23. ASSUME NEW l \in Launchers, Remove(l)
      PROVE  TypeOK' /\ Known'
  BY <1>23 DEF Remove
<1>24. ASSUME NEW l \in Launchers, Restore(l)
      PROVE  TypeOK' /\ Known'
  BY <1>24 DEF Restore, Renamed
<1>25. ASSUME NEW l \in Launchers, Rewind(l)
      PROVE  TypeOK' /\ Known'
  BY <1>25 DEF Rewind, ResetBack
<1>26. ASSUME NEW l \in Launchers, Relaunch(l)
      PROVE  TypeOK' /\ Known'
  <2>1. lane' \in [Launchers -> Lanes]
    <3>1. CASE EndUpdate(l)
      BY <3>1, LaneTypes
    <3>2. CASE \E step \in Steps : Go(l, step)
      BY <3>2
    <3> QED BY <1>26, <3>1, <3>2 DEF Relaunch, Proceed
  <2>2. TypeOK'
    BY <1>26, <2>1 DEF Relaunch, StartDaemon, Started, Proceed, EndUpdate
  <2>3. Known'
    <3>1. \A m \in Launchers : m # l => lane'[m] = lane[m]
      BY <1>26 DEF Relaunch, EndUpdate
    <3>2. lane'[l].step \in Picking
          \/ (lane'[l].before = lane[l].before /\ lane'[l].after = lane[l].after)
      <4>1. CASE EndUpdate(l)
        BY <4>1, EndedLane
      <4>2. CASE \E step \in Steps : Go(l, step)
        BY <4>2
      <4> QED BY <1>26, <4>1, <4>2 DEF Relaunch, Proceed
    <3> QED BY <1>26, <3>1, <3>2 DEF Relaunch
  <2> QED BY <2>2, <2>3
<1>27. ASSUME NEW l \in Launchers, Missing(l)
      PROVE  TypeOK' /\ Known'
  <2>1. TypeOK'
    <3>1. lane' \in [Launchers -> Lanes]
      BY ONLY TypeOK, Known, <1>27, MissedTypes
    <3> QED BY <1>27, <3>1 DEF Missing
  <2>2. Known'
    BY <1>27, MissedStep DEF AtRest, Kept
  <2> QED BY <2>1, <2>2
<1>28. ASSUME NEW l \in Launchers, Fails(l)
      PROVE  TypeOK' /\ Known'
  <2>1. mishaps' \subseteq Mishaps
    BY <1>28 DEF Fails
  <2>2. TypeOK'
    BY <1>28, <2>1, FailedStep
  <2>3. Known'
    BY <1>28, FailedStep DEF Kept
  <2> QED BY <2>2, <2>3
<1>29. ASSUME NEW l \in Launchers, Kill(l)
      PROVE  TypeOK' /\ Known'
  BY <1>29 DEF Kill, AtRest, Cut
<1>30. ASSUME Publish
      PROVE  TypeOK' /\ Known'
  BY <1>30 DEF Publish
<1>31. ASSUME DaemonEnds
      PROVE  TypeOK' /\ Known'
  <2>1. lane' \in [Launchers -> Lanes]
    BY ONLY TypeOK, Known, <1>31, EnvironmentTypes
  <2>2. TypeOK'
    BY <1>31, <2>1 DEF DaemonEnds, StopDaemon
  <2>3. Known'
    BY <1>31 DEF DaemonEnds, StopDaemon
  <2> QED BY <2>2, <2>3
<1>32. CASE UNCHANGED vars
  BY <1>32 DEF vars
<1> QED BY <1>1, <1>2, <1>3, <1>4, <1>5, <1>6, <1>7, <1>8, <1>9, <1>10, <1>11, <1>12,
    <1>13, <1>14, <1>15, <1>16, <1>17, <1>18, <1>19, <1>20, <1>21, <1>22, <1>23, <1>24,
    <1>25, <1>26, <1>27, <1>28, <1>29, <1>30, <1>31, <1>32 DEF Next, Step

\* Absent, torn and no daemon are none of the versions.
LEMMA Distinct ==
    /\ Absent \notin Versions /\ Torn \notin Versions /\ Nothing \notin Versions
    /\ Absent # Torn /\ Nothing # Absent /\ Nothing # Torn
    /\ source \in 0..upstream /\ upstream \in Versions => source \in Versions
  BY UpdateAssumption DEF Versions, Absent, Torn, Nothing

\* Versions are numbers, and those of a command past its look are versions.
LEMMA Numbers ==
    ASSUME Inv
    PROVE  /\ Versions \subseteq Nat /\ upstream \in Nat /\ source \in Nat
           /\ source <= upstream /\ source \in Versions
           /\ marker # NoMarker => marker.old \in Nat
           /\ \A l \in Launchers : lane[l].step \notin Picking =>
                 lane[l].before \in Nat /\ lane[l].before \in Versions
  BY UpdateAssumption DEF Inv, TypeOK, Known, Versions

\* What a command knows of the trees survives its own steps and the environment's.
LEMMA WholeNext ==
    ASSUME Inv, NEW m \in Launchers, Own(m), Whole(m), ~Ruined'
    PROVE  Whole(m)'
<1> USE Distinct DEF Inv, TypeOK, Whole, Ruined, At, Go, trees, Lanes, Trees, NoMarker,
        Applying, Updating
<1>1. ASSUME NEW cmd \in Commands, Give(m, cmd) PROVE Whole(m)'
  BY <1>1 DEF Give, AtRest
<1>2. CASE Start(m)
  BY <1>2 DEF Start, StartDaemon, Started
<1>3. CASE SkipPending(m)
  BY <1>3 DEF SkipPending, Proceed, MayBeLive
<1>4. CASE TakePending(m)
  BY <1>4 DEF TakePending, Take
<1>5. CASE Clear(m)
  BY <1>5 DEF Clear
<1>6. CASE ApplyStop(m)
  BY <1>6 DEF ApplyStop, StopDaemon
<1>7. CASE ApplyStart(m)
  BY <1>7 DEF ApplyStart, StartDaemon, Started
<1>8. CASE ApplyJudge(m)
  BY <1>8 DEF ApplyJudge, Proceed
<1>9. CASE Refuse(m)
  BY <1>9, EndedLane DEF Refuse
<1>10. CASE Fetch(m)
  BY <1>10 DEF Fetch
<1>11. CASE StageFails(m)
  BY <1>11, EndedLane DEF StageFails, ResetBack
<1>12. CASE Stage(m)
  BY <1>12 DEF Stage
<1>13. CASE Report(m)
  BY <1>13 DEF Report, MayBeLive
<1>14. CASE Stop(m)
  BY <1>14 DEF Stop, StopDaemon
<1>15. CASE Drop(m)
  BY <1>15 DEF Drop
<1>16. CASE Park(m)
  <2>1. home \in Versions /\ lastGood = Absent /\ marker = NoMarker
    BY <1>16 DEF Park
  <2>2. home' = Absent /\ lastGood' = home /\ marker' = marker
    BY <1>16, <2>1 DEF Park, Renamed
  <2>3. lane'[m].step = "place" /\ lane'[m].in = "update"
    BY <1>16 DEF Park
  <2> QED BY ONLY <2>1, <2>2, <2>3, Distinct DEF Whole, Applying, Updating
<1>17. CASE Place(m)
  BY <1>17 DEF Place, Renamed
<1>18. CASE Mark(m)
  BY <1>18 DEF Mark
<1>19. CASE MarkFails(m)
  BY <1>19 DEF MarkFails
<1>20. CASE Restart(m)
  BY <1>20 DEF Restart, StartDaemon, Started
<1>21. CASE Judge(m)
  <2>1. CASE EndUpdate(m)
    BY <1>21, <2>1, EndedLane DEF Judge
  <2>2. CASE ~EndUpdate(m)
    BY <1>21, <2>2 DEF Judge
  <2> QED BY <2>1, <2>2
<1>22. CASE UndoStop(m)
  BY <1>22 DEF UndoStop, StopDaemon
<1>23. CASE Remove(m)
  BY <1>23 DEF Remove
<1>24. CASE Restore(m)
  BY <1>24 DEF Restore, Renamed
<1>25. CASE Rewind(m)
  BY <1>25 DEF Rewind, ResetBack
<1>26. CASE Relaunch(m)
  <2>1. CASE EndUpdate(m)
    BY <1>26, <2>1, EndedLane DEF Relaunch, StartDaemon, Started
  <2>2. CASE ~EndUpdate(m)
    BY <1>26, <2>2 DEF Relaunch, StartDaemon, Started, Proceed
  <2> QED BY <2>1, <2>2
<1>27. CASE Missing(m)
  BY <1>27, MissedStep DEF AtRest, Kept
<1>28. CASE Fails(m)
  BY <1>28, FailedStep DEF Kept
<1>29. CASE Kill(m)
  BY <1>29 DEF Kill, AtRest, Cut
<1>30. CASE Publish
  BY <1>30 DEF Publish
<1>31. CASE DaemonEnds
  BY <1>31 DEF DaemonEnds, StopDaemon
<1>32. CASE UNCHANGED vars
  BY <1>32 DEF vars
<1> QED
  BY ONLY Own(m), <1>1, <1>2, <1>3, <1>4, <1>5, <1>6,
      <1>7, <1>8, <1>9, <1>10, <1>11, <1>12, <1>13, <1>14, <1>15, <1>16, <1>17, <1>18,
          <1>19, <1>20, <1>21, <1>22, <1>23, <1>24, <1>25, <1>26, <1>27, <1>28, <1>29,
              <1>30, <1>31, <1>32 DEF Own, Step

\* Every step keeps what a served command can bring a daemon up with.
LEMMA ServedNext ==
    ASSUME Inv, NEW m \in Launchers, Own(m), ~At(m, "rest") \/ ~At(m, "rest")',
           ~At(m, "rest") /\ lane[m].served => Served(m), lane'[m].served
    PROVE  Served(m)'
<1> USE Distinct DEF Inv, TypeOK, Served, At, Go, trees, Lanes, Trees,
    NoMarker,
        Undoing, Good
<1>1. ASSUME NEW cmd \in Commands, Give(m, cmd) PROVE Served(m)'
  <2>1. lane'[m].step = "pending" /\ lane'[m].served = InPlace
    BY <1>1 DEF Give, AtRest
  <2>2. InPlace
    BY ONLY <2>1, lane'[m].served
  <2> QED BY <1>1, <2>1, <2>2 DEF Give, InPlace
<1>2. CASE Start(m)
  BY <1>2 DEF Start, StartDaemon, Started
<1>3. CASE SkipPending(m)
  BY <1>3 DEF SkipPending, Proceed, MayBeLive
<1>4. CASE TakePending(m)
  BY <1>4 DEF TakePending, Take
<1>5. CASE Clear(m)
  BY <1>5 DEF Clear
<1>6. CASE ApplyStop(m)
  BY <1>6 DEF ApplyStop, StopDaemon
<1>7. CASE ApplyStart(m)
  BY <1>7 DEF ApplyStart, StartDaemon, Started
<1>8. CASE ApplyJudge(m)
  <2>1. CASE daemon = Nothing
    BY <1>8, <2>1 DEF ApplyJudge
  <2>2. CASE daemon # Nothing
    BY <1>8, <2>2 DEF ApplyJudge, Proceed
  <2> QED BY <2>1, <2>2
<1>9. CASE Refuse(m)
  BY <1>9, EndedLane DEF Refuse
<1>10. CASE Fetch(m)
  BY <1>10 DEF Fetch
<1>11. CASE StageFails(m)
  BY <1>11, EndedLane DEF StageFails, ResetBack
<1>12. CASE Stage(m)
  BY <1>12 DEF Stage
<1>13. CASE Report(m)
  BY <1>13 DEF Report, MayBeLive
<1>14. CASE Stop(m)
  BY <1>14 DEF Stop, StopDaemon
<1>15. CASE Drop(m)
  BY <1>15 DEF Drop
<1>16. CASE Park(m)
  BY <1>16 DEF Park, Renamed
<1>17. CASE Place(m)
  BY <1>17 DEF Place, Renamed
<1>18. CASE Mark(m)
  BY <1>18 DEF Mark
<1>19. CASE MarkFails(m)
  BY <1>19 DEF MarkFails
<1>20. CASE Restart(m)
  BY <1>20 DEF Restart, StartDaemon, Started
<1>21. CASE Judge(m)
  <2>1. CASE EndUpdate(m)
    BY <1>21, <2>1, EndedLane DEF Judge
  <2>2. CASE ~EndUpdate(m)
    BY <1>21, <2>2 DEF Judge
  <2> QED BY <2>1, <2>2
<1>22. CASE UndoStop(m)
  BY <1>22 DEF UndoStop, StopDaemon
<1>23. CASE Remove(m)
  BY <1>23 DEF Remove
<1>24. CASE Restore(m)
  BY <1>24 DEF Restore, Renamed
<1>25. CASE Rewind(m)
  BY <1>25 DEF Rewind, ResetBack
<1>26. CASE Relaunch(m)
  <2>1. CASE EndUpdate(m)
    BY <1>26, <2>1, EndedLane DEF Relaunch, StartDaemon, Started
  <2>2. CASE ~EndUpdate(m)
    BY <1>26, <2>2 DEF Relaunch, StartDaemon, Started, Proceed
  <2> QED BY <2>1, <2>2
<1>27. CASE Missing(m)
  BY <1>27, MissedStep DEF AtRest, Kept
<1>28. CASE Fails(m)
  BY <1>28, FailedStep DEF Kept
<1>29. CASE Kill(m)
  BY <1>29 DEF Kill, AtRest, Cut
<1>30. CASE Publish
  BY <1>30 DEF Publish
<1>31. CASE DaemonEnds
  BY <1>31 DEF DaemonEnds, StopDaemon
<1>32. CASE UNCHANGED vars
  BY <1>32 DEF vars
<1> QED
  BY ONLY Own(m), <1>1, <1>2, <1>3, <1>4, <1>5, <1>6,
      <1>7, <1>8, <1>9, <1>10, <1>11, <1>12, <1>13, <1>14, <1>15, <1>16, <1>17, <1>18,
          <1>19, <1>20, <1>21, <1>22, <1>23, <1>24, <1>25, <1>26, <1>27, <1>28, <1>29,
              <1>30, <1>31, <1>32 DEF Own, Step

\* Every step keeps what the clone, trees, marker and daemon stand for.
LEMMA AgreesNext ==
    ASSUME Inv, NEW m \in Launchers, Own(m), Agrees(m), Whole(m),
           Calm'
    PROVE  Agrees(m)'
<1> USE Distinct DEF Inv, TypeOK, Agrees, At, Go, trees, Lanes, Trees,
    NoMarker,
        Undoing, Applying, Picking, Deferred, Ahead, Calm
<1>1. ASSUME NEW cmd \in Commands, Give(m, cmd) PROVE Agrees(m)'
  BY <1>1 DEF Give, AtRest
<1>2. CASE Start(m)
  BY <1>2 DEF Start, StartDaemon, Started
<1>3. CASE SkipPending(m)
  BY <1>3 DEF SkipPending, Proceed, MayBeLive
<1>4. CASE TakePending(m)
  BY <1>4 DEF TakePending, Take
<1>5. CASE Clear(m)
  BY <1>5 DEF Clear
<1>6. CASE ApplyStop(m)
  BY <1>6 DEF ApplyStop, StopDaemon
<1>7. CASE ApplyStart(m)
  BY <1>7 DEF ApplyStart, StartDaemon, Started
<1>8. CASE ApplyJudge(m)
  BY <1>8 DEF ApplyJudge, Proceed
<1>9. CASE Refuse(m)
  BY <1>9, EndedLane DEF Refuse
<1>10. CASE Fetch(m)
  BY <1>10 DEF Fetch
<1>11. CASE StageFails(m)
  <2>1. home \in Versions /\ lane'[m].step \in {"rest", "pending"}
        /\ lane'[m].before = lane[m].before /\ lane'[m].pinned = lane[m].pinned
    BY <1>11, EndedLane DEF StageFails, Whole
  <2>2. UNCHANGED <<home, lastGood, daemon, marker>>
    BY <1>11 DEF StageFails
  <2>3. home = source' \/ Ahead'
    BY <1>11 DEF StageFails, ResetBack
  <2> QED BY <1>11, <2>1, <2>2, <2>3 DEF StageFails
<1>12. CASE Stage(m)
  BY <1>12 DEF Stage
<1>13. CASE Report(m)
  BY <1>13 DEF Report, MayBeLive
<1>14. CASE Stop(m)
  BY <1>14 DEF Stop, StopDaemon
<1>15. CASE Drop(m)
  BY <1>15 DEF Drop
<1>16. CASE Park(m)
  <2>1. home \in Versions /\ lastGood = Absent /\ (home = lane[m].before \/ Ahead)
    BY <1>16 DEF Park, Whole
  <2>2. home' = Absent /\ lastGood' = home
    BY ONLY <1>16, <2>1, Distinct DEF Park, Renamed
  <2>3. lane'[m] = [lane[m] EXCEPT !.step = "place"]
    BY <1>16 DEF Park
  <2>4. UNCHANGED <<source, staging, daemon, marker>>
    BY <1>16 DEF Park
  <2> QED BY <1>16, <2>1, <2>2, <2>3, <2>4 DEF Park
<1>17. CASE Place(m)
  <2>1. home = Absent /\ staging = source /\ source \in Versions
    BY <1>17 DEF Place, Whole
  <2>2. home' = source
    BY ONLY <1>17, <2>1, Distinct DEF Place, Renamed
  <2>3. lane'[m] = [lane[m] EXCEPT !.step = "mark"]
    BY <1>17 DEF Place
  <2>4. UNCHANGED <<source, lastGood, daemon, marker>>
    BY <1>17 DEF Place
  <2> QED BY <1>17, <2>1, <2>2, <2>3, <2>4 DEF Place
<1>18. CASE Mark(m)
  BY <1>18 DEF Mark
<1>19. CASE MarkFails(m)
  BY <1>19 DEF MarkFails
<1>20. CASE Restart(m)
  BY <1>20 DEF Restart, StartDaemon, Started
<1>21. CASE Judge(m)
  <2>1. CASE EndUpdate(m)
    BY <1>21, <2>1, EndedLane DEF Judge
  <2>2. CASE ~EndUpdate(m)
    BY <1>21, <2>2 DEF Judge
  <2> QED BY <2>1, <2>2
<1>22. CASE UndoStop(m)
  BY <1>22 DEF UndoStop, StopDaemon
<1>23. CASE Remove(m)
  BY <1>23 DEF Remove
<1>24. CASE Restore(m)
  <2>1. home = Absent /\ lastGood \in Versions /\ (lane[m].before = lastGood \/ Ahead)
    BY <1>24 DEF Restore, Whole
  <2>2. home' = lastGood
    BY ONLY <1>24, <2>1, Distinct DEF Restore, Renamed
  <2>3. lane'[m] = [lane[m] EXCEPT !.step = "rewind"]
    BY <1>24 DEF Restore
  <2>4. UNCHANGED <<source, daemon, marker>>
    BY <1>24 DEF Restore
  <2> QED BY <1>24, <2>1, <2>2, <2>3, <2>4 DEF Restore
<1>25. CASE Rewind(m)
  BY <1>25 DEF Rewind, ResetBack
<1>26. CASE Relaunch(m)
  <2>1. CASE EndUpdate(m)
    BY <1>26, <2>1, EndedLane DEF Relaunch, StartDaemon, Started
  <2>2. CASE ~EndUpdate(m)
    BY <1>26, <2>2 DEF Relaunch, StartDaemon, Started, Proceed
  <2> QED BY <2>1, <2>2
<1>27. CASE Missing(m)
  BY ONLY Inv, Distinct, Agrees(m), Whole(m), <1>27, MissedStep
  DEF Inv, TypeOK, Whole, Agrees, AtRest, Kept, At
<1>28. CASE Fails(m)
  BY ONLY Inv, Calm', <1>28, FailureTold DEF Inv
<1>29. CASE Kill(m)
  BY <1>29 DEF Kill, AtRest, Cut
<1>30. CASE Publish
  BY <1>30 DEF Publish
<1>31. CASE DaemonEnds
  BY <1>31 DEF DaemonEnds, StopDaemon
<1>32. CASE UNCHANGED vars
  BY <1>32 DEF vars
<1> QED
  BY ONLY Own(m), <1>1, <1>2, <1>3, <1>4, <1>5, <1>6,
      <1>7, <1>8, <1>9, <1>10, <1>11, <1>12, <1>13, <1>14, <1>15, <1>16, <1>17, <1>18,
          <1>19, <1>20, <1>21, <1>22, <1>23, <1>24, <1>25, <1>26, <1>27, <1>28, <1>29,
              <1>30, <1>31, <1>32 DEF Own, Step

\* Every step keeps what the marker says of the daemon.
LEMMA MarksNext ==
    ASSUME Inv, NEW m \in Launchers, Own(m), Marks(m),
           mishaps' \cap {"unmarked", "failed"} = {}
    PROVE  Marks(m)'
<1> USE Distinct DEF Inv, TypeOK, Marks, At, Go, trees, Lanes, Trees, NoMarker,
        Undoing, Applying, Updating, Picking
<1>1. ASSUME NEW cmd \in Commands, Give(m, cmd) PROVE Marks(m)'
  BY <1>1 DEF Give, AtRest
<1>2. CASE Start(m)
  BY <1>2 DEF Start, StartDaemon, Started
<1>3. CASE SkipPending(m)
  BY <1>3 DEF SkipPending, Proceed, MayBeLive
<1>4. CASE TakePending(m)
  BY <1>4 DEF TakePending, Take
<1>5. CASE Clear(m)
  BY <1>5 DEF Clear
<1>6. CASE ApplyStop(m)
  BY <1>6 DEF ApplyStop, StopDaemon
<1>7. CASE ApplyStart(m)
  BY <1>7 DEF ApplyStart, StartDaemon, Started
<1>8. CASE ApplyJudge(m)
  BY <1>8 DEF ApplyJudge, Proceed
<1>9. CASE Refuse(m)
  BY <1>9, EndedLane DEF Refuse
<1>10. CASE Fetch(m)
  BY <1>10 DEF Fetch
<1>11. CASE StageFails(m)
  BY <1>11, EndedLane DEF StageFails, ResetBack
<1>12. CASE Stage(m)
  BY <1>12 DEF Stage
<1>13. CASE Report(m)
  BY <1>13 DEF Report, MayBeLive
<1>14. CASE Stop(m)
  BY <1>14 DEF Stop, StopDaemon
<1>15. CASE Drop(m)
  BY <1>15 DEF Drop
<1>16. CASE Park(m)
  BY <1>16 DEF Park, Renamed
<1>17. CASE Place(m)
  BY <1>17 DEF Place, Renamed
<1>18. CASE Mark(m)
  <2>1. lane[m].after \in Versions
    BY <1>18, UpdateAssumption DEF Mark, Known, Versions
  <2>2. CASE lane[m].live
    <3>1. marker'.new = lane[m].after /\ marker'.new # Nothing /\ marker' # NoMarker
      BY <1>18, <2>1, <2>2 DEF Mark
    <3>2. lane'[m] = [lane[m] EXCEPT !.step = "judge"]
      BY <1>18, <2>2 DEF Mark
    <3>3. UNCHANGED <<home, lastGood, daemon>>
      BY <1>18 DEF Mark
    <3>4. daemon # Nothing => lastGood \in Versions
      BY <1>18 DEF Mark
    <3> QED BY <1>18, <2>2, <3>1, <3>2, <3>3, <3>4 DEF Mark
  <2>3. CASE ~lane[m].live
    BY <1>18, <2>3 DEF Mark
  <2> QED BY <2>2, <2>3
<1>19. CASE MarkFails(m)
  BY <1>19 DEF MarkFails
<1>20. CASE Restart(m)
  BY <1>20 DEF Restart, StartDaemon, Started
<1>21. CASE Judge(m)
  <2>1. CASE EndUpdate(m)
    BY <1>21, <2>1, EndedLane DEF Judge
  <2>2. CASE ~EndUpdate(m)
    BY <1>21, <2>2 DEF Judge
  <2> QED BY <2>1, <2>2
<1>22. CASE UndoStop(m)
  BY <1>22 DEF UndoStop, StopDaemon
<1>23. CASE Remove(m)
  BY <1>23 DEF Remove
<1>24. CASE Restore(m)
  BY <1>24 DEF Restore, Renamed
<1>25. CASE Rewind(m)
  BY <1>25 DEF Rewind, ResetBack
<1>26. CASE Relaunch(m)
  <2>1. CASE EndUpdate(m)
    BY <1>26, <2>1, EndedLane DEF Relaunch, StartDaemon, Started
  <2>2. CASE ~EndUpdate(m)
    BY <1>26, <2>2 DEF Relaunch, StartDaemon, Started, Proceed
  <2> QED BY <2>1, <2>2
<1>27. CASE Missing(m)
  BY <1>27, MissedStep DEF AtRest, Kept
<1>28. CASE Fails(m)
  BY <1>28, FailedStep DEF Kept
<1>29. CASE Kill(m)
  <2>1. lane'[m] = AtRest /\ UNCHANGED <<daemon, marker>>
    BY <1>29 DEF Kill
  <2>2. At(m, "mark") => ~lane[m].live
    BY <1>29 DEF Kill
  <2>3. CASE daemon = Nothing
    BY <2>1, <2>3 DEF AtRest
  <2>4. CASE daemon # Nothing
    <3>1. ~At(m, "remove") /\ home' = home
      BY <1>29, <2>4 DEF Kill
    <3>2. CASE marker # NoMarker
      <4>1. ~At(m, "drop") /\ lastGood' = lastGood
        BY <1>29, <3>2 DEF Kill
      <4> QED BY <2>1, <3>1, <3>2, <4>1 DEF AtRest
    <3>3. CASE marker = NoMarker
      <4>1. ~At(m, "applyStop")
        BY <1>29 DEF Kill
      <4>2. lane[m].step \in Steps
        BY DEF Lanes
      <4>3. daemon = home \/ home = Absent
        BY <1>29, <2>2, <2>4, <3>3, <4>1, <4>2 DEF Kill, Steps
      <4> QED BY <2>1, <3>1, <3>3, <4>3 DEF AtRest
    <3> QED BY <3>2, <3>3
  <2> QED BY <2>3, <2>4
<1>30. CASE Publish
  BY <1>30 DEF Publish
<1>31. CASE DaemonEnds
  BY <1>31 DEF DaemonEnds, StopDaemon
<1>32. CASE UNCHANGED vars
  BY <1>32 DEF vars
<1> QED
  BY ONLY Own(m), <1>1, <1>2, <1>3, <1>4, <1>5, <1>6,
      <1>7, <1>8, <1>9, <1>10, <1>11, <1>12, <1>13, <1>14, <1>15, <1>16, <1>17, <1>18,
          <1>19, <1>20, <1>21, <1>22, <1>23, <1>24, <1>25, <1>26, <1>27, <1>28, <1>29,
              <1>30, <1>31, <1>32 DEF Own, Step

\* Every step keeps what an update knows of the version it installs.
LEMMA ToldNext ==
    ASSUME Inv, NEW m \in Launchers, Own(m), Told(m),
           "failed" \notin mishaps'
    PROVE  Told(m)'
<1> USE Distinct DEF Inv, TypeOK, Told, At, Go, trees, Lanes, Trees,
        NoMarker, Undoing, Picking
<1>1. ASSUME NEW cmd \in Commands, Give(m, cmd) PROVE Told(m)'
  BY <1>1 DEF Give, AtRest
<1>2. CASE Start(m)
  BY <1>2 DEF Start, StartDaemon, Started
<1>3. CASE SkipPending(m)
  BY <1>3 DEF SkipPending, Proceed, MayBeLive
<1>4. CASE TakePending(m)
  BY <1>4 DEF TakePending, Take
<1>5. CASE Clear(m)
  BY <1>5 DEF Clear
<1>6. CASE ApplyStop(m)
  BY <1>6 DEF ApplyStop, StopDaemon
<1>7. CASE ApplyStart(m)
  BY <1>7 DEF ApplyStart, StartDaemon, Started
<1>8. CASE ApplyJudge(m)
  BY <1>8 DEF ApplyJudge, Proceed
<1>9. CASE Refuse(m)
  BY <1>9, EndedLane DEF Refuse
<1>10. CASE Fetch(m)
  BY <1>10 DEF Fetch
<1>11. CASE StageFails(m)
  BY <1>11, EndedLane DEF StageFails, ResetBack
<1>12. CASE Stage(m)
  BY <1>12 DEF Stage
<1>13. CASE Report(m)
  BY <1>13 DEF Report, MayBeLive
<1>14. CASE Stop(m)
  BY <1>14 DEF Stop, StopDaemon
<1>15. CASE Drop(m)
  BY <1>15 DEF Drop
<1>16. CASE Park(m)
  BY <1>16 DEF Park, Renamed
<1>17. CASE Place(m)
  BY <1>17 DEF Place, Renamed
<1>18. CASE Mark(m)
  BY <1>18 DEF Mark
<1>19. CASE MarkFails(m)
  BY <1>19 DEF MarkFails
<1>20. CASE Restart(m)
  BY <1>20 DEF Restart, StartDaemon, Started
<1>21. CASE Judge(m)
  <2>1. CASE EndUpdate(m)
    BY <1>21, <2>1, EndedLane DEF Judge
  <2>2. CASE ~EndUpdate(m)
    BY <1>21, <2>2 DEF Judge
  <2> QED BY <2>1, <2>2
<1>22. CASE UndoStop(m)
  BY <1>22 DEF UndoStop, StopDaemon
<1>23. CASE Remove(m)
  BY <1>23 DEF Remove
<1>24. CASE Restore(m)
  BY <1>24 DEF Restore, Renamed
<1>25. CASE Rewind(m)
  BY <1>25 DEF Rewind, ResetBack
<1>26. CASE Relaunch(m)
  <2>1. CASE EndUpdate(m)
    BY <1>26, <2>1, EndedLane DEF Relaunch, StartDaemon, Started
  <2>2. CASE ~EndUpdate(m)
    BY <1>26, <2>2 DEF Relaunch, StartDaemon, Started, Proceed
  <2> QED BY <2>1, <2>2
<1>27. CASE Missing(m)
  BY <1>27, MissedStep DEF AtRest, Kept
<1>28. CASE Fails(m)
  BY <1>28, FailedStep
<1>29. CASE Kill(m)
  BY <1>29 DEF Kill, AtRest, Cut
<1>30. CASE Publish
  BY <1>30 DEF Publish
<1>31. CASE DaemonEnds
  BY <1>31 DEF DaemonEnds, StopDaemon
<1>32. CASE UNCHANGED vars
  BY <1>32 DEF vars
<1> QED
  BY ONLY Own(m), <1>1, <1>2, <1>3, <1>4, <1>5, <1>6,
      <1>7, <1>8, <1>9, <1>10, <1>11, <1>12, <1>13, <1>14, <1>15, <1>16, <1>17, <1>18,
      <1>19, <1>20, <1>21, <1>22, <1>23, <1>24, <1>25, <1>26, <1>27, <1>28, <1>29, <1>30,
      <1>31, <1>32 DEF Own, Step

-----------------------------------------------------------------------------
(* Theorems.                                                               *)

\* The invariant holds at first.
LEMMA InvInit == Init => Inv
<1> SUFFICES ASSUME Init PROVE Inv
  OBVIOUS
<1>1. TypeOK
  <2>1. 0 \in Versions
    BY UpdateAssumption DEF Versions
  <2>2. AtRest \in Lanes
    BY DEF AtRest, Lanes, Steps, Commands
  <2>3. 0 \in 0..0
    OBVIOUS
  <2>4. lane \in [Launchers -> Lanes]
    BY <2>2 DEF Init
  <2> QED BY <2>1, <2>3, <2>4, Distinct DEF Init, TypeOK, Trees
<1>2. Known
  BY DEF Init, Known, Picking, AtRest
<1> QED BY <1>1, <1>2 DEF Inv

\* Every step keeps the invariant.
LEMMA InvNext == Inv /\ [Next]_vars => Inv'
  BY KnownNext DEF Inv

\* The invariant that the others rest on, for any number of launchers: every
\* variable has its type, and a command past its look at the versions goes between
\* published ones.
THEOREM Invariant == Spec => []Inv
<1>1. Init => Inv
  BY InvInit
<1>2. Inv /\ [Next]_vars => Inv'
  BY InvNext
<1> QED BY <1>1, <1>2, PTL DEF Spec

\* Every variable has its type, however many commands interleave and wherever
\* they are killed; the clone is never ahead of what was published.
THEOREM TypeCorrect == Spec => []TypeOK
<1>1. Inv => TypeOK
  BY DEF Inv
<1> QED BY <1>1, Invariant, PTL

\* Mishaps are never forgotten.
LEMMA MishapsGrow == [Next]_vars => mishaps \subseteq mishaps'
<1> SUFFICES ASSUME [Next]_vars PROVE mishaps \subseteq mishaps'
  OBVIOUS
<1> QED
  BY DEF Next, Step, vars, Give, Start, SkipPending, TakePending, Clear, ApplyStop,
      ApplyStart,
         ApplyJudge, Refuse, Fetch, StageFails, ResetBack, Stage, Report, Stop, Drop, Park, Place,
             Mark,
         MarkFails, Restart, Judge, UndoStop, Remove, Restore, Rewind, Relaunch, Missing,
      Fails, Kill,
         Publish, DaemonEnds

\* A command keeps to its own lane.
LEMMA StepLane ==
    ASSUME TypeOK, NEW m \in Launchers, Step(m), NEW l \in Launchers, l # m
    PROVE  lane'[l] = lane[l]
<1>1. lane \in [Launchers -> Lanes]
  BY DEF TypeOK
<1>2. CASE \/ EndUpdate(m) \/ \E step \in Steps : Go(m, step)
  BY <1>1, <1>2 DEF EndUpdate, Go
<1>3. CASE \/ \E cmd \in Commands : Give(m, cmd)
           \/ TakePending(m) \/ Fetch(m) \/ Report(m) \/ Missing(m) \/ Fails(m) \/ Kill(m)
  BY <1>1, <1>3 DEF Give, TakePending, Take, Fetch, Report, Missing, Fails, Kill, Go
<1> QED
  BY <1>1, <1>2, <1>3
  DEF Step, Start, SkipPending, Clear, ApplyStop, ApplyStart, ApplyJudge, Refuse,
      StageFails, Stage, Stop, Drop, Park, Place, Mark, MarkFails, Restart, Judge,
      UndoStop, Remove, Restore, Rewind, Relaunch, EndUpdate, Go

\* A command at rest, or a start that has nothing to apply, leaves trees, clone and
\* marker alone, and the next step it may come to is no step of a swap.
LEMMA IdleStep ==
    ASSUME TypeOK, NEW m \in Launchers, Step(m), Idle(m)
    PROVE  /\ UNCHANGED <<source, trees, marker>>
           /\ lane'[m].step \in {"rest", "start", "pending", "clear"}
<1>1. /\ lane \in [Launchers -> Lanes] /\ lane[m] \in Lanes
      /\ lane[m].step \in {"rest", "pending", "start"}
      /\ lane[m].step # "rest" => lane[m].cmd = "start"
  BY DEF TypeOK, Idle, At
<1>2. CASE \E cmd \in Commands : Give(m, cmd)
  BY <1>1, <1>2 DEF Give, AtRest, trees
<1>3. CASE Start(m)
  BY <1>1, <1>3 DEF Start, Go, trees
<1>4. CASE SkipPending(m)
  BY <1>1, <1>4 DEF SkipPending, Go, Proceed, At, trees
<1>5. CASE TakePending(m)
  BY <1>1, <1>5 DEF TakePending, Take, Idle, At, trees, Lanes
<1>6. CASE Kill(m)
  BY <1>1, <1>6 DEF Kill, At, AtRest, trees
<1> QED
  BY <1>1, <1>2, <1>3, <1>4, <1>5, <1>6
  DEF Step, Clear, ApplyStop, ApplyStart, ApplyJudge, Refuse, Fetch, StageFails, Stage,
      Report, Stop, Drop, Park, Place, Mark, MarkFails, Restart, Judge, UndoStop, Remove,
      Restore, Rewind, Relaunch, Missing, Fails, Follows, At

\* If no two swaps overlap, each command keeps what the others know of the trees.
LEMMA AnchoredNext ==
    ASSUME OneSwap, OneSwap', Inv, Anchored, [Next]_vars PROVE Anchored'
<1> SUFFICES ASSUME ~Ruined'
             PROVE  /\ home' \in Versions \/ lastGood' \in Versions
                    /\ \A l \in Launchers : Whole(l)'
  BY UpdateAssumption DEF Anchored, Versions
<1>1. (home \in Versions \/ lastGood \in Versions) /\ \A l \in Launchers : Whole(l)
  BY MishapsGrow DEF Anchored, Calm, Ruined
<1>2. CASE Publish \/ DaemonEnds \/ UNCHANGED vars
  <2>1. \A l \in Launchers : Whole(l)'
    BY <1>1, <1>2, WholeNext DEF Own
  <2> QED
    BY <1>1, <1>2, <2>1 DEF Publish, DaemonEnds, vars, trees
<1>3. ASSUME NEW m \in Launchers, Step(m)
      PROVE  /\ home' \in Versions \/ lastGood' \in Versions
             /\ \A l \in Launchers : Whole(l)'
  <2>1. Whole(m)'
    BY <1>1, <1>3, WholeNext DEF Own
  <2>2. ASSUME NEW l \in Launchers, l # m, ~Idle(l)'
        PROVE  Whole(l)'
    <3>1. lane'[l] = lane[l]
      BY <1>3, <2>2, StepLane DEF Inv
    <3>2. Idle(m) /\ Idle(m)'
      BY <2>2, <3>1 DEF OneSwap, Idle, At
    <3>3. UNCHANGED <<trees, marker>>
      BY <1>3, <3>2, IdleStep DEF Inv
    <3> QED
      BY <1>1, <3>1, <3>3 DEF Whole, trees
  <2>3. ASSUME NEW l \in Launchers, l # m, Idle(l)'
        PROVE  Whole(l)'
    BY <2>1, <2>3 DEF Whole, Idle, At, Applying, Updating
  <2>4. \A l \in Launchers : Whole(l)'
    BY <2>1, <2>2, <2>3
  <2> QED
    BY <2>1, <2>4 DEF Whole
<1> QED
  BY <1>2, <1>3 DEF Next

\* A command that nobody kills puts a whole tree in the place of the one it moved.
LEMMA PlacedNext ==
    ASSUME Inv, NEW m \in Launchers, Whole(m), Placed(m), Step(m), Calm'
    PROVE  Placed(m)'
<1>1. /\ TypeOK /\ lane \in [Launchers -> Lanes] /\ lane[m] \in Lanes /\ source \in Versions
  BY Numbers DEF Inv, TypeOK
<1>2. CASE \E cmd \in Commands : Give(m, cmd)
  BY <1>1, <1>2 DEF Give, AtRest, Placed, At, trees
<1>3. CASE Start(m) \/ SkipPending(m) \/ Clear(m) \/ ApplyStop(m) \/ ApplyStart(m)
           \/ ApplyJudge(m) \/ Mark(m) \/ MarkFails(m) \/ Restart(m) \/ UndoStop(m)
           \/ Rewind(m)
  BY <1>1, <1>3
  DEF Start, SkipPending, Clear, ApplyStop, ApplyStart, ApplyJudge, Mark, MarkFails,
      Restart, UndoStop, Rewind, Go, At, Proceed, Placed, trees, Lanes
<1>4. CASE TakePending(m)
  BY <1>1, <1>4 DEF TakePending, Take, Placed, At, trees, Lanes
<1>5. CASE Refuse(m)
  BY <1>1, <1>5, EndedLane DEF Refuse, Placed, At, trees
<1>6. CASE Fetch(m) \/ Report(m)
  <2>1. lane[m].step \notin {"place", "restore"} /\ UNCHANGED trees
    BY <1>6 DEF Fetch, Report, At, trees
  <2>2. CASE Fetch(m)
    <3>1. lane'[m].step = "stage"
      BY <1>1, <2>2 DEF Fetch, Lanes
    <3> QED BY <2>1, <3>1 DEF Placed, trees
  <2>3. CASE Report(m)
    <3>1. lane[m].step = "report" /\ lane'[m].step \in {"stop", "drop"}
      BY <1>1, <2>3 DEF Report, At, Lanes
    <3> QED BY <2>1, <3>1 DEF Placed, trees
  <2> QED BY <1>6, <2>2, <2>3
<1>7. CASE StageFails(m)
  BY <1>1, <1>7, EndedLane DEF StageFails, Placed, At
<1>8. CASE Stage(m) \/ Stop(m) \/ Drop(m) \/ Park(m) \/ Remove(m)
  BY <1>1, <1>8 DEF Stage, Stop, Drop, Park, Remove, Go, At, Placed, trees, Lanes
<1>9. CASE Place(m)
  BY <1>1, <1>9, Distinct DEF Place, Renamed, Whole, Go, At, Placed
<1>10. CASE Restore(m)
  BY <1>1, <1>10, Distinct DEF Restore, Renamed, Whole, Go, At, Placed
<1>11. CASE Judge(m)
  <2>1. CASE EndUpdate(m)
    BY <1>1, <1>11, <2>1, EndedLane DEF Judge, Placed, At, trees
  <2>2. CASE ~EndUpdate(m)
    BY <1>1, <1>11, <2>2 DEF Judge, Go, Placed, At, trees, Lanes
  <2> QED BY <2>1, <2>2
<1>12. CASE Relaunch(m)
  <2>1. CASE EndUpdate(m)
    BY <1>1, <1>12, <2>1, EndedLane DEF Relaunch, Placed, At, trees
  <2>2. CASE ~EndUpdate(m)
    BY <1>1, <1>12, <2>2 DEF Relaunch, Proceed, Go, Placed, At, trees, Lanes
  <2> QED BY <2>1, <2>2
<1>13. CASE Missing(m)
  BY <1>1, <1>13, Distinct, MissedStep DEF Whole, Placed, At, AtRest
<1>14. ~Fails(m)
  BY <1>1, FailureTold
<1>15. ~Kill(m)
  BY DEF Kill, Calm
<1> QED
  BY <1>2, <1>3, <1>4, <1>5, <1>6, <1>7, <1>8, <1>9, <1>10, <1>11, <1>12, <1>13, <1>14, <1>15 DEF Step

LEMMA HousedNext ==
    ASSUME OneSwap, Inv, Anchored, Housed, [Next]_vars PROVE Housed'
<1> SUFFICES ASSUME Calm' PROVE Housed'
  BY DEF Housed
<1>1. Calm /\ \A l \in Launchers : Whole(l)
  BY MishapsGrow DEF Anchored, Calm, Ruined
<1>2. CASE Publish \/ DaemonEnds \/ UNCHANGED vars
  <2>1. UNCHANGED trees /\ \A l \in Launchers : lane'[l].step = lane[l].step
    BY <1>2 DEF Publish, DaemonEnds, vars, Inv, TypeOK, Lanes
  <2> QED
    BY <1>1, <2>1 DEF Housed, trees
<1>3. ASSUME NEW m \in Launchers, Step(m), Idle(m)
      PROVE  Housed'
  <2>1. /\ UNCHANGED trees /\ lane'[m].step \in {"rest", "start", "pending", "clear"}
        /\ lane[m].step \in {"rest", "start", "pending"}
    BY <1>3, IdleStep DEF Inv, Idle, At
  <2>2. \A l \in Launchers : l # m => lane'[l] = lane[l]
    BY <1>3, StepLane DEF Inv
  <2> QED
    BY <1>1, <2>1, <2>2 DEF Housed, trees
<1>4. ASSUME NEW m \in Launchers, Step(m), ~Idle(m)
      PROVE  Housed'
  <2>1. \A l \in Launchers : l # m => lane[l].step \in {"rest", "start", "pending"}
    BY <1>4 DEF OneSwap, Idle, At
  <2>2. Placed(m)
    BY <1>1, <2>1 DEF Housed, Placed
  <2>3. Placed(m)'
    BY <1>1, <1>4, <2>2, PlacedNext
  <2>4. \A l \in Launchers : l # m => lane'[l] = lane[l]
    BY <1>4, StepLane DEF Inv
  <2> QED
    BY <2>1, <2>3, <2>4 DEF Housed, Placed
<1> QED
  BY <1>2, <1>3, <1>4 DEF Next

\* Whatever step a command is killed at, and even if last-good could not be put
\* back, a whole tree is installed or is the last-good one (cmd_update, 2037-2048),
\* unless another step on the trees failed and the command went on (Ruined); with
\* none killed and no such step failed one is installed:
\* for any number of launchers whose swaps do not overlap (OneSwap).
THEOREM RestorableCorrect == Spec /\ []OneSwap => []Restorable
<1>1. Init => Anchored /\ Housed
  <2> SUFFICES ASSUME Init PROVE Anchored /\ Housed
    OBVIOUS
  <2>1. /\ home = 0 /\ lastGood = Absent /\ marker = NoMarker
        /\ \A l \in Launchers : lane[l] = AtRest
    BY DEF Init
  <2>2. home \in Versions
    BY <2>1, UpdateAssumption DEF Versions
  <2>3. ASSUME NEW l \in Launchers PROVE Whole(l)
    BY <2>1, <2>2 DEF Whole, AtRest, Applying, Updating
  <2>4. Housed
    BY <2>1, <2>2 DEF Housed, AtRest
  <2> QED BY <2>2, <2>3, <2>4 DEF Anchored
<1>2. OneSwap /\ OneSwap' /\ Inv /\ Anchored /\ [Next]_vars => Anchored'
  BY AnchoredNext
<1>3. OneSwap /\ Inv /\ Anchored /\ Housed /\ [Next]_vars => Housed'
  BY HousedNext
<1>4. Anchored /\ Housed => Restorable
  BY DEF Anchored, Housed, Restorable, NeverTreeless, At
<1> QED
  BY <1>1, <1>2, <1>3, <1>4, Invariant, PTL DEF Spec

\* Commands given one at a time do not overlap.
LEMMA NoOverlap == OneCommand => OneSwap
  BY DEF OneCommand, OneSwap, Idle

\* Somebody has the turn.
LEMMA SomeTurn ==
    ASSUME OneCommand, Launchers # {} PROVE \E l \in Launchers : Turn(l)
  BY DEF OneCommand, Turn

\* Who has the turn after a step took the step, or took it over from the one who
\* did, both being at rest.
LEMMA TurnStep ==
    ASSUME TypeOK, OneCommand, [Next]_vars, NEW l \in Launchers, Turn(l)'
    PROVE  \E m \in Launchers :
              /\ Turn(m) /\ Turn(m)' /\ Own(m)
              /\ m = l \/ (At(m, "rest")' /\ At(l, "rest")')
<1>1. CASE Publish \/ DaemonEnds \/ UNCHANGED vars
  <2>1. \A m \in Launchers : At(m, "rest")' <=> At(m, "rest")
    BY <1>1 DEF Publish, DaemonEnds, vars, TypeOK, Lanes, At
  <2> QED BY <1>1, <2>1 DEF Turn, Own
<1>2. ASSUME NEW m \in Launchers, Step(m)
      PROVE  /\ Turn(m) /\ Turn(m)' /\ Own(m)
             /\ m = l \/ (At(m, "rest")' /\ At(l, "rest")')
  <2>1. \A k \in Launchers \ {m} : lane'[k] = lane[k]
    BY <1>2, StepLane
  <2>2. CASE m = l
    BY <1>2, <2>1, <2>2 DEF Turn, Own, At
  <2>3. CASE m # l
    <3>1. At(m, "rest")'
      BY <2>3 DEF Turn
    <3>2. ~At(m, "rest")
      <4> SUFFICES ASSUME At(m, "rest") PROVE FALSE
        OBVIOUS
      <4>1. PICK cmd \in Commands : Give(m, cmd)
        BY <1>2
        DEF Step, Start, SkipPending, TakePending, Clear, ApplyStop, ApplyStart,
            ApplyJudge, Refuse, Fetch, StageFails, Stage, Report, Stop, Drop, Park,
            Place, Mark, MarkFails, Restart, Judge, UndoStop, Remove, Restore, Rewind,
            Relaunch, Missing, Fails, Follows, Kill, At
      <4> QED
        BY <3>1, <4>1 DEF Give, At, AtRest, TypeOK
    <3>3. Turn(m)
      BY <3>2 DEF OneCommand, Turn
    <3> QED
      BY <1>2, <2>1, <2>3, <3>1, <3>3 DEF Turn, Own, At
  <2> QED BY <2>2, <2>3
<1> QED BY <1>1, <1>2 DEF Next

\* The steps from a command's first to its last are its own.
LEMMA OwnStep ==
    ASSUME TypeOK, OneCommand, OneCommand', [Next]_vars, NEW l \in Launchers,
           ~At(l, "rest") \/ ~At(l, "rest")'
    PROVE  Own(l)
<1>1. CASE ~At(l, "rest")'
  <2>1. Turn(l)'
    BY <1>1 DEF OneCommand, Turn
  <2> QED BY <1>1, <2>1, TurnStep
<1>2. CASE ~At(l, "rest") /\ At(l, "rest")'
  <2>1. ASSUME NEW m \in Launchers, Step(m), l # m PROVE FALSE
    <3>1. lane'[l] = lane[l]
      BY <2>1, StepLane
    <3> QED BY <1>2, <3>1 DEF At
  <2> QED BY <2>1 DEF Next, Own
<1> QED BY <1>1, <1>2

\* Every step keeps what the command under way can bring a daemon up with.
LEMMA ServedAllNext ==
    ASSUME OneCommand, OneCommand', Inv, StillServed, [Next]_vars PROVE StillServed'
<1> SUFFICES ASSUME NEW l \in Launchers, ~At(l, "rest")', lane'[l].served
             PROVE  Served(l)'
  BY DEF StillServed
<1>1. Own(l)
  BY OwnStep DEF Inv
<1> QED BY <1>1, ServedNext DEF StillServed

\* With its last step such a command leaves a daemon.
LEMMA ServedEnds ==
    ASSUME OneCommand, OneCommand', Inv, StillServed, [Next]_vars,
           NEW l \in Launchers, ~At(l, "rest"), At(l, "rest")', lane'[l].served
    PROVE  daemon' # Nothing
<1>1. Own(l)
  BY OwnStep DEF Inv
<1>2. Served(l)'
  BY <1>1, ServedNext DEF StillServed
<1> QED BY <1>2 DEF Served, At

\* A command given alone that begins with a daemon whose tree is in place, that
\* nobody disturbs and no step on the trees of which fails, leaves a daemon: the
\* rollback of cmd_update (2073-2090) and of _apply_pending_restart (1024-1042)
\* brings the old one up again.
THEOREM NeverProxylessCorrect == Spec /\ []OneCommand => NeverProxyless
<1>1. Init => StillServed
  BY DEF Init, StillServed, AtRest
<1>2. OneCommand /\ OneCommand' /\ Inv /\ StillServed /\ [Next]_vars => StillServed'
  BY ServedAllNext
<1>3. OneCommand /\ OneCommand' /\ Inv /\ StillServed /\ [Next]_vars
      => [\A l \in Launchers :
             ~At(l, "rest") /\ At(l, "rest")' /\ lane'[l].served => daemon' # Nothing]_vars
  BY ServedEnds
<1> QED BY <1>1, <1>2, <1>3, Invariant, PTL DEF Spec, NeverProxyless

\* The marker still means what it says to whoever has the turn.
LEMMA MarkedNext ==
    ASSUME OneCommand, Inv, Marked, [Next]_vars PROVE Marked'
<1> SUFFICES ASSUME mishaps' \cap {"unmarked", "failed"} = {}, NEW l \in Launchers, Turn(l)'
             PROVE  Marks(l)'
  BY DEF Marked
<1>1. PICK m \in Launchers :
         /\ Turn(m) /\ Own(m)
         /\ m = l \/ (At(m, "rest")' /\ At(l, "rest")')
  BY TurnStep DEF Inv
<1>2. Marks(m)
  BY <1>1, MishapsGrow DEF Marked
<1>3. Marks(m)'
  BY <1>1, <1>2, MarksNext
<1> QED BY <1>1, <1>3 DEF Marks, At, Applying, Updating, Undoing, Picking

\* While the marker exists, last-good is whole and the daemon was loaded from it
\* or from the new tree (comment 1005-1006), commands being given one at a time,
\* unless a swap was left without its marker or a step of it failed.
THEOREM MarkerMeansCorrect ==
    ASSUME Launchers # {} PROVE Spec /\ []OneCommand => []MarkerMeans
<1>1. Init => Marked
  BY UpdateAssumption
  DEF Init, Marked, Marks, AtRest, NoMarker, Versions, Nothing, Absent, Applying,
      Updating,
      Undoing, Picking
<1>2. OneCommand /\ Inv /\ Marked /\ [Next]_vars => Marked'
  BY MarkedNext
<1>3. OneCommand /\ Marked => MarkerMeans
  BY Launchers # {}, SomeTurn DEF Marked, Marks, MarkerMeans
<1> QED BY <1>1, <1>2, <1>3, Invariant, PTL DEF Spec

\* What an update knows of the version it installs, for whoever has the turn.
LEMMA TellingNext ==
    ASSUME OneCommand, Inv, Telling, [Next]_vars PROVE Telling'
<1> SUFFICES ASSUME "failed" \notin mishaps', NEW l \in Launchers, Turn(l)'
             PROVE  Told(l)'
  BY DEF Telling
<1>1. PICK m \in Launchers :
         /\ Turn(m) /\ Own(m)
         /\ m = l \/ (At(m, "rest")' /\ At(l, "rest")')
  BY TurnStep DEF Inv
<1>2. Told(m)
  BY <1>1, MishapsGrow DEF Telling
<1>3. Told(m)'
  BY <1>1, <1>2, ToldNext
<1> QED BY <1>1, <1>3 DEF Told, At

\* "Updated: before -> after" (2095) is true: whatever was killed before, and
\* whatever else went wrong with the clone or the marker, the new version is in
\* home, and runs or is the one the marker defers; unless a step on the trees has
\* failed and its command went on.  Commands are given one at a time.
THEOREM UpdatedCorrect == Spec /\ []OneCommand => UpdatedIsInstalled
<1> DEFINE True(l) ==
      Judge(l) /\ daemon # Nothing /\ "failed" \notin mishaps =>
         /\ home = lane[l].after
         /\ IF lane[l].live
               THEN "unmarked" \in mishaps
                    \/ marker = [new |-> lane[l].after, old |-> lane[l].before]
               ELSE daemon = home
<1>1. Init => Telling
  BY DEF Init, Telling, Told, AtRest
<1>2. OneCommand /\ Inv /\ Telling /\ [Next]_vars => Telling'
  BY TellingNext
<1>3. OneCommand /\ Inv /\ Telling => \A l \in Launchers : True(l)
  <2> SUFFICES ASSUME OneCommand, Telling, NEW l \in Launchers, Judge(l),
                      daemon # Nothing, "failed" \notin mishaps
               PROVE  True(l)
    OBVIOUS
  <2>1. lane[l].step = "judge"
    BY DEF Judge, At
  <2>2. Turn(l)
    BY <2>1 DEF OneCommand, Turn, At
  <2>3. Told(l)
    BY <2>2 DEF Telling
  <2> QED BY <2>1, <2>3 DEF Told
<1>4. OneCommand /\ Inv /\ Telling => [\A l \in Launchers : True(l)]_vars
  BY <1>3
<1> QED BY <1>1, <1>2, <1>4, Invariant, PTL DEF Spec, UpdatedIsInstalled

\* Clone, trees, marker and daemon agree for whoever has the turn.
LEMMA AgreedNext ==
    ASSUME OneCommand, Inv, Anchored, Agreed, [Next]_vars PROVE Agreed'
<1> SUFFICES ASSUME Calm', NEW l \in Launchers, Turn(l)' PROVE Agrees(l)'
  BY DEF Agreed
<1>1. PICK m \in Launchers :
         /\ Turn(m) /\ Own(m)
         /\ m = l \/ (At(m, "rest")' /\ At(l, "rest")')
  BY TurnStep DEF Inv
<1>2. Calm
  BY MishapsGrow DEF Calm
<1>3. Agrees(m) /\ Whole(m)
  BY <1>1, <1>2 DEF Agreed, Anchored, Calm, Ruined
<1>4. Agrees(m)'
  BY <1>1, <1>3, AgreesNext
<1> QED BY <1>1, <1>4 DEF Agrees, Deferred, Ahead, At, Applying, Undoing, Picking

\* With commands given one at a time and nothing gone wrong, the clone, the
\* installed tree, the daemon and the marker agree between commands, so that
\* "Already up to date" (1983) is true of the installed tree, unless a reset of
\* the clone failed (|| true), which leaves it ahead.
THEOREM CoherentCorrect ==
    ASSUME Launchers # {} PROVE Spec /\ []OneCommand => []Coherent
<1>1. Init => Anchored
  BY UpdateAssumption, Distinct
  DEF Init, Anchored, Whole, AtRest, Versions, Applying, Updating
<1>2. ASSUME Init, NEW l \in Launchers PROVE Agrees(l)
  <2>1. /\ lane[l].step = "rest" /\ home = source /\ home \in Versions
        /\ marker = NoMarker /\ daemon = Nothing
    BY <1>2, UpdateAssumption DEF Init, AtRest, Versions
  <2> QED BY <2>1 DEF Agrees, Picking, Applying, Undoing
<1>3. OneSwap /\ OneSwap' /\ Inv /\ Anchored /\ [Next]_vars => Anchored'
  BY AnchoredNext
<1>4. OneCommand /\ Inv /\ Anchored /\ Agreed /\ [Next]_vars => Agreed'
  BY AgreedNext
<1>5. OneCommand /\ Agreed => Coherent
  BY Launchers # {}, SomeTurn DEF Agreed, Agrees, Coherent, At, Picking, Deferred, Ahead
<1>6. Init => Agreed
  BY <1>2 DEF Agreed
<1> QED BY <1>1, <1>3, <1>4, <1>5, <1>6, NoOverlap, Invariant, PTL DEF Spec

-----------------------------------------------------------------------------
(* The refinement of AtomicUpdate.                                         *)

\* Every step of a command given alone keeps the order of the versions.
LEMMA ClimbsNext ==
    ASSUME Inv, NEW m \in Launchers, Own(m), Whole(m), Climbs(m),
           ~Ruined'
    PROVE  Climbs(m)'
<1> USE Distinct, Numbers DEF Inv, TypeOK, Climbs, Ruined, At, Go, trees, Lanes, Trees,
        NoMarker, Undoing, Picking
<1>1. ASSUME NEW cmd \in Commands, Give(m, cmd) PROVE Climbs(m)'
  BY <1>1 DEF Give, AtRest
<1>2. CASE Start(m)
  BY <1>2 DEF Start, StartDaemon, Started
<1>3. CASE SkipPending(m)
  BY <1>3 DEF SkipPending, Proceed, MayBeLive
<1>4. CASE TakePending(m)
  BY <1>4 DEF TakePending, Take
<1>5. CASE Clear(m)
  BY <1>5 DEF Clear
<1>6. CASE ApplyStop(m)
  BY <1>6 DEF ApplyStop, StopDaemon
<1>7. CASE ApplyStart(m)
  BY <1>7 DEF ApplyStart, StartDaemon, Started
<1>8. CASE ApplyJudge(m)
  BY <1>8 DEF ApplyJudge, Proceed
<1>9. CASE Refuse(m)
  BY <1>9, EndedLane DEF Refuse
<1>10. CASE Fetch(m)
  BY <1>10 DEF Fetch
<1>11. CASE StageFails(m)
  BY <1>11, EndedLane DEF StageFails, ResetBack
<1>12. CASE Stage(m)
  BY <1>12 DEF Stage
<1>13. CASE Report(m)
  BY <1>13 DEF Report, MayBeLive
<1>14. CASE Stop(m)
  BY <1>14 DEF Stop, StopDaemon
<1>15. CASE Drop(m)
  BY <1>15 DEF Drop
<1>16. CASE Park(m)
  BY <1>16 DEF Park, Renamed, Whole
<1>17. CASE Place(m)
  BY <1>17 DEF Place, Renamed, Whole
<1>18. CASE Mark(m)
  BY <1>18 DEF Mark
<1>19. CASE MarkFails(m)
  BY <1>19 DEF MarkFails
<1>20. CASE Restart(m)
  BY <1>20 DEF Restart, StartDaemon, Started
<1>21. CASE Judge(m)
  <2>1. CASE EndUpdate(m)
    BY <1>21, <2>1, EndedLane DEF Judge
  <2>2. CASE ~EndUpdate(m)
    BY <1>21, <2>2 DEF Judge
  <2> QED BY <2>1, <2>2
<1>22. CASE UndoStop(m)
  BY <1>22 DEF UndoStop, StopDaemon
<1>23. CASE Remove(m)
  BY <1>23 DEF Remove
<1>24. CASE Restore(m)
  BY <1>24 DEF Restore, Renamed, Whole
<1>25. CASE Rewind(m)
  BY <1>25 DEF Rewind, ResetBack
<1>26. CASE Relaunch(m)
  <2>1. CASE EndUpdate(m)
    BY <1>26, <2>1, EndedLane DEF Relaunch, StartDaemon, Started
  <2>2. CASE ~EndUpdate(m)
    BY <1>26, <2>2 DEF Relaunch, StartDaemon, Started, Proceed
  <2> QED BY <2>1, <2>2
<1>27. CASE Missing(m)
  BY <1>27, MissedStep DEF AtRest, Kept, Whole
<1>28. CASE Fails(m)
  <2>1. At(m, "restore")
    BY ONLY Inv, ~Ruined', <1>28, FailureTold DEF Inv
  <2>2. /\ lane'[m].step = "rewind" /\ lane'[m].before = lane[m].before
        /\ UNCHANGED <<source, home, lastGood, daemon, marker>>
    BY ONLY Inv, <1>28, <2>1, FailedStep DEF Inv, At, Kept
  <2> QED BY <2>1, <2>2 DEF Whole
<1>29. CASE Kill(m)
  BY <1>29 DEF Kill, AtRest, Cut
<1>30. CASE Publish
  BY <1>30 DEF Publish
<1>31. CASE DaemonEnds
  BY <1>31 DEF DaemonEnds, StopDaemon
<1>32. CASE UNCHANGED vars
  BY <1>32 DEF vars
<1> QED
  BY ONLY Own(m), <1>1, <1>2, <1>3, <1>4, <1>5, <1>6,
      <1>7, <1>8, <1>9, <1>10, <1>11, <1>12, <1>13, <1>14, <1>15, <1>16, <1>17, <1>18,
      <1>19, <1>20, <1>21, <1>22, <1>23, <1>24, <1>25, <1>26, <1>27, <1>28, <1>29, <1>30,
      <1>31, <1>32 DEF Own, Step

\* The abstract variables follow from the trees, the daemon and what is published.
LEMMA Stutters ==
    ASSUME UNCHANGED <<upstream, home, lastGood, daemon>>,
           ~Ruined, ~Ruined'
    PROVE  UNCHANGED Installation!installation
  BY DEF Installation!installation, Installed, Previous, Ruined

\* A start runs the installed version or leaves what there is.
LEMMA StartServes ==
    ASSUME Inv, StartDaemon, UNCHANGED <<upstream, home, lastGood>>,
           ~Ruined, ~Ruined'
    PROVE  Installation!Serve \/ UNCHANGED Installation!installation
<1>1. CASE daemon' = daemon
  BY <1>1, Stutters
<1>2. CASE daemon' # daemon
  <2>1. daemon = Nothing /\ home \in Versions /\ daemon' = home
    BY <1>2 DEF StartDaemon, Started
  <2> QED
    BY <2>1 DEF Installation!Serve, Installed, Previous, Ruined
<1> QED BY <1>1, <1>2

LEMMA StopCeases ==
    ASSUME StopDaemon, UNCHANGED <<upstream, home, lastGood>>,
           ~Ruined, ~Ruined'
    PROVE  Installation!Cease
  BY DEF StopDaemon, Installation!Cease, Installed, Previous, Ruined

\* The daemon, the clients and the publisher.
LEMMA EnvironmentMaps ==
    ASSUME Inv, Publish \/ DaemonEnds \/ UNCHANGED vars,
           ~Ruined
    PROVE  Installation!Next \/ UNCHANGED Installation!installation
<1> USE DEF Installation!Next
<1>1. mishaps' = mishaps
  BY DEF Publish, DaemonEnds, vars
<1>2. CASE Publish
  BY <1>1, <1>2 DEF Publish, trees, Installation!Publish, Installed, Previous, Ruined
<1>3. CASE UNCHANGED vars
  BY <1>1, <1>3, Stutters DEF vars, trees, Ruined
<1>4. CASE DaemonEnds
  BY <1>1, <1>4, StopCeases DEF DaemonEnds, trees, Ruined
<1> QED BY <1>2, <1>3, <1>4

\* A removal of last-good, whole or cut short, costs the way back and no more.
LEMMA DropForgets ==
    ASSUME Inv, UNCHANGED <<upstream, home, daemon>>, home \in Versions,
           lastGood' \in {lastGood, Torn, Absent},
           ~Ruined, ~Ruined'
    PROVE  Installation!Forget \/ UNCHANGED Installation!installation
<1>1. CASE lastGood' = lastGood
  BY <1>1, Stutters
<1>2. CASE lastGood' \notin Versions
  BY <1>2 DEF Installation!Forget, Installed, Previous, Ruined
<1> QED BY <1>1, <1>2, Distinct

\* A removal of the new tree, whole or cut short, puts the old version back.
LEMMA RemoveUndoes ==
    ASSUME Inv, UNCHANGED <<upstream, lastGood, daemon>>, lastGood \in Versions,
           daemon = Nothing, home' \in {home, Torn, Absent},
           ~Ruined, ~Ruined'
    PROVE  Installation!Undo \/ UNCHANGED Installation!installation
<1>1. CASE home' \in Versions
  BY <1>1, Distinct, Stutters
<1>2. CASE home' \notin Versions /\ home \in Versions
  BY <1>2, Distinct DEF Installation!Undo, Installed, Previous, Ruined
<1>3. CASE home' \notin Versions /\ home \notin Versions
  BY <1>3 DEF Installation!installation, Installed, Previous, Ruined
<1> QED BY <1>1, <1>2, <1>3

\* Each step of a command given alone is one of AtomicUpdate or a stutter.
LEMMA CommandMaps ==
    ASSUME Inv, NEW m \in Launchers, Whole(m), Climbs(m),
           ~Ruined, ~Ruined',
           Step(m)
    PROVE  Installation!Next \/ UNCHANGED Installation!installation
<1> USE DEF Installation!Next, trees, At
<1>1. CASE \/ \E cmd \in Commands : Give(m, cmd)
           \/ SkipPending(m) \/ TakePending(m) \/ Clear(m) \/ ApplyJudge(m) \/ Refuse(m)
           \/ Fetch(m) \/ StageFails(m) \/ Stage(m) \/ Report(m) \/ Mark(m)
           \/ MarkFails(m) \/ Judge(m) \/ Rewind(m)
  <2>1. UNCHANGED <<upstream, home, lastGood, daemon>>
    BY <1>1 DEF Give, SkipPending, TakePending, Clear, ApplyJudge, Refuse, Fetch,
        StageFails, Stage, Report, Mark, MarkFails, Judge, Rewind
  <2> QED BY <2>1, Stutters
<1>2. CASE Start(m) \/ ApplyStart(m) \/ Restart(m)
  BY <1>2, StartServes DEF Start, ApplyStart, Restart
<1>3. CASE ApplyStop(m) \/ Stop(m) \/ UndoStop(m)
  BY <1>3, StopCeases DEF ApplyStop, Stop, UndoStop
<1>4. CASE Drop(m)
  BY <1>4, DropForgets DEF Drop, Whole
\* The old tree is out of the way, and now the one to restore.
<1>5. CASE Park(m)
  <2>1. home \in Versions /\ lastGood = Absent
    BY <1>5 DEF Park, Whole
  <2>2. UNCHANGED <<upstream, daemon>> /\ home' = Absent /\ lastGood' = home
    BY <1>5, <2>1, Distinct DEF Park, Renamed
  <2> QED
    BY <2>1, <2>2, Distinct DEF Installation!installation, Installed, Previous, Ruined
\* The step at which the new version is installed.
<1>6. CASE Place(m)
  <2>1. /\ home = Absent /\ lastGood \in Versions /\ staging = source
        /\ lastGood <= lane[m].before /\ lane[m].before < source
        /\ lane[m].before \in Nat
    BY <1>6, Numbers DEF Place, Whole, Climbs, Picking
  <2>2. UNCHANGED <<upstream, lastGood, daemon>> /\ home' = source
    BY <1>6, <2>1, Distinct, Numbers DEF Place, Renamed
  <2>3. source \in (lastGood + 1)..upstream
    BY <2>1, Numbers
  <2> QED
    BY <2>1, <2>2, <2>3, Distinct, Numbers DEF Installation!Upgrade, Installed, Previous, Ruined
<1>7. CASE Remove(m)
  BY <1>7, RemoveUndoes DEF Remove, Whole, Climbs, Undoing
<1>8. CASE Restore(m)
  <2>1. home = Absent /\ lastGood \in Versions
    BY <1>8 DEF Restore, Whole
  <2>2. UNCHANGED <<upstream, daemon>> /\ home' = lastGood /\ lastGood' = Absent
    BY <1>8, <2>1, Distinct DEF Restore, Renamed
  <2> QED
    BY <2>1, <2>2, Distinct DEF Installation!installation, Installed, Previous, Ruined
<1>9. CASE Relaunch(m)
  <2>1. UNCHANGED <<upstream, home, lastGood>>
    BY <1>9 DEF Relaunch
  <2>2. CASE lane[m].live
    BY <1>9, <2>1, <2>2, Stutters DEF Relaunch
  <2>3. CASE ~lane[m].live
    BY <1>9, <2>1, <2>3, StartServes DEF Relaunch
  <2> QED BY <2>2, <2>3
<1>10. CASE Kill(m)
  <2>1. CASE At(m, "remove")
    <3>1. UNCHANGED <<upstream, lastGood, daemon>> /\ home' \in {home, Torn, Absent}
      BY <1>10, <2>1 DEF Kill, Cut
    <3> QED
      BY <2>1, <3>1, RemoveUndoes DEF Whole, Climbs, Undoing
  <2>2. CASE At(m, "drop")
    <3>1. UNCHANGED <<upstream, home, daemon>> /\ lastGood' \in {lastGood, Torn, Absent}
      BY <1>10, <2>2 DEF Kill, Cut
    <3> QED
      BY <2>2, <3>1, DropForgets DEF Whole
  <2>3. CASE ~At(m, "remove") /\ ~At(m, "drop")
    BY <1>10, <2>3, Stutters DEF Kill
  <2> QED BY <2>1, <2>2, <2>3
\* Only the return of last-good fails without ruining the trees.
<1>11. CASE Missing(m) \/ Fails(m)
  <2>1. UNCHANGED <<upstream, home, lastGood, daemon>>
    BY <1>11, MissedStep, FailedStep DEF Inv, Ruined
  <2> QED BY <2>1, Stutters
<1> QED
  BY <1>1, <1>2, <1>3, <1>4, <1>5, <1>6, <1>7, <1>8, <1>9, <1>10, <1>11 DEF Step

\* So does every step: out of turn, a launcher only takes its next command.
LEMMA StepMaps ==
    ASSUME OneCommand, Inv, Anchored, Climbing, [Next]_vars
    PROVE  Installation!Next \/ UNCHANGED Installation!installation
<1>1. CASE Ruined'
  BY <1>1 DEF Installation!Next, Installation!Astray
<1>2. CASE ~Ruined'
  <2>1. /\ ~Ruined
        /\ \A m \in Launchers : Whole(m) /\ (Turn(m) => Climbs(m))
    BY <1>2, MishapsGrow DEF Anchored, Climbing, Ruined
  <2>2. ASSUME NEW m \in Launchers, Step(m)
        PROVE  Installation!Next \/ UNCHANGED Installation!installation
    <3>1. CASE Turn(m)
      BY <1>2, <2>1, <2>2, <3>1, CommandMaps
    <3>2. CASE ~Turn(m)
      <4>1. At(m, "rest")
        BY <3>2 DEF OneCommand, Turn
      <4>2. UNCHANGED <<upstream, home, lastGood, daemon>>
        BY <2>2, <4>1
        DEF Step, Give, Start, SkipPending, TakePending, Clear, ApplyStop, ApplyStart,
            ApplyJudge, Refuse, Fetch, StageFails, Stage, Report, Stop, Drop, Park,
            Place, Mark, MarkFails, Restart, Judge, UndoStop, Remove, Restore, Rewind,
            Relaunch, Missing, Fails, Follows, Kill, At, trees
      <4> QED BY <1>2, <2>1, <4>2, Stutters
    <3> QED BY <3>1, <3>2
  <2> QED
    BY <1>2, <2>1, <2>2, EnvironmentMaps DEF Next
<1> QED BY <1>1, <1>2

\* The versions stay in order for whoever has the turn.
LEMMA ClimbingNext ==
    ASSUME OneCommand, Inv, Anchored, Climbing, [Next]_vars PROVE Climbing'
<1> SUFFICES ASSUME ~Ruined', NEW l \in Launchers, Turn(l)'
             PROVE  Climbs(l)'
  BY DEF Climbing
<1>1. PICK m \in Launchers :
         /\ Turn(m) /\ Own(m)
         /\ m = l \/ (At(m, "rest")' /\ At(l, "rest")')
  BY TurnStep DEF Inv
<1>2. Whole(m) /\ Climbs(m)
  BY <1>1, MishapsGrow DEF Anchored, Climbing, Ruined
<1>3. Climbs(m)'
  BY <1>1, <1>2, ClimbsNext
<1> QED BY <1>1, <1>3 DEF Climbs, At, Undoing

\* Commands being given one at a time, an update, its rollback and the deferred
\* restart, killed wherever they may be, do to the installed version and to the
\* daemon only what AtomicUpdate allows: the swap takes effect in one step, for a
\* later version, and can be undone once, with no daemon running.
THEOREM Implementation == Spec /\ []OneCommand => AppliesAtomically
<1>1. Init => Anchored /\ Climbing
  <2> SUFFICES ASSUME Init PROVE Anchored /\ Climbing
    OBVIOUS
  <2>1. /\ home = 0 /\ source = 0 /\ lastGood = Absent /\ marker = NoMarker /\ daemon = Nothing
        /\ \A l \in Launchers : lane[l] = AtRest
    BY DEF Init
  <2>2. 0 \in Versions /\ Absent \notin Versions
    BY UpdateAssumption DEF Versions, Absent
  <2>3. ASSUME NEW l \in Launchers PROVE Whole(l)
    BY <2>1, <2>2 DEF Whole, AtRest, Applying, Updating
  <2>4. ASSUME NEW l \in Launchers PROVE Climbs(l)
    BY <2>1, <2>2 DEF Climbs, AtRest, Undoing
  <2> QED BY <2>1, <2>2, <2>3, <2>4 DEF Anchored, Climbing
<1>2. OneSwap /\ OneSwap' /\ Inv /\ Anchored /\ [Next]_vars => Anchored'
  BY AnchoredNext
<1>3. OneCommand /\ Inv /\ Anchored /\ Climbing /\ [Next]_vars => Climbing'
  BY ClimbingNext
<1>4. Init => Installation!Init
  BY UpdateAssumption, Distinct
  DEF Init, Installation!Init, Installed, Previous, Ruined, Versions, Absent
<1>5. OneCommand /\ Inv /\ Anchored /\ Climbing /\ [Next]_vars => [Installation!Next]_(Installation!installation)
  BY StepMaps
<1>6. Spec => Installation!Init
  BY <1>4, PTL DEF Spec
<1>7. Spec /\ []OneCommand => [][Installation!Next]_(Installation!installation)
  BY <1>1, <1>2, <1>3, <1>5, NoOverlap, Invariant, PTL DEF Spec
<1> QED BY <1>6, <1>7 DEF AppliesAtomically, Installation!Spec
=================================================================================
