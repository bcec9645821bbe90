------------------------ MODULE SessionRegistryProofs ------------------------
(* Proofs about SessionRegistry, for any sets of sessions and pids and any *)
(* values of the bounds.                                                   *)
EXTENDS SessionRegistry, TLAPS

(* Every variable stays in its type: TypeOK is inductive by itself.        *)
LEMMA TypeInit == Init => TypeOK
  BY RegistryAssumption DEF Init, TypeOK, MaybePid, PidMap, Empty, Status, Phase

\* What starting a watcher does to the types of the five variables it sets.
LEMMA StartWatchingTypes ==
    ASSUME TypeOK, NEW s \in Sessions, NEW p \in Pids, StartWatching(s, p)
    PROVE  /\ store' \in PidMap /\ mirror' \in PidMap
           /\ beats' \subseteq Sessions
           /\ watchers' \subseteq Sessions \X Pids
           /\ notified' \subseteq Sessions
<1>1. store' \in PidMap
  BY DEF StartWatching, TypeOK, PidMap, MaybePid
<1>2. mirror' \in PidMap
  BY <1>1 DEF StartWatching, Persist, TypeOK
<1>3. <<s, p>> \in Sessions \X Pids
  OBVIOUS
<1> QED
  BY <1>1, <1>2, <1>3 DEF StartWatching, TypeOK

LEMMA TypeStep == TypeOK /\ [Next]_vars => TypeOK'
<1> SUFFICES ASSUME TypeOK, [Next]_vars
             PROVE  TypeOK'
  OBVIOUS
<1> USE RegistryAssumption
<1> USE DEF TypeOK, MaybePid, PidMap, Empty, Status, Phase, os, calls, timers, history
<1>1. CASE UNCHANGED vars
  BY <1>1 DEF vars
<1>2. ASSUME NEW s \in Sessions, NEW p \in Pids, Launch(s, p)
      PROVE  TypeOK'
  BY <1>2 DEF Launch
<1>3. ASSUME NEW s \in Sessions, NEW p \in MaybePid, OpenElsewhere(s, p)
      PROVE  TypeOK'
  BY <1>3 DEF OpenElsewhere
<1>4. ASSUME NEW p \in Pids, Exit(p)
      PROVE  TypeOK'
  BY <1>4 DEF Exit
<1>5. ASSUME NEW p \in Pids, Reap(p) \/ Reuse(p)
      PROVE  TypeOK'
  BY <1>5 DEF Reap, Reuse
<1>6. ASSUME NEW r \in requests, LoseRequest(r)
      PROVE  TypeOK'
  BY <1>6 DEF LoseRequest
<1>7. ASSUME NEW s \in Sessions, PauseLands(s) \/ ResumeLands(s)
      PROVE  TypeOK'
  <2>1. ASSUME NEW st \in Status, SetStatus(s, st)
        PROVE  row' \in [Sessions -> [status : Status, pid : MaybePid]]
    <3> DEFINE new == IF IsOpen(s) THEN st ELSE row[s].status
    <3>1. row[s] \in [status : Status, pid : MaybePid]
      OBVIOUS
    <3>2. new \in Status
      BY <2>1, <3>1
    <3>3. [row[s] EXCEPT !.status = new] \in [status : Status, pid : MaybePid]
      BY <3>1, <3>2
    <3>4. row' = [row EXCEPT ![s] = [row[s] EXCEPT !.status = new]]
      BY <2>1 DEF SetStatus
    <3> QED
      BY <3>3, <3>4
  <2>2. row' \in [Sessions -> [status : Status, pid : MaybePid]]
    BY <1>7, <2>1 DEF PauseLands, ResumeLands
  <2>3. ASSUME NEW calls1 \in [Sessions -> Nat], calls1[s] > 0
        PROVE  [calls1 EXCEPT ![s] = calls1[s] - 1] \in [Sessions -> Nat]
    BY <2>3
  <2>4. CASE PauseLands(s)
    <3>1. pauses' \in [Sessions -> Nat]
      BY <2>3, <2>4 DEF PauseLands
    <3> QED
      BY <2>2, <2>4, <3>1 DEF PauseLands
  <2>5. CASE ResumeLands(s)
    <3>1. resumes' \in [Sessions -> Nat]
      BY <2>3, <2>5 DEF ResumeLands
    <3> QED
      BY <2>2, <2>5, <3>1 DEF ResumeLands
  <2> QED
    BY <1>7, <2>4, <2>5
<1>8. ASSUME NEW s \in Sessions, LoseCall(s)
      PROVE  TypeOK'
  <2>1. ASSUME NEW calls1 \in [Sessions -> Nat], calls1[s] > 0
        PROVE  [calls1 EXCEPT ![s] = calls1[s] - 1] \in [Sessions -> Nat]
    BY <2>1
  <2>2. CASE pauses[s] > 0 /\ pauses' = [pauses EXCEPT ![s] = @ - 1] /\ UNCHANGED resumes
    <3>1. pauses' \in [Sessions -> Nat]
      BY <2>1, <2>2
    <3> QED
      BY <1>8, <2>2, <3>1 DEF LoseCall
  <2>3. CASE resumes[s] > 0 /\ resumes' = [resumes EXCEPT ![s] = @ - 1] /\ UNCHANGED pauses
    BY <1>8, <2>1, <2>3 DEF LoseCall
  <2> QED
    BY <1>8, <2>2, <2>3 DEF LoseCall
<1>9. ASSUME NEW s \in Sessions, Close(s)
      PROVE  TypeOK'
  BY <1>9 DEF Close
<1>10. CASE Boot \/ SkipReconcile \/ Serve
  BY <1>10 DEF Boot, SkipReconcile, Serve
<1>11. CASE ListReplies
  <2>1. Mine \in PidMap
    BY DEF Mine
  <2> QED
    BY <1>11, <2>1 DEF ListReplies
<1>12. CASE ReviveFromMirror
  BY <1>12 DEF ReviveFromMirror
<1>13. ASSUME NEW s \in Sessions, ReviveRow(s)
       PROVE  TypeOK'
  <2>1. CASE PidAlive(todo[s])
    <3>1. todo[s] \in Pids /\ StartWatching(s, todo[s])
      BY <1>13, <2>1 DEF ReviveRow
    <3>2. resumes' \in [Sessions -> Nat] /\ todo' \in PidMap
      BY <1>13, <2>1 DEF ReviveRow, NextRow
    <3> QED
      BY <1>13, <3>1, <3>2, StartWatchingTypes DEF ReviveRow
  <2>2. CASE ~PidAlive(todo[s])
    BY <1>13, <2>2 DEF ReviveRow, NextRow
  <2> QED
    BY <2>1, <2>2
<1>14. ASSUME NEW s \in Sessions, NEW p \in Pids, Adopt(s, p)
       PROVE  TypeOK'
  <2>1. CASE Watched(s)
    BY <1>14, <2>1 DEF Adopt
  <2>2. CASE ~Watched(s)
    <3>1. StartWatching(s, p)
      BY <1>14, <2>2 DEF Adopt
    <3> QED
      BY <1>14, <3>1, StartWatchingTypes DEF Adopt
  <2> QED
    BY <2>1, <2>2
<1>15. ASSUME NEW s \in Sessions, NEW p \in Pids, PollFindsDead(s, p)
       PROVE  TypeOK'
  <2>1. store' \in PidMap /\ pauses' \in [Sessions -> Nat]
    BY <1>15 DEF PollFindsDead
  <2>2. mirror' \in PidMap
    BY <1>15, <2>1 DEF PollFindsDead, Persist
  <2> QED
    BY <1>15, <2>1, <2>2 DEF PollFindsDead, StopHeartbeat
<1>16. CASE Signal
  <2>1. AliveEntries \in PidMap
    BY DEF AliveEntries
  <2>2. stops' \in Seq(PidMap)
    BY <1>16, <2>1 DEF Signal
  <2> QED
    BY <1>16, <2>2 DEF Signal
<1>17. CASE SignalIdle \/ Crash
  <2>1. Gone /\ UNCHANGED mirror
    BY <1>17 DEF SignalIdle, Crash
  <2> QED
    BY <2>1 DEF Gone
<1>18. CASE ShutdownDone
  <2>1. mirror' \in PidMap
    BY <1>18 DEF ShutdownDone, Persist
  <2> QED
    BY <1>18, <2>1 DEF ShutdownDone, Gone
<1> QED
  BY <1>1, <1>2, <1>3, <1>4, <1>5, <1>6, <1>7, <1>8, <1>9, <1>10, <1>11, <1>12,
     <1>13, <1>14, <1>15, <1>16, <1>17, <1>18 DEF Next, Environment, Daemon

(* The types of the variables hold in every state of every run.            *)
THEOREM TypeCorrect == Spec => []TypeOK
  BY TypeInit, TypeStep, PTL DEF Spec

-----------------------------------------------------------------------------
(* The inductive invariant.  The properties of SessionRegistry that are    *)
(* not inductive lean on three facts about reconcile and about pids.       *)

\* While reconcile runs, a row still to be looked at is not tracked yet.
TodoUntracked ==
    phase = "reviving" => \A s \in Sessions : todo[s] # NoPid => store[s] = NoPid

\* No session of another device gets to a request or to a pending shutdown either.
RemoteUntouched ==
    \A s \in Remote :
        /\ \A p \in Pids : <<s, p>> \notin requests
        /\ \A i \in DOMAIN stops : stops[i][s] = NoPid

\* A session has one pid for good: the one of its row.
Bound(s, p) == row[s].status # "none" /\ row[s].pid = p

Linked(s, p) ==
    \/ occupant[p] = s \/ <<s, p>> \in requests \/ <<s, p>> \in watchers
    \/ store[s] = p \/ mirror[s] = p \/ todo[s] = p
    \/ \E i \in DOMAIN stops : stops[i][s] = p

OnePid == \A s \in Sessions, p \in Pids : Linked(s, p) => Bound(s, p)

\* A session reconcile is expected to revive runs at a pid that is either
\* tracked already or still to be looked at.
Expectation ==
    phase = "reviving" =>
        \A s \in expected : \E p \in Pids :
            occupant[p] = s /\ (store[s] = p \/ todo[s] = p)

-----------------------------------------------------------------------------
(* What the environment leaves alone: everything the daemon holds.         *)
LEMMA EnvironmentFrame ==
    ASSUME Environment
    PROVE  UNCHANGED <<mirror, phase, store, watchers, beats, todo, stops, boots, notified>>
  BY DEF Environment, Launch, OpenElsewhere, Exit, Reap, Reuse, LoseRequest,
         PauseLands, ResumeLands, LoseCall, Close, timers, history, calls, os

\* Requests come from launches, which are of this device.
LEMMA EnvironmentRequests ==
    ASSUME TypeOK, Environment, NEW s \in Sessions, NEW p \in Pids,
           <<s, p>> \in requests'
    PROVE  <<s, p>> \in requests \/ Launch(s, p)
<1> USE DEF calls, os
<1>1. ASSUME NEW t \in Sessions, NEW q \in Pids, Launch(t, q)
      PROVE  <<s, p>> \in requests \/ Launch(s, p)
  <2>1. requests' = requests \cup {<<t, q>>}
    BY <1>1 DEF Launch
  <2>2. <<s, p>> \in requests \/ (s = t /\ p = q)
    BY <2>1
  <2> QED
    BY <1>1, <2>2
<1>2. ASSUME requests' \subseteq requests
      PROVE  <<s, p>> \in requests \/ Launch(s, p)
  BY <1>2
<1>3. ASSUME NEW r \in requests, LoseRequest(r)
      PROVE  requests' \subseteq requests
  BY <1>3 DEF LoseRequest
<1> QED
  BY <1>1, <1>2, <1>3 DEF Environment, OpenElsewhere, Exit, Reap, Reuse,
     PauseLands, ResumeLands, LoseCall, Close

LEMMA TodoUntrackedStep ==
    ASSUME TypeOK, TimersMatchStore, TodoUntracked, [Next]_vars
    PROVE  TodoUntracked'
<1> USE DEF TypeOK, PidMap, MaybePid, TodoUntracked, timers
<1>1. CASE UNCHANGED vars
  BY <1>1 DEF vars
<1>2. CASE Environment
  BY <1>2, EnvironmentFrame
<1>3. CASE ListReplies
  <2>1. store' = Empty
    BY <1>3 DEF ListReplies, TimersMatchStore
  <2> QED
    BY <2>1 DEF Empty
<1>4. ASSUME NEW s \in Sessions, ReviveRow(s)
      PROVE  TodoUntracked'
  BY <1>4 DEF ReviveRow, NextRow, StartWatching
<1>5. ASSUME NEW s \in Sessions, NEW p \in Pids, PollFindsDead(s, p)
      PROVE  TodoUntracked'
  BY <1>5 DEF PollFindsDead
<1>6. ASSUME phase' # "reviving"
      PROVE  TodoUntracked'
  BY <1>6
<1>7. ASSUME NEW s \in Sessions, NEW p \in Pids, Adopt(s, p)
      PROVE  TodoUntracked'
  BY <1>7 DEF Adopt
<1> QED
  BY <1>1, <1>2, <1>3, <1>4, <1>5, <1>6, <1>7 DEF Next, Daemon, Boot, SkipReconcile,
     ReviveFromMirror, Serve, Signal, SignalIdle, ShutdownDone, Crash, Gone

(* An entry, its watcher and its heartbeat stay together.                  *)
LEMMA TimersStep ==
    ASSUME TypeOK, TimersMatchStore, TodoUntracked, [Next]_vars
    PROVE  TimersMatchStore'
<1> USE RegistryAssumption
<1> USE DEF TypeOK, PidMap, MaybePid, TimersMatchStore, Watched, Tracked, timers
<1>1. CASE UNCHANGED vars
  BY <1>1 DEF vars
<1>2. CASE Environment
  BY <1>2, EnvironmentFrame
<1>3. CASE Boot \/ ListReplies \/ SkipReconcile \/ Serve
  BY <1>3 DEF Boot, ListReplies, SkipReconcile, Serve
<1>4. CASE ReviveFromMirror
  BY <1>4 DEF ReviveFromMirror
<1>5. ASSUME NEW s \in Sessions, NEW p \in Pids, ~Watched(s), StartWatching(s, p),
             phase' = phase, phase \notin {"down", "listing"}
      PROVE  TimersMatchStore'
  <2>1. \A w \in watchers : w \in Sessions \X Pids /\ w[1] # s
    <3> TAKE w \in watchers
    <3>1. PICK t \in Sessions, q \in Pids : w = <<t, q>>
      OBVIOUS
    <3>2. t # s
      BY <1>5, <3>1
    <3> QED
      BY <3>1, <3>2
  <2>2. \A w \in watchers' : store'[w[1]] = w[2]
    BY <1>5, <2>1 DEF StartWatching
  <2>3. \A t \in Sessions, q \in Pids : <<t, q>> \in watchers' <=>
            <<t, q>> \in watchers \/ (t = s /\ q = p)
    BY <1>5 DEF StartWatching
  <2>4. \A t \in Sessions : Watched(t)' <=> Watched(t) \/ t = s
    BY <2>3
  <2>5. beats' = {t \in Sessions : Watched(t)'}
    <3> HIDE DEF Watched
    <3>1. beats = {t \in Sessions : Watched(t)} /\ beats' = beats \cup {s}
      BY <1>5 DEF StartWatching
    <3> QED
      BY <2>4, <3>1
  <2>6. phase # "stopping" => \A t \in Sessions : Tracked(t)' => Watched(t)'
    BY <1>5, <2>4 DEF StartWatching
  <2> QED
    BY <1>5, <2>2, <2>5, <2>6
<1>6. ASSUME NEW s \in Sessions, ReviveRow(s)
      PROVE  TimersMatchStore'
  <2>1. CASE PidAlive(todo[s])
    <3>1. todo[s] \in Pids /\ StartWatching(s, todo[s])
      BY <1>6, <2>1 DEF ReviveRow
    <3>2. ~Watched(s)
      BY <1>6 DEF ReviveRow, TodoUntracked
    <3> QED
      BY <1>5, <1>6, <3>1, <3>2 DEF ReviveRow
  <2>2. CASE ~PidAlive(todo[s])
    BY <1>6, <2>2 DEF ReviveRow
  <2> QED
    BY <2>1, <2>2
<1>7. ASSUME NEW s \in Sessions, NEW p \in Pids, Adopt(s, p)
      PROVE  TimersMatchStore'
  <2>1. CASE Watched(s)
    BY <1>7, <2>1 DEF Adopt
  <2>2. CASE ~Watched(s)
    BY <1>5, <1>7, <2>2 DEF Adopt
  <2> QED
    BY <2>1, <2>2
<1>8. ASSUME NEW s \in Sessions, NEW p \in Pids, PollFindsDead(s, p)
      PROVE  TimersMatchStore'
  <2>0. \A q \in Pids : <<s, q>> \in watchers => q = p
    <3>1. \A q \in Pids : <<s, q>> \in watchers => store[s] = q
      <4> TAKE q \in Pids
      <4> HAVE <<s, q>> \in watchers
      <4> DEFINE w == <<s, q>>
      <4>1. w[1] = s /\ w[2] = q
        OBVIOUS
      <4>2. store[w[1]] = w[2]
        OBVIOUS
      <4> QED
        BY <4>1, <4>2
    <3> QED
      BY <1>8, <3>1 DEF PollFindsDead
  <2>1. \A t \in Sessions, q \in Pids : <<t, q>> \in watchers' <=>
            t # s /\ <<t, q>> \in watchers
    BY <1>8, <2>0 DEF PollFindsDead
  <2>2. \A w \in watchers' : store'[w[1]] = w[2]
    BY <1>8, <2>1 DEF PollFindsDead
  <2>3. beats' = {t \in Sessions : Watched(t)'}
    BY <1>8, <2>1 DEF PollFindsDead, StopHeartbeat
  <2>4. phase # "stopping" => \A t \in Sessions : Tracked(t)' => Watched(t)'
    BY <1>8, <2>1 DEF PollFindsDead
  <2>5. phase \notin {"down", "listing"}
    BY <1>8 DEF PollFindsDead, Empty
  <2> QED
    BY <1>8, <2>2, <2>3, <2>4, <2>5 DEF PollFindsDead
<1>9. CASE Signal
  BY <1>9 DEF Signal
<1>10. CASE SignalIdle \/ ShutdownDone \/ Crash
  <2>1. Gone
    BY <1>10 DEF SignalIdle, ShutdownDone, Crash
  <2> QED
    BY <2>1 DEF Gone, Empty
<1> QED
  BY <1>1, <1>2, <1>3, <1>4, <1>6, <1>7, <1>8, <1>9, <1>10 DEF Next, Daemon

(* The mirror follows the Map as long as the disk accepts the writes.      *)
LEMMA MirrorStep ==
    ASSUME TypeOK, TimersMatchStore, MirrorCovers, [Next]_vars
    PROVE  MirrorCovers'
<1> SUFFICES ASSUME ~DiskFaults PROVE MirrorCovers'
  BY DEF MirrorCovers
<1> USE RegistryAssumption
<1> USE DEF TypeOK, PidMap, MaybePid, MirrorCovers, Tracked
<1>1. CASE UNCHANGED vars
  BY <1>1 DEF vars
<1>2. CASE Environment
  BY <1>2, EnvironmentFrame
<1>3. CASE Boot \/ ListReplies \/ SkipReconcile \/ Serve \/ Signal
  BY <1>3 DEF Boot, ListReplies, SkipReconcile, Serve, Signal
<1>4. CASE ReviveFromMirror
  BY <1>4 DEF ReviveFromMirror
<1>5. ASSUME NEW s \in Sessions, ReviveRow(s)
      PROVE  MirrorCovers'
  BY <1>5 DEF ReviveRow, StartWatching, Persist
<1>6. ASSUME NEW s \in Sessions, NEW p \in Pids, Adopt(s, p)
      PROVE  MirrorCovers'
  BY <1>6 DEF Adopt, StartWatching, Persist
<1>7. ASSUME NEW s \in Sessions, NEW p \in Pids, PollFindsDead(s, p)
      PROVE  MirrorCovers'
  BY <1>7 DEF PollFindsDead, Persist
<1>8. CASE SignalIdle \/ ShutdownDone \/ Crash
  <2>1. Gone
    BY <1>8 DEF SignalIdle, ShutdownDone, Crash
  <2> QED
    BY <2>1 DEF Gone, Empty
<1> QED
  BY <1>1, <1>2, <1>3, <1>4, <1>5, <1>6, <1>7, <1>8 DEF Next, Daemon

\* A shutdown adds one set of entries, read off the Map.
LEMMA SignalStops ==
    ASSUME TypeOK, Signal
    PROVE  \A i \in DOMAIN stops' :
               \/ i \in DOMAIN stops /\ stops'[i] = stops[i]
               \/ stops'[i] = AliveEntries
<1>1. AliveEntries \in PidMap
  BY DEF AliveEntries, TypeOK, PidMap, MaybePid
<1>2. stops \in Seq(PidMap) /\ stops' = Append(stops, AliveEntries)
  BY DEF Signal, TypeOK
<1> QED
  BY <1>1, <1>2

(* Sessions of another device stay out of everything this daemon holds.    *)
LEMMA OwnDeviceStep ==
    ASSUME TypeOK, OwnDeviceOnly, RemoteUntouched, [Next]_vars
    PROVE  OwnDeviceOnly' /\ RemoteUntouched'
<1> USE RegistryAssumption
<1> USE DEF TypeOK, PidMap, MaybePid, OwnDeviceOnly, RemoteUntouched
<1>1. CASE UNCHANGED vars
  BY <1>1 DEF vars
<1>2. CASE Environment
  <2>1. \A s \in Remote, p \in Pids : <<s, p>> \notin requests'
    BY <1>2, EnvironmentRequests DEF Launch
  <2> QED
    BY <1>2, <2>1, EnvironmentFrame
<1>3. CASE Boot \/ SkipReconcile \/ Serve
  BY <1>3 DEF Boot, SkipReconcile, Serve, calls
<1>4. CASE ListReplies
  BY <1>4 DEF ListReplies, Mine
<1>5. CASE ReviveFromMirror
  <2>1. \A s \in Remote : store'[s] = NoPid /\ mirror'[s] = NoPid
    BY <1>5 DEF ReviveFromMirror
  <2> QED
    BY <1>5, <2>1 DEF ReviveFromMirror
<1>6. ASSUME NEW s \in Sessions, ReviveRow(s)
      PROVE  OwnDeviceOnly' /\ RemoteUntouched'
  BY <1>6 DEF ReviveRow, NextRow, StartWatching, Persist
<1>7. ASSUME NEW s \in Sessions, NEW p \in Pids, Adopt(s, p)
      PROVE  OwnDeviceOnly' /\ RemoteUntouched'
  BY <1>7 DEF Adopt, StartWatching, Persist
<1>8. ASSUME NEW s \in Sessions, NEW p \in Pids, PollFindsDead(s, p)
      PROVE  OwnDeviceOnly' /\ RemoteUntouched'
  BY <1>8 DEF PollFindsDead, Persist
<1>9. CASE Signal
  <2>1. \A s \in Remote : AliveEntries[s] = NoPid
    BY DEF AliveEntries, Tracked
  <2>2. ASSUME NEW s \in Remote, NEW i \in DOMAIN stops'
        PROVE  stops'[i][s] = NoPid
    <3>1. \/ i \in DOMAIN stops /\ stops'[i] = stops[i]
          \/ stops'[i] = AliveEntries
      BY <1>9, SignalStops
    <3> QED
      BY <2>1, <3>1
  <2> QED
    BY <1>9, <2>2 DEF Signal
<1>10. CASE SignalIdle \/ Crash
  <2>1. Gone /\ UNCHANGED mirror
    BY <1>10 DEF SignalIdle, Crash
  <2> QED
    BY <2>1 DEF Gone, Empty
<1>11. CASE ShutdownDone
  <2>1. ASSUME NEW s \in Remote
        PROVE  mirror'[s] = NoPid
    <3>1. PICK i \in DOMAIN stops : mirror' = stops[i] \/ mirror' = mirror
      BY <1>11 DEF ShutdownDone, Persist
    <3> QED
      BY <3>1
  <2> QED
    BY <1>11, <2>1 DEF ShutdownDone, Gone, Empty
<1> QED
  BY <1>1, <1>2, <1>3, <1>4, <1>5, <1>6, <1>7, <1>8, <1>9, <1>10, <1>11
  DEF Next, Daemon

\* A session keeps its pid: the environment never rebinds a bound session.
LEMMA BoundStays ==
    ASSUME TypeOK, Environment, NEW s \in Sessions, NEW p \in Pids, Bound(s, p),
           OnePid
    PROVE  Bound(s, p)'
<1> USE DEF TypeOK, Bound
<1>1. ASSUME NEW t \in Sessions, NEW q \in Pids, Launch(t, q)
      PROVE  Bound(s, p)'
  BY <1>1 DEF Launch, IsOpen
<1>2. ASSUME NEW t \in Sessions, NEW q \in MaybePid, OpenElsewhere(t, q)
      PROVE  Bound(s, p)'
  BY <1>2 DEF OpenElsewhere
<1>3. ASSUME NEW t \in Sessions, NEW st \in {"active", "paused"}, SetStatus(t, st)
      PROVE  Bound(s, p)'
  BY <1>3 DEF SetStatus
<1>4. ASSUME NEW t \in Sessions, PauseLands(t) \/ ResumeLands(t)
      PROVE  Bound(s, p)'
  BY <1>3, <1>4 DEF PauseLands, ResumeLands
<1>5. ASSUME NEW t \in Sessions, Close(t)
      PROVE  Bound(s, p)'
  BY <1>5 DEF Close
<1>6. ASSUME UNCHANGED row
      PROVE  Bound(s, p)'
  BY <1>6
<1> QED
  BY <1>1, <1>2, <1>4, <1>5, <1>6 DEF Environment, Exit, Reap, Reuse, LoseRequest,
     LoseCall

\* Nothing is linked to a pid but a launch, and a launch binds what it links.
LEMMA EnvironmentLinks ==
    ASSUME TypeOK, OnePid, Environment, NEW s \in Sessions, NEW p \in Pids,
           Linked(s, p)'
    PROVE  Linked(s, p) \/ Launch(s, p)
<1> USE RegistryAssumption DEF TypeOK, os
<1>1. ASSUME occupant'[p] = s
      PROVE  occupant[p] = s \/ Launch(s, p)
  BY <1>1 DEF Environment, Launch, OpenElsewhere, Exit, Reap, Reuse, LoseRequest,
     PauseLands, ResumeLands, LoseCall, Close
<1> HIDE DEF TypeOK
<1> QED
  BY <1>1, EnvironmentFrame, EnvironmentRequests DEF Linked

(* Whatever holds a pid for a session holds the pid of its row.            *)
LEMMA OnePidStep ==
    ASSUME TypeOK, OnePid, [Next]_vars
    PROVE  OnePid'
<1> SUFFICES ASSUME NEW s \in Sessions, NEW p \in Pids, Linked(s, p)'
             PROVE  Bound(s, p)'
  BY DEF OnePid
<1>1. CASE UNCHANGED vars
  BY <1>1 DEF vars, OnePid, Linked, Bound
<1>2. CASE Environment
  <2>1. CASE Linked(s, p)
    BY <1>2, <2>1, BoundStays DEF OnePid
  <2>2. CASE Launch(s, p)
    BY <2>2 DEF Launch, Bound, TypeOK
  <2> QED
    BY <1>2, <2>1, <2>2, EnvironmentLinks
<1>3. ASSUME UNCHANGED row, Linked(s, p) \/ Bound(s, p)
      PROVE  Bound(s, p)'
  BY <1>3 DEF OnePid, Bound
<1> USE DEF os, calls, timers
<1>4. CASE Boot \/ SkipReconcile \/ Serve
  BY <1>3, <1>4 DEF Boot, SkipReconcile, Serve, Linked
<1>5. CASE ListReplies
  <2>1. todo'[s] = p => Bound(s, p)
    BY <1>5, RegistryAssumption DEF ListReplies, Mine, Bound, IsOpen
  <2> QED
    BY <1>3, <1>5, <2>1 DEF ListReplies, Linked
<1>6. CASE ReviveFromMirror
  <2>1. store'[s] = p \/ mirror'[s] = p \/ <<s, p>> \in watchers' => mirror[s] = p
    BY <1>6, RegistryAssumption DEF ReviveFromMirror
  <2> QED
    BY <1>3, <1>6, <2>1 DEF ReviveFromMirror, Linked
<1>7. ASSUME NEW t \in Sessions, NEW q \in Pids, StartWatching(t, q)
      PROVE  store'[s] = p \/ mirror'[s] = p \/ <<s, p>> \in watchers'
                => Linked(s, p) \/ (s = t /\ p = q)
  BY <1>7 DEF StartWatching, Persist, Linked, TypeOK, PidMap
<1>8. ASSUME NEW t \in Sessions, ReviveRow(t)
      PROVE  Bound(s, p)'
  <2>1. todo[t] \in Pids
    BY <1>8 DEF ReviveRow, TypeOK, PidMap, MaybePid
  <2>2. todo'[s] = p => todo[s] = p
    BY <1>8, RegistryAssumption DEF ReviveRow, NextRow, TypeOK, PidMap
  <2>3. CASE PidAlive(todo[t])
    <3>1. StartWatching(t, todo[t])
      BY <1>8, <2>3 DEF ReviveRow
    <3>2. store'[s] = p \/ mirror'[s] = p \/ <<s, p>> \in watchers' => Linked(s, p)
      BY <1>7, <2>1, <3>1 DEF Linked
    <3> QED
      BY <1>3, <1>8, <2>2, <3>2 DEF ReviveRow, Linked
  <2>4. CASE ~PidAlive(todo[t])
    BY <1>3, <1>8, <2>2, <2>4 DEF ReviveRow, Linked
  <2> QED
    BY <2>3, <2>4
<1>9. ASSUME NEW t \in Sessions, NEW q \in Pids, Adopt(t, q)
      PROVE  Bound(s, p)'
  <2>1. CASE Watched(t)
    BY <1>3, <1>9, <2>1 DEF Adopt, Linked
  <2>2. CASE ~Watched(t)
    <3>1. StartWatching(t, q) /\ Linked(t, q)
      BY <1>9, <2>2 DEF Adopt, Linked
    <3>2. store'[s] = p \/ mirror'[s] = p \/ <<s, p>> \in watchers' => Linked(s, p)
      BY <1>7, <3>1
    <3> QED
      BY <1>3, <1>9, <3>2 DEF Adopt, Linked
  <2> QED
    BY <2>1, <2>2
<1>10. ASSUME NEW t \in Sessions, NEW q \in Pids, PollFindsDead(t, q)
       PROVE  Bound(s, p)'
  <2>1. store'[s] = p => store[s] = p
    BY <1>10, RegistryAssumption DEF PollFindsDead, TypeOK, PidMap
  <2>2. mirror'[s] = p => mirror[s] = p \/ store[s] = p
    BY <1>10, <2>1 DEF PollFindsDead, Persist
  <2> QED
    BY <1>3, <1>10, <2>1, <2>2 DEF PollFindsDead, Linked
<1>11. CASE Signal
  <2>1. AliveEntries[s] = p => store[s] = p
    BY RegistryAssumption DEF AliveEntries
  <2>2. ASSUME NEW i \in DOMAIN stops', stops'[i][s] = p
        PROVE  Linked(s, p)
    BY <1>11, <2>1, <2>2, SignalStops DEF Linked
  <2> QED
    BY <1>3, <1>11, <2>2 DEF Signal, Linked
<1>12. CASE SignalIdle \/ Crash \/ ShutdownDone
  <2>1. Gone
    BY <1>12 DEF SignalIdle, Crash, ShutdownDone
  <2>2. mirror'[s] = p => Linked(s, p)
    BY <1>12 DEF SignalIdle, Crash, ShutdownDone, Persist, Linked
  <2> QED
    BY <1>3, <2>1, <2>2, RegistryAssumption DEF Gone, Empty, Linked
<1> QED
  BY <1>1, <1>2, <1>4, <1>5, <1>6, <1>8, <1>9, <1>10, <1>11, <1>12 DEF Next, Daemon

\* The daemon never fires the poll of a session that still runs.
LEMMA PollOnlyDead ==
    ASSUME TypeOK, OnePid, NEW s \in Sessions, NEW p \in Pids, PollFindsDead(s, p)
    PROVE  \A q \in Pids : occupant[q] # s
<1> SUFFICES ASSUME NEW q \in Pids, occupant[q] = s
             PROVE  FALSE
  OBVIOUS
<1>1. Bound(s, p) /\ Bound(s, q)
  BY DEF PollFindsDead, OnePid, Linked
<1>2. p = q
  BY <1>1 DEF Bound
<1> QED
  BY <1>2, RegistryAssumption DEF PollFindsDead, PidAlive

(* What reconcile still owes stays within reach of it.                     *)
LEMMA ExpectationStep ==
    ASSUME TypeOK, TodoUntracked, OnePid, Expectation, [Next]_vars
    PROVE  Expectation'
<1> SUFFICES ASSUME phase' = "reviving", NEW s \in expected'
             PROVE  \E p \in Pids : occupant'[p] = s /\ (store'[s] = p \/ todo'[s] = p)
  BY DEF Expectation
<1> DEFINE Reach(p) == occupant[p] = s /\ (store[s] = p \/ todo[s] = p)
<1> USE RegistryAssumption
<1>1. CASE UNCHANGED vars
  BY <1>1 DEF vars, Expectation
<1>2. CASE Environment
  <2>1. phase = "reviving" /\ UNCHANGED <<store, todo>>
    BY <1>2, EnvironmentFrame
  <2>2. s \in expected /\ \A p \in Pids : occupant[p] = s => occupant'[p] = s
    BY <1>2 DEF Environment, Launch, OpenElsewhere, Exit, Reap, Reuse, LoseRequest,
       PauseLands, ResumeLands, LoseCall, Close, TypeOK, os, history
  <2> QED
    BY <2>1, <2>2 DEF Expectation
<1>3. CASE ListReplies
  <2>1. s \in Sessions \ Remote /\ IsOpen(s)
    BY <1>3 DEF ListReplies
  <2>2. PICK p \in Pids : occupant[p] = s
    BY <1>3 DEF ListReplies
  <2>3. row[s].pid = p
    BY <2>1, <2>2 DEF OnePid, Linked, Bound
  <2>4. todo'[s] = p
    BY <1>3, <2>1, <2>3 DEF ListReplies, Mine
  <2> QED
    BY <1>3, <2>2, <2>4 DEF ListReplies, os
<1>4. ASSUME phase = "reviving", s \in expected
      PROVE  s \in Sessions /\ \E p \in Pids : Reach(p)
  BY <1>4 DEF Expectation, TypeOK
<1>5. ASSUME NEW t \in Sessions, ReviveRow(t)
      PROVE  \E p \in Pids : occupant'[p] = s /\ (store'[s] = p \/ todo'[s] = p)
  <2>1. phase = "reviving" /\ s \in expected /\ UNCHANGED occupant
    BY <1>5 DEF ReviveRow, os
  <2>2. PICK p \in Pids : Reach(p)
    BY <1>4, <2>1
  <2>3. s \in Sessions
    BY <1>4, <2>1
  <2>4. CASE t = s
    <3>1. todo[s] = p
      BY <1>5, <2>1, <2>2, <2>4 DEF ReviveRow, TodoUntracked
    <3>2. PidAlive(todo[t])
      BY <2>2, <2>3, <2>4, <3>1 DEF PidAlive
    <3>3. store'[s] = p
      BY <1>5, <2>4, <3>1, <3>2 DEF ReviveRow, StartWatching, TypeOK, PidMap
    <3> QED
      BY <2>1, <2>2, <3>3
  <2>5. CASE t # s
    <3>1. todo'[s] = todo[s]
      BY <1>5, <2>3, <2>5 DEF ReviveRow, NextRow, TypeOK, PidMap
    <3>2. store'[s] = store[s]
      BY <1>5, <2>3, <2>5 DEF ReviveRow, StartWatching, TypeOK, PidMap
    <3> QED
      BY <2>1, <2>2, <3>1, <3>2
  <2> QED
    BY <2>4, <2>5
<1>6. ASSUME NEW t \in Sessions, NEW q \in Pids, PollFindsDead(t, q)
      PROVE  \E p \in Pids : occupant'[p] = s /\ (store'[s] = p \/ todo'[s] = p)
  <2>1. phase = "reviving" /\ s \in expected /\ UNCHANGED <<occupant, todo>>
    BY <1>6 DEF PollFindsDead, os
  <2>2. PICK p \in Pids : Reach(p)
    BY <1>4, <2>1
  <2>3. t # s
    BY <1>6, <2>2, PollOnlyDead
  <2>4. store'[s] = store[s]
    BY <1>4, <1>6, <2>1, <2>3 DEF PollFindsDead, TypeOK, PidMap
  <2> QED
    BY <2>1, <2>2, <2>4
<1> QED
  BY <1>1, <1>2, <1>3, <1>5, <1>6 DEF Next, Daemon, Boot, SkipReconcile, Serve,
     ReviveFromMirror, Adopt, Signal, SignalIdle, ShutdownDone, Crash, Gone

-----------------------------------------------------------------------------
IInv == /\ TypeOK /\ TimersMatchStore /\ OwnDeviceOnly /\ MirrorCovers
        /\ TodoUntracked /\ RemoteUntouched /\ OnePid /\ Expectation

LEMMA IInvInit == Init => IInv
<1> SUFFICES ASSUME Init PROVE IInv
  OBVIOUS
<1> USE RegistryAssumption DEF Init, Empty
<1>1. TypeOK
  BY TypeInit
<1>2. TimersMatchStore /\ MirrorCovers
  BY DEF TimersMatchStore, MirrorCovers, Watched, Tracked
<1>3. OwnDeviceOnly /\ RemoteUntouched
  BY DEF OwnDeviceOnly, RemoteUntouched
<1>4. TodoUntracked /\ Expectation
  BY DEF TodoUntracked, Expectation
<1>5. OnePid
  BY DEF OnePid, Linked
<1> QED
  BY <1>1, <1>2, <1>3, <1>4, <1>5 DEF IInv

LEMMA IInvStep == IInv /\ [Next]_vars => IInv'
  BY TypeStep, TimersStep, OwnDeviceStep, MirrorStep, TodoUntrackedStep, OnePidStep,
     ExpectationStep DEF IInv

LEMMA IInvAlways == Spec => []IInv
  BY IInvInit, IInvStep, PTL DEF Spec

(* No timer outlives its entry or the process, and except while a shutdown *)
(* is awaited every tracked session is watched (adoptPid, onExit, shutdown).*)
THEOREM TimersCorrect == Spec => []TimersMatchStore
<1>1. IInv => TimersMatchStore
  BY DEF IInv
<1> QED
  BY <1>1, IInvAlways, PTL

(* The pid of another machine is never taken for a local one: the device   *)
(* filter of reconcileOnStartup is enough, on every path that fills the Map.*)
THEOREM OwnDeviceCorrect == Spec => []OwnDeviceOnly
<1>1. IInv => OwnDeviceOnly
  BY DEF IInv
<1> QED
  BY <1>1, IInvAlways, PTL

(* While the disk accepts writes the mirror knows every tracked session, so *)
(* a crash at any step loses none of them (persistStore).                  *)
THEOREM MirrorCorrect == Spec => []MirrorCovers
<1>1. IInv => MirrorCovers
  BY DEF IInv
<1> QED
  BY <1>1, IInvAlways, PTL

(* Outside a shutdown a pause is only ever issued for a session none of    *)
(* whose processes runs (onExit of adoptPid).                              *)
THEOREM PauseCorrect == Spec => PauseOnlyWhenGone
<1> DEFINE Step == \A s \in Sessions :
                       pauses'[s] > pauses[s] /\ phase' # "stopping"
                           => \A p \in Pids : occupant[p] # s
<1>1. IInv /\ [Next]_vars => [Step]_vars
  <2> SUFFICES ASSUME IInv, Next, NEW s \in Sessions,
                      pauses'[s] > pauses[s], phase' # "stopping"
               PROVE  \A p \in Pids : occupant[p] # s
    OBVIOUS
  <2> USE DEF IInv, calls
  <2>1. pauses \in [Sessions -> Nat]
    BY DEF TypeOK
  <2>2. ASSUME NEW t \in Sessions, NEW q \in Pids, PollFindsDead(t, q)
        PROVE  \A p \in Pids : occupant[p] # s
    <3>1. t = s
      BY <2>1, <2>2 DEF PollFindsDead
    <3> QED
      BY <2>2, <3>1, PollOnlyDead
  <2>3. ~Environment
    BY <2>1 DEF Environment, Launch, OpenElsewhere, Exit, Reap, Reuse, LoseRequest,
       PauseLands, ResumeLands, LoseCall, Close
  <2>4. ASSUME NEW t \in Sessions
        PROVE  ~ReviveRow(t) /\ \A q \in Pids : ~Adopt(t, q)
    BY <2>1 DEF ReviveRow, Adopt
  <2>5. ~(Boot \/ ListReplies \/ SkipReconcile \/ ReviveFromMirror \/ Serve)
    BY <2>1 DEF Boot, ListReplies, SkipReconcile, ReviveFromMirror, Serve
  <2>6. ~(Signal \/ SignalIdle \/ ShutdownDone \/ Crash)
    BY <2>1 DEF Signal, SignalIdle, ShutdownDone, Crash, Gone
  <2> QED
    BY <2>2, <2>3, <2>4, <2>5, <2>6 DEF Next, Daemon
<1> QED
  BY <1>1, IInvAlways, PTL DEF Spec, PauseOnlyWhenGone

(* Reconcile brings back every session it should (reconcileOnStartup).     *)
THEOREM ReviveCorrect == Spec => ReviveComplete
<1> DEFINE Step == Serve => \A s \in expected : Tracked(s)
<1>1. IInv /\ [Next]_vars => [Step]_vars
  <2> SUFFICES ASSUME IInv, Serve, NEW s \in expected
               PROVE  Tracked(s)
    OBVIOUS
  <2>1. PICK p \in Pids : store[s] = p \/ todo[s] = p
    BY DEF IInv, Expectation, Serve
  <2>2. todo[s] = NoPid
    BY DEF Serve, Empty, IInv, TypeOK
  <2> QED
    BY <2>1, <2>2, RegistryAssumption DEF Tracked
<1> QED
  BY <1>1, IInvAlways, PTL DEF Spec, ReviveComplete
=============================================================================
