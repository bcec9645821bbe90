--------------------------- MODULE SessionRegistry ---------------------------
(***************************************************************************)
(* The daemon's session pid registry (runtime/src/routes/sessions.ts with  *)
(* lib/pid-watcher.ts and lib/session-store.ts): adopt, watch, pause,      *)
(* reconcile on startup, shut down.  "Revive on return": the daemon only   *)
(* pauses and resumes rows of the backend, it never closes one.            *)
(*                                                                         *)
(* One action is one run of the JavaScript event loop: the code between    *)
(* two awaits is atomic.  A backend call is issued in one step and takes   *)
(* effect in a later one, in any order, or never (backend-mcp-client.ts    *)
(* resolves every failure to undefined and nobody retries).                *)
(***************************************************************************)
EXTENDS Naturals, Sequences, FiniteSets

CONSTANTS
    Sessions,      \* session ids the backend may hand out
    Remote,        \* those opened on another device of the same owner
    Pids,          \* pid numbers of this machine
    NoPid,         \* "no pid": null in a row, no entry in the Map or the file
    DiskFaults,    \* writing the mirror may fail (it never throws)
    MaxBoots,      \* bound: daemon starts
    MaxLaunches,   \* bound: claude launches
    MaxSignals     \* bound: SIGTERM/SIGINT per daemon life

ASSUME RegistryAssumption ==
    /\ Remote \subseteq Sessions
    /\ NoPid \notin Pids
    /\ Sessions \cap {"free", "zombie", "foreign"} = {}
    /\ DiskFaults \in BOOLEAN
    /\ MaxBoots \in Nat /\ MaxLaunches \in Nat /\ MaxSignals \in Nat

VARIABLES
    occupant,   \* OS: each pid is "free", a "zombie", "foreign" or a session's
    row,        \* backend: status and pid of each session
    pauses,     \* fos_session pause calls in flight, per session
    resumes,    \* fos_session resume calls in flight, per session
    requests,   \* POST /sessions/adopt requests in flight
    mirror,     \* hivemind-runtime-sessions.json: pid of each session on disk
    phase,      \* where the daemon is in server.ts
    store,      \* sessionStore: pid of each tracked session
    watchers,   \* running pid-watcher intervals, as <<session, pid>>
    beats,      \* sessions with a running heartbeat interval
    todo,       \* rows reconcileOnStartup still has to look at
    stops,      \* shutdownSessions calls awaiting, each with its alive entries
    boots, launches,
    notified,   \* history: sessions paused since this daemon adopted them
    expected    \* history: sessions running since the list_active reply

os      == <<occupant, launches>>
calls   == <<pauses, resumes>>
timers  == <<watchers, beats>>
history == <<notified, expected>>
vars    == <<occupant, row, pauses, resumes, requests, mirror, phase, store,
             watchers, beats, todo, stops, boots, launches, notified, expected>>

-----------------------------------------------------------------------------
MaybePid == Pids \cup {NoPid}
PidMap   == [Sessions -> MaybePid]
Empty    == [s \in Sessions |-> NoPid]
Status   == {"none", "active", "paused", "closed"}
Phase    == {"down", "listing", "reviving", "serving", "stopping"}

TypeOK ==
    /\ occupant \in [Pids -> Sessions \cup {"free", "zombie", "foreign"}]
    /\ row \in [Sessions -> [status : Status, pid : MaybePid]]
    /\ pauses \in [Sessions -> Nat]
    /\ resumes \in [Sessions -> Nat]
    /\ requests \subseteq Sessions \X Pids
    /\ mirror \in PidMap
    /\ phase \in Phase
    /\ store \in PidMap
    /\ watchers \subseteq Sessions \X Pids
    /\ beats \subseteq Sessions
    /\ todo \in PidMap
    /\ stops \in Seq(PidMap)
    /\ boots \in Nat /\ launches \in Nat
    /\ notified \subseteq Sessions
    /\ expected \subseteq Sessions

\* Mutant of PidAlive: no zombie check.
PidAliveByKill(p) == occupant[p] # "free"

\* pidAlive: kill(pid, 0) answers for any process at that number, an unrelated
\* one (EPERM) included; a zombie is told apart by /proc/<pid>/stat.
PidAlive(p) == occupant[p] \notin {"free", "zombie"}

Tracked(s) == store[s] # NoPid
Watched(s) == \E p \in Pids : <<s, p>> \in watchers
IsOpen(s)  == row[s].status \in {"active", "paused"}

\* persist: atomic (tmp + rename); a failure keeps the previous file.
Persist(content) ==
    \/ mirror' = content
    \/ DiskFaults /\ mirror' = mirror

Init ==
    /\ occupant = [p \in Pids |-> "free"]
    /\ row = [s \in Sessions |-> [status |-> "none", pid |-> NoPid]]
    /\ pauses = [s \in Sessions |-> 0]
    /\ resumes = [s \in Sessions |-> 0]
    /\ requests = {}
    /\ mirror = Empty
    /\ phase = "down"
    /\ store = Empty
    /\ watchers = {} /\ beats = {}
    /\ todo = Empty
    /\ stops = <<>>
    /\ boots = 0 /\ launches = 0
    /\ notified = {} /\ expected = {}

-----------------------------------------------------------------------------
(* The environment: launcher, operating system, backend.                   *)

\* cmd_open: fos_session open answers with a fresh session, or reconnects the
\* open row already recorded for this very pid; the launcher then posts the
\* adopt request and execs claude under the same pid.
Launch(s, p) ==
    /\ launches < MaxLaunches
    /\ occupant[p] = "free"
    /\ s \notin Remote
    /\ \/ row[s].status = "none"
       \/ IsOpen(s) /\ row[s].pid = p
    /\ occupant' = [occupant EXCEPT ![p] = s]
    /\ row' = [row EXCEPT ![s] = [status |-> "active", pid |-> p]]
    /\ requests' = requests \cup {<<s, p>>}
    /\ launches' = launches + 1
    /\ UNCHANGED <<calls, mirror, phase, store, timers, todo, stops, boots, history>>

\* Another client of the same owner: another machine (its pid means nothing
\* here), or a local client that opens a session without a pid.
OpenElsewhere(s, p) ==
    /\ row[s].status = "none"
    /\ p = NoPid \/ s \in Remote
    /\ row' = [row EXCEPT ![s] = [status |-> "active", pid |-> p]]
    /\ UNCHANGED <<os, calls, requests, mirror, phase, store, timers, todo, stops,
                   boots, history>>

\* The process at p ends (claude closed, crashed or killed); its parent reaps it
\* now, later (Reap) or never.
Exit(p) ==
    /\ occupant[p] \notin {"free", "zombie"}
    /\ \E end \in {"free", "zombie"} : occupant' = [occupant EXCEPT ![p] = end]
    /\ expected' = expected \ {occupant[p]}
    /\ UNCHANGED <<row, calls, requests, mirror, phase, store, timers, todo, stops,
                   boots, launches, notified>>

Reap(p) ==
    /\ occupant[p] = "zombie"
    /\ occupant' = [occupant EXCEPT ![p] = "free"]
    /\ UNCHANGED <<row, calls, requests, mirror, phase, store, timers, todo, stops,
                   boots, launches, history>>

\* The system hands a free pid number to an unrelated process.
Reuse(p) ==
    /\ occupant[p] = "free"
    /\ occupant' = [occupant EXCEPT ![p] = "foreign"]
    /\ UNCHANGED <<row, calls, requests, mirror, phase, store, timers, todo, stops,
                   boots, launches, history>>

\* The adopt request fails: refused, or past curl's --max-time.
LoseRequest(r) ==
    /\ r \in requests
    /\ requests' = requests \ {r}
    /\ UNCHANGED <<os, row, calls, mirror, phase, store, timers, todo, stops, boots,
                   history>>

\* A pause or a resume reaches the backend ("idempotent"); a row that is not
\* open is left alone.
SetStatus(s, st) ==
    row' = [row EXCEPT ![s].status = IF IsOpen(s) THEN st ELSE @]

PauseLands(s) ==
    /\ pauses[s] > 0
    /\ pauses' = [pauses EXCEPT ![s] = @ - 1]
    /\ SetStatus(s, "paused")
    /\ UNCHANGED <<os, resumes, requests, mirror, phase, store, timers, todo, stops,
                   boots, history>>

ResumeLands(s) ==
    /\ resumes[s] > 0
    /\ resumes' = [resumes EXCEPT ![s] = @ - 1]
    /\ SetStatus(s, "active")
    /\ UNCHANGED <<os, pauses, requests, mirror, phase, store, timers, todo, stops,
                   boots, history>>

\* A call is lost: not enrolled, network, tool error, 8 s timeout.
LoseCall(s) ==
    /\ \/ pauses[s] > 0 /\ pauses' = [pauses EXCEPT ![s] = @ - 1] /\ UNCHANGED resumes
       \/ resumes[s] > 0 /\ resumes' = [resumes EXCEPT ![s] = @ - 1] /\ UNCHANGED pauses
    /\ UNCHANGED <<os, row, requests, mirror, phase, store, timers, todo, stops,
                   boots, history>>

\* The backend closes a row: /end-session, or its watchdog.
Close(s) ==
    /\ IsOpen(s)
    /\ row' = [row EXCEPT ![s].status = "closed"]
    /\ UNCHANGED <<os, calls, requests, mirror, phase, store, timers, todo, stops,
                   boots, history>>

-----------------------------------------------------------------------------
(* The daemon.                                                             *)

\* Mutants of StartWatching: heartbeats kept per pid; the mirror written before
\* the entry has its pid.
StartWatchingBeatPerPid(s, p) ==
    /\ store' = [store EXCEPT ![s] = p]
    /\ Persist(store')
    /\ beats' = beats \cup {p}
    /\ watchers' = watchers \cup {<<s, p>>}
    /\ notified' = notified \ {s}

StartWatchingPersistFirst(s, p) ==
    /\ Persist(store)
    /\ store' = [store EXCEPT ![s] = p]
    /\ beats' = beats \cup {s}
    /\ watchers' = watchers \cup {<<s, p>>}
    /\ notified' = notified \ {s}

\* adoptPid of an entry that has no watcher yet: pid, mirror, heartbeat, watcher.
StartWatching(s, p) ==
    /\ store' = [store EXCEPT ![s] = p]
    /\ Persist(store')
    /\ beats' = beats \cup {s}
    /\ watchers' = watchers \cup {<<s, p>>}
    /\ notified' = notified \ {s}

\* server.ts starts and reconcileOnStartup calls list_active.
Boot ==
    /\ phase = "down" /\ boots < MaxBoots
    /\ phase' = "listing"
    /\ boots' = boots + 1
    /\ UNCHANGED <<os, row, calls, requests, mirror, store, timers, todo, stops, history>>

\* Mutants of Mine: no device filter; paused rows left out.
MineAnyDevice == [s \in Sessions |-> IF IsOpen(s) THEN row[s].pid ELSE NoPid]

MineActiveOnly == [s \in Sessions |->
    IF s \notin Remote /\ row[s].status = "active" THEN row[s].pid ELSE NoPid]

\* Rows reconcileOnStartup goes through: those of this device with a pid.
Mine == [s \in Sessions |->
            IF s \notin Remote /\ IsOpen(s) THEN row[s].pid ELSE NoPid]

\* The list_active reply arrives.
ListReplies ==
    /\ phase = "listing"
    /\ phase' = "reviving"
    /\ todo' = Mine
    /\ expected' = {s \in Sessions \ Remote : IsOpen(s) /\ \E p \in Pids : occupant[p] = s}
    /\ UNCHANGED <<os, row, calls, requests, mirror, store, timers, stops, boots, notified>>

\* It arrives in a daemon without HIVEMIND_DEVICE_ID (not started by the
\* launcher): there is nothing to filter by and reconcile is skipped.
SkipReconcile ==
    /\ phase = "listing"
    /\ phase' = "serving"
    /\ UNCHANGED <<os, row, calls, requests, mirror, store, timers, todo, stops, boots,
                   history>>

\* Mutant of NextRow: a row whose pid is dead is tried again.
NextRowRetriesDead(s) ==
    todo' = [todo EXCEPT ![s] = IF PidAlive(@) THEN NoPid ELSE @]

NextRow(s) == todo' = [todo EXCEPT ![s] = NoPid]

\* One row: a live pid is re-adopted under a new entry and resumed, a dead one
\* is left to the watchdog.  The resume is awaited before the next row.
ReviveRow(s) ==
    /\ phase = "reviving" /\ todo[s] # NoPid
    /\ NextRow(s)
    /\ IF PidAlive(todo[s])
       THEN /\ StartWatching(s, todo[s])
            /\ resumes' = [resumes EXCEPT ![s] = @ + 1]
       ELSE UNCHANGED <<store, mirror, timers, notified, resumes>>
    /\ UNCHANGED <<os, row, pauses, requests, phase, stops, boots, expected>>

\* reconcileOnStartup returns and Bun.serve opens the routes.
Serve ==
    /\ phase = "reviving" /\ todo = Empty
    /\ phase' = "serving"
    /\ UNCHANGED <<os, row, calls, requests, mirror, store, timers, todo, stops,
                   boots, history>>

\* list_active failed: the same for every live entry of the mirror, without an
\* await in between.  Each adoption rewrites the file, so with disk faults it
\* may end up with part of the entries; with no live entry it is not written.
ReviveFromMirror ==
    /\ phase = "listing"
    /\ phase' = "serving"
    /\ LET live == {s \in Sessions : mirror[s] # NoPid /\ PidAlive(mirror[s])}
           Only(S) == [s \in Sessions |-> IF s \in S THEN mirror[s] ELSE NoPid]
       IN /\ store' = Only(live)
          /\ watchers' = {<<s, mirror[s]>> : s \in live}
          /\ beats' = live
          /\ notified' = notified \ live
          /\ resumes' = [s \in Sessions |-> resumes[s] + IF s \in live THEN 1 ELSE 0]
          /\ \E kept \in SUBSET live :
                /\ kept = live \/ DiskFaults
                /\ mirror' = IF kept = {} THEN mirror ELSE Only(kept)
    /\ UNCHANGED <<os, row, pauses, requests, todo, stops, boots, expected>>

\* POST /sessions/adopt: the routes stay open while a shutdown is awaited.
\* An entry already watched is left as it is.
Adopt(s, p) ==
    /\ phase \in {"serving", "stopping"}
    /\ <<s, p>> \in requests
    /\ requests' = requests \ {<<s, p>>}
    /\ IF Watched(s)
       THEN UNCHANGED <<store, mirror, timers, notified>>
       ELSE StartWatching(s, p)
    /\ UNCHANGED <<os, row, calls, phase, todo, stops, boots, expected>>

\* Mutant of StopHeartbeat: onExit forgets the interval.
StopHeartbeatForgotten(s) == beats' = beats

StopHeartbeat(s) == beats' = beats \ {s}

\* Mutant of PollFindsDead: onExit on every tick, whatever pidAlive says.
PollFiresAlways(s, p) ==
    /\ phase # "down"
    /\ <<s, p>> \in watchers
    /\ watchers' = watchers \ {<<s, p>>}
    /\ StopHeartbeat(s)
    /\ store' = [store EXCEPT ![s] = NoPid]
    /\ Persist(store')
    /\ pauses' = [pauses EXCEPT ![s] = @ + 1]
    /\ notified' = notified \cup {s}
    /\ UNCHANGED <<os, row, resumes, requests, phase, todo, stops, boots, expected>>

\* The 2 s poll of a pid-watcher finds the pid gone: onExit.
PollFindsDead(s, p) ==
    /\ phase # "down"
    /\ <<s, p>> \in watchers
    /\ ~PidAlive(p)
    /\ watchers' = watchers \ {<<s, p>>}
    /\ StopHeartbeat(s)
    /\ store' = [store EXCEPT ![s] = NoPid]
    /\ Persist(store')
    /\ pauses' = [pauses EXCEPT ![s] = @ + 1]
    /\ notified' = notified \cup {s}
    /\ UNCHANGED <<os, row, resumes, requests, phase, todo, stops, boots, expected>>

\* SIGTERM/SIGINT (the handlers are installed after reconcile): stop every
\* timer, pause the entries whose pid is alive, await the calls.
AliveEntries == [s \in Sessions |->
                    IF Tracked(s) /\ PidAlive(store[s]) THEN store[s] ELSE NoPid]

Signal ==
    /\ phase \in {"serving", "stopping"} /\ Len(stops) < MaxSignals
    /\ store # Empty
    /\ phase' = "stopping"
    /\ watchers' = {} /\ beats' = {}
    /\ pauses' = [s \in Sessions |-> pauses[s] + IF AliveEntries[s] # NoPid THEN 1 ELSE 0]
    /\ notified' = notified \cup {s \in Sessions : AliveEntries[s] # NoPid}
    /\ stops' = Append(stops, AliveEntries)
    /\ UNCHANGED <<os, row, resumes, requests, mirror, store, todo, boots, expected>>

\* The process is gone: the Map, the timers and the awaits with it.
Gone ==
    /\ phase' = "down"
    /\ store' = Empty
    /\ watchers' = {} /\ beats' = {}
    /\ todo' = Empty
    /\ stops' = <<>>
    /\ notified' = {} /\ expected' = {}
    /\ UNCHANGED <<os, row, calls, requests, boots>>

\* A signal with nothing tracked: shutdownSessions returns at once, exit(0).
SignalIdle ==
    /\ phase \in {"serving", "stopping"}
    /\ store = Empty
    /\ Gone
    /\ UNCHANGED mirror

\* The calls of one shutdownSessions settled or timed out: persist the entries
\* it paused, clear the Map, exit(0).
ShutdownDone ==
    /\ phase = "stopping"
    /\ \E i \in DOMAIN stops : Persist(stops[i])
    /\ Gone

\* SIGKILL, a crash, or a signal before the handlers are installed.
Crash ==
    /\ phase # "down"
    /\ Gone
    /\ UNCHANGED mirror

-----------------------------------------------------------------------------
Environment ==
    \/ \E s \in Sessions, p \in Pids : Launch(s, p)
    \/ \E s \in Sessions, p \in MaybePid : OpenElsewhere(s, p)
    \/ \E p \in Pids : Exit(p) \/ Reap(p) \/ Reuse(p)
    \/ \E r \in requests : LoseRequest(r)
    \/ \E s \in Sessions : PauseLands(s) \/ ResumeLands(s) \/ LoseCall(s) \/ Close(s)

Daemon ==
    \/ Boot \/ ListReplies \/ SkipReconcile \/ ReviveFromMirror \/ Serve
    \/ \E s \in Sessions : ReviveRow(s)
    \/ \E s \in Sessions, p \in Pids : Adopt(s, p) \/ PollFindsDead(s, p)
    \/ Signal \/ SignalIdle \/ ShutdownDone \/ Crash

Next == Environment \/ Daemon

Spec == Init /\ [][Next]_vars

\* Every callMcpTool settles within 8 s and every interval keeps ticking.
Fairness ==
    /\ WF_vars(ListReplies \/ SkipReconcile \/ ReviveFromMirror)
    /\ WF_vars(Serve \/ \E s \in Sessions : ReviveRow(s))
    /\ WF_vars(ShutdownDone)
    /\ \A s \in Sessions, p \in Pids : WF_vars(PollFindsDead(s, p))

FairSpec == Spec /\ Fairness

-----------------------------------------------------------------------------
(* Properties.                                                             *)

\* sessions.ts keeps an entry, its pid-watcher and its heartbeat together: no
\* timer outlives its entry or watches another pid, nothing survives the
\* process, and except while a shutdown is awaited every entry is watched.
TimersMatchStore ==
    /\ \A w \in watchers : store[w[1]] = w[2]
    /\ beats = {s \in Sessions : Watched(s)}
    /\ phase # "stopping" => \A s \in Sessions : Tracked(s) => Watched(s)
    /\ phase \in {"down", "listing"} => store = Empty

\* A pid number of another machine is never taken for a local one: neither the
\* Map, nor the mirror a degraded boot starts from, names a session of another
\* device (the device_id filter of reconcileOnStartup).
OwnDeviceOnly ==
    \A s \in Remote : store[s] = NoPid /\ mirror[s] = NoPid /\ todo[s] = NoPid

\* Whatever crashes the daemon, the mirror knows every session it tracked, at
\* its current pid, unless the disk refused the write (persistStore).
MirrorCovers ==
    ~DiskFaults => \A s \in Sessions : Tracked(s) => mirror[s] = store[s]

\* Outside a shutdown the daemon issues a pause only for a session whose claude
\* is gone: a live session is never reported as "no local process".
PauseOnlyWhenGone ==
    [][\A s \in Sessions :
          pauses'[s] > pauses[s] /\ phase' # "stopping"
              => \A p \in Pids : occupant[p] # s]_vars

\* Revive on return: when the routes open after a reconcile against the
\* backend, every open session of this device whose claude was running when
\* list_active replied, and still runs, is tracked again.
ReviveComplete ==
    [][Serve => \A s \in expected : Tracked(s)]_vars

\* sessions.ts:274-276 "PAUSE every still-pid-alive tracked session": at the end
\* of a shutdown no tracked live session is left without a pause.
LiveArePaused ==
    [][ShutdownDone =>
          \A s \in Sessions : Tracked(s) /\ PidAlive(store[s]) => s \in notified]_vars

\* A boot never hangs on the backend or on a row: reconcile ends and the routes
\* open, unless the daemon is killed first.
BootEnds == phase = "listing" ~> phase \in {"serving", "down"}

\* A tracked session whose process is gone does not stay tracked, a zombie
\* included, unless an unrelated process took the number over before the poll.
DeadIsDropped ==
    \A s \in Sessions, p \in Pids :
        store[s] = p /\ occupant[p] \in {"free", "zombie"}
            ~> store[s] # p \/ occupant[p] \notin {"free", "zombie"}
=============================================================================
