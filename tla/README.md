# hivemind-runtime: specification and verification

TLA+ models of the HiveMind launcher (`bin/hivemind`) and of its local daemon
(`runtime/src`), checked with TLC and proved with TLAPS. `PROJECT.json` maps
every definition to the lines it models, every property to a mutant of the code
that breaks it, and lists the findings and the hazards.

## 1. The system

`hivemind` is a Bash launcher, one process per command. It starts one daemon
(Bun, `runtime/src/server.ts`) per user, which is an mTLS proxy between local
MCP clients and the HiveMind backend, and the keeper of the local sessions.

| Component | State | Operations | Talks to |
|---|---|---|---|
| Session registry (`routes/sessions.ts`, `lib/pid-watcher.ts`, `lib/session-store.ts`) | `sessionStore` Map; a watcher and a heartbeat interval per entry; a mirror file | `POST /sessions/adopt`, pid gone (`onExit`), `reconcileOnStartup`, `shutdownSessions` | backend (`fos_session` pause, resume, list_active), the process table, the disk |
| Ports and listeners (`lib/mtls-proxy.ts`, `server.ts`, `_install_run` and `_port_map_*` in `bin/hivemind`) | `port-map.json`, clients' config files, the daemon's listeners | `hivemind install`, boot, `POST /internal/proxy/reload`, stop | installers under `flock`, the daemon over HTTP |
| Runtime launcher (`_start_proxy`, `_spawn_runtime`, `_reap_*`, `_setup_mode`, `cmd_stop`, `cmd_restart`) | two pidfiles, the daemon processes, ports 7777 and 7779 | start, stop, restart, reap, enroll | signals, `/healthz`, `/setup/status` |
| Update (`cmd_update`, `_apply_pending_restart`, `_stage_build`, `_maybe_auto_update`) | `$HIVEMIND_HOME`, staged and last-good trees, pending-restart marker, installed binary | update, rollback, deferred restart | launcher, `GET /sessions` |
| Enrollment (`routes/setup.ts`, `_setup_mode`) | nonce, single-flight flag, certs, `.env`, client config | setup page, enroll, the launcher's wait | browser, backend |
| Lifecycle emitter (`lib/lifecycle-emitter.ts`) | bounded queue, draining flag | emit, drain | backend |
| Device id (`_resolve_device_id`, `_regenerate_device_id`, adopt-back) | `~/.engram/device-id` and its cert binding | resolve, regenerate, adopt | certs, backend |
| Uninstall, managed-source migration, autostart, installers, Windows launcher | files and services | one-shot scripts | the file system |
| Request guard, env, health, statusline, skills | none | stateless | - |

### What is hard

- **Interleaving.** The daemon is one event loop: between two `await`s it is
  atomic, across an `await` everything else runs. Launchers are concurrent
  processes that share files, one lock and the daemon.
- **Unreliable calls.** Every backend call is best effort: 8 s, no retry, no
  order. Every launcher-to-daemon call is `curl ... || true`.
- **Crash and restart.** The daemon is killed at any point and restarts from the
  backend's rows or from a mirror file; pids are recycled meanwhile and processes
  linger as zombies.
- **Stale reads.** An install reads before a prompt and commits after it; a
  reload may be lost and the daemon serve an old map.
- **Partial failure.** Binds, disk writes, removals, renames and resets of the clone
  fail one by one, and some are passed over (`|| true`, `|| echo`).

### What makes each component correct

- *Registry*: an entry, its watcher and its heartbeat live and die together; no
  foreign pid is taken for a local one; whatever is tracked can be found again
  after a crash; a live session is not reported gone; a returning daemon revives
  what runs; a dead process is noticed; a boot ends.
- *Ports*: no two clients share a port or a device id; a client never speaks
  under another's identity; a reload disturbs nothing that did not change, and
  converges.
- *Launcher*: whatever earlier commands left behind, a command left alone works
  and keeps one daemon, the one the pidfile names; a recycled pid is never
  killed.
- *Update*: a whole tree is always installed or restorable; the marker is
  present only while last-good is the tree its rollback needs; a version that
  does not come up is undone; what is said to be updated is installed.
- *Enrollment*: a nonce enrolls once; a failed or interrupted enrollment can be
  repeated; what a start takes for enrolled can authenticate.
- *Settings*: what the user added survives every install; what a template stops
  shipping goes.
- *Emitter*: events leave in order, bounded in number and in copies; a daemon
  that stays up empties its queue.

## 2. Modules

### SessionRegistry (done)

`SessionRegistry.tla` is the registry with its environment. One action is one
run of the event loop.

| In the model | In the code |
|---|---|
| `store`, `watchers`, `beats` | `sessionStore`, the live `pidCleanup` and `heartbeatTimer` of its entries |
| `mirror` | `hivemind-runtime-sessions.json`; `Persist` may fail when `DiskFaults` |
| `phase` | where `server.ts` is: `down`, awaiting `list_active`, reviving rows, serving, awaiting a shutdown |
| `todo` | the rows left in the loop of `reconcileOnStartup` |
| `stops` | the `shutdownSessions` calls in progress, each with its `alive` |
| `pauses`, `resumes`, `requests` | calls and adopt requests in flight; they land in any order or are lost |
| `row`, `occupant` | the backend's rows, the process table (a pid is free, a zombie, a session's claude or a foreign process) |
| `notified`, `expected` | history: sessions paused since adopted; sessions running since `list_active` answered |
| `StartWatching` | `adoptPid`: Map, mirror, heartbeat and watcher in one synchronous run |
| `ListReplies` / `SkipReconcile` / `ReviveFromMirror` | the three branches of `reconcileOnStartup` |
| `ReviveRow` | one iteration of its loop, up to the awaited resume |
| `Signal`, `SignalIdle`, `ShutdownDone` | `shutdownSessions` before and after its `await`, then `process.exit(0)`; several may overlap |

Abstracted: slugs and timestamps, the heartbeat call itself, the request
schema, setup-only mode (which has no registry). Boot's call, the reply and the
revival are separate steps because the routes open only after them, and the
signal handlers are installed after the reconcile: until then a signal is
`Crash`.

### TargetPorts (done)

`TargetPorts.tla` is `hivemind install` (several processes) and the listeners.

| In the model | In the code |
|---|---|
| `map` | `port-map.json`, by config path: port, device id, project |
| `config` | the `mcpServers.engram.url` each client's file names |
| `run` | an installer at its prompt (`asking`), past the lock (`writing`), past the config (`reloading`) |
| `shared`, `cfgPort` | `MTLS_PROXY_PORT` in `.env`, and the value the running daemon read |
| `listeners` | the servers of `mtlsServers`: port, pinned device id, pinned project |
| `Commit` / `CommitUnrecorded` | the critical section under `flock`, with a map write that succeeds / fails unnoticed |
| `Boot`, `Synced`, `Reload` | `bindDefaultAndMappedListeners`, `syncMappedListeners`, the reload handler; `bad` are the ports whose bind fails |

Abstracted: device ids are numbers in the order they are minted (uuids never
repeat); the choice of target and scope is the choice of a config path; a
target's other map fields. The reload handler has no `await`, so it is one
action; it is triggered by installers only.

### RuntimeLauncher (done)

`RuntimeLauncher.tla` is the launchers, which share nothing but two pidfiles,
the process table and two ports, and the daemons they start. A function of the
script is the list of its blocking steps (`Reap`, `Launch`, `Setup`, ...); a
launcher is the list of tasks it still has to do, and calling a function puts
its list in front. Every other process runs between two tasks.

| In the model | In the code |
|---|---|
| `proc` | the process under each pid: a daemon at its stage of `server.ts`, another program, or none |
| `proxy` | the daemon that listens on `PROXY_PORT`; `RUNTIME_PORT` belongs to the one in `Answering` |
| `pidfile` | `RUNTIME_PID_FILE`, `SETUP_PID_FILE` |
| `lane[l].target` | the process a launcher has signalled and waits for (`_kill_wait_escalate`, `cmd_stop`) |
| `lane[l].found` | the pids `pgrep` printed and not yet dealt with |
| `lane[l].child` | `$!` of its last spawn |
| `lane[l].quiet` | history: nothing but this command disturbed the daemons since it was given |
| `ReapRecorded`, `ClearPidfile`, `Census`, `ReapOrphan`, `TargetGone`, `Escalate` | `_reap_stale_runtime`, `_reap_orphan_runtimes`, `_kill_wait_escalate` |
| `Probe`, `ProbeProxy`, `Spawn`, `Answered`, `ChildDied`, `ChildTooSlow`, `ProxyUp`, `ProxyDown` | `_start_proxy`, `_spawn_runtime`, `_require_proxy_listening` |
| `SpawnSetup`, `RecordSetup`, `SetupReady`, `SetupDied`, `SetupTooSlow`, `StopSetup`, `SetupInterrupted` | `_setup_mode` and its trap |
| `Strike` | the end of `cmd_stop`, for the setup daemon |
| `Bind`, `Serve`, `Enroll`, `Exit`, `Crash` | the daemon: listeners, `Bun.serve`, enrollment, shutdown |
| `LauncherDies` | SIGKILL or Ctrl-C without a trap; the daemons are detached |

Assumed: `MTLS_PROXY_PORT` is set (`env.template` sets it); no other program
listens on the daemon's two ports; a pid that a launcher has in hand (waits
for, found, spawned) is not given out again within that wait. Abstracted: the
window between fork and exec, zombies, the polling intervals (a wait may end in
a timeout at any time when `Faults` says so), the deferred restart at the
beginning of a start, which belongs to the update.

### LifecycleEmitter and LossyFifo

`LifecycleEmitter.tla` is the queue, the chain of `drainNext` calls (several
could run; that one does is a property) and the calls under way. `LossyFifo.tla`
is what a caller may rely on: a bounded queue whose events leave in order,
acknowledged at most once, or lost. The refinement mapping is `pending <- queue,
accepted <- emitted, delivered <- acked`.

| In the model | In the code |
|---|---|
| `queue`, `flushing`, `attempts` | the fields of `LifecycleEmitter` and of `QueuedEvent` |
| `drain[d]` | a chain of `drainNext`: none, waiting for a timer, or awaiting a call |
| `late`, `copies` | calls given up here that may still arrive; what the backend recorded |
| `Emit`, `Fire`, `Succeed`, `Retry`, `GiveUp` | `emit` with `flush`; `drainNext` up to its await and its three exits |
| `Shutdown` | `daemon_shutdown` and `process.exit(0)` in one run of the event loop |

Events are emitted only at boot and shutdown (`sessions.ts` 245, 267, 294, 326),
so the cap is never near in practice: it is checked as the contract of the
class. At the cap the event in flight is dropped, and the acknowledgement then
removes the next one unsent; `NoneSkipped` says that this needs the cap.

### Enrollment

`Enrollment.tla` is the setup daemon's handler, write by write, with the pages
that post to it, the launchers that spawn, poll and stop its daemon, and the
start that reads what it left. Attempts are numbered; a file holds the number of
the attempt that wrote it, so a key and a certificate match iff their numbers do.

| In the model | In the code |
|---|---|
| `nonce`, `enrolling`, `done` | the variables of `createSetupRouter` |
| `request[t]` | where the `/enroll` of a page stands: awaiting the CA, before one of its writes, before `.claude.json` |
| `key`, `cert`, `ca`, `temps`, `env`, `pins`, `config` | the files under `~/.engram/mtls`, `.env` (with its other keys), `.claude.json` |
| `Submit`, `Refuse`, `Issue`, `WriteTemp` ... `FillEnv`, `Finish`, `Throw` | `POST /enroll` and `handleEnroll` |
| `HasCert`, `Listens`, `Authenticates` | `_has_cert`; `mtlsProxyConfig` and `loadProxyCertMaterial`; the key fits the certificate |
| `Check`, `Reap`, `Spawn`, `Poll`, `GiveUp`, `Died`, `SpawnFails` | `_setup_mode`, its timeouts and its trap |

Between the answer of the CA and the last byte of `.env` the handler has no
`await`: no signal and no other request is served there, only `kill -9` and a
write that throws cut in. `CleanIsWhole` rests on that, and its mutant adds an
`await` before `.env`. What a fault can leave is in the model: a key renamed and
not its certificate (462, 463) next to a complete `.env` of an earlier attempt, so
that `_has_cert` holds and the runtime cannot authenticate; an emptied `.env`
(535), which has lost its update pins.

### SettingsMerge

`SettingsMerge.tla` is `.claude/settings.json` and its template snapshot between
the user, `install.sh` and `hivemind update`. The merge is an operator on
documents that map paths to sets of entries; reading, the two writes and the
truncation before each are steps, and an install may be killed after any.

Abstracted: the order of an array and duplicates in it; a path is an array or a
scalar in every document. Three things the code does by design or by accident
are in the model and outside the properties: a key a template drops whole is never
visited again (98, `KeysKept`); a target torn between its truncation and the
write is taken for empty; an update discards the user's own entries (settings.json
counts as git-managed).

### UpdateSwap and AtomicUpdate

`UpdateSwap.tla` is `cmd_update` and `_apply_pending_restart`. A launcher is the
name of its next step; each may be killed before any step, or in the middle of
a removal or a build, and where the code passes over a step that fails, it may.

| In the model | In the code |
|---|---|
| `upstream`, `source` | `origin/main`, HEAD of the clone |
| `home`, `lastGood`, `staging` | the three trees: a version, torn, or absent |
| `daemon` | the version the running daemon was loaded from |
| `marker` | `hivemind-restart-pending`, its two lines |
| `SkipPending`, `TakePending`, `Clear`, `Apply...` | `_apply_pending_restart` |
| `Fetch`, `Stage`, `Report`, `Stop`, `Drop`, `Park`, `Place`, `Mark`, `Restart`, `Judge` | `cmd_update`, line by line |
| `UndoStop`, `Remove`, `Restore`, `Rewind`, `Relaunch` | the rollback, of either |
| `ResetBack` | `git reset --hard ... \|\| true`, wherever the clone goes back (1035, 2005, 2020, 2084): it may fail, and the clone stays ahead |
| `Fails`, `Missing` | an `rm` or `mv` that fails, or has nothing to rename, and the command goes on: the rollback of a deferred restart (1032-1033), and every step of the update a launch runs, as `( ... cmd_update ) \|\| true` (2142) turns `set -e` off in it |
| `Kill` | SIGKILL, Ctrl-C, and a failing step where `set -e` ends the command |
| `MayBeLive` | `_live_clients_report`: it may say of a running daemon that clients are attached, or that none are |
| `mishaps` | history, see below |

`mishaps` says what has gone wrong so far, so that each property can name its
exceptions: a command was killed (`killed`); a swap was left without its marker
(`unmarked`); an update was run with no whole tree in home (`tornBase`); a reset of
the clone failed (`ahead`); last-good could not be put back (`unrestored`); another
rename or removal failed and was passed over (`failed`). `Ruined` is `tornBase` or
`failed`, after which a rename may move one tree into another; `Calm` is none of
them but `ahead`.

Idealised: a good version always comes up and a bad one never does; health is
whether a daemon answers (`_check_health` at severity 2). Left out: the swap of
the installed binary, the copies of `.claude` and `.env` between the trees, the
throttling of the automatic update. Taken to succeed: the removal of the marker and
of an old staging tree (both `rm -f`, of files of the user's own). Clients
are no part of the state: a probe slower than 2 s counts as "no daemon" (936) and a
client silent for 600 s as gone (927), so a report on a running daemon says live
or quiet at will, and no property claims that an update spares them.

`AtomicUpdate.tla` is what the user may rely on, without trees, clone, marker or
kills: one installed version, replaced in one step by a later published one, put
back at most once and with no daemon running, and a daemon that is started from
nothing else. The refinement mapping (`Installed`, `Previous`) takes the tree that
is missing between the two renames for the last-good one it will be restored
from, so the step at which the new version is installed is `Place`, the second
rename; the one that puts the old version back is `Remove`, the removal of the
failed tree, wherever it is cut short. An update begun on a half-removed tree ends
the promise (`Astray`), and so does one that goes on after a failed step; a last-good
that could not be put back does not.

### MC modules

The modules `MC...` only declare the model values, the constants that are no
model values, and the symmetry sets. Pids, local sessions, installers, launchers,
config paths, pages, tenants, entries and releases are interchangeable: no
definition tells them apart. Runs with a liveness property use no symmetry.

## 3. What TLC checks

| Run | Result | Shows |
|---|---|---|
| `lanes` | pass | Two local sessions, two pid numbers, two daemon lives, two launches: `TypeOK`, `TimersMatchStore`, `MirrorCovers`, `PauseOnlyWhenGone`, `ReviveComplete` |
| `liveness` | pass | A local and a remote session, disk faults, two signals, fair daemon: `OwnDeviceOnly`, `BootEnds`, `DeadIsDropped` |
| `shutdown_live` | violation | finding: a session adopted during the shutdown's await is dropped unpaused |
| `ports` | pass | Two installers, three clients, two ports in the range, one move of the shared port, one failing map write: `TypeOK`, `MapSound`, `RightIdentity`, `ReloadDisturbsOnlyChanged`, `ReloadConverges` |
| `launcher` | pass | Two launchers, three pid numbers, three commands, all faults: `TypeOK`, `QuietWorks`, `QuietOutcome`, `ReapSparesForeign` |
| `launcher_both_fail` | violation | finding: two starts at once can both fail and leave no daemon |
| `emitter` | pass | Four events, room for two, two attempts: `TypeOK`, `OneDrainer`, `CopiesBounded`, `NoneSkipped`, `Empties`, and the refinement `Implements` |
| `enrollment` | pass | Two launchers, two pages, two tenants, three setup daemons, two faults: `TypeOK`, `SingleFlight`, `CertLast`, `GrantedOnce`, `DoneIsWhole`, `CleanIsWhole`, `NoStray` |
| `settings` | pass | Every pair of templates over an array and a scalar, one killed install: `TypeOK`, `UserSurvives`, `Revokes` |
| `settings_revoked` | violation | finding: what an update brought and the next release drops is kept by a re-install |
| `update` | pass | One command at a time, four versions of which two do not come up, kills at every step, failing steps: `TypeOK`, `Restorable`, `MarkerMeans`, `Coherent`, `NeverProxyless`, `UpdatedIsInstalled`, and the refinement `AppliesAtomically` |
| `update_overlap` | violation | finding: an update and a start roll back at once and leave no tree |

Bounds. *Registry*: two pid numbers are enough for a number to be recycled while
another is watched; two daemon lives for a crash, a restart and a reconcile; two
launches for a second lane or a reconnection of the first; two signals for
overlapping shutdowns. Calls in flight are bounded by the launches, boots and
signals. *Ports*: three clients and two ports in the range exhaust it, two
installers race, and three installs allow a race followed by a re-install.
*Launchers*: three commands are a leftover, a race over it and the command that
has to cope; three pid numbers are two daemons of a race and one more, daemon or
foreign, under a recycled number. *Emitter*: four events fill a queue of two twice
over, and two attempts are a retry and a last one. *Enrollment*: three attempts
are one that fails, one that leaves its files and one that replaces them; a
third setup daemon is one after a stray and its successor. *Settings*: two
entries are one of the template and one of the user, two releases a change and
its return. *Update*: four versions are a good one, a bad one undone, a good one
deferred, and a bad one as its successor; one launcher, because with two that
overlap the properties are not true (`update_overlap`, with one bad version), and
two that do not add nothing (section 4). Deadlock checking stays on in every run: the environment can always
go on.

Fairness. Run `liveness`: `callMcpTool` settles every call within 8 s, so
the reply branches of a boot, the loop over its rows and the end of a shutdown
are weakly fair; a running interval ticks every 2 s, so each `PollFindsDead` is
weakly fair. Run `emitter`: timers fire (`Fire`) and, for the same reason, calls
settle (`Settle`, with any outcome). Nothing is assumed of the launcher, the
backend, the operating system or the user. `DeadIsDropped` says nothing once
an unrelated process has taken the number over: the code cannot tell them apart.

Divergences met on the way that no run shows any more, each a plain fact of the
lines named (`PROJECT.json` has them as hazards with a note): a process that
dies just before a SIGTERM is never paused (`sessions.ts:302` against the comment
at 278); an unnoticed failure to write the port map gives two clients one port
(`bin/hivemind:3104`, comment at 3075); a re-install may wire a client to a shared
port moved onto its own (3090, comment at 4116); `stop` signals a recycled pid
through the setup pidfile (1268, unlike 1250); of two starts one records its dead
child when the other's daemon answers (809, comment at 763). And these, of
code that the models have as it is and comments that say otherwise:

- A daemon that needs more than 2 s to answer `/healthz` is reported as "not live"
  whoever is attached (936), and is stopped; the comments say "Anything we cannot
  measure while the runtime is up counts as live" (921-922, likewise 934). The model
  lets the report say so.
- `git reset --hard ... || true` may fail when an update is reverted (2005, 2020, 2084)
  or a deferred one rolled back (1035). The clone is then ahead of the installed tree,
  the next update says "Already up to date" (1983) of a version that is not
  installed, and what it takes for the old version was never installed. `Coherent`
  names this exception (`ahead`).
- The rollback of a deferred restart passes over a failed `rm -rf` and a failed `mv`
  (1032-1033). After the first the `mv` puts last-good inside what is left; after the
  second there may be no tree to start from, and the user is left without a daemon,
  which 1044 admits and "never leaves the user proxy-less" (1003-1004) denies. The
  update of a launch runs with `set -e` off (2142) and may pass over any failed
  rename, and still say "Updated". `NeverProxyless`, `Restorable`, `MarkerMeans`,
  `UpdatedIsInstalled` and the refinement name these exceptions (`served`, `failed`,
  `Ruined`).
- The comments on the reload handler say that it binds only what is new, "never
  touching/rebinding an existing listener" (`server.ts:62-66`, `113-114`, and
  `mtls-proxy.ts:566` refers to `bindNewMappedListeners`). It calls
  `syncMappedListeners`, which stops and rebinds a listener whose entry changed
  project (`mtls-proxy.ts:545-555`), as its own comment says (528-532).
  `ReloadConverges` states what the code does and would be false of what
  `server.ts` says; its mutant is that reading. `PROJECT.json` lists it as the one
  finding of a run that passes.

## 4. What is proved

The modules `...Proofs` hold for every set of sessions, pids, installers,
targets, projects, launchers, pages, tenants, entries, releases and drains and
every value of the bounds, under the named assumptions of the modules
(`RegistryAssumption`, `TargetPortsAssumption`, `NoneIsNothing`,
`LauncherAssumption`, `EmitterAssumption`, `EnrollmentAssumption`,
`SettingsAssumption`, `UpdateAssumption`: bounds are naturals, the null values
are not ordinary ones, the install range fits above every shared port, the cap
and the attempts of the emitter are positive).

**SessionRegistry.** `TypeOK` is inductive by itself. The other results share
the invariant `IInv`, with four parts beyond the checked ones:

- `TodoUntracked`: a row still to be revived is not tracked yet, so reviving it
  cannot leave a second watcher behind;
- `RemoteUntouched`: no request and no shutdown snapshot names a foreign session
  (what can reach the Map or the mirror is of this device);
- `OnePid`: a row of this device that names a pid is the one its process runs
  under, if it runs at all (a launch records the pid and reconnects only under
  it), so a dead watched pid means the session has no process;
- `Expectation`: a session that ran when `list_active` answered and still runs
  is tracked, or still in the rows to go through.

From it follow `TimersCorrect`, `OwnDeviceCorrect`, `MirrorCorrect`, and the
action properties `PauseCorrect` and `ReviveCorrect`.

**TargetPorts.** `TypeCorrect` needs that the allocator returns a port of the
range that no entry has (`AllocateFresh`, from the well-ordering of the
naturals). `EntriesKept` says what a step may do to the map: an entry never
changes its port or device id, and a new one gets a free port and a device id
just minted. With it `MapSound` needs `DevicesMinted`, and `RightIdentity`
follows from what configs, installers and listeners have copied from the map
(`ConfigRight`, `RunRight`, `PinnedRight`). `ReloadCorrect` needs no invariant;
`ReloadConvergence` needs that a listener kept for its project also has the
right device id (`KeptIsRight`).

**RuntimeLauncher.** `TypeCorrect` needs `TargetTask`: a launcher waits for a
process only in a task that kills, so the end of the wait finds a task to go on
with. `ReapSparesCorrect` is about the signals that are sent without asking
again what the pid runs: the SIGKILL of the escalation and the `kill` of a child
that is too slow. They are harmless because of `CleanHands`: the target and the
child of a command in progress never run another program. It holds because a
signal that begins a wait follows the identity check, because a spawned child is
a daemon, and because a number in hand is not given out again, an assumption
about the operating system that the proof makes visible. `IInv` is `TypeOK`,
`TargetTask` and `CleanHands`.

`QuietWorksCorrect` and `QuietOutcomeCorrect` are about a command that has the
machine to itself, after any history. Its list of tasks is data, so the
invariant first says which lists it can have: `Follows` is the order of the
tasks, and a list in that order never comes to `failed` (`Ordered`,
`OrderedConcat` for the lists put in front of it). `Reached` says what each task
finds: the list of the census holds every daemon; once the orphans are reaped
there is none; from then on its own child is the only one, is on its way up, takes
the proxy port when it loads (`ProxyOwned`: nobody else can have it) and is the
one the pidfile names. `Alone` says that the other launchers rest. The invariant
`QInv` was checked by TLC on the instance of the run `launcher` before the proof.

**LifecycleEmitter.** The invariant relates the event a drain has in its call
to the queue: it is the head, or older than the head when the cap has dropped
it since; the queue holds consecutive numbers up to the last event emitted; what
is acknowledged is older than all that waits; and the attempts counted bound the
calls made. From it follow `OneDrainer`, `CopiesBounded` and, with a step lemma
for each action, `Implementation`: every step is one of `LossyFifo` or a stutter.
`NoneSkippedCorrect` needs that no event has been dropped while no more than `Cap` have
been emitted.

**Enrollment.** `IInv` adds to the checked properties: a request under way means a
setup daemon that is not done, with its flag up (`Flight`); what each place of the
handler has already written (`Progress`); `.env` and every file name an attempt
that was issued to that tenant (`Named`); what a session may have granted
(`Session`); the session of a daemon has begun (`Started`). `CleanIsWhole`
needs an invariant of its own (`Clean`): without a fault, key and certificate of a
tenant differ only while the handler is between its two renames.

**SettingsMerge.** `UserSurvives` needs that nothing the snapshot lists is the
user's own, also for the snapshot an install is about to write. `Revokes` needs
that what is foreign is of the file's template or in the snapshot, with `drift`
as the exception the finding shows.

**UpdateSwap.** Every theorem holds for any number of launchers, `TypeCorrect`
whatever they do at once. `RestorableCorrect` holds if their swaps do
not overlap (`Spec /\ []OneSwap`): of two commands, one is at rest or is a start that
has nothing to apply. That is what one lock around `update` and an applied restart
would ensure; the code has none, and `update_overlap` is what it costs. It needs
that a step keeps what the other commands know of the trees (`AnchoredNext`, by
`StepLane` and `IdleStep`), and that what takes the place of a moved tree is whole
(`Placed`, `Housed`). The lock would have to cover the starts too for the
properties that speak of the daemon: a start between the `stop` of an update and
its renames brings the old version up again, which the update then takes for the
new one, even for one that does not come up.

So the other results take commands that do not overlap (`Spec /\ []OneCommand`: of
two launchers one is at rest; `MarkerMeans` and `Coherent` also that there is a
launcher), which is what the user owes the program. The runs check them with one
launcher, the proofs for any number. The invariants go step by
step through a command: which tree is whole at each step
(`Whole`), whether the daemon that was there is still due (`Served`), what the
marker refers to (`Marks`), how far clone, tree and daemon have moved
(`Agrees`) and, for `UpdatedCorrect`, what becomes of the staged version (`Told`).
Each has its own exceptions among the `mishaps`: `Agrees` allows a clone that is ahead
and no other mishap, `Told` excepts only failed steps, so it holds across kills, torn
trees and lost markers; the lemmas `MissedStep` and `FailedStep` are what a
step that is passed over leaves. They speak of trees, marker and daemon that all share, and hold
of a launcher while the others are at rest (`Turn`): who has the turn after a step
took the step, or has it from the one that did and both are at rest (`TurnStep`).

`Implementation` maps each step to one of `AtomicUpdate` or to a stutter
(`CommandMaps`, `EnvironmentMaps`). That an upgrade goes forward needs `Climbs`: no
tree is newer than the clone, last-good is no newer than the version a rollback
would go back to, wherever earlier commands were killed, and what is staged is
newer than both; that an undo has no daemon is its last part.

Only model-checked: the liveness properties `BootEnds`, `DeadIsDropped` and
`Empties` (fairness and `ENABLED` are out of the prover's reach); the findings.

## 5. Plan

Done: `SessionRegistry`, `TargetPorts`, `RuntimeLauncher`, `LifecycleEmitter`
refining `LossyFifo`, `Enrollment`, `SettingsMerge`, `UpdateSwap` refining
`AtomicUpdate`, with their proofs. Left, in this order:

1. `ReviveOnReturn`: the abstract promise of the registry (a row is paused and
   resumed by the daemon and closed only by the backend), refined by
   `SessionRegistry` with a mapping of `row`, and the refinement proved.
2. `UpdateSwap` with the installed binary and the carry-forward of `.env`, and the
   largest set of overlapping commands for which its properties hold.
3. Device-id binding, uninstall, managed-source migration; the Windows launcher
   compared with the Bash one.

## 6. Not modelled

Listed in `PROJECT.json` under components with the reason: what the plan has
left, stateless code (request guard, health), rendering (statusline, skills, the
setup page), interactive selection (picker), header filtering and streaming of
the proxy, and provisioning scripts.
