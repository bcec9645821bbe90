--------------------------- MODULE RuntimeLauncher ---------------------------
(***************************************************************************)
(* Starting, stopping and enrolling the daemon (bin/hivemind: start, stop, *)
(* restart, the enrollment of a first run).  Launchers are concurrent Bash *)
(* processes with no lock between them; what they share is two pidfiles,   *)
(* the process table and two ports.                                        *)
(*                                                                         *)
(* A launcher is the list of tasks it still has to do: a function of the   *)
(* script is the list of its blocking steps, and calling one puts its list *)
(* in front.  Between two tasks every other process runs.                  *)
(***************************************************************************)
EXTENDS Naturals, Sequences, FiniteSets

CONSTANTS
    Launchers,    \* terminals that run hivemind
    Pids,         \* pid numbers
    NoPid,        \* an empty or absent pidfile, a free port, nothing to wait for
    Faults,       \* what may go wrong, a set of FaultKinds
    MaxCommands   \* bound: commands in all

\* A daemon crashes; a wait for a daemon or for an enrollment times out; the
\* certificate is missing at first, or moved away to enroll again.
FaultKinds == {"crash", "timeout", "uncertified"}

ASSUME LauncherAssumption ==
    NoPid \notin Pids /\ Faults \subseteq FaultKinds /\ MaxCommands \in Nat

VARIABLES
    proc,       \* what runs under each pid number, see ProcStates
    proxy,      \* the process that listens on PROXY_PORT
    pidfile,    \* RUNTIME_PID_FILE and SETUP_PID_FILE
    enrolled,   \* a certificate is installed
    lane,       \* what each launcher still has to do
    commands    \* commands given so far

daemons == <<proc, proxy>>
vars    == <<proc, proxy, pidfile, enrolled, lane, commands>>

-----------------------------------------------------------------------------
(* Processes.  A runtime binds the proxy port while it is loading, then    *)
(* reconciles, then takes RUNTIME_PORT; one started with --setup-only only *)
(* takes RUNTIME_PORT.  Signal handlers come with RUNTIME_PORT.            *)

Answering  == {"serving", "setupServing", "setupDone", "stopping"}
Starting   == {"loading", "reconciling", "setupLoading"}
ProcStates == {"free", "foreign"} \cup Starting \cup Answering

MaybePid == Pids \cup {NoPid}
Files    == {"runtime", "setup"}
Tasks    == Files \cup {"census", "orphans", "probe", "probeProxy", "spawn", "await",
                        "awaitAgain", "require", "strike", "spawnSetup", "record",
                        "enrol", "stopSetup", "ok", "enrolledOk", "failed"}

\* todo: its tasks, the current one first; target: the process it has
\* signalled and waits for; found: the orphans of its census; child: the
\* process it spawned; quiet (history): nothing but this command has disturbed
\* the daemons since it was given.
LaneStates == [todo: Seq(Tasks), target: MaybePid, found: SUBSET Pids,
               child: MaybePid, quiet: BOOLEAN]

AtRest == [todo |-> <<>>, target |-> NoPid, found |-> {}, child |-> NoPid, quiet |-> FALSE]

TypeOK ==
    /\ proc \in [Pids -> ProcStates]
    /\ proxy \in MaybePid
    /\ pidfile \in [Files -> MaybePid]
    /\ enrolled \in BOOLEAN
    /\ lane \in [Launchers -> LaneStates]
    /\ commands \in 0..MaxCommands

Init ==
    /\ proc = [p \in Pids |-> "free"]
    /\ proxy = NoPid
    /\ pidfile = [f \in Files |-> NoPid]
    /\ enrolled \in {TRUE} \cup {"uncertified" \notin Faults}
    /\ lane = [l \in Launchers |-> AtRest]
    /\ commands = 0

\* _pid_is_hivemind_runtime: the command line names RUNTIME_BIN, in both modes.
IsRuntime(p) == p \in Pids /\ proc[p] \in Starting \cup Answering

Runtimes == {p \in Pids : IsRuntime(p)}
PortTaken == \E p \in Pids : proc[p] \in Answering
WithoutProxy(p) == IF proxy = p THEN NoPid ELSE proxy

Dies(p) ==
    /\ proc' = [proc EXCEPT ![p] = "free"]
    /\ proxy' = WithoutProxy(p)

\* SIGTERM: a daemon that has its handlers closes its proxy listeners and goes
\* on answering until its sessions are paused; any other process ends at once.
Terminate(p) ==
    /\ proc' = [proc EXCEPT ![p] = IF @ \in Answering THEN "stopping" ELSE "free"]
    /\ proxy' = WithoutProxy(p)

-----------------------------------------------------------------------------
(* The functions of the script as lists of tasks.                          *)

\* Mutant of Reap: only what a pidfile names.
ReapPidfilesOnly == <<"runtime", "setup">>

Reap    == <<"runtime", "setup", "census">>
Launch  == Reap \o <<"spawn", "await", "require", "ok">>
Retry   == Reap \o <<"spawn", "awaitAgain", "require", "ok">>
Start   == <<"probe">>
Stop    == <<"runtime", "strike", "ok">>
Restart == <<"runtime", "strike">> \o Start
Setup   == Reap \o <<"spawnSetup", "record", "enrol", "stopSetup", "enrolledOk">>

Ends == {<<>>, <<"ok">>, <<"enrolledOk">>, <<"failed">>}
Resting(l) == lane[l].todo \in Ends

\* The pid numbers a command in progress has in hand.
InHand == UNION {lane[l].found \cup {lane[l].target, lane[l].child} :
                 l \in {m \in Launchers : ~Resting(m)}}

\* A number is not given out again while a launcher has it in hand.
Available(p) == proc[p] = "free" /\ p \notin InHand

Doing(l, task) ==
    /\ lane[l].todo # <<>> /\ Head(lane[l].todo) = task
    /\ lane[l].target = NoPid

\* The launcher goes on with this list / with its next task.
Continue(l, tasks) == lane' = [lane EXCEPT ![l].todo = tasks]
Next1(l)           == Continue(l, Tail(lane[l].todo))

\* Signal p and wait for it; the task is finished when p is gone.
Await(l, p) ==
    /\ Terminate(p)
    /\ lane' = [lane EXCEPT ![l].target = p]

\* Something else than the command itself has changed what it works on.
Disturbed == [l \in Launchers |-> [lane[l] EXCEPT !.quiet = FALSE]]

-----------------------------------------------------------------------------
(* Commands.                                                               *)

Give(l, tasks) ==
    /\ Resting(l)
    /\ commands < MaxCommands
    /\ commands' = commands + 1
    /\ lane' = [Disturbed EXCEPT ![l] =
                   [AtRest EXCEPT !.todo = tasks,
                                  !.quiet = \A m \in Launchers \ {l} : Resting(m)]]
    /\ UNCHANGED <<daemons, pidfile, enrolled>>

\* cmd_start and the launch of a session enroll first without a certificate.
GiveStart(l)   == Give(l, IF enrolled THEN Start ELSE Setup)
GiveStop(l)    == Give(l, Stop)
GiveRestart(l) == Give(l, Restart)

\* A launcher is killed (Ctrl-C, closed terminal); its daemon is detached.
LauncherDies(l) ==
    /\ ~Resting(l)
    /\ lane' = [lane EXCEPT ![l] = AtRest]
    /\ UNCHANGED <<daemons, pidfile, enrolled, commands>>

\* _setup_interrupted: Ctrl-C with the trap armed.
SetupInterrupted(l) ==
    /\ Doing(l, "record") \/ Doing(l, "enrol")
    /\ Continue(l, <<"stopSetup">>)
    /\ UNCHANGED <<daemons, pidfile, enrolled, commands>>

-----------------------------------------------------------------------------
(* _kill_wait_escalate, _reap_stale_runtime, _reap_orphan_runtimes.        *)

\* Mutant of ReapRecorded: any live process a pidfile names.
ReapRecordedUnasked(l, f) ==
    /\ Doing(l, f)
    /\ pidfile[f] # NoPid /\ proc[pidfile[f]] # "free"
    /\ Await(l, pidfile[f])
    /\ UNCHANGED <<pidfile, enrolled, commands>>

\* A pidfile's process is killed only if it is a daemon of this install.
ReapRecorded(l, f) ==
    /\ Doing(l, f)
    /\ IsRuntime(pidfile[f])
    /\ Await(l, pidfile[f])
    /\ UNCHANGED <<pidfile, enrolled, commands>>

ClearPidfile(l, f) ==
    /\ Doing(l, f)
    /\ ~IsRuntime(pidfile[f])
    /\ pidfile' = [pidfile EXCEPT ![f] = NoPid]
    /\ Next1(l)
    /\ UNCHANGED <<daemons, enrolled, commands>>

\* Mutant of Census: the pidfiles' contents, an empty one included.
CensusOfPidfiles(l) ==
    /\ Doing(l, "census")
    /\ lane' = [lane EXCEPT ![l].todo = <<"orphans">> \o Tail(@),
                            ![l].found = {pidfile[f] : f \in Files}]
    /\ UNCHANGED <<daemons, pidfile, enrolled, commands>>

\* pgrep over the command lines.
Census(l) ==
    /\ Doing(l, "census")
    /\ lane' = [lane EXCEPT ![l].todo = <<"orphans">> \o Tail(@), ![l].found = Runtimes]
    /\ UNCHANGED <<daemons, pidfile, enrolled, commands>>

\* Each candidate is verified again before it is killed.
ReapOrphan(l, p) ==
    /\ Doing(l, "orphans")
    /\ p \in lane[l].found /\ IsRuntime(p)
    /\ Terminate(p)
    /\ lane' = [lane EXCEPT ![l].target = p, ![l].found = @ \ {p}]
    /\ UNCHANGED <<pidfile, enrolled, commands>>

OrphansReaped(l) ==
    /\ Doing(l, "orphans")
    /\ \A p \in lane[l].found : ~IsRuntime(p)
    /\ lane' = [lane EXCEPT ![l].todo = Tail(@), ![l].found = {}]
    /\ UNCHANGED <<daemons, pidfile, enrolled, commands>>

\* The wait ends when the process is gone; a pidfile is removed only then.
TargetGone(l) ==
    /\ lane[l].target # NoPid
    /\ proc[lane[l].target] = "free"
    /\ LET task == Head(lane[l].todo)
           file == IF task = "stopSetup" THEN "setup" ELSE task
       IN  /\ pidfile' = IF file \in Files THEN [pidfile EXCEPT ![file] = NoPid] ELSE pidfile
           /\ lane' = [lane EXCEPT ![l].target = NoPid,
                                   ![l].todo = IF file \in Files THEN Tail(@) ELSE @]
    /\ UNCHANGED <<daemons, enrolled, commands>>

\* SIGKILL after 5 s (10 s in cmd_stop).
Escalate(l) ==
    /\ lane[l].target # NoPid
    /\ proc[lane[l].target] # "free"
    /\ Dies(lane[l].target)
    /\ UNCHANGED <<pidfile, enrolled, lane, commands>>

\* cmd_stop signals a leftover setup daemon without waiting for it, and without
\* asking what the pid runs.
Strike(l) ==
    /\ Doing(l, "strike")
    /\ LET p == pidfile["setup"]
       IN  IF p # NoPid THEN Terminate(p) ELSE UNCHANGED daemons
    /\ pidfile' = [pidfile EXCEPT !["setup"] = NoPid]
    /\ Next1(l)
    /\ UNCHANGED <<enrolled, commands>>

-----------------------------------------------------------------------------
(* _start_proxy, _spawn_runtime, _require_proxy_listening.                 *)

\* /healthz, then the proxy: a runtime that has both is reused.
Probe(l) ==
    /\ Doing(l, "probe")
    /\ Continue(l, IF PortTaken THEN <<"probeProxy">> ELSE Launch)
    /\ UNCHANGED <<daemons, pidfile, enrolled, commands>>

ProbeProxy(l) ==
    /\ Doing(l, "probeProxy")
    /\ Continue(l, IF proxy # NoPid THEN <<"ok">> ELSE Reap \o Launch)
    /\ UNCHANGED <<daemons, pidfile, enrolled, commands>>

Spawns(l, p, state) ==
    /\ Available(p)
    /\ proc' = [proc EXCEPT ![p] = state]
    /\ lane' = [lane EXCEPT ![l].todo = Tail(@), ![l].child = p]
    /\ UNCHANGED <<proxy, pidfile, enrolled, commands>>

Spawn(l, p) == Doing(l, "spawn") /\ Spawns(l, p, "loading")

Awaiting(l) == Doing(l, "await") \/ Doing(l, "awaitAgain")

\* /healthz answered, whoever did: the pid of the child is recorded.
Answered(l) ==
    /\ Awaiting(l)
    /\ PortTaken
    /\ pidfile' = [pidfile EXCEPT !["runtime"] = lane[l].child]
    /\ Next1(l)
    /\ UNCHANGED <<daemons, enrolled, commands>>

\* One retry, after another reap.
GiveUpChild(l, quiet) ==
    lane' = [lane EXCEPT ![l].todo = IF Doing(l, "await") THEN Retry ELSE <<"failed">>,
                         ![l].child = NoPid,
                         ![l].quiet = @ /\ quiet]

ChildDied(l) ==
    /\ Awaiting(l)
    /\ ~PortTaken
    /\ proc[lane[l].child] = "free"
    /\ GiveUpChild(l, TRUE)
    /\ UNCHANGED <<daemons, pidfile, enrolled, commands>>

\* No answer in 15 s: the child is signalled, not waited for.
ChildTooSlow(l) ==
    /\ "timeout" \in Faults /\ Awaiting(l)
    /\ ~PortTaken
    /\ proc[lane[l].child] # "free"
    /\ Terminate(lane[l].child)
    /\ GiveUpChild(l, FALSE)
    /\ UNCHANGED <<pidfile, enrolled, commands>>

ProxyUp(l) ==
    /\ Doing(l, "require")
    /\ ~enrolled \/ proxy # NoPid
    /\ Next1(l)
    /\ UNCHANGED <<daemons, pidfile, enrolled, commands>>

\* The recorded process is dead or the listener did not come up in time.
ProxyDown(l) ==
    /\ Doing(l, "require")
    /\ enrolled /\ proxy = NoPid
    /\ Continue(l, Reap \o <<"failed">>)
    /\ UNCHANGED <<daemons, pidfile, enrolled, commands>>

-----------------------------------------------------------------------------
(* _setup_mode, _setup_stop_daemon, _setup_daemon_died.                    *)

SpawnSetup(l, p) == Doing(l, "spawnSetup") /\ Spawns(l, p, "setupLoading")

\* The setup pidfile is written at once.
RecordSetup(l) ==
    /\ Doing(l, "record")
    /\ pidfile' = [pidfile EXCEPT !["setup"] = lane[l].child]
    /\ Next1(l)
    /\ UNCHANGED <<daemons, enrolled, commands>>

\* /setup/status says done.
SetupReady(l) ==
    /\ Doing(l, "enrol")
    /\ proc[lane[l].child] # "free"
    /\ \E p \in Pids : proc[p] = "setupDone"
    /\ Next1(l)
    /\ UNCHANGED <<daemons, pidfile, enrolled, commands>>

SetupDied(l) ==
    /\ Doing(l, "enrol")
    /\ proc[lane[l].child] = "free"
    /\ pidfile' = [pidfile EXCEPT !["setup"] = NoPid]
    /\ Continue(l, <<"failed">>)
    /\ UNCHANGED <<daemons, enrolled, commands>>

\* No answer in 15 s, or no enrollment in 5 minutes.
SetupTooSlow(l) ==
    /\ "timeout" \in Faults /\ Doing(l, "enrol")
    /\ lane' = [lane EXCEPT ![l].todo = <<"stopSetup", "failed">>, ![l].quiet = FALSE]
    /\ UNCHANGED <<daemons, pidfile, enrolled, commands>>

\* Mutant of StopSetup: signalled, not waited for.
StopSetupAtOnce(l) ==
    /\ Doing(l, "stopSetup")
    /\ IF IsRuntime(lane[l].child) THEN Terminate(lane[l].child) ELSE UNCHANGED daemons
    /\ pidfile' = [pidfile EXCEPT !["setup"] = NoPid]
    /\ Next1(l)
    /\ UNCHANGED <<enrolled, commands>>

StopSetup(l) ==
    /\ Doing(l, "stopSetup")
    /\ IF IsRuntime(lane[l].child)
         THEN Await(l, lane[l].child) /\ UNCHANGED pidfile
         ELSE /\ pidfile' = [pidfile EXCEPT !["setup"] = NoPid]
              /\ Next1(l)
              /\ UNCHANGED daemons
    /\ UNCHANGED <<enrolled, commands>>

-----------------------------------------------------------------------------
(* Daemons and the rest of the machine.                                    *)

\* The proxy port is bound first; a port in use is skipped, not fatal.
Bind(p) ==
    /\ proc[p] = "loading"
    /\ proc' = [proc EXCEPT ![p] = "reconciling"]
    /\ proxy' = IF enrolled /\ proxy = NoPid THEN p ELSE proxy
    /\ UNCHANGED <<pidfile, enrolled, lane, commands>>

\* Bun.serve on RUNTIME_PORT: EADDRINUSE ends the process.
Serve(p) ==
    /\ proc[p] \in {"reconciling", "setupLoading"}
    /\ IF PortTaken
         THEN Dies(p)
         ELSE /\ proc' = [proc EXCEPT ![p] = IF @ = "reconciling" THEN "serving" ELSE "setupServing"]
              /\ UNCHANGED proxy
    /\ UNCHANGED <<pidfile, enrolled, lane, commands>>

\* The user enrolls in the browser.
Enroll(p) ==
    /\ proc[p] = "setupServing"
    /\ proc' = [proc EXCEPT ![p] = "setupDone"]
    /\ enrolled' = TRUE
    /\ UNCHANGED <<proxy, pidfile, lane, commands>>

\* shutdown() ends in process.exit(0).
Exit(p) ==
    /\ proc[p] = "stopping"
    /\ Dies(p)
    /\ UNCHANGED <<pidfile, enrolled, lane, commands>>

Crash(p) ==
    /\ "crash" \in Faults /\ IsRuntime(p)
    /\ Dies(p)
    /\ lane' = Disturbed
    /\ UNCHANGED <<pidfile, enrolled, commands>>

\* The user moves the certificate away to enroll again.
CertificateRemoved ==
    /\ "uncertified" \in Faults /\ enrolled
    /\ enrolled' = FALSE
    /\ lane' = Disturbed
    /\ UNCHANGED <<daemons, pidfile, commands>>

\* Another program gets a number a daemon may have had.
ForeignStarts(p) ==
    /\ Available(p)
    /\ proc' = [proc EXCEPT ![p] = "foreign"]
    /\ UNCHANGED <<proxy, pidfile, enrolled, lane, commands>>

ForeignExits(p) ==
    /\ proc[p] = "foreign"
    /\ proc' = [proc EXCEPT ![p] = "free"]
    /\ UNCHANGED <<proxy, pidfile, enrolled, lane, commands>>

-----------------------------------------------------------------------------
Reaping(l) ==
    \/ \E f \in Files : ReapRecorded(l, f) \/ ClearPidfile(l, f)
    \/ Census(l)
    \/ \E p \in Pids : ReapOrphan(l, p)
    \/ OrphansReaped(l) \/ TargetGone(l) \/ Escalate(l)

Launching(l) ==
    \/ Probe(l) \/ ProbeProxy(l)
    \/ \E p \in Pids : Spawn(l, p)
    \/ Answered(l) \/ ChildDied(l) \/ ChildTooSlow(l) \/ ProxyUp(l) \/ ProxyDown(l)

Enrolling(l) ==
    \/ \E p \in Pids : SpawnSetup(l, p)
    \/ RecordSetup(l) \/ SetupReady(l) \/ SetupDied(l) \/ SetupTooSlow(l) \/ StopSetup(l)

Commanded(l) ==
    \/ GiveStart(l) \/ GiveStop(l) \/ GiveRestart(l)
    \/ LauncherDies(l) \/ SetupInterrupted(l)

Running(p) == Bind(p) \/ Serve(p) \/ Enroll(p) \/ Exit(p) \/ Crash(p)

Machine(p) == ForeignStarts(p) \/ ForeignExits(p)

Next ==
    \/ \E l \in Launchers : Commanded(l) \/ Reaping(l) \/ Strike(l) \/ Launching(l) \/ Enrolling(l)
    \/ \E p \in Pids : Running(p) \/ Machine(p)
    \/ CertificateRemoved

Spec == Init /\ [][Next]_vars

-----------------------------------------------------------------------------
(* Properties.                                                             *)

Finished(l, end) == lane[l].quiet /\ lane[l].todo = <<end>>

\* A command that had the machine to itself and timed out nowhere never fails:
\* whatever earlier commands, killed at any point, left behind (daemons no
\* pidfile names, stale pidfiles, a daemon still stopping, a setup daemon) is
\* out of the way before a daemon is spawned.
QuietWorks == \A l \in Launchers : ~Finished(l, "failed")

\* After such a command that spawned a daemon, that daemon is the only one, it
\* serves, it has the proxy port and the pidfile names it; after such an
\* enrollment no daemon is left to hold the port from the launch that follows.
QuietOutcome ==
    \A l \in Launchers :
        /\ Finished(l, "ok") /\ lane[l].child # NoPid =>
              /\ Runtimes = {lane[l].child}
              /\ proc[lane[l].child] = "serving"
              /\ pidfile["runtime"] = lane[l].child
              /\ enrolled => proxy = lane[l].child
        /\ Finished(l, "enrolledOk") => Runtimes = {} /\ pidfile["setup"] = NoPid

\* A process that is not a daemon of this install is never ended by a launcher,
\* through a pidfile whose number was recycled or otherwise.
SparesForeign(l) == \A p \in Pids : proc[p] = "foreign" => proc'[p] = "foreign"

\* ... by the reap, the wait with its escalation, a start or an enrollment.
ReapSparesForeign ==
    [][\A l \in Launchers :
          Reaping(l) \/ Launching(l) \/ Enrolling(l) => SparesForeign(l)]_vars

\* Of the launchers that start a daemon at once, one succeeds (_start_proxy,
\* bin/hivemind:1060: "ensure a HEALTHY runtime+proxy is running").
SomeStartWorks == \E l \in Launchers : lane[l].todo # <<"failed">>
=============================================================================
