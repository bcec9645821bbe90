----------------------------- MODULE TargetPorts -----------------------------
(***************************************************************************)
(* `hivemind install` and the proxy listeners it feeds: every installed    *)
(* client gets a dedicated loopback port and a device id in port-map.json  *)
(* (bin/hivemind, under flock), and the daemon binds one pinned listener   *)
(* per entry, at boot and on POST /internal/proxy/reload                   *)
(* (runtime/src/lib/mtls-proxy.ts, server.ts).                             *)
(*                                                                         *)
(* The launcher runs as several processes; what one does under the lock,   *)
(* or in one atomic rename, is one action.  The reload handler has no      *)
(* await, so it is one action too.                                         *)
(***************************************************************************)
EXTENDS Naturals, FiniteSets

CONSTANTS
    Installers,   \* `hivemind install` processes
    Targets,      \* config files of other MCP clients (the key of the map)
    Projects,     \* project slugs
    None,         \* nothing: no entry, no listener, no project, no device
    FirstPort,    \* the ports in play are FirstPort .. LastPort
    LastPort,
    RangeSize,    \* ports in the install range (100 in the code)
    MaxInstalls,  \* bound: installs started
    MaxMoves,     \* bound: edits of MTLS_PROXY_PORT
    MaxFailures   \* bound: writes of port-map.json that fail

Ports       == FirstPort .. LastPort
SharedPorts == FirstPort .. (LastPort - RangeSize)

ASSUME TargetPortsAssumption ==
    /\ FirstPort \in Nat /\ LastPort \in Nat /\ RangeSize \in Nat
    /\ FirstPort + RangeSize <= LastPort
    /\ MaxInstalls \in Nat /\ MaxMoves \in Nat /\ MaxFailures \in Nat
    /\ None \notin Projects /\ None \notin Nat

VARIABLES
    shared,     \* MTLS_PROXY_PORT in ~/.hivemind/.env
    map,        \* port-map.json: the entry of each target
    config,     \* the engram url of each target's config file: port and project
    run,        \* the installers, between two of their steps
    cfgPort,    \* the daemon's own MTLS_PROXY_PORT, read when it started; None: down
    listeners,  \* what the daemon serves on each port
    minted,     \* device ids handed out so far
    installs, moves,
    failures    \* writes of port-map.json that failed so far

vars == <<shared, map, config, run, cfgPort, listeners, minted, installs, moves,
          failures>>

-----------------------------------------------------------------------------
MaybeProject == Projects \cup {None}
MaybeDevice  == Nat \cup {None}
Entry    == [port : Ports, device : Nat, project : MaybeProject]
Wiring   == [port : Ports, project : MaybeProject]
Listener == [device : MaybeDevice, project : MaybeProject]
ASSUME NoneIsNothing == None \notin Entry \cup Wiring \cup Listener

Idle     == [pc |-> "idle"]
Absent(S)   == [x \in S |-> None]

\* An installer reads the map before its y/N prompt (asking), commits the entry
\* after it (writing), writes the config (reloading) and posts the reload.
Asking    == [pc : {"asking"}, target : Targets, base : SharedPorts,
              preview : Ports, project : MaybeProject]
Committed == [pc : {"writing", "reloading"}, target : Targets, port : Ports,
              project : MaybeProject]

TypeOK ==
    /\ shared \in SharedPorts
    /\ map \in [Targets -> Entry \cup {None}]
    /\ config \in [Targets -> Wiring \cup {None}]
    /\ run \in [Installers -> {Idle} \cup Asking \cup Committed]
    /\ cfgPort \in SharedPorts \cup {None}
    /\ listeners \in [Ports -> Listener \cup {None}]
    /\ minted \in Nat /\ installs \in Nat /\ moves \in Nat /\ failures \in Nat

Mapped(t) == map[t] # None
UsedPorts == {map[t].port : t \in {u \in Targets : Mapped(u)}}

\* _allocate_target_port: the lowest port of base+1 .. base+RangeSize that no
\* entry has; None when the range is exhausted.
Free(base) == {p \in (base + 1) .. (base + RangeSize) : p \notin UsedPorts}

Allocate(base) ==
    IF Free(base) = {} THEN None
    ELSE CHOOSE p \in Free(base) : \A q \in Free(base) : p <= q

\* _preview_target_port: what the prompt shows, without the lock.
Preview(t, base) == IF Mapped(t) THEN map[t].port ELSE Allocate(base)

Init ==
    /\ shared = FirstPort
    /\ map = Absent(Targets)
    /\ config = Absent(Targets)
    /\ run = [i \in Installers |-> Idle]
    /\ cfgPort = None
    /\ listeners = Absent(Ports)
    /\ minted = 0 /\ installs = 0 /\ moves = 0 /\ failures = 0

-----------------------------------------------------------------------------
(* The launcher: _install_run.                                             *)

daemon == <<cfgPort, listeners>>

\* Up to the prompt.  The effective project: --project wins, --no-project
\* clears, a plain install takes what the entry has now.  With the range
\* exhausted the install ends here.
Start(i, t, plain, project) ==
    /\ run[i] = Idle /\ installs < MaxInstalls
    /\ Preview(t, shared) # None
    /\ run' = [run EXCEPT ![i] =
                  [pc |-> "asking", target |-> t, base |-> shared,
                   preview |-> Preview(t, shared),
                   project |-> IF ~plain THEN project
                               ELSE IF Mapped(t) THEN map[t].project ELSE None]]
    /\ installs' = installs + 1
    /\ UNCHANGED <<shared, map, config, daemon, minted, moves, failures>>

\* Mutant of NewPort: the previewed port is committed as it was shown.
NewPortPreviewed(i) == run[i].preview

\* The port of a fresh entry, allocated inside the lock.
NewPort(i) == Allocate(run[i].base)

\* Mutant of Resolved: a re-install mints a new device id.
ResolvedReminted(i) ==
    LET t == run[i].target
    IN  IF Mapped(t) THEN [port |-> map[t].port, device |-> minted + 1]
        ELSE [port |-> NewPort(i), device |-> minted + 1]

\* _resolve_target_port_and_device_id: an entry keeps its port and device id.
Resolved(i) ==
    LET t == run[i].target
    IN  IF Mapped(t) THEN [port |-> map[t].port, device |-> map[t].device]
        ELSE [port |-> NewPort(i), device |-> minted + 1]

\* Mutant of Commit: the failed allocation is not noticed.
CommitUnchecked(i) ==
    /\ run[i].pc = "asking"
    /\ LET r == Resolved(i)
           t == run[i].target
       IN /\ map' = [map EXCEPT ![t] = [port |-> r.port, device |-> r.device,
                                        project |-> run[i].project]]
          /\ run' = [run EXCEPT ![i] = [pc |-> "writing", target |-> t,
                                        port |-> r.port, project |-> run[i].project]]
          /\ minted' = IF Mapped(t) THEN minted ELSE minted + 1
    /\ UNCHANGED <<shared, config, daemon, installs, moves, failures>>

\* Confirmed: allocate or reuse, and write the entry, all under flock.
Commit(i) ==
    /\ run[i].pc = "asking"
    /\ Resolved(i).port # None
    /\ LET r == Resolved(i)
           t == run[i].target
       IN /\ map' = [map EXCEPT ![t] = [port |-> r.port, device |-> r.device,
                                        project |-> run[i].project]]
          /\ run' = [run EXCEPT ![i] = [pc |-> "writing", target |-> t,
                                        port |-> r.port, project |-> run[i].project]]
          /\ minted' = IF Mapped(t) THEN minted ELSE minted + 1
    /\ UNCHANGED <<shared, config, daemon, installs, moves, failures>>

\* The same when the write fails (disk full, directory not writable): inside
\* `( ... ) || _rc=$?` errexit is off, so the status of _port_map_write_entry is
\* not looked at, the port is printed and the install goes on with it.
CommitUnrecorded(i) ==
    /\ failures < MaxFailures
    /\ run[i].pc = "asking"
    /\ Resolved(i).port # None
    /\ run' = [run EXCEPT ![i] = [pc |-> "writing", target |-> run[i].target,
                                  port |-> Resolved(i).port,
                                  project |-> run[i].project]]
    /\ minted' = IF Mapped(run[i].target) THEN minted ELSE minted + 1
    /\ failures' = failures + 1
    /\ UNCHANGED <<shared, map, config, daemon, installs, moves>>

\* _write_generic_mcp_config, outside the lock: tmp and rename.
WriteConfig(i) ==
    /\ run[i].pc = "writing"
    /\ config' = [config EXCEPT ![run[i].target] =
                     [port |-> run[i].port, project |-> run[i].project]]
    /\ run' = [run EXCEPT ![i].pc = "reloading"]
    /\ UNCHANGED <<shared, map, daemon, minted, installs, moves, failures>>

\* The prompt is declined, the range is exhausted inside the lock, the config
\* cannot be written, the reload is refused or times out, Ctrl-C.
Quit(i) ==
    /\ run[i] # Idle
    /\ run' = [run EXCEPT ![i] = Idle]
    /\ UNCHANGED <<shared, map, config, daemon, minted, installs, moves, failures>>

\* The user edits MTLS_PROXY_PORT; a running daemon keeps the port it read.
MoveShared(p) ==
    /\ moves < MaxMoves /\ p # shared
    /\ shared' = p
    /\ moves' = moves + 1
    /\ UNCHANGED <<map, config, run, daemon, minted, installs, failures>>

-----------------------------------------------------------------------------
(* The daemon.  Any bind may fail (a foreign process has the port): the    *)
(* entry is skipped and nobody retries before the next reload or boot.     *)

SharedListener == [device |-> None, project |-> None]
Pinned(t)      == [device |-> map[t].device, project |-> map[t].project]
On(p)          == {t \in Targets : Mapped(t) /\ map[t].port = p}

\* bindDefaultAndMappedListeners: the shared port first, then every entry whose
\* port is not bound yet.
Boot(sharedFails, bad) ==
    /\ cfgPort = None
    /\ cfgPort' = shared
    /\ listeners' = [p \in Ports |->
           IF p = shared /\ ~sharedFails THEN SharedListener
           ELSE IF On(p) = {} \/ p \in bad THEN None
           ELSE Pinned(CHOOSE t \in On(p) : TRUE)]
    /\ UNCHANGED <<shared, map, config, run, minted, installs, moves, failures>>

\* A listener a reload leaves alone: same project as its entry, or on the
\* shared port.
Kept(p, t) ==
    /\ listeners[p] # None
    /\ listeners[p].project = map[t].project \/ p = cfgPort

\* Mutants of Synced: only ports not bound yet are looked at; every mapped port
\* is rebound, changed or not.
SyncedNewOnly(bad) ==
    [p \in Ports |->
        IF On(p) = {} \/ listeners[p] # None THEN listeners[p]
        ELSE IF p \in bad THEN None
        ELSE Pinned(CHOOSE t \in On(p) : TRUE)]

SyncedRebindAll(bad) ==
    [p \in Ports |->
        IF On(p) = {} THEN listeners[p]
        ELSE IF p \in bad THEN None
        ELSE Pinned(CHOOSE t \in On(p) : TRUE)]

\* syncMappedListeners: bind what is missing, stop and rebind what changed
\* project.  A failed rebind leaves the port without a listener.
Synced(bad) ==
    [p \in Ports |->
        IF On(p) = {} \/ \E t \in On(p) : Kept(p, t) THEN listeners[p]
        ELSE IF p \in bad THEN None
        ELSE Pinned(CHOOSE t \in On(p) : TRUE)]

\* The handler of POST /internal/proxy/reload.
Reload(i, bad) ==
    /\ run[i].pc = "reloading"
    /\ cfgPort # None
    /\ listeners' = Synced(bad)
    /\ run' = [run EXCEPT ![i] = Idle]
    /\ UNCHANGED <<shared, map, config, cfgPort, minted, installs, moves, failures>>

\* `hivemind stop`, a restart, a crash.
Stop ==
    /\ cfgPort # None
    /\ cfgPort' = None
    /\ listeners' = Absent(Ports)
    /\ UNCHANGED <<shared, map, config, run, minted, installs, moves, failures>>

-----------------------------------------------------------------------------
Launcher ==
    \/ \E i \in Installers, t \in Targets :
          \/ Start(i, t, TRUE, None)
          \/ \E project \in MaybeProject : Start(i, t, FALSE, project)
    \/ \E i \in Installers : Commit(i) \/ CommitUnrecorded(i) \/ WriteConfig(i) \/ Quit(i)
    \/ \E p \in SharedPorts : MoveShared(p)

Proxy ==
    \/ \E sharedFails \in BOOLEAN, bad \in SUBSET UsedPorts : Boot(sharedFails, bad)
    \/ \E i \in Installers, bad \in SUBSET UsedPorts : Reload(i, bad)
    \/ Stop

Next == Launcher \/ Proxy

Spec == Init /\ [][Next]_vars

-----------------------------------------------------------------------------
(* Properties.                                                             *)

\* The map never hands one port or one device id to two targets, however the
\* installs interleave (the flock of _resolve_target_port_and_device_id).
MapSound ==
    \A t, u \in Targets :
        t # u /\ Mapped(t) /\ Mapped(u)
            => map[t].port # map[u].port /\ map[t].device # map[u].device

\* As long as every write of the map succeeded, a wired client never speaks
\* under another target's identity: the port its config names is the one of its
\* entry, and the listener there, if any, is pinned to its own device id or is
\* the shared port, which carries none.
RightIdentity ==
    failures = 0 => \A t \in Targets : config[t] # None =>
        /\ Mapped(t) /\ config[t].port = map[t].port
        /\ listeners[map[t].port] # None
               => listeners[map[t].port].device \in {map[t].device, None}

\* Zero-downtime reload: as long as a daemon lives, a listener whose entry did
\* not change project, one without an entry and the shared one stay bound as
\* they are, even when binds fail (syncMappedListeners).
ReloadDisturbsOnlyChanged ==
    [][cfgPort # None /\ cfgPort' = cfgPort =>
          \A p \in Ports :
              listeners[p] # None /\ listeners'[p] # listeners[p]
                  => p # cfgPort /\ \E t \in On(p) : map[t].project # listeners[p].project]_vars

\* A reload whose binds succeed leaves every entry served on its port under its
\* device id and its current project, whatever reloads were lost before.  That is
\* what the comment of syncMappedListeners says (mtls-proxy.ts:529-531): it "ALSO
\* re-pins a bound listener".  The comments of its caller (server.ts:62-66, 113-114)
\* still describe bindNewMappedListeners, which it replaced: "binds only what's new,
\* never touching/rebinding an existing listener".  The code does the former.
ReloadConverges ==
    [][\A i \in Installers : Reload(i, {}) =>
          \A t \in Targets :
              Mapped(t) /\ map[t].port # cfgPort
                  => listeners'[map[t].port] = Pinned(t)]_vars
=============================================================================
