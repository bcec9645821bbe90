------------------------------- MODULE Enrollment ------------------------------
(***************************************************************************)
(* Enrollment: the setup daemon (runtime/src/routes/setup.ts), which turns *)
(* an API key into a key pair, a certificate and the credentials of .env,  *)
(* the launchers that start it and wait for it (bin/hivemind _setup_mode), *)
(* and the next start, which reads the files it left (lib/env.ts,          *)
(* lib/mtls-proxy.ts).                                                     *)
(*                                                                         *)
(* Attempts are numbered: attempt n makes key pair n, and certificate n is *)
(* issued for it.  A file holds the number of the attempt that wrote it.   *)
(* Between two awaits the handler runs alone, but can be cut short by a    *)
(* write that throws or by the end of the process: one action is one write. *)
(***************************************************************************)
EXTENDS Naturals, FiniteSets

CONSTANTS
    Launchers,    \* `hivemind` commands
    Tabs,         \* pages of the setup server, any of them stale
    Tenants,      \* the identities an API key resolves to
    Nobody,       \* not one of them
    MaxSessions,  \* bound: setup daemons spawned
    MaxAttempts,  \* bound: enrollments accepted
    MaxFaults     \* bound: crashes and failed writes

ASSUME EnrollmentAssumption ==
    /\ Nobody \notin Tenants
    /\ MaxSessions \in Nat /\ MaxAttempts \in Nat /\ MaxFaults \in Nat

Sessions == 1..MaxSessions
Attempts == 1..MaxAttempts

VARIABLES
    launcher,   \* what each launcher is doing
    serves,     \* what runs on the daemon's port
    of,         \* the session of the setup daemon, 0 without one
    nonce,      \* its nonce, the number of its session; 0: null
    enrolling,  \* its single-flight flag
    done,       \* enrollmentDone
    request,    \* where the /enroll of each tab stands
    attempts,   \* enrollments accepted so far
    who,        \* the tenant each attempt was issued for
    key, cert,  \* <tenant>.key.pem and <tenant>.cert.pem
    ca,         \* ca.cert.pem is there
    temps,      \* attempts whose certificate is under its temporary name
    env,        \* .env: the attempt whose credentials it holds
    pins,       \* .env: the other keys are in it
    config,     \* .claude.json: the attempt that wrote mcpServers.engram
    session,    \* sessions so far
    lost,       \* sessions whose launcher was killed
    granted,    \* history: the attempts answered 200, by session
    faults      \* crashes and failed writes so far

daemon == <<serves, of, nonce, enrolling, done, request>>
identity == <<key, cert, ca, temps>>
disk == <<identity, env, pins, config>>
past == <<attempts, who, session, lost, granted, faults>>
vars == <<launcher, daemon, disk, past>>

-----------------------------------------------------------------------------
Idle == [at |-> "idle"]

\* "ca" stands for every await before the answer of the CA is read; from "temp"
\* to "fill" the handler runs without one.
Writes == {"temp", "ca_cert", "key", "cert", "env", "fill"}
Request(at, n, kept) == [at |-> at, n |-> n, kept |-> kept]
Requests == [at : {"ca", "config"} \cup Writes, n : Attempts, kept : BOOLEAN]

Files == [Tenants -> 0..MaxAttempts]

TypeOK ==
    /\ launcher \in [Launchers -> [at : {"idle", "checked", "reaped"}]
                                    \cup [at : {"waiting"}, s : Sessions]]
    /\ serves \in {"nothing", "setup", "runtime"}
    /\ of \in 0..MaxSessions /\ nonce \in {0, of}
    /\ enrolling \in BOOLEAN /\ done \in BOOLEAN
    /\ request \in [Tabs -> {Idle} \cup Requests]
    /\ attempts \in 0..MaxAttempts
    /\ who \in [Attempts -> Tenants \cup {Nobody}]
    /\ key \in Files /\ cert \in Files
    /\ ca \in BOOLEAN /\ temps \subseteq Attempts
    /\ env \in 0..MaxAttempts /\ pins \in BOOLEAN /\ config \in 0..MaxAttempts
    /\ session \in 0..MaxSessions /\ lost \subseteq Sessions
    /\ granted \in [Sessions -> SUBSET Attempts]
    /\ faults \in 0..MaxFaults

Ready == [at |-> "idle"]
Waiting(s) == [at |-> "waiting", s |-> s]

Init ==
    /\ launcher = [l \in Launchers |-> Ready]
    /\ serves = "nothing" /\ of = 0 /\ nonce = 0
    /\ enrolling = FALSE /\ done = FALSE
    /\ request = [t \in Tabs |-> Idle]
    /\ attempts = 0 /\ who = [n \in Attempts |-> Nobody]
    /\ key = [t \in Tenants |-> 0] /\ cert = [t \in Tenants |-> 0]
    /\ ca = FALSE /\ temps = {}
    /\ env = 0 /\ pins = TRUE /\ config = 0
    /\ session = 0 /\ lost = {}
    /\ granted = [s \in Sessions |-> {}] /\ faults = 0

\* Mutant of Writing: .env is read with an await, and a signal is served there.
WritingButEnv == \E t \in Tabs : request[t].at \in Writes \ {"env"}

\* The handler is between two awaits: the daemon serves nothing else, no signal.
Writing == \E t \in Tabs : request[t].at \in Writes

-----------------------------------------------------------------------------
(* What a start finds.                                                     *)

\* _has_cert: the owner's certificate, or any *.cert.pem while .env names none.
HasCert ==
    IF env # 0 THEN cert[who[env]] # 0
    ELSE ca \/ temps # {} \/ \E t \in Tenants : cert[t] # 0

\* mtlsProxyConfig and loadProxyCertMaterial: the variables, and the files.
Listens == env # 0 /\ cert[who[env]] # 0 /\ key[who[env]] # 0 /\ ca

\* ... and the certificate was issued for that key.
Authenticates == Listens /\ cert[who[env]] = key[who[env]]

-----------------------------------------------------------------------------
(* The launchers.                                                          *)

At(l, place) == launcher[l].at = place
Goes(l, where) == launcher' = [launcher EXCEPT ![l] = where]

\* A daemon stopped by a signal it serves, or at once.
NoDaemon ==
    /\ serves' = "nothing" /\ of' = 0 /\ nonce' = 0
    /\ enrolling' = FALSE /\ done' = FALSE
    /\ request' = [t \in Tabs |-> Idle]

\* A certificate is there: a setup daemon is reaped, and the runtime stays only if
\* its proxy listens.
Start(l) ==
    /\ At(l, "idle") /\ HasCert /\ ~Writing
    /\ serves # "runtime"
    /\ IF Listens THEN /\ serves' = "runtime" /\ of' = 0 /\ nonce' = 0
                       /\ enrolling' = FALSE /\ done' = FALSE
                       /\ request' = [t \in Tabs |-> Idle]
       ELSE NoDaemon
    /\ UNCHANGED <<launcher, disk, past>>

\* None is there: _setup_mode ...
Check(l) ==
    /\ At(l, "idle") /\ ~HasCert
    /\ Goes(l, [at |-> "checked"])
    /\ UNCHANGED <<daemon, disk, past>>

\* ... reaps what holds the port, healthy or not ...
Reap(l) ==
    /\ At(l, "checked") /\ ~Writing
    /\ Goes(l, [at |-> "reaped"])
    /\ NoDaemon
    /\ UNCHANGED <<disk, past>>

\* Mutant of Spawn: the daemon gets the nonce of the session before.
SpawnOldNonce(l) ==
    /\ At(l, "reaped") /\ serves = "nothing" /\ session < MaxSessions
    /\ session' = session + 1
    /\ serves' = "setup" /\ of' = session' /\ nonce' = session
    /\ enrolling' = FALSE /\ done' = FALSE /\ request' = request
    /\ Goes(l, Waiting(session'))
    /\ UNCHANGED <<disk, attempts, who, lost, granted, faults>>

\* ... and spawns the setup daemon with a nonce of its own.
Spawn(l) ==
    /\ At(l, "reaped") /\ serves = "nothing" /\ session < MaxSessions
    /\ session' = session + 1
    /\ serves' = "setup" /\ of' = session' /\ nonce' = session'
    /\ enrolling' = FALSE /\ done' = FALSE /\ request' = request
    /\ Goes(l, Waiting(session'))
    /\ UNCHANGED <<disk, attempts, who, lost, granted, faults>>

\* Another daemon took the port meanwhile: EADDRINUSE, _setup_daemon_died.
SpawnFails(l) ==
    /\ At(l, "reaped") /\ (serves # "nothing" \/ session = MaxSessions)
    /\ Goes(l, Ready)
    /\ UNCHANGED <<daemon, disk, past>>

Mine(l) == At(l, "waiting") /\ serves = "setup" /\ of = launcher[l].s

\* /setup/status says done: stop the daemon, report success.
Poll(l) ==
    /\ Mine(l) /\ done /\ ~Writing
    /\ Goes(l, Ready)
    /\ NoDaemon
    /\ UNCHANGED <<disk, past>>

\* Mutant of GiveUp: the timeout exits without stopping the daemon.
GiveUpLeaves(l) ==
    /\ Mine(l) /\ ~Writing
    /\ Goes(l, Ready)
    /\ UNCHANGED <<daemon, disk, past>>

\* 300 polls, or INT, TERM or HUP: stop the daemon, whatever it waits for.
GiveUp(l) ==
    /\ Mine(l) /\ ~Writing
    /\ Goes(l, Ready)
    /\ NoDaemon
    /\ UNCHANGED <<disk, past>>

\* Its daemon is gone: _setup_daemon_died.
Died(l) ==
    /\ At(l, "waiting") /\ ~Mine(l)
    /\ Goes(l, Ready)
    /\ UNCHANGED <<daemon, disk, past>>

\* kill -9: no trap runs, and the daemon has a session of its own.
KillLauncher(l) ==
    /\ ~At(l, "idle")
    /\ Goes(l, Ready)
    /\ lost' = IF Mine(l) THEN lost \cup {of} ELSE lost
    /\ UNCHANGED <<daemon, disk, attempts, who, session, granted, faults>>

\* `hivemind stop`, in another terminal.
Stop ==
    /\ serves # "nothing" /\ ~Writing
    /\ NoDaemon
    /\ UNCHANGED <<launcher, disk, past>>

\* What _proxy_down_message tells the user to do.
MoveOut ==
    /\ serves # "setup"
    /\ key' = [t \in Tenants |-> 0] /\ cert' = [t \in Tenants |-> 0]
    /\ ca' = FALSE /\ temps' = {}
    /\ UNCHANGED <<launcher, daemon, env, pins, config, past>>

-----------------------------------------------------------------------------
(* POST /setup/enroll.                                                     *)

\* Mutant of Submit: no single flight.
SubmitTwice(t, s) ==
    /\ serves = "setup" /\ ~Writing /\ request[t] = Idle
    /\ ~done /\ nonce = s
    /\ attempts < MaxAttempts
    /\ attempts' = attempts + 1
    /\ enrolling' = TRUE
    /\ request' = [request EXCEPT ![t] = Request("ca", attempts', FALSE)]
    /\ UNCHANGED <<launcher, serves, of, nonce, done, disk, who, session, lost, granted,
                   faults>>

\* The page of session s posts to whichever daemon there is: 409 once done, 403 on
\* another nonce, 409 while one is in flight, and else up to the call of the CA.
Submit(t, s) ==
    /\ serves = "setup" /\ ~Writing /\ request[t] = Idle
    /\ ~done /\ nonce = s /\ ~enrolling
    /\ attempts < MaxAttempts
    /\ attempts' = attempts + 1
    /\ enrolling' = TRUE
    /\ request' = [request EXCEPT ![t] = Request("ca", attempts', FALSE)]
    /\ UNCHANGED <<launcher, serves, of, nonce, done, disk, who, session, lost, granted,
                   faults>>

Ends(t) ==
    /\ enrolling' = FALSE
    /\ request' = [request EXCEPT ![t] = Idle]

\* 400, 500 or 502 before anything is written: bad key, openssl, no answer of the
\* CA within 30 s, no certificate or no tenant in it.  The nonce stays.
Refuse(t) ==
    /\ request[t].at = "ca" /\ ~Writing
    /\ Ends(t)
    /\ UNCHANGED <<launcher, serves, of, nonce, done, disk, past>>

\* The CA answers: the tenant is its own, or the CN of the certificate.
Issue(t, tenant) ==
    /\ request[t].at = "ca" /\ ~Writing
    /\ request' = [request EXCEPT ![t].at = "temp"]
    /\ who' = [who EXCEPT ![request[t].n] = tenant]
    /\ UNCHANGED <<launcher, serves, of, nonce, enrolling, done, disk, attempts, session,
                   lost, granted, faults>>

\* One write of the handler: from one place to the next.
Write(t, from, to) ==
    /\ request[t].at = from
    /\ request' = [request EXCEPT ![t].at = to]
    /\ UNCHANGED <<launcher, serves, of, nonce, enrolling, done, config, past>>

By(t) == request[t].n
Whose(t) == who[By(t)]

\* Mutant of WriteTemp: the certificate gets its final name at once.
WriteFinal(t) ==
    /\ Write(t, "temp", "ca_cert")
    /\ cert' = [cert EXCEPT ![Whose(t)] = By(t)]
    /\ UNCHANGED <<key, ca, temps, env, pins>>

WriteTemp(t) ==
    /\ Write(t, "temp", "ca_cert")
    /\ temps' = temps \cup {By(t)}
    /\ UNCHANGED <<key, cert, ca, env, pins>>

WriteCa(t) ==
    /\ Write(t, "ca_cert", "key")
    /\ ca' = TRUE
    /\ UNCHANGED <<key, cert, temps, env, pins>>

RenameKey(t) ==
    /\ Write(t, "key", "cert")
    /\ key' = [key EXCEPT ![Whose(t)] = By(t)]
    /\ UNCHANGED <<cert, ca, temps, env, pins>>

RenameCert(t) ==
    /\ Write(t, "cert", "env")
    /\ cert' = [cert EXCEPT ![Whose(t)] = By(t)]
    /\ temps' = temps \ {By(t)}
    /\ UNCHANGED <<key, ca, env, pins>>

\* .env is read, then opened for writing, which empties it (a torn .env is an empty
\* one) ...
OpenEnv(t) ==
    /\ request[t].at = "env"
    /\ request' = [request EXCEPT ![t] = Request("fill", By(t), pins)]
    /\ env' = 0 /\ pins' = FALSE
    /\ UNCHANGED <<launcher, serves, of, nonce, enrolling, done, identity, config, past>>

\* ... and the merged document is written.
FillEnv(t) ==
    /\ Write(t, "fill", "config")
    /\ env' = By(t) /\ pins' = request[t].kept
    /\ UNCHANGED identity

Opened(t) == request[t].at = "config"

\* Mutant of Throw: enrolling is reset on an answer only, not in a finally.
ThrowStuck(t) ==
    /\ request[t].at \in Writes \cup {"config"} /\ faults < MaxFaults
    /\ request' = [request EXCEPT ![t] = Idle]
    /\ faults' = faults + 1
    /\ UNCHANGED <<launcher, serves, of, nonce, enrolling, done, disk, attempts, who,
                   session, lost, granted>>

\* A write throws (a full disk): 500, and the nonce stays.  One of .claude.json may
\* leave it emptied.
Throw(t) ==
    /\ request[t].at \in Writes \cup {"config"} /\ faults < MaxFaults
    /\ Ends(t)
    /\ config' \in IF Opened(t) THEN {config, 0} ELSE {config}
    /\ faults' = faults + 1
    /\ UNCHANGED <<launcher, serves, of, nonce, done, identity, env, pins, attempts, who,
                   session, lost, granted>>

\* Mutant of Finish: the nonce is not burned, and nothing says done.
FinishUnburned(t) ==
    /\ request[t].at = "config" /\ ~Writing
    /\ config' = By(t)
    /\ Ends(t)
    /\ granted' = [granted EXCEPT ![of] = @ \cup {By(t)}]
    /\ UNCHANGED <<launcher, serves, of, nonce, done, identity, env, pins, attempts, who,
                   session, lost, faults>>

\* .claude.json is read, merged and written; 200; the wrapper burns the nonce.
Finish(t) ==
    /\ request[t].at = "config" /\ ~Writing
    /\ config' = By(t)
    /\ Ends(t)
    /\ nonce' = 0 /\ done' = TRUE
    /\ granted' = [granted EXCEPT ![of] = @ \cup {By(t)}]
    /\ UNCHANGED <<launcher, serves, of, identity, env, pins, attempts, who, session, lost,
                   faults>>

\* The setup daemon is killed, or the machine stops, wherever it is.
Crash ==
    /\ serves = "setup" /\ faults < MaxFaults
    /\ NoDaemon
    /\ config' \in IF \E t \in Tabs : Opened(t) THEN {config, 0} ELSE {config}
    /\ faults' = faults + 1
    /\ UNCHANGED <<launcher, identity, env, pins, attempts, who, session, lost, granted>>

-----------------------------------------------------------------------------
Launch(l) ==
    \/ Start(l) \/ Check(l) \/ Reap(l) \/ Spawn(l) \/ SpawnFails(l)
    \/ Poll(l) \/ GiveUp(l) \/ Died(l) \/ KillLauncher(l)

Handle(t) ==
    \/ Refuse(t) \/ Throw(t) \/ Finish(t)
    \/ WriteTemp(t) \/ WriteCa(t) \/ RenameKey(t) \/ RenameCert(t)
    \/ OpenEnv(t) \/ FillEnv(t)

Next ==
    \/ \E l \in Launchers : Launch(l)
    \/ \E t \in Tabs : \/ Handle(t)
                       \/ \E s \in Sessions : Submit(t, s)
                       \/ \E tenant \in Tenants : Issue(t, tenant)
    \/ Stop \/ MoveOut \/ Crash

Spec == Init /\ [][Next]_vars

-----------------------------------------------------------------------------
(* Properties.                                                             *)

\* Never two enrollments at once, and none shut out by one that ended, whatever way
\* it ended: a failure can be retried from the same page (enrolling, set before the
\* first await and reset in a finally).
SingleFlight ==
    /\ \A t, u \in Tabs : request[t] # Idle /\ request[u] # Idle => t = u
    /\ enrolling <=> \E t \in Tabs : request[t] # Idle

\* Wherever the handler is cut short, a certificate under a tenant's name has a
\* key and the CA beside it: it is renamed last, which is what lets _has_cert look
\* at that one file (the order of the writes in handleEnroll).
CertLast == \A t \in Tenants : cert[t] # 0 => key[t] # 0 /\ ca

\* A nonce enrolls once: of all the pages of a session, open, reloaded or stale,
\* one /enroll is answered 200 (createSetupRouter: nonce, enrolling and
\* enrollmentDone together).
GrantedOnce == \A s \in Sessions : Cardinality(granted[s]) <= 1

\* When the daemon reports done, the key, the certificate and .env are those of
\* the one attempt that was answered 200, and the runtime can authenticate.
DoneIsWhole ==
    done => granted[of] = {env} /\ cert[who[env]] = env /\ config = env /\ Authenticates

\* Short of a crash or a failed write, no timeout, Ctrl-C, stop, second launcher
\* or refusal of the CA leaves a half enrollment: what a start takes for enrolled
\* can authenticate, and .env has lost none of its other keys (the awaits of
\* handleEnroll against the signals of _setup_mode and cmd_stop).
CleanIsWhole ==
    faults = 0 /\ ~Writing => (HasCert => Authenticates) /\ pins

\* A setup daemon, with its live nonce, outlives its launcher only when that was
\* killed (_setup_stop_daemon on every exit of _setup_mode).
NoStray ==
    serves = "setup" => of \in lost \/ \E l \in Launchers : Mine(l)
=============================================================================
