--------------------------- MODULE EnrollmentProofs ---------------------------
(* Proofs about Enrollment, for any launchers, tabs and tenants and any    *)
(* bounds on sessions, attempts and faults.                                *)
EXTENDS Enrollment, FiniteSetTheorems, TLAPS

-----------------------------------------------------------------------------
(* The inductive invariant.                                                *)

\* One request at a time, and only in a setup daemon that is not done.
Flight ==
    /\ SingleFlight
    /\ \A t \in Tabs : request[t] # Idle => serves = "setup" /\ ~done

\* What the handler has written by the place it is at, and that .env does not hold
\* its attempt before it has filled it.
Progress ==
    \A t \in Tabs : request[t] # Idle =>
        /\ By(t) <= attempts
        /\ request[t].at # "config" => env < By(t)
        /\ request[t].at # "ca" => Whose(t) \in Tenants
        /\ request[t].at \in {"key", "cert", "env", "fill", "config"} => ca
        /\ request[t].at \in {"cert", "env", "fill", "config"} => key[Whose(t)] = By(t)
        /\ request[t].at \in {"env", "fill", "config"} => cert[Whose(t)] = By(t)
        /\ request[t].at = "config" => env = By(t)

\* What .env names, once it names an attempt.
Named == env <= attempts /\ (env # 0 => who[env] \in Tenants)

\* The session, its nonce and its answers.
Session ==
    /\ serves # "setup" => of = 0 /\ ~done
    /\ serves = "setup" => of \in Sessions /\ (done <=> nonce = 0)
    /\ serves = "setup" /\ ~done => granted[of] = {}
    /\ \A s \in Sessions : s > session => granted[s] = {}
    /\ \A s \in Sessions : granted[s] = {} \/ \E n \in Attempts : granted[s] = {n}

\* The daemon's session has begun.
Started == of <= session

IInv ==
    /\ TypeOK /\ Flight /\ Progress /\ Named /\ Session /\ Started
    /\ CertLast /\ DoneIsWhole

-----------------------------------------------------------------------------
(* What the actions share.                                                 *)

\* The values a request can have.
LEMMA RequestValues ==
    ASSUME TypeOK, NEW t \in Tabs
    PROVE  /\ request[t] # Idle => request[t] \in Requests /\ By(t) \in Attempts
           /\ request[t] # Idle <=> request[t].at # "idle"
<1>1. request[t] \in {Idle} \cup Requests
  BY DEF TypeOK
<1> QED BY <1>1 DEF Idle, Requests, Writes, By

\* The two documents of a request.
LEMMA Places ==
    /\ \A n \in Attempts, k \in BOOLEAN :
          /\ Request("ca", n, k) \in Requests /\ Request("fill", n, k) \in Requests
          /\ Request("ca", n, k) # Idle /\ Request("fill", n, k) # Idle
          /\ Request("ca", n, k).at = "ca" /\ Request("fill", n, k).at = "fill"
          /\ Request("ca", n, k).n = n /\ Request("fill", n, k).n = n
          /\ Request("fill", n, k).kept = k
BY DEF Request, Requests, Idle, Writes

\* A request moves to its next place.
LEMMA Moves ==
    ASSUME TypeOK, NEW t \in Tabs, request[t] # Idle,
           NEW to \in {"ca", "config"} \cup Writes,
           request' = [request EXCEPT ![t].at = to]
    PROVE  /\ request' \in [Tabs -> {Idle} \cup Requests]
           /\ request'[t].at = to /\ request'[t].n = request[t].n
           /\ request'[t].kept = request[t].kept /\ request'[t] # Idle
           /\ \A u \in Tabs : u # t => request'[u] = request[u]
<1>1. request[t] \in Requests /\ request \in [Tabs -> {Idle} \cup Requests]
  BY RequestValues DEF TypeOK
<1>2. request'[t] = [request[t] EXCEPT !.at = to]
  BY <1>1
<1>3. request'[t] \in Requests /\ request'[t].at = to
  BY <1>1, <1>2 DEF Requests
<1>4. request'[t].n = request[t].n /\ request'[t].kept = request[t].kept
  BY <1>1, <1>2 DEF Requests
<1>5. \A u \in Tabs : u # t => request'[u] = request[u]
  BY <1>1
<1>6. request' \in [Tabs -> {Idle} \cup Requests]
  BY <1>1, <1>3
<1>7. request'[t] # Idle
  BY <1>3 DEF Requests, Idle, Writes
<1> QED BY <1>3, <1>4, <1>5, <1>6, <1>7

-----------------------------------------------------------------------------
(* The invariant is kept.                                                  *)

\* Nothing but the launchers changes.
LEMMA FrameInv ==
    ASSUME IInv, UNCHANGED <<daemon, disk, attempts, who, session, granted, faults>>,
           launcher' \in [Launchers -> [at : {"idle", "checked", "reaped"}]
                                          \cup [at : {"waiting"}, s : Sessions]],
           lost' \subseteq Sessions
    PROVE  IInv'
<1>1. /\ UNCHANGED <<serves, of, nonce, enrolling, done, request>>
      /\ UNCHANGED <<key, cert, ca, temps, env, pins, config>>
      /\ UNCHANGED <<attempts, who, session, granted, faults>>
  BY DEF daemon, disk, identity
<1>2. TypeOK'
  BY <1>1 DEF IInv, TypeOK
<1>3. Flight'
  BY <1>1 DEF IInv, Flight, SingleFlight
<1>4. Progress' /\ Named'
  BY <1>1 DEF IInv, Progress, Named, By, Whose
<1>5. Session' /\ CertLast' /\ DoneIsWhole'
  BY <1>1 DEF IInv, Session, CertLast, DoneIsWhole, Authenticates, Listens
<1>6. Started'
  BY <1>1 DEF IInv, Started
<1> QED BY <1>2, <1>3, <1>4, <1>5, <1>6 DEF IInv

\* The daemon is stopped or replaced by the runtime, at any place.
LEMMA StoppedInv ==
    ASSUME IInv, serves' \in {"nothing", "runtime"}, of' = 0, nonce' = 0,
           enrolling' = FALSE, done' = FALSE, request' = [t \in Tabs |-> Idle],
           UNCHANGED <<identity, env, pins, attempts, who, session, lost, granted>>,
           config' \in 0..MaxAttempts,
           launcher' \in [Launchers -> [at : {"idle", "checked", "reaped"}]
                                          \cup [at : {"waiting"}, s : Sessions]],
           faults' \in 0..MaxFaults
    PROVE  IInv'
<1>1. /\ UNCHANGED <<key, cert, ca, temps, env, pins>>
      /\ UNCHANGED <<attempts, who, session, lost, granted>>
  BY DEF identity
<1>2. \A t \in Tabs : request'[t] = Idle
  OBVIOUS
<1>3. TypeOK'
  <2>1. request' \in [Tabs -> {Idle} \cup Requests]
    OBVIOUS
  <2>2. of' \in 0..MaxSessions /\ nonce' \in {0, of'} /\ serves' \in {"nothing", "setup", "runtime"}
    BY EnrollmentAssumption
  <2>3. enrolling' \in BOOLEAN /\ done' \in BOOLEAN
    OBVIOUS
  <2> QED BY <1>1, <2>1, <2>2, <2>3 DEF IInv, TypeOK
<1>4. Flight' /\ Progress'
  BY <1>2 DEF Flight, SingleFlight, Progress
<1>5. Named' /\ CertLast'
  BY <1>1 DEF IInv, Named, CertLast
<1>6. Session' /\ DoneIsWhole'
  BY <1>1 DEF IInv, Session, DoneIsWhole
<1>7. Started'
  <2>1. session' \in Nat
    BY <1>1 DEF IInv, TypeOK
  <2> QED BY <2>1 DEF Started
<1> QED BY <1>3, <1>4, <1>5, <1>6, <1>7 DEF IInv

\* With one request under way, the other tabs have none.
LEMMA Alone ==
    ASSUME Flight, NEW t \in Tabs, request[t] # Idle
    PROVE  /\ enrolling /\ serves = "setup" /\ ~done
           /\ \A u \in Tabs : u # t => request[u] = Idle
BY DEF Flight, SingleFlight

\* Refuse and Throw: the request ends, what it wrote stays.
LEMMA EndedInv ==
    ASSUME IInv, NEW t \in Tabs, request[t] # Idle, Ends(t),
           UNCHANGED <<launcher, serves, of, nonce, done, identity, env, pins, attempts,
                       who, session, lost, granted>>,
           config' \in 0..MaxAttempts, faults' \in 0..MaxFaults
    PROVE  IInv'
<1>1. /\ UNCHANGED <<key, cert, ca, temps, env, pins>>
      /\ UNCHANGED <<launcher, serves, of, nonce, done, attempts, who, session, lost, granted>>
  BY DEF identity
<1>2. request \in [Tabs -> {Idle} \cup Requests]
  BY DEF IInv, TypeOK
<1>3. /\ enrolling' = FALSE /\ request' \in [Tabs -> {Idle} \cup Requests]
      /\ \A u \in Tabs : request'[u] = Idle
  BY <1>2, Alone DEF IInv, Ends
<1>4. TypeOK'
  BY <1>1, <1>3 DEF IInv, TypeOK
<1>5. Flight' /\ Progress'
  BY <1>3 DEF Flight, SingleFlight, Progress
<1>6. Named' /\ CertLast' /\ Session'
  BY <1>1 DEF IInv, Named, CertLast, Session
<1>7. DoneIsWhole'
  BY <1>1, Alone DEF IInv, DoneIsWhole
<1>8. Started'
  BY <1>1 DEF IInv, Started
<1> QED BY <1>4, <1>5, <1>6, <1>7, <1>8 DEF IInv

\* Submit: the new attempt is younger than the one in .env.
LEMMA SubmitInv == ASSUME IInv, NEW t \in Tabs, NEW s \in Sessions, Submit(t, s) PROVE IInv'
<1>1. /\ serves = "setup" /\ ~done /\ ~enrolling
      /\ attempts < MaxAttempts /\ attempts' = attempts + 1 /\ enrolling' = TRUE
      /\ request' = [request EXCEPT ![t] = Request("ca", attempts + 1, FALSE)]
      /\ UNCHANGED <<launcher, serves, of, nonce, done>>
      /\ UNCHANGED <<who, session, lost, granted, faults>>
  BY DEF Submit
<1>2. UNCHANGED <<key, cert, ca, temps, env, pins, config>>
  BY DEF Submit, disk, identity
<1>3. TypeOK /\ request \in [Tabs -> {Idle} \cup Requests] /\ attempts \in Nat /\ env \in Nat
  BY DEF IInv, TypeOK
<1>4. attempts + 1 \in Attempts /\ attempts' \in 0..MaxAttempts
  BY <1>1, <1>3, EnrollmentAssumption DEF Attempts
<1>5. /\ request' \in [Tabs -> {Idle} \cup Requests]
      /\ request'[t] # Idle /\ request'[t].at = "ca" /\ request'[t].n = attempts + 1
      /\ \A u \in Tabs : u # t => request'[u] = Idle
  <2>1. /\ Request("ca", attempts + 1, FALSE) \in Requests
        /\ Request("ca", attempts + 1, FALSE) # Idle
        /\ Request("ca", attempts + 1, FALSE).at = "ca"
        /\ Request("ca", attempts + 1, FALSE).n = attempts + 1
    BY <1>4, Places
  <2>2. request'[t] = Request("ca", attempts + 1, FALSE)
    BY <1>1, <1>3
  <2>3. \A u \in Tabs : u # t => request'[u] = Idle
    BY <1>1, <1>3 DEF IInv, Flight, SingleFlight
  <2>4. request' \in [Tabs -> {Idle} \cup Requests]
    BY <1>1, <1>3, <2>1
  <2> QED BY <2>1, <2>2, <2>3, <2>4
<1>6. TypeOK'
  BY <1>1, <1>2, <1>4, <1>5 DEF IInv, TypeOK
<1>7. Flight'
  BY <1>1, <1>5 DEF Flight, SingleFlight
<1>8. Progress'
  <2>1. env < attempts + 1 /\ attempts + 1 <= attempts'
    BY <1>1, <1>3 DEF IInv, Named
  <2> QED BY <1>2, <1>5, <2>1 DEF Progress, By
<1>9. Named'
  BY <1>1, <1>2, <1>3 DEF IInv, Named
<1>10. Session' /\ CertLast' /\ DoneIsWhole'
  BY <1>1, <1>2 DEF IInv, Session, CertLast, DoneIsWhole
<1>11. Started'
  BY <1>1 DEF IInv, Started
<1> QED BY <1>6, <1>7, <1>8, <1>9, <1>10, <1>11 DEF IInv

\* Issue: only the tenant of the attempt in flight changes.
LEMMA IssueInv ==
    ASSUME IInv, NEW t \in Tabs, NEW tenant \in Tenants, Issue(t, tenant) PROVE IInv'
<1>1. /\ request[t].at = "ca" /\ request' = [request EXCEPT ![t].at = "temp"]
      /\ who' = [who EXCEPT ![By(t)] = tenant]
      /\ UNCHANGED <<launcher, serves, of, nonce, enrolling, done>>
      /\ UNCHANGED <<attempts, session, lost, granted, faults>>
  BY DEF Issue, By
<1>2. UNCHANGED <<key, cert, ca, temps, env, pins, config>>
  BY DEF Issue, disk, identity
<1>3. TypeOK /\ request[t] # Idle /\ By(t) \in Attempts /\ env < By(t) /\ By(t) <= attempts
  BY <1>1, RequestValues DEF IInv, Progress, Idle
<1>4. /\ request' \in [Tabs -> {Idle} \cup Requests]
      /\ request'[t].at = "temp" /\ By(t)' = By(t) /\ request'[t] # Idle
      /\ \A u \in Tabs : u # t => request'[u] = Idle
  BY <1>1, <1>3, Moves, Alone DEF IInv, Writes, By
<1>5. /\ who' \in [Attempts -> Tenants \cup {Nobody}] /\ who'[By(t)] = tenant
      /\ \A n \in Attempts : n # By(t) => who'[n] = who[n]
  BY <1>1, <1>3 DEF TypeOK
<1>6. env # By(t) /\ (env # 0 => env \in Attempts)
  <2>1. env \in 0..MaxAttempts
    BY <1>3 DEF TypeOK
  <2> QED BY <1>3, <2>1 DEF Attempts
<1>7. TypeOK'
  BY <1>1, <1>2, <1>4, <1>5 DEF IInv, TypeOK
<1>8. Flight'
  BY <1>1, <1>3, <1>4, Alone DEF IInv, Flight, SingleFlight
<1>9. Progress'
  BY <1>1, <1>2, <1>3, <1>4, <1>5 DEF Progress, Whose
<1>10. Named'
  BY <1>1, <1>2, <1>5, <1>6 DEF IInv, Named
<1>11. Session' /\ CertLast'
  BY <1>1, <1>2 DEF IInv, Session, CertLast
<1>12. DoneIsWhole'
  BY <1>1, <1>3, Alone DEF IInv, DoneIsWhole
<1>13. Started'
  BY <1>1 DEF IInv, Started
<1> QED BY <1>7, <1>8, <1>9, <1>10, <1>11, <1>12, <1>13 DEF IInv

\* A write: what the files must become for the invariant to be kept.
LEMMA WriteInv ==
    ASSUME IInv, NEW t \in Tabs, request[t].at \in Writes,
           request'[t].at \in (Writes \cup {"config"}) \ {"temp"},
           request' \in [Tabs -> {Idle} \cup Requests],
           By(t)' = By(t), request'[t] # Idle,
           \A u \in Tabs : u # t => request'[u] = request[u],
           UNCHANGED <<launcher, serves, of, nonce, enrolling, done, config, past>>,
           key' \in Files, cert' \in Files, ca' \in BOOLEAN, temps' \subseteq Attempts,
           pins' \in BOOLEAN, env' \in {0, env, By(t)},
           env' = By(t) <=> request'[t].at = "config",
           request'[t].at \in {"key", "cert", "env", "fill", "config"} => ca',
           request'[t].at \in {"cert", "env", "fill", "config"} => key'[Whose(t)] = By(t),
           request'[t].at \in {"env", "fill", "config"} => cert'[Whose(t)] = By(t),
           CertLast'
    PROVE  IInv'
<1>1. /\ UNCHANGED <<launcher, serves, of, nonce, enrolling, done, config>>
      /\ UNCHANGED <<attempts, who, session, lost, granted, faults>>
  BY DEF past
<1>2. TypeOK /\ request[t] # Idle /\ By(t) \in Attempts /\ By(t) <= attempts
      /\ env < By(t) /\ Whose(t) \in Tenants /\ Whose(t)' = Whose(t)
  <2>1. TypeOK /\ request[t] # Idle /\ request[t].at # "config" /\ request[t].at # "ca"
    BY DEF IInv, Idle, Writes
  <2>2. Whose(t)' = Whose(t)
    BY <1>1 DEF Whose
  <2> QED BY <2>1, <2>2, RequestValues DEF IInv, Progress
<1>3. /\ By(t) \in Nat /\ By(t) # 0 /\ env \in 0..MaxAttempts /\ attempts \in Nat
      /\ By(t) \in 0..MaxAttempts /\ MaxAttempts \in Nat
  BY <1>2, EnrollmentAssumption DEF TypeOK, Attempts
<1>4. ~done /\ ~done' /\ \A u \in Tabs : u # t => request'[u] = Idle
  BY <1>1, <1>2, Alone DEF IInv
<1>5. /\ env' \in 0..MaxAttempts /\ env' <= attempts'
      /\ request'[t].at # "config" => env' < By(t)
  BY <1>1, <1>2, <1>3
<1>6. TypeOK'
  BY <1>1, <1>5 DEF IInv, TypeOK
<1>7. Flight'
  BY <1>1, <1>2, <1>4, Alone DEF IInv, Flight, SingleFlight
<1>8. Progress'
  <2>1. request'[t].at # "ca"
    BY DEF Writes
  <2> QED BY <1>1, <1>2, <1>4, <1>5, <2>1 DEF Progress
<1>9. Named'
  <2>1. env' # 0 => who'[env'] \in Tenants
    BY <1>1, <1>2 DEF IInv, Named, Whose
  <2> QED BY <1>5, <2>1 DEF Named
<1>10. Session' /\ DoneIsWhole'
  BY <1>1, <1>4 DEF IInv, Session, DoneIsWhole
<1>11. Started'
  BY <1>1 DEF IInv, Started
<1> QED BY <1>6, <1>7, <1>8, <1>9, <1>10, <1>11 DEF IInv

LEMMA WriteMoves ==
    ASSUME IInv, NEW t \in Tabs, NEW from \in Writes,
           NEW to \in Writes \cup {"config"}, Write(t, from, to)
    PROVE  /\ request[t].at = from /\ request[t] # Idle /\ request'[t].at = to
           /\ request' \in [Tabs -> {Idle} \cup Requests] /\ request'[t] # Idle
           /\ By(t)' = By(t) /\ By(t) \in Attempts /\ Whose(t) \in Tenants
           /\ env < By(t) /\ env # By(t)
           /\ \A u \in Tabs : u # t => request'[u] = request[u]
           /\ UNCHANGED <<launcher, serves, of, nonce, enrolling, done, config, past>>
           /\ from \in {"key", "cert", "env", "fill"} => ca
           /\ from \in {"cert", "env", "fill"} => key[Whose(t)] = By(t)
           /\ from \in {"env", "fill"} => cert[Whose(t)] = By(t)
<1>1. /\ request[t].at = from /\ request' = [request EXCEPT ![t].at = to]
      /\ UNCHANGED <<launcher, serves, of, nonce, enrolling, done, config, past>>
  BY DEF Write
<1>2. TypeOK /\ request[t] # Idle /\ from # "ca" /\ from # "config"
  BY <1>1 DEF IInv, Idle, Writes
<1>3. By(t) \in Attempts /\ Whose(t) \in Tenants /\ env < By(t)
  BY <1>1, <1>2, RequestValues DEF IInv, Progress
<1>4. env # By(t)
  <2>1. By(t) \in Nat /\ env \in Nat
    BY <1>2, <1>3 DEF TypeOK, Attempts
  <2> QED BY <1>3, <2>1
<1>5. /\ request' \in [Tabs -> {Idle} \cup Requests] /\ request'[t] # Idle
      /\ request'[t].at = to /\ By(t)' = By(t)
      /\ \A u \in Tabs : u # t => request'[u] = request[u]
  BY <1>1, <1>2, Moves DEF By
<1>6. /\ from \in {"key", "cert", "env", "fill"} => ca
      /\ from \in {"cert", "env", "fill"} => key[Whose(t)] = By(t)
      /\ from \in {"env", "fill"} => cert[Whose(t)] = By(t)
  BY <1>1, <1>2 DEF IInv, Progress
<1> QED BY <1>1, <1>2, <1>3, <1>4, <1>5, <1>6

LEMMA WriteTempInv == ASSUME IInv, NEW t \in Tabs, WriteTemp(t) PROVE IInv'
<1>1. /\ Write(t, "temp", "ca_cert") /\ "temp" \in Writes /\ "ca_cert" \in Writes
      /\ temps' = temps \cup {By(t)} /\ UNCHANGED <<key, cert, ca, env, pins>>
  BY DEF WriteTemp, Writes
<1>2. TypeOK /\ CertLast'
  BY <1>1 DEF IInv, CertLast
<1>3. /\ key' \in Files /\ cert' \in Files /\ ca' \in BOOLEAN /\ pins' \in BOOLEAN
      /\ temps' \subseteq Attempts
  BY <1>1, <1>2, WriteMoves DEF TypeOK
<1> QED BY <1>1, <1>2, <1>3, WriteMoves, WriteInv

LEMMA WriteCaInv == ASSUME IInv, NEW t \in Tabs, WriteCa(t) PROVE IInv'
<1>1. /\ Write(t, "ca_cert", "key") /\ "ca_cert" \in Writes /\ "key" \in Writes
      /\ ca' = TRUE /\ UNCHANGED <<key, cert, temps, env, pins>>
  BY DEF WriteCa, Writes
<1>2. TypeOK /\ CertLast'
  BY <1>1 DEF IInv, CertLast
<1>3. /\ key' \in Files /\ cert' \in Files /\ ca' \in BOOLEAN /\ pins' \in BOOLEAN
      /\ temps' \subseteq Attempts
  BY <1>1, <1>2 DEF TypeOK
<1> QED BY <1>1, <1>2, <1>3, WriteMoves, WriteInv

LEMMA RenameKeyInv == ASSUME IInv, NEW t \in Tabs, RenameKey(t) PROVE IInv'
<1>1. /\ Write(t, "key", "cert") /\ "key" \in Writes /\ "cert" \in Writes
      /\ key' = [key EXCEPT ![Whose(t)] = By(t)]
      /\ UNCHANGED <<cert, ca, temps, env, pins>>
  BY DEF RenameKey, Writes
<1>2. TypeOK /\ By(t) \in Attempts /\ Whose(t) \in Tenants /\ ca
  BY <1>1, WriteMoves DEF IInv
<1>3. By(t) \in 0..MaxAttempts /\ By(t) # 0
  BY <1>2, EnrollmentAssumption DEF Attempts
<1>4. /\ key' \in Files /\ cert' \in Files /\ ca' \in BOOLEAN /\ pins' \in BOOLEAN
      /\ temps' \subseteq Attempts /\ key'[Whose(t)] = By(t)
      /\ \A o \in Tenants : key'[o] = key[o] \/ key'[o] = By(t)
  BY <1>1, <1>2, <1>3 DEF TypeOK, Files
<1>5. CertLast'
  BY <1>1, <1>3, <1>4 DEF IInv, CertLast
<1>6. /\ request[t].at = "key" /\ request'[t].at = "cert"
      /\ request' \in [Tabs -> {Idle} \cup Requests] /\ request'[t] # Idle
      /\ By(t)' = By(t) /\ env' # By(t)
      /\ \A u \in Tabs : u # t => request'[u] = request[u]
      /\ UNCHANGED <<launcher, serves, of, nonce, enrolling, done, config, past>>
  BY <1>1, WriteMoves
<1>7. request[t].at \in Writes /\ request'[t].at \in (Writes \cup {"config"}) \ {"temp"}
  BY <1>6 DEF Writes
<1> QED BY <1>1, <1>2, <1>4, <1>5, <1>6, <1>7, WriteInv

LEMMA RenameCertInv == ASSUME IInv, NEW t \in Tabs, RenameCert(t) PROVE IInv'
<1>1. /\ Write(t, "cert", "env") /\ "cert" \in Writes /\ "env" \in Writes
      /\ cert' = [cert EXCEPT ![Whose(t)] = By(t)] /\ temps' = temps \ {By(t)}
      /\ UNCHANGED <<key, ca, env, pins>>
  BY DEF RenameCert, Writes
<1>2. /\ TypeOK /\ By(t) \in Attempts /\ Whose(t) \in Tenants /\ ca
      /\ key[Whose(t)] = By(t)
  BY <1>1, WriteMoves DEF IInv
<1>3. By(t) \in 0..MaxAttempts /\ By(t) # 0
  BY <1>2, EnrollmentAssumption DEF Attempts
<1>4. /\ key' \in Files /\ cert' \in Files /\ ca' \in BOOLEAN /\ pins' \in BOOLEAN
      /\ temps' \subseteq Attempts /\ cert'[Whose(t)] = By(t)
      /\ \A o \in Tenants : o # Whose(t) => cert'[o] = cert[o]
  BY <1>1, <1>2, <1>3 DEF TypeOK, Files
<1>5. CertLast'
  BY <1>1, <1>2, <1>3, <1>4 DEF IInv, CertLast
<1>6. /\ request[t].at = "cert" /\ request'[t].at = "env"
      /\ request' \in [Tabs -> {Idle} \cup Requests] /\ request'[t] # Idle
      /\ By(t)' = By(t) /\ env' # By(t)
      /\ \A u \in Tabs : u # t => request'[u] = request[u]
      /\ UNCHANGED <<launcher, serves, of, nonce, enrolling, done, config, past>>
  BY <1>1, WriteMoves
<1>7. request[t].at \in Writes /\ request'[t].at \in (Writes \cup {"config"}) \ {"temp"}
  BY <1>6 DEF Writes
<1> QED BY <1>1, <1>2, <1>4, <1>5, <1>6, <1>7, WriteInv

LEMMA FillEnvInv == ASSUME IInv, NEW t \in Tabs, FillEnv(t) PROVE IInv'
<1>1. /\ Write(t, "fill", "config") /\ "fill" \in Writes
      /\ env' = By(t) /\ pins' = request[t].kept /\ UNCHANGED <<key, cert, ca, temps>>
  BY DEF FillEnv, Writes, identity
<1>2. TypeOK /\ CertLast'
  BY <1>1 DEF IInv, CertLast
<1>3. /\ key' \in Files /\ cert' \in Files /\ ca' \in BOOLEAN /\ temps' \subseteq Attempts
  BY <1>1, <1>2 DEF TypeOK
<1>4. pins' \in BOOLEAN
  <2>1. request[t] \in Requests
    BY <1>1, <1>2, WriteMoves, RequestValues
  <2> QED BY <1>1, <2>1 DEF Requests
<1> QED BY <1>1, <1>2, <1>3, <1>4, WriteMoves, WriteInv

LEMMA OpenEnvInv == ASSUME IInv, NEW t \in Tabs, OpenEnv(t) PROVE IInv'
<1>1. /\ request[t].at = "env" /\ request' = [request EXCEPT ![t] = Request("fill", By(t), pins)]
      /\ env' = 0 /\ pins' = FALSE /\ UNCHANGED <<key, cert, ca, temps>>
      /\ UNCHANGED <<launcher, serves, of, nonce, enrolling, done, config, past>>
  BY DEF OpenEnv, identity
<1>2. TypeOK /\ CertLast' /\ request[t] # Idle /\ By(t) \in Attempts /\ pins \in BOOLEAN
  BY <1>1, RequestValues DEF IInv, CertLast, Idle, TypeOK
<1>3. /\ key' \in Files /\ cert' \in Files /\ ca' \in BOOLEAN /\ temps' \subseteq Attempts
  BY <1>1, <1>2 DEF TypeOK
<1>4. /\ ca /\ key[Whose(t)] = By(t) /\ cert[Whose(t)] = By(t) /\ By(t) # 0
  BY <1>1, <1>2 DEF IInv, Progress, Attempts
<1>5. /\ request' \in [Tabs -> {Idle} \cup Requests] /\ request'[t] # Idle
      /\ request'[t].at = "fill" /\ By(t)' = By(t)
      /\ \A u \in Tabs : u # t => request'[u] = request[u]
  <2>1. /\ Request("fill", By(t), pins) \in Requests /\ Request("fill", By(t), pins) # Idle
        /\ Request("fill", By(t), pins).at = "fill"
        /\ Request("fill", By(t), pins).n = By(t)
    BY <1>2, Places
  <2>2. request \in [Tabs -> {Idle} \cup Requests]
    BY <1>2 DEF TypeOK
  <2> QED BY <1>1, <2>1, <2>2 DEF By
<1>6. request[t].at \in Writes /\ request'[t].at \in (Writes \cup {"config"}) \ {"temp"}
  BY <1>1, <1>5 DEF Writes
<1>7. pins' \in BOOLEAN /\ env' \in {0, env, By(t)} /\ env' # By(t)
  BY <1>1, <1>4
<1> QED BY <1>1, <1>2, <1>3, <1>4, <1>5, <1>6, <1>7, WriteInv

\* Finish: the answer is 200 for the attempt all the files hold.
LEMMA FinishInv == ASSUME IInv, NEW t \in Tabs, Finish(t) PROVE IInv'
<1>1. /\ request[t].at = "config" /\ enrolling' = FALSE
      /\ request' = [request EXCEPT ![t] = Idle]
      /\ nonce' = 0 /\ done' = TRUE /\ config' = By(t)
      /\ granted' = [granted EXCEPT ![of] = granted[of] \cup {By(t)}]
      /\ UNCHANGED <<launcher, serves, of, env, pins>>
      /\ UNCHANGED <<attempts, who, session, lost, faults>>
      /\ UNCHANGED <<key, cert, ca, temps>>
  BY DEF Finish, Ends, identity
<1>2. TypeOK /\ request[t] # Idle /\ By(t) \in Attempts
  BY <1>1, RequestValues DEF IInv, Idle
<1>3. /\ request' \in [Tabs -> {Idle} \cup Requests]
      /\ \A u \in Tabs : request'[u] = Idle
  BY <1>1, <1>2, Alone DEF IInv, TypeOK
<1>4. /\ serves = "setup" /\ ~done /\ of \in Sessions /\ granted[of] = {}
  BY <1>2, Alone DEF IInv, Session
<1>5. /\ env = By(t) /\ ca /\ key[Whose(t)] = By(t) /\ cert[Whose(t)] = By(t)
      /\ Whose(t) \in Tenants /\ By(t) # 0
  BY <1>1, <1>2 DEF IInv, Progress, Attempts
<1>6. /\ granted' \in [Sessions -> SUBSET Attempts] /\ granted'[of] = {By(t)}
      /\ \A s \in Sessions : s # of => granted'[s] = granted[s]
  BY <1>1, <1>2, <1>4 DEF TypeOK
<1>7. TypeOK'
  <2>1. config' \in 0..MaxAttempts
    BY <1>1, <1>2, EnrollmentAssumption DEF Attempts
  <2> QED BY <1>1, <1>2, <1>3, <1>6, <2>1 DEF TypeOK
<1>8. Flight' /\ Progress'
  BY <1>1, <1>3 DEF Flight, SingleFlight, Progress
<1>9. Named' /\ CertLast'
  BY <1>1 DEF IInv, Named, CertLast
<1>10. Session'
  <2>1. \A s \in Sessions : s > session => s # of
    <3>1. of \in Nat /\ session \in Nat /\ of <= session
      BY <1>2, <1>4 DEF IInv, Started, Sessions, TypeOK
    <3> QED BY <3>1 DEF Sessions
  <2> QED BY <1>1, <1>2, <1>4, <1>6, <2>1 DEF IInv, Session
<1>11. DoneIsWhole'
  <2>1. /\ of' = of /\ env' = env /\ cert' = cert /\ key' = key /\ ca' = ca /\ who' = who
        /\ config' = env
    BY <1>1, <1>5
  <2>2. key[who[env]] = env /\ cert[who[env]] = env /\ ca /\ env # 0
    BY <1>5 DEF Whose
  <2>3. Authenticates'
    BY <2>1, <2>2 DEF Authenticates, Listens
  <2>4. granted'[of'] = {env'}
    BY <1>5, <1>6, <2>1
  <2>5. cert'[who'[env']] = env' /\ config' = env'
    BY <2>1, <2>2
  <2> QED BY <2>3, <2>4, <2>5 DEF DoneIsWhole
<1>12. Started'
  BY <1>1 DEF IInv, Started
<1> QED BY <1>7, <1>8, <1>9, <1>10, <1>11, <1>12 DEF IInv

-----------------------------------------------------------------------------
(* The launchers.                                                          *)

LEMMA SpawnInv == ASSUME IInv, NEW l \in Launchers, Spawn(l) PROVE IInv'
<1>1. /\ serves = "nothing" /\ session < MaxSessions /\ session' = session + 1
      /\ serves' = "setup" /\ of' = session + 1 /\ nonce' = session + 1
      /\ enrolling' = FALSE /\ done' = FALSE /\ request' = request
      /\ launcher' = [launcher EXCEPT ![l] = Waiting(session + 1)]
      /\ UNCHANGED <<attempts, who, lost, granted, faults>>
      /\ UNCHANGED <<key, cert, ca, temps, env, pins, config>>
  BY DEF Spawn, Goes, disk, identity
<1>2. TypeOK /\ session \in Nat /\ MaxSessions \in Nat
  BY EnrollmentAssumption DEF IInv, TypeOK
<1>3. /\ session + 1 \in Sessions /\ session + 1 \in 0..MaxSessions /\ session + 1 # 0
      /\ session + 1 > session /\ \A s \in Sessions : s > session + 1 => s > session
  BY <1>1, <1>2 DEF Sessions
<1>4. \A t \in Tabs : request[t] = Idle
  BY <1>1 DEF IInv, Flight
<1>5. launcher' \in [Launchers -> [at : {"idle", "checked", "reaped"}]
                                     \cup [at : {"waiting"}, s : Sessions]]
  BY <1>1, <1>2, <1>3 DEF TypeOK, Waiting
<1>6. TypeOK'
  <2>1. /\ serves' \in {"nothing", "setup", "runtime"} /\ of' \in 0..MaxSessions
        /\ nonce' \in {0, of'} /\ enrolling' \in BOOLEAN /\ done' \in BOOLEAN
        /\ session' \in 0..MaxSessions
    BY <1>1, <1>3
  <2> QED BY <1>1, <1>2, <1>5, <2>1 DEF TypeOK
<1>7. Flight' /\ Progress'
  BY <1>1, <1>4 DEF Flight, SingleFlight, Progress
<1>8. Named' /\ CertLast' /\ DoneIsWhole'
  BY <1>1 DEF IInv, Named, CertLast, DoneIsWhole
<1>9. Session'
  BY <1>1, <1>3 DEF IInv, Session
<1>10. Started'
  BY <1>1, <1>2 DEF Started
<1> QED BY <1>6, <1>7, <1>8, <1>9, <1>10 DEF IInv

LEMMA LaunchInv == ASSUME IInv, NEW l \in Launchers, Launch(l) PROVE IInv'
<1>1. /\ TypeOK /\ faults \in 0..MaxFaults /\ lost \subseteq Sessions
      /\ config \in 0..MaxAttempts
  BY DEF IInv, TypeOK
<1>2. \A where \in [at : {"idle", "checked", "reaped"}] :
         Goes(l, where) => launcher' \in [Launchers -> [at : {"idle", "checked", "reaped"}]
                                             \cup [at : {"waiting"}, s : Sessions]]
  BY <1>1 DEF Goes, TypeOK
<1>3. /\ Ready \in [at : {"idle", "checked", "reaped"}]
      /\ [at |-> "checked"] \in [at : {"idle", "checked", "reaped"}]
      /\ [at |-> "reaped"] \in [at : {"idle", "checked", "reaped"}]
  BY DEF Ready
<1>4. CASE Start(l)
  <2>1. /\ serves' \in {"nothing", "runtime"} /\ of' = 0 /\ nonce' = 0
        /\ enrolling' = FALSE /\ done' = FALSE /\ request' = [t \in Tabs |-> Idle]
        /\ launcher' = launcher /\ UNCHANGED <<disk, attempts, who, session, lost, granted>>
        /\ faults' = faults
    BY <1>4 DEF Start, NoDaemon, past
  <2>2. launcher' \in [Launchers -> [at : {"idle", "checked", "reaped"}]
                                       \cup [at : {"waiting"}, s : Sessions]]
    BY <1>1, <2>1 DEF TypeOK
  <2> QED BY <1>1, <2>1, <2>2, StoppedInv DEF disk
<1>5. CASE Check(l) \/ SpawnFails(l) \/ Died(l)
  <2>1. /\ launcher' \in [Launchers -> [at : {"idle", "checked", "reaped"}]
                                          \cup [at : {"waiting"}, s : Sessions]]
        /\ UNCHANGED <<daemon, disk, past>>
    BY <1>2, <1>3, <1>5 DEF Check, SpawnFails, Died
  <2> QED BY <1>1, <2>1, FrameInv DEF past
<1>6. CASE Reap(l) \/ Poll(l) \/ GiveUp(l)
  <2>1. /\ launcher' \in [Launchers -> [at : {"idle", "checked", "reaped"}]
                                          \cup [at : {"waiting"}, s : Sessions]]
        /\ NoDaemon /\ UNCHANGED <<disk, past>>
    BY <1>2, <1>3, <1>6 DEF Reap, Poll, GiveUp
  <2> QED BY <1>1, <2>1, StoppedInv DEF past, disk, NoDaemon
<1>7. CASE KillLauncher(l)
  <2>1. /\ launcher' \in [Launchers -> [at : {"idle", "checked", "reaped"}]
                                          \cup [at : {"waiting"}, s : Sessions]]
        /\ UNCHANGED <<daemon, disk, attempts, who, session, granted, faults>>
    BY <1>2, <1>3, <1>7 DEF KillLauncher
  <2>2. lost' \subseteq Sessions
    <3>1. Mine(l) => of \in Sessions
      BY DEF Mine, IInv, Session
    <3> QED BY <1>1, <1>7, <3>1 DEF KillLauncher
  <2> QED BY <2>1, <2>2, FrameInv
<1> QED BY <1>4, <1>5, <1>6, <1>7, SpawnInv DEF Launch

LEMMA StopInv == ASSUME IInv, Stop \/ Crash PROVE IInv'
<1>1. /\ NoDaemon /\ launcher' = launcher
      /\ UNCHANGED <<identity, env, pins, attempts, who, session, lost, granted>>
      /\ config' \in 0..MaxAttempts /\ faults' \in 0..MaxFaults
  <2>1. /\ config \in 0..MaxAttempts /\ faults \in 0..MaxFaults
        /\ MaxAttempts \in Nat /\ MaxFaults \in Nat
    BY EnrollmentAssumption DEF IInv, TypeOK
  <2> QED BY <2>1 DEF Stop, Crash, disk, past
<1>2. launcher' \in [Launchers -> [at : {"idle", "checked", "reaped"}]
                                     \cup [at : {"waiting"}, s : Sessions]]
  BY <1>1 DEF IInv, TypeOK
<1> QED BY <1>1, <1>2, StoppedInv DEF NoDaemon

\* MoveOut: no request is under way.
LEMMA MoveOutInv == ASSUME IInv, MoveOut PROVE IInv'
<1>1. /\ serves # "setup" /\ ca' = FALSE /\ temps' = {}
      /\ key' = [t \in Tenants |-> 0] /\ cert' = [t \in Tenants |-> 0]
      /\ UNCHANGED <<launcher, env, pins, config>>
      /\ UNCHANGED <<serves, of, nonce, enrolling, done, request>>
      /\ UNCHANGED <<attempts, who, session, lost, granted, faults>>
  BY DEF MoveOut, daemon, past
<1>2. \A t \in Tabs : request[t] = Idle
  BY <1>1 DEF IInv, Flight
<1>3. ~done
  BY <1>1 DEF IInv, Session
<1>4. TypeOK'
  <2>1. key' \in Files /\ cert' \in Files
    BY <1>1, EnrollmentAssumption DEF Files
  <2> QED BY <1>1, <2>1 DEF IInv, TypeOK
<1>5. Flight' /\ Progress' /\ Named'
  BY <1>1, <1>2 DEF IInv, Flight, SingleFlight, Progress, Named
<1>6. Session' /\ CertLast' /\ DoneIsWhole'
  BY <1>1, <1>3 DEF IInv, Session, CertLast, DoneIsWhole
<1>7. Started'
  BY <1>1 DEF IInv, Started
<1> QED BY <1>4, <1>5, <1>6, <1>7 DEF IInv

-----------------------------------------------------------------------------
(* The theorems.                                                           *)

LEMMA InitInv == Init => IInv
<1> SUFFICES ASSUME Init PROVE IInv
  OBVIOUS
<1>1. TypeOK
  <2>1. /\ MaxSessions \in Nat /\ MaxAttempts \in Nat /\ MaxFaults \in Nat
    BY EnrollmentAssumption
  <2>2. launcher \in [Launchers -> [at : {"idle", "checked", "reaped"}]
                                      \cup [at : {"waiting"}, s : Sessions]]
    BY DEF Init, Ready
  <2>3. /\ request \in [Tabs -> {Idle} \cup Requests]
        /\ who \in [Attempts -> Tenants \cup {Nobody}]
        /\ granted \in [Sessions -> SUBSET Attempts]
    BY DEF Init
  <2>4. key \in Files /\ cert \in Files
    BY <2>1 DEF Init, Files
  <2>5. 0 \in 0..MaxSessions /\ 0 \in 0..MaxAttempts /\ 0 \in 0..MaxFaults
    BY <2>1
  <2>6. /\ serves \in {"nothing", "setup", "runtime"} /\ nonce \in {0, of}
        /\ enrolling \in BOOLEAN /\ done \in BOOLEAN
        /\ ca \in BOOLEAN /\ pins \in BOOLEAN
        /\ temps \subseteq Attempts /\ lost \subseteq Sessions
    BY DEF Init
  <2>7. /\ of \in 0..MaxSessions /\ attempts \in 0..MaxAttempts /\ env \in 0..MaxAttempts
        /\ config \in 0..MaxAttempts /\ session \in 0..MaxSessions /\ faults \in 0..MaxFaults
    BY <2>5 DEF Init
  <2> QED BY <2>2, <2>3, <2>4, <2>6, <2>7 DEF TypeOK
<1>2. Flight /\ Progress
  BY DEF Init, Flight, SingleFlight, Progress
<1>3. Named /\ Session /\ CertLast /\ DoneIsWhole /\ Started
  BY EnrollmentAssumption DEF Init, Named, Session, CertLast, DoneIsWhole, Started
<1> QED BY <1>1, <1>2, <1>3 DEF IInv

LEMMA NextInv == IInv /\ [Next]_vars => IInv'
<1> SUFFICES ASSUME IInv, [Next]_vars PROVE IInv'
  OBVIOUS
<1>1. ASSUME NEW l \in Launchers, Launch(l) PROVE IInv'
  BY <1>1, LaunchInv
<1>2. ASSUME NEW t \in Tabs, Refuse(t) \/ Throw(t) PROVE IInv'
  <2>1. request[t] # Idle
    BY <1>2 DEF Refuse, Throw, Writes, Idle
  <2>2. /\ config \in 0..MaxAttempts /\ faults \in 0..MaxFaults
        /\ MaxAttempts \in Nat /\ MaxFaults \in Nat
    BY EnrollmentAssumption DEF IInv, TypeOK
  <2>3. /\ Ends(t) /\ config' \in 0..MaxAttempts /\ faults' \in 0..MaxFaults
        /\ UNCHANGED <<launcher, serves, of, nonce, done, identity, env, pins, attempts,
                       who, session, lost, granted>>
    BY <1>2, <2>2 DEF Refuse, Throw, disk, past
  <2> QED BY <2>1, <2>3, EndedInv
<1>3. ASSUME NEW t \in Tabs, Handle(t), ~(Refuse(t) \/ Throw(t)) PROVE IInv'
  BY <1>3, FinishInv, WriteTempInv, WriteCaInv, RenameKeyInv, RenameCertInv, OpenEnvInv,
     FillEnvInv DEF Handle
<1>4. ASSUME NEW t \in Tabs, NEW s \in Sessions, Submit(t, s) PROVE IInv'
  BY <1>4, SubmitInv
<1>5. ASSUME NEW t \in Tabs, NEW tenant \in Tenants, Issue(t, tenant) PROVE IInv'
  BY <1>5, IssueInv
<1>6. CASE Stop \/ Crash
  BY <1>6, StopInv
<1>7. CASE MoveOut
  BY <1>7, MoveOutInv
<1>8. CASE UNCHANGED vars
  <2>1. /\ launcher' \in [Launchers -> [at : {"idle", "checked", "reaped"}]
                                          \cup [at : {"waiting"}, s : Sessions]]
        /\ UNCHANGED <<daemon, disk, attempts, who, session, granted, faults>>
        /\ lost' \subseteq Sessions
    BY <1>8 DEF vars, past, IInv, TypeOK
  <2> QED BY <2>1, FrameInv
<1> QED BY <1>1, <1>2, <1>3, <1>4, <1>5, <1>6, <1>7, <1>8 DEF Next

\* Every reachable state satisfies the inductive invariant.
THEOREM Invariant == Spec => []IInv
BY InitInv, NextInv, PTL DEF Spec

\* The state keeps its types, and the daemon's nonce is its own or null.
THEOREM TypeCorrect == Spec => []TypeOK
<1>1. IInv => TypeOK
  BY DEF IInv
<1> QED BY <1>1, Invariant, PTL

\* createSetupRouter runs one enrollment at a time, and its flag is down whenever
\* none is under way.
THEOREM SingleFlightCorrect == Spec => []SingleFlight
<1>1. IInv => SingleFlight
  BY DEF IInv, Flight
<1> QED BY <1>1, Invariant, PTL

\* However handleEnroll is cut short, a tenant's certificate never lies there
\* without its key and the CA.
THEOREM CertLastCorrect == Spec => []CertLast
<1>1. IInv => CertLast
  BY DEF IInv
<1> QED BY <1>1, Invariant, PTL

\* A nonce is good for one enrollment, whatever pages post it.
THEOREM GrantedOnceCorrect == Spec => []GrantedOnce
<1>1. IInv => GrantedOnce
  <2> SUFFICES ASSUME IInv, NEW s \in Sessions PROVE Cardinality(granted[s]) <= 1
    BY DEF GrantedOnce
  <2>1. granted[s] = {} \/ \E n \in Attempts : granted[s] = {n}
    BY DEF IInv, Session
  <2>2. Cardinality(granted[s]) = 0 \/ Cardinality(granted[s]) = 1
    BY <2>1, FS_EmptySet, FS_Singleton
  <2> QED BY <2>2
<1> QED BY <1>1, Invariant, PTL

\* "done" is said only of a complete enrollment, the one that was answered 200.
THEOREM DoneIsWholeCorrect == Spec => []DoneIsWhole
<1>1. IInv => DoneIsWhole
  BY DEF IInv
<1> QED BY <1>1, Invariant, PTL

-----------------------------------------------------------------------------
(* Without a fault, nothing half enrolled.                                 *)

\* What lies there when no write has failed and nothing has crashed: a key without
\* its certificate only between the two renames, .env without its other keys only
\* while it is rewritten, and nothing _has_cert sees before .env names an owner.
Clean ==
    faults = 0 =>
        /\ \A x \in Tenants : \/ key[x] = cert[x]
                              \/ \E t \in Tabs : request[t].at = "cert" /\ x = Whose(t)
        /\ pins \/ \E t \in Tabs : request[t].at = "fill"
        /\ \A t \in Tabs : request[t].at = "fill" => request[t].kept
        /\ env = 0 /\ ~Writing => ~HasCert

\* No write is under way, and the files stay.
LEMMA QuietClean ==
    ASSUME Clean, ~Writing, UNCHANGED <<key, cert, ca, temps, env, pins, faults>>,
           \A t \in Tabs : request'[t].at # "fill"
    PROVE  Clean'
<1> SUFFICES ASSUME faults = 0 PROVE Clean'
  BY DEF Clean
<1>1. (\A x \in Tenants : key[x] = cert[x]) /\ pins
  BY DEF Clean, Writing, Writes
<1>2. env' = 0 => ~HasCert'
  BY DEF Clean, HasCert
<1> QED BY <1>1, <1>2 DEF Clean

\* The handler and the files stay.
LEMMA FrameClean ==
    ASSUME Clean, UNCHANGED <<key, cert, ca, temps, env, pins, faults, request, who>>
    PROVE  Clean'
<1>1. Writing' = Writing /\ HasCert' = HasCert
  BY DEF Writing, HasCert
<1>2. \A t \in Tabs : Whose(t)' = Whose(t)
  BY DEF Whose, By
<1> QED BY <1>1, <1>2 DEF Clean

\* With no request there is no write.
LEMMA NoRequest ==
    ASSUME IInv, serves # "setup"
    PROVE  ~Writing /\ \A t \in Tabs : request[t].at # "fill" /\ request[t].at # "cert"
BY DEF IInv, Flight, Writing, Writes, Idle

\* With a request at one place there is none at another.
LEMMA OnePlace ==
    ASSUME IInv, NEW t \in Tabs, request[t].at \in Writes, NEW place \in Writes,
           request[t].at # place
    PROVE  \A u \in Tabs : request[u].at # place
<1>1. request[t] # Idle
  BY DEF Writes, Idle
<1>2. \A u \in Tabs : u # t => request[u] = Idle
  BY <1>1, Alone DEF IInv
<1> QED BY <1>2 DEF Idle, Writes

\* A write: what the files must become.
LEMMA WriteClean ==
    ASSUME faults' = 0 => \A x \in Tenants :
               \/ key'[x] = cert'[x]
               \/ \E t \in Tabs : request'[t].at = "cert" /\ x = Whose(t)',
           faults' = 0 => pins' \/ \E t \in Tabs : request'[t].at = "fill",
           faults' = 0 => \A t \in Tabs : request'[t].at = "fill" => request'[t].kept,
           NEW t \in Tabs, request'[t].at \in Writes \/ env' # 0
    PROVE  Clean'
BY DEF Clean, Writing

LEMMA TempClean ==
    ASSUME IInv, Clean, NEW t \in Tabs, WriteTemp(t) \/ WriteCa(t) PROVE Clean'
<1>1. PICK from \in {"temp", "ca_cert"}, to \in {"ca_cert", "key"} : Write(t, from, to)
  BY DEF WriteTemp, WriteCa
<1>2. from \in Writes /\ to \in Writes
  BY DEF Writes
<1>3. request[t].at = from /\ request'[t].at = to /\ UNCHANGED past
  BY <1>1, <1>2, WriteMoves
<1>4. faults' = faults /\ key' = key /\ cert' = cert /\ pins' = pins
  BY <1>3 DEF past, WriteTemp, WriteCa
<1>5. \A u \in Tabs : request[u].at # "cert" /\ request[u].at # "fill"
  BY <1>2, <1>3, OnePlace DEF Writes
<1>6. \A u \in Tabs : request'[u].at # "fill"
  BY <1>1, <1>2, <1>3, <1>5, WriteMoves
<1> QED BY <1>2, <1>3, <1>4, <1>5, <1>6, WriteClean DEF Clean

LEMMA RenameKeyClean == ASSUME IInv, Clean, NEW t \in Tabs, RenameKey(t) PROVE Clean'
<1>1. /\ Write(t, "key", "cert") /\ key' = [key EXCEPT ![Whose(t)] = By(t)]
      /\ cert' = cert /\ pins' = pins /\ "key" \in Writes /\ "cert" \in Writes
  BY DEF RenameKey, Writes
<1>2. /\ request[t].at = "key" /\ request'[t].at = "cert" /\ By(t)' = By(t)
      /\ UNCHANGED past
  BY <1>1, WriteMoves
<1>3. faults' = faults /\ Whose(t)' = Whose(t) /\ key \in Files
  BY <1>2 DEF past, Whose, IInv, TypeOK
<1>4. \A u \in Tabs : request[u].at # "cert" /\ request[u].at # "fill"
  BY <1>1, <1>2, OnePlace DEF Writes
<1>5. \A x \in Tenants : x # Whose(t) => key'[x] = key[x]
  BY <1>1, <1>3 DEF Files
<1>6. faults' = 0 => \A x \in Tenants : key'[x] = cert'[x]
                        \/ \E u \in Tabs : request'[u].at = "cert" /\ x = Whose(u)'
  BY <1>1, <1>2, <1>3, <1>4, <1>5 DEF Clean
<1>7. faults' = 0 => pins'
  BY <1>1, <1>3, <1>4 DEF Clean
<1>8. \A u \in Tabs : request'[u].at # "fill"
  BY <1>1, <1>2, <1>4, WriteMoves
<1> QED BY <1>1, <1>2, <1>6, <1>7, <1>8, WriteClean

LEMMA RenameCertClean == ASSUME IInv, Clean, NEW t \in Tabs, RenameCert(t) PROVE Clean'
<1>1. /\ Write(t, "cert", "env") /\ cert' = [cert EXCEPT ![Whose(t)] = By(t)]
      /\ key' = key /\ pins' = pins /\ "cert" \in Writes /\ "env" \in Writes
  BY DEF RenameCert, Writes
<1>2. /\ request[t].at = "cert" /\ request'[t].at = "env" /\ key[Whose(t)] = By(t)
      /\ Whose(t) \in Tenants /\ UNCHANGED past /\ request[t] # Idle
  BY <1>1, WriteMoves
<1>3. faults' = faults /\ cert \in Files
  BY <1>2 DEF past, IInv, TypeOK
<1>4. \A u \in Tabs : request[u].at = "cert" => u = t
  <2>1. \A u \in Tabs : u # t => request[u] = Idle
    BY <1>2, Alone DEF IInv
  <2> QED BY <2>1 DEF Idle
<1>5. \A u \in Tabs : request[u].at # "fill"
  BY <1>1, <1>2, OnePlace DEF Writes
<1>6. /\ cert'[Whose(t)] = By(t)
      /\ \A x \in Tenants : x # Whose(t) => cert'[x] = cert[x]
  BY <1>1, <1>2, <1>3 DEF Files
<1>7. faults' = 0 => \A x \in Tenants : key'[x] = cert'[x]
  BY <1>1, <1>2, <1>3, <1>4, <1>6 DEF Clean
<1>8. faults' = 0 => pins'
  BY <1>1, <1>3, <1>5 DEF Clean
<1>9. \A u \in Tabs : request'[u].at # "fill"
  BY <1>1, <1>2, <1>5, WriteMoves
<1> QED BY <1>1, <1>2, <1>7, <1>8, <1>9, WriteClean

LEMMA OpenEnvClean == ASSUME IInv, Clean, NEW t \in Tabs, OpenEnv(t) PROVE Clean'
<1>1. /\ request[t].at = "env" /\ request' = [request EXCEPT ![t] = Request("fill", By(t), pins)]
      /\ key' = key /\ cert' = cert /\ faults' = faults
  BY DEF OpenEnv, identity, past
<1>2. "env" \in Writes /\ "cert" \in Writes /\ "fill" \in Writes
  BY DEF Writes
<1>3. TypeOK /\ request[t] # Idle /\ By(t) \in Attempts /\ pins \in BOOLEAN
  BY <1>1, RequestValues DEF IInv, Idle, TypeOK
<1>4. request'[t].at = "fill" /\ request'[t].kept = pins
  <2>1. request'[t] = Request("fill", By(t), pins)
    BY <1>1, <1>3 DEF TypeOK
  <2> QED BY <1>3, <2>1, Places
<1>5. \A u \in Tabs : request[u].at # "cert" /\ request[u].at # "fill"
  BY <1>1, <1>2, OnePlace
<1>6. faults' = 0 => pins /\ \A x \in Tenants : key'[x] = cert'[x]
  BY <1>1, <1>5 DEF Clean
<1>7. \A u \in Tabs : u # t => request'[u].at # "fill"
  BY <1>1, <1>3, <1>5 DEF IInv, TypeOK
<1>8. faults' = 0 => \A u \in Tabs : request'[u].at = "fill" => request'[u].kept
  BY <1>4, <1>6, <1>7
<1> QED BY <1>2, <1>4, <1>6, <1>8, WriteClean

LEMMA FillEnvClean == ASSUME IInv, Clean, NEW t \in Tabs, FillEnv(t) PROVE Clean'
<1>1. /\ Write(t, "fill", "config") /\ env' = By(t) /\ pins' = request[t].kept
      /\ key' = key /\ cert' = cert /\ "fill" \in Writes /\ "cert" \in Writes
  BY DEF FillEnv, identity, Writes
<1>2. request[t].at = "fill" /\ By(t) \in Attempts /\ request[t] # Idle /\ UNCHANGED past
  BY <1>1, WriteMoves
<1>3. faults' = faults /\ env' # 0
  BY <1>1, <1>2 DEF past, Attempts
<1>4. \A u \in Tabs : request[u].at # "cert"
  BY <1>1, <1>2, OnePlace
<1>5. \A u \in Tabs : request[u].at = "fill" => u = t
  <2>1. \A u \in Tabs : u # t => request[u] = Idle
    BY <1>2, Alone DEF IInv
  <2> QED BY <2>1 DEF Idle
<1>6. faults' = 0 => pins' /\ \A x \in Tenants : key'[x] = cert'[x]
  BY <1>1, <1>2, <1>3, <1>4 DEF Clean
<1>7. \A u \in Tabs : request'[u].at # "fill"
  BY <1>1, <1>2, <1>5, WriteMoves
<1> QED BY <1>3, <1>6, <1>7, WriteClean

\* What the launchers and the user do.
LEMMA LaunchClean == ASSUME IInv, Clean, NEW l \in Launchers, Launch(l) PROVE Clean'
<1>1. CASE Start(l) \/ Reap(l) \/ Poll(l) \/ GiveUp(l)
  <2>1. /\ ~Writing /\ request' = [t \in Tabs |-> Idle]
        /\ UNCHANGED <<key, cert, ca, temps, env, pins, faults>>
    BY <1>1 DEF Start, Reap, Poll, GiveUp, NoDaemon, disk, identity, past
  <2>2. \A t \in Tabs : request'[t].at # "fill"
    BY <2>1 DEF Idle
  <2> QED BY <2>1, <2>2, QuietClean
<1>2. CASE Check(l) \/ Spawn(l) \/ SpawnFails(l) \/ Died(l) \/ KillLauncher(l)
  <2>1. UNCHANGED <<key, cert, ca, temps, env, pins, faults, request, who>>
    BY <1>2 DEF Check, Spawn, SpawnFails, Died, KillLauncher, daemon, disk, identity, past
  <2> QED BY <2>1, FrameClean
<1> QED BY <1>1, <1>2 DEF Launch

LEMMA StopClean == ASSUME IInv, Clean, Stop PROVE Clean'
<1>1. /\ ~Writing /\ request' = [t \in Tabs |-> Idle]
      /\ UNCHANGED <<key, cert, ca, temps, env, pins, faults>>
  BY DEF Stop, NoDaemon, disk, identity, past
<1>2. \A t \in Tabs : request'[t].at # "fill"
  BY <1>1 DEF Idle
<1> QED BY <1>1, <1>2, QuietClean

LEMMA MoveOutClean == ASSUME IInv, Clean, MoveOut PROVE Clean'
<1>1. /\ serves # "setup" /\ ca' = FALSE /\ temps' = {}
      /\ key' = [t \in Tenants |-> 0] /\ cert' = [t \in Tenants |-> 0]
      /\ UNCHANGED <<env, pins, request, faults>>
  BY DEF MoveOut, daemon, past
<1>2. \A t \in Tabs : request'[t].at # "fill" /\ request[t].at # "fill"
  BY <1>1, NoRequest
<1>3. env' = 0 => ~HasCert'
  BY <1>1 DEF HasCert
<1>4. \A x \in Tenants : key'[x] = cert'[x]
  BY <1>1
<1> QED BY <1>1, <1>2, <1>3, <1>4 DEF Clean

\* Between two awaits or at the fault: what was written stays.
LEMMA RequestClean ==
    ASSUME IInv, Clean, NEW t \in Tabs, Refuse(t) \/ Finish(t) PROVE Clean'
<1>1. /\ ~Writing /\ request' = [request EXCEPT ![t] = Idle]
      /\ UNCHANGED <<key, cert, ca, temps, env, pins, faults>>
  BY DEF Refuse, Finish, Ends, disk, identity, past
<1>2. request \in [Tabs -> {Idle} \cup Requests]
  BY DEF IInv, TypeOK
<1>3. \A u \in Tabs : request'[u].at # "fill"
  BY <1>1, <1>2 DEF Writing, Writes, Idle
<1> QED BY <1>1, <1>3, QuietClean

LEMMA SubmitClean ==
    ASSUME IInv, Clean, NEW t \in Tabs, NEW s \in Sessions, Submit(t, s) PROVE Clean'
<1>1. /\ ~Writing /\ request' = [request EXCEPT ![t] = Request("ca", attempts', FALSE)]
      /\ UNCHANGED <<key, cert, ca, temps, env, pins, faults>>
  BY DEF Submit, disk, identity
<1>2. request \in [Tabs -> {Idle} \cup Requests]
  BY DEF IInv, TypeOK
<1>3. \A u \in Tabs : request'[u].at # "fill"
  BY <1>1, <1>2 DEF Writing, Writes, Request
<1> QED BY <1>1, <1>3, QuietClean

LEMMA IssueClean ==
    ASSUME IInv, Clean, NEW t \in Tabs, NEW tenant \in Tenants, Issue(t, tenant)
    PROVE  Clean'
<1>1. /\ ~Writing /\ request' = [request EXCEPT ![t].at = "temp"] /\ request[t].at = "ca"
      /\ UNCHANGED <<key, cert, ca, temps, env, pins, faults>>
  BY DEF Issue, disk, identity
<1>2. TypeOK /\ request[t] # Idle
  BY <1>1 DEF IInv, Idle
<1>3. request'[t].at = "temp" /\ \A u \in Tabs : u # t => request'[u] = request[u]
  BY <1>1, <1>2, Moves DEF Writes
<1>4. \A u \in Tabs : request'[u].at # "fill"
  BY <1>1, <1>3 DEF Writing, Writes
<1> QED BY <1>1, <1>4, QuietClean

LEMMA FaultClean ==
    ASSUME IInv, Crash \/ \E t \in Tabs : Throw(t)
    PROVE  Clean'
<1>1. faults' = faults + 1 /\ faults \in Nat
  BY DEF Crash, Throw, IInv, TypeOK
<1> QED BY <1>1 DEF Clean

LEMMA NextClean == IInv /\ Clean /\ [Next]_vars => Clean'
<1> SUFFICES ASSUME IInv, Clean, [Next]_vars PROVE Clean'
  OBVIOUS
<1>1. ASSUME NEW l \in Launchers, Launch(l) PROVE Clean'
  BY <1>1, LaunchClean
<1>2. ASSUME NEW t \in Tabs, Handle(t) PROVE Clean'
  BY <1>2, RequestClean, FaultClean, TempClean, RenameKeyClean, RenameCertClean,
     OpenEnvClean, FillEnvClean DEF Handle
<1>3. ASSUME NEW t \in Tabs, NEW s \in Sessions, Submit(t, s) PROVE Clean'
  BY <1>3, SubmitClean
<1>4. ASSUME NEW t \in Tabs, NEW tenant \in Tenants, Issue(t, tenant) PROVE Clean'
  BY <1>4, IssueClean
<1>5. CASE Stop \/ MoveOut \/ Crash
  BY <1>5, StopClean, MoveOutClean, FaultClean
<1>6. CASE UNCHANGED vars
  BY <1>6, FrameClean DEF vars, daemon, disk, identity, past
<1> QED BY <1>1, <1>2, <1>3, <1>4, <1>5, <1>6 DEF Next

LEMMA InitClean == Init => Clean
BY DEF Init, Clean, Idle, HasCert

\* Only a fault leaves a half enrollment: whatever signals, timeouts, second
\* launchers and refusals cut in, what _has_cert accepts authenticates.
THEOREM CleanIsWholeCorrect == Spec => []CleanIsWhole
<1>1. IInv /\ Clean => CleanIsWhole
  <2> SUFFICES ASSUME IInv, Clean, faults = 0, ~Writing
               PROVE  (HasCert => Authenticates) /\ pins
    BY DEF CleanIsWhole
  <2>1. pins /\ \A x \in Tenants : key[x] = cert[x]
    BY DEF Clean, Writing, Writes
  <2>2. HasCert => env # 0 /\ cert[who[env]] # 0 /\ who[env] \in Tenants
    BY DEF Clean, HasCert, IInv, Named
  <2>3. HasCert => Authenticates
    BY <2>1, <2>2 DEF Authenticates, Listens, IInv, CertLast
  <2> QED BY <2>1, <2>3
<1> QED BY <1>1, Invariant, InitInv, InitClean, NextInv, NextClean, PTL DEF Spec

-----------------------------------------------------------------------------
(* No stray daemon.                                                        *)

LEMMA NextStray == IInv /\ NoStray /\ [Next]_vars => NoStray'
<1> SUFFICES ASSUME IInv, NoStray, [Next]_vars PROVE NoStray'
  OBVIOUS
<1>1. TypeOK /\ launcher \in [Launchers -> [at : {"idle", "checked", "reaped"}]
                                              \cup [at : {"waiting"}, s : Sessions]]
  BY DEF IInv, TypeOK
<1>2. CASE UNCHANGED <<launcher, serves, of, lost>>
  BY <1>2 DEF NoStray, Mine, At
<1>3. CASE serves' # "setup"
  BY <1>3 DEF NoStray
<1>4. ASSUME NEW l \in Launchers, Launch(l) PROVE NoStray'
  <2>1. CASE Start(l) \/ Reap(l) \/ Poll(l) \/ GiveUp(l)
    BY <1>3, <2>1 DEF Start, Reap, Poll, GiveUp, NoDaemon
  <2>2. CASE Spawn(l)
    <3>1. launcher'[l] = Waiting(session') /\ serves' = "setup" /\ of' = session'
      BY <1>1, <2>2 DEF Spawn, Goes
    <3>2. Mine(l)'
      BY <3>1 DEF Mine, At, Waiting
    <3> QED BY <3>2 DEF NoStray
  <2>3. CASE ~Mine(l) /\ (Check(l) \/ SpawnFails(l) \/ Died(l) \/ KillLauncher(l))
    <3>1. UNCHANGED <<serves, of, lost>>
      BY <2>3 DEF Check, SpawnFails, Died, KillLauncher, daemon, past
    <3>2. \A k \in Launchers : k # l => launcher'[k] = launcher[k]
      BY <1>1, <2>3 DEF Check, SpawnFails, Died, KillLauncher, Goes
    <3>3. \A k \in Launchers : Mine(k) => Mine(k)'
      BY <2>3, <3>1, <3>2 DEF Mine, At
    <3> QED BY <3>1, <3>3 DEF NoStray
  <2>4. CASE Mine(l) /\ KillLauncher(l)
    BY <2>4 DEF KillLauncher, NoStray, daemon
  <2>5. ~(Mine(l) /\ (Check(l) \/ SpawnFails(l) \/ Died(l)))
    BY DEF Mine, At, Check, SpawnFails, Died
  <2> QED BY <1>4, <2>1, <2>2, <2>3, <2>4, <2>5 DEF Launch
<1>5. ASSUME NEW t \in Tabs,
             \/ Handle(t)
             \/ \E s \in Sessions : Submit(t, s)
             \/ \E tenant \in Tenants : Issue(t, tenant)
      PROVE  UNCHANGED <<launcher, serves, of, lost>>
  BY <1>5 DEF Handle, Submit, Issue, Refuse, Throw, Finish, WriteTemp, WriteCa, RenameKey,
              RenameCert, OpenEnv, FillEnv, Write, past
<1>6. CASE Stop \/ Crash
  BY <1>3, <1>6 DEF Stop, Crash, NoDaemon
<1>7. CASE MoveOut \/ UNCHANGED vars
  BY <1>2, <1>7 DEF MoveOut, vars, daemon, past
<1> QED BY <1>2, <1>4, <1>5, <1>6, <1>7 DEF Next

\* A setup daemon left alone is one whose launcher was killed.
THEOREM NoStrayCorrect == Spec => []NoStray
<1>1. Init => NoStray
  BY DEF Init, NoStray
<1> QED BY <1>1, Invariant, InitInv, NextInv, NextStray, PTL DEF Spec
=============================================================================
