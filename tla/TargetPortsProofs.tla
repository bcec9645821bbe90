-------------------------- MODULE TargetPortsProofs --------------------------
(* Proofs about TargetPorts, for any sets of installers, targets and       *)
(* projects, any range of ports and any values of the bounds.              *)
EXTENDS TargetPorts, TLAPS, WellFoundedInduction

-----------------------------------------------------------------------------
(* The allocator.                                                          *)

\* A non-empty set of ports has a least element: the loop of
\* _allocate_target_port stops at the lowest free port.
LEMMA LeastPort ==
    ASSUME NEW S, S \subseteq Nat, S # {}
    PROVE  \E p \in S : \A q \in S : p <= q
<1> DEFINE R == {ss \in Nat \X Nat : ss[1] < ss[2]}
<1>1. IsWellFoundedOn(R, Nat)
  BY NatLessThanWellFounded DEF OpToRel
<1>2. PICK p \in S : \A q \in S : <<q, p>> \notin R
  <2> HIDE DEF R
  <2> QED BY <1>1, WFMin
<1>3. ASSUME NEW q \in S PROVE p <= q
  <2>1. p \in Nat /\ q \in Nat
    OBVIOUS
  <2>2. ~(q < p)
    BY <1>2, <2>1
  <2> QED BY <2>1, <2>2
<1> QED BY <1>3

\* What _allocate_target_port prints is a port of the range that no entry has.
LEMMA AllocateFresh ==
    ASSUME NEW base \in SharedPorts, Allocate(base) # None
    PROVE  Allocate(base) \in Ports /\ Allocate(base) \notin UsedPorts
<1>1. Free(base) \subseteq Ports
  BY TargetPortsAssumption DEF Free, SharedPorts, Ports
<1>2. Ports \subseteq Nat
  BY TargetPortsAssumption DEF Ports
<1>3. Free(base) # {}
  BY DEF Allocate
<1>4. \E p \in Free(base) : \A q \in Free(base) : p <= q
  BY <1>1, <1>2, <1>3, LeastPort
<1>5. Allocate(base) \in Free(base)
  BY <1>3, <1>4 DEF Allocate
<1> QED BY <1>1, <1>5 DEF Free

-----------------------------------------------------------------------------
(* Type correctness.                                                       *)

\* What the locked section hands to a confirmed install: the port and device id
\* of the entry, or a port no entry has and a device id never minted before.
LEMMA Granted ==
    ASSUME TypeOK, NEW i \in Installers, run[i].pc = "asking", Resolved(i).port # None
    PROVE  /\ run[i] \in Asking
           /\ Resolved(i) = [port |-> Resolved(i).port, device |-> Resolved(i).device]
           /\ Resolved(i).port \in Ports
           /\ Resolved(i).device \in Nat
           /\ IF Mapped(run[i].target)
              THEN /\ Resolved(i).port = map[run[i].target].port
                   /\ Resolved(i).device = map[run[i].target].device
              ELSE /\ Resolved(i).port \notin UsedPorts
                   /\ Resolved(i).device = minted + 1
<1>1. run[i] \in Asking
  BY DEF TypeOK, Idle, Committed
<1>2. run[i].target \in Targets /\ run[i].base \in SharedPorts
  BY <1>1 DEF Asking
<1>3. CASE Mapped(run[i].target)
  <2>1. map[run[i].target] \in Entry
    BY <1>2, <1>3 DEF TypeOK, Mapped
  <2> QED BY <1>1, <1>3, <2>1 DEF Resolved, Entry
<1>4. CASE ~Mapped(run[i].target)
  <2>1. Resolved(i) = [port |-> Allocate(run[i].base), device |-> minted + 1]
    BY <1>4 DEF Resolved, NewPort
  <2>2. Allocate(run[i].base) # None
    BY <2>1
  <2>3. Allocate(run[i].base) \in Ports /\ Allocate(run[i].base) \notin UsedPorts
    BY <1>2, <2>2, AllocateFresh
  <2> QED BY <1>1, <1>4, <2>1, <2>3 DEF TypeOK
<1> QED BY <1>3, <1>4

LEMMA PinnedType ==
    ASSUME TypeOK, NEW p \in Ports, On(p) # {}
    PROVE  /\ (CHOOSE t \in On(p) : TRUE) \in On(p)
           /\ Pinned(CHOOSE t \in On(p) : TRUE) \in Listener
<1> DEFINE t == CHOOSE t \in On(p) : TRUE
<1>1. t \in On(p)
  OBVIOUS
<1>2. map[t] \in Entry
  BY <1>1 DEF On, TypeOK, Mapped
<1> QED BY <1>1, <1>2 DEF Pinned, Entry, Listener, MaybeDevice

LEMMA TypeInit == Init => TypeOK
<1>1. FirstPort \in SharedPorts
  BY TargetPortsAssumption DEF SharedPorts
<1> QED BY <1>1 DEF Init, TypeOK, Absent, Idle

LEMMA TypeStep == TypeOK /\ [Next]_vars => TypeOK'
<1> SUFFICES ASSUME TypeOK, [Next]_vars
             PROVE  TypeOK'
  OBVIOUS
<1>1. CASE UNCHANGED vars
  BY <1>1 DEF vars, TypeOK
<1>2. ASSUME NEW i \in Installers, NEW t \in Targets, NEW plain \in BOOLEAN,
             NEW project \in MaybeProject, Start(i, t, plain, project)
      PROVE  TypeOK'
  <2> DEFINE preview == Preview(t, shared)
             proj == IF ~plain THEN project
                     ELSE IF Mapped(t) THEN map[t].project ELSE None
             new == [pc |-> "asking", target |-> t, base |-> shared,
                     preview |-> preview, project |-> proj]
  <2>1. Mapped(t) => map[t] \in Entry
    BY DEF TypeOK, Mapped
  <2>2. preview \in Ports
    BY <1>2, <2>1, AllocateFresh DEF Start, Preview, TypeOK, Entry
  <2>3. proj \in MaybeProject
    BY <2>1 DEF Entry, MaybeProject
  <2>5. shared \in SharedPorts
    BY DEF TypeOK
  <2>6. new \in Asking
    <3> HIDE DEF preview, proj
    <3> QED BY <2>2, <2>3, <2>5 DEF Asking
  <2>7. run' = [run EXCEPT ![i] = new]
    BY <1>2 DEF Start
  <2>8. run' \in [Installers -> {Idle} \cup Asking \cup Committed]
    <3> HIDE DEF new
    <3> QED BY <2>6, <2>7 DEF TypeOK
  <2> QED BY <1>2, <2>8 DEF Start, TypeOK, daemon
<1>3. ASSUME NEW i \in Installers, Commit(i) \/ CommitUnrecorded(i)
      PROVE  TypeOK'
  <2> DEFINE t == run[i].target
             entry == [port |-> Resolved(i).port, device |-> Resolved(i).device,
                       project |-> run[i].project]
             new == [pc |-> "writing", target |-> t, port |-> Resolved(i).port,
                     project |-> run[i].project]
  <2>1. /\ run[i] \in Asking
        /\ Resolved(i).port \in Ports
        /\ Resolved(i).device \in Nat
    BY <1>3, Granted DEF Commit, CommitUnrecorded
  <2>2. entry \in Entry /\ new \in Committed
    BY <2>1 DEF Entry, Committed, Asking
  <2>3. run' = [run EXCEPT ![i] = new]
    BY <1>3 DEF Commit, CommitUnrecorded
  <2>4. run' \in [Installers -> {Idle} \cup Asking \cup Committed]
    <3> HIDE DEF new
    <3> QED BY <2>2, <2>3 DEF TypeOK
  <2>5. map' = [map EXCEPT ![t] = entry] \/ map' = map
    BY <1>3 DEF Commit, CommitUnrecorded
  <2>6. map' \in [Targets -> Entry \cup {None}]
    <3> HIDE DEF entry
    <3> QED BY <2>2, <2>5 DEF TypeOK
  <2>7. minted' \in Nat /\ failures' \in Nat
    BY <1>3 DEF Commit, CommitUnrecorded, TypeOK
  <2> QED BY <1>3, <2>4, <2>6, <2>7 DEF Commit, CommitUnrecorded, TypeOK, daemon
<1>4. ASSUME NEW i \in Installers, WriteConfig(i)
      PROVE  TypeOK'
  <2>1. run[i] \in Committed
    BY <1>4 DEF WriteConfig, TypeOK, Idle, Asking
  <2>2. [port |-> run[i].port, project |-> run[i].project] \in Wiring
    BY <2>1 DEF Committed, Wiring
  <2>3. [run[i] EXCEPT !.pc = "reloading"] \in Committed
    BY <2>1 DEF Committed
  <2>4. run' = [run EXCEPT ![i] = [run[i] EXCEPT !.pc = "reloading"]]
    BY <1>4 DEF WriteConfig
  <2>5. run' \in [Installers -> {Idle} \cup Asking \cup Committed]
    BY <2>3, <2>4 DEF TypeOK
  <2> QED BY <1>4, <2>2, <2>5 DEF WriteConfig, TypeOK, daemon
<1>5. ASSUME NEW i \in Installers, Quit(i)
      PROVE  TypeOK'
  BY <1>5 DEF Quit, TypeOK, daemon
<1>6. ASSUME NEW p \in SharedPorts, MoveShared(p)
      PROVE  TypeOK'
  BY <1>6 DEF MoveShared, TypeOK, daemon
<1>7. ASSUME NEW sharedFails \in BOOLEAN, NEW bad, Boot(sharedFails, bad)
      PROVE  TypeOK'
  <2>1. SharedListener \in Listener
    BY DEF SharedListener, Listener, MaybeDevice, MaybeProject
  <2>2. listeners' \in [Ports -> Listener \cup {None}]
    BY <1>7, <2>1, PinnedType DEF Boot
  <2> QED BY <1>7, <2>2 DEF Boot, TypeOK
<1>8. ASSUME NEW i \in Installers, NEW bad, Reload(i, bad)
      PROVE  TypeOK'
  <2>1. listeners' \in [Ports -> Listener \cup {None}]
    BY <1>8, PinnedType DEF Reload, Synced, TypeOK
  <2> QED BY <1>8, <2>1 DEF Reload, TypeOK
<1>9. CASE Stop
  BY <1>9 DEF Stop, TypeOK, Absent
<1> QED
  BY <1>1, <1>2, <1>3, <1>4, <1>5, <1>6, <1>7, <1>8, <1>9
  DEF Next, Launcher, Proxy, MaybeProject

\* The variables keep their types: no port outside the range is ever recorded
\* or wired (_allocate_target_port fails instead).
THEOREM TypeCorrect == Spec => []TypeOK
  BY TypeInit, TypeStep, PTL DEF Spec

-----------------------------------------------------------------------------
(* The inductive invariant.  MapSound needs DevicesMinted (a fresh device  *)
(* id differs from every recorded one); RightIdentity follows from what    *)
(* the configs, the installers and the listeners each have copied from the *)
(* map, because an entry never changes its port or its device id.          *)

DevicesMinted ==
    \A t \in Targets : Mapped(t) => map[t].device <= minted

PinnedRight ==
    \A p \in Ports : listeners[p] # None =>
        \/ p = cfgPort /\ listeners[p] = SharedListener
        \/ \E t \in On(p) : listeners[p].device = map[t].device

ConfigRight ==
    failures = 0 => \A t \in Targets : config[t] # None =>
        Mapped(t) /\ config[t].port = map[t].port

RunRight ==
    failures = 0 => \A i \in Installers : run[i].pc \in {"writing", "reloading"} =>
        Mapped(run[i].target) /\ run[i].port = map[run[i].target].port

IInv ==
    /\ TypeOK
    /\ MapSound
    /\ DevicesMinted
    /\ PinnedRight
    /\ ConfigRight
    /\ RunRight

\* What a step may do to the map: an entry keeps its port and device id, and a
\* new one gets a port no entry has and a device id just minted.
EntriesKept ==
    /\ minted <= minted'
    /\ \A t \in Targets : Mapped(t) =>
          /\ map'[t] # None
          /\ map'[t].port = map[t].port
          /\ map'[t].device = map[t].device
    /\ \A t \in Targets : ~Mapped(t) /\ map'[t] # None =>
          /\ map'[t].port \notin UsedPorts
          /\ map'[t].device = minted + 1 /\ minted' = minted + 1
          /\ \A u \in Targets \ {t} : map'[u] = map[u]

LEMMA CommitKeeps ==
    ASSUME TypeOK, NEW i \in Installers, Commit(i)
    PROVE  /\ EntriesKept
           /\ run[i].target \in Targets
           /\ map'[run[i].target] # None
           /\ map'[run[i].target].port = Resolved(i).port
<1> DEFINE t == run[i].target
           entry == [port |-> Resolved(i).port, device |-> Resolved(i).device,
                     project |-> run[i].project]
<1>1. /\ t \in Targets
      /\ entry \in Entry
      /\ IF Mapped(t)
         THEN entry.port = map[t].port /\ entry.device = map[t].device
         ELSE entry.port \notin UsedPorts /\ entry.device = minted + 1
  BY Granted DEF Commit, Asking, Entry
<1>2. entry # None
  BY <1>1, NoneIsNothing
<1> QED BY <1>1, <1>2 DEF EntriesKept, Commit, TypeOK, Mapped

LEMMA StepKeeps == TypeOK /\ [Next]_vars => EntriesKept
<1> SUFFICES ASSUME TypeOK, [Next]_vars
             PROVE  EntriesKept
  OBVIOUS
<1>1. ASSUME map' = map, minted <= minted'
      PROVE  EntriesKept
  BY <1>1 DEF EntriesKept, Mapped
<1>2. CASE UNCHANGED vars
  BY <1>1, <1>2 DEF vars, TypeOK
<1>3. ASSUME NEW i \in Installers, Commit(i)
      PROVE  EntriesKept
  BY <1>3, CommitKeeps
<1>4. ASSUME NEW i \in Installers, CommitUnrecorded(i)
      PROVE  EntriesKept
  BY <1>1, <1>4 DEF CommitUnrecorded, TypeOK
<1>5. ASSUME NEW i \in Installers, WriteConfig(i) \/ Quit(i)
      PROVE  EntriesKept
  BY <1>1, <1>5 DEF WriteConfig, Quit, TypeOK
<1>6. ASSUME NEW i \in Installers, NEW t \in Targets, NEW plain \in BOOLEAN,
             NEW project \in MaybeProject, Start(i, t, plain, project)
      PROVE  EntriesKept
  BY <1>1, <1>6 DEF Start, TypeOK
<1>7. ASSUME NEW p \in SharedPorts, MoveShared(p)
      PROVE  EntriesKept
  BY <1>1, <1>7 DEF MoveShared, TypeOK
<1>8. ASSUME NEW sharedFails \in BOOLEAN, NEW bad, Boot(sharedFails, bad)
      PROVE  EntriesKept
  BY <1>1, <1>8 DEF Boot, TypeOK
<1>9. ASSUME NEW i \in Installers, NEW bad, Reload(i, bad)
      PROVE  EntriesKept
  BY <1>1, <1>9 DEF Reload, TypeOK
<1>10. CASE Stop
  BY <1>1, <1>10 DEF Stop, TypeOK
<1> QED
  BY <1>2, <1>3, <1>4, <1>5, <1>6, <1>7, <1>8, <1>9, <1>10
  DEF Next, Launcher, Proxy, MaybeProject

LEMMA MapSoundStep ==
    ASSUME TypeOK, TypeOK', MapSound, DevicesMinted, EntriesKept
    PROVE  MapSound' /\ DevicesMinted'
<1>1. ASSUME NEW t \in Targets, Mapped(t)
      PROVE  map[t].port \in UsedPorts /\ map[t].device \in Nat
  BY <1>1 DEF UsedPorts, TypeOK, Mapped, Entry
<1>2. DevicesMinted'
  <2> SUFFICES ASSUME NEW t \in Targets, Mapped(t)'
               PROVE  map'[t].device <= minted'
    BY DEF DevicesMinted
  <2>1. CASE Mapped(t)
    BY <1>1, <2>1 DEF EntriesKept, DevicesMinted, TypeOK
  <2>2. CASE ~Mapped(t)
    BY <2>2 DEF EntriesKept, Mapped, TypeOK
  <2> QED BY <2>1, <2>2
<1>3. MapSound'
  <2> SUFFICES ASSUME NEW t \in Targets, NEW u \in Targets, t # u,
                      Mapped(t)', Mapped(u)'
               PROVE  map'[t].port # map'[u].port /\ map'[t].device # map'[u].device
    BY DEF MapSound
  <2>1. CASE Mapped(t) /\ Mapped(u)
    BY <2>1 DEF EntriesKept, MapSound
  <2>2. ASSUME NEW v \in Targets, NEW w \in Targets, v # w, ~Mapped(v), Mapped(v)', Mapped(w)'
        PROVE  map'[v].port # map'[w].port /\ map'[v].device # map'[w].device
    <3>1. map'[w] = map[w] /\ Mapped(w)
      BY <2>2 DEF EntriesKept, Mapped
    <3>2. map[w].port \in UsedPorts /\ map[w].device \in Nat /\ map[w].device <= minted
      BY <1>1, <3>1 DEF DevicesMinted
    <3>3. map'[v].port \notin UsedPorts /\ map'[v].device = minted + 1
      BY <2>2 DEF EntriesKept, Mapped
    <3> QED BY <3>1, <3>2, <3>3 DEF TypeOK
  <2> QED BY <2>1, <2>2
<1> QED BY <1>2, <1>3

\* What the configs and the installers have copied from the map stays right.
LEMMA CopiesStep ==
    ASSUME TypeOK, [Next]_vars, ConfigRight, RunRight, EntriesKept
    PROVE  ConfigRight' /\ RunRight'
<1> SUFFICES ASSUME failures' = 0
             PROVE  /\ \A t \in Targets : config'[t] # None =>
                          map'[t] # None /\ config'[t].port = map'[t].port
                    /\ \A i \in Installers :
                          run'[i].pc \in {"writing", "reloading"} =>
                              /\ map'[run'[i].target] # None
                              /\ run'[i].port = map'[run'[i].target].port
  BY DEF ConfigRight, RunRight, Mapped
<1>1. ASSUME failures = 0, NEW t \in Targets, config[t] # None
      PROVE  map'[t] # None /\ config[t].port = map'[t].port
  BY <1>1 DEF ConfigRight, EntriesKept
<1>2. ASSUME failures = 0, NEW i \in Installers, run[i].pc \in {"writing", "reloading"}
      PROVE  map'[run[i].target] # None /\ run[i].port = map'[run[i].target].port
  <2>1. run[i].target \in Targets
    BY <1>2 DEF TypeOK, Idle, Asking, Committed
  <2> QED BY <1>2, <2>1 DEF RunRight, EntriesKept
<1> DEFINE Goal(i) == run'[i].pc \in {"writing", "reloading"} =>
                          /\ map'[run'[i].target] # None
                          /\ run'[i].port = map'[run'[i].target].port
           Goals == /\ \A t \in Targets : config'[t] # None =>
                          map'[t] # None /\ config'[t].port = map'[t].port
                    /\ \A i \in Installers : Goal(i)
<1>3. ASSUME failures = 0, config' = config,
             \A i \in Installers : run'[i] = run[i] \/ Goal(i)
      PROVE  Goals
  BY <1>1, <1>2, <1>3
<1>4. CASE UNCHANGED vars
  BY <1>3, <1>4 DEF vars
<1>5. ASSUME NEW i \in Installers, NEW t \in Targets, NEW plain \in BOOLEAN,
             NEW project \in MaybeProject, Start(i, t, plain, project)
      PROVE  Goals
  <2>1. run'[i].pc = "asking"
    BY <1>5 DEF Start, TypeOK
  <2>2. \A j \in Installers : run'[j] = run[j] \/ Goal(j)
    BY <1>5, <2>1 DEF Start, TypeOK
  <2> QED BY <1>3, <1>5, <2>2 DEF Start
<1>6. ASSUME NEW i \in Installers, Commit(i)
      PROVE  Goals
  <2>1. /\ run'[i].target = run[i].target
        /\ run'[i].port = Resolved(i).port
    BY <1>6 DEF Commit, TypeOK
  <2>2. Goal(i)
    BY <1>6, <2>1, CommitKeeps
  <2>3. \A j \in Installers : run'[j] = run[j] \/ Goal(j)
    BY <1>6, <2>2 DEF Commit, TypeOK
  <2> QED BY <1>3, <1>6, <2>3 DEF Commit
<1>7. ASSUME NEW i \in Installers, CommitUnrecorded(i)
      PROVE  Goals
  BY <1>7 DEF CommitUnrecorded, TypeOK
<1>8. ASSUME NEW i \in Installers, WriteConfig(i)
      PROVE  Goals
  <2>1. /\ run[i].target \in Targets /\ run[i].pc = "writing"
        /\ failures = 0
    BY <1>8 DEF WriteConfig, TypeOK, Idle, Asking, Committed
  <2>2. \A j \in Installers : Goal(j)
    <3>1. /\ run'[i].target = run[i].target
          /\ run'[i].port = run[i].port
      BY <1>8 DEF WriteConfig, TypeOK
    <3>2. \A j \in Installers \ {i} : run'[j] = run[j]
      BY <1>8 DEF WriteConfig, TypeOK
    <3> QED BY <1>2, <2>1, <3>1, <3>2
  <2>3. ASSUME NEW t \in Targets, config'[t] # None
        PROVE  map'[t] # None /\ config'[t].port = map'[t].port
    <3>1. CASE t = run[i].target
      BY <1>2, <1>8, <2>1, <3>1 DEF WriteConfig, TypeOK
    <3>2. CASE t # run[i].target
      BY <1>1, <1>8, <2>1, <2>3, <3>2 DEF WriteConfig, TypeOK
    <3> QED BY <3>1, <3>2
  <2> QED BY <2>2, <2>3
<1>9. ASSUME NEW i \in Installers, Quit(i)
      PROVE  Goals
  <2>1. run'[i].pc = "idle"
    BY <1>9 DEF Quit, TypeOK, Idle
  <2>2. \A j \in Installers : run'[j] = run[j] \/ Goal(j)
    BY <1>9, <2>1 DEF Quit, TypeOK
  <2> QED BY <1>3, <1>9, <2>2 DEF Quit
<1>10. ASSUME NEW p \in SharedPorts, MoveShared(p)
       PROVE  Goals
  BY <1>3, <1>10 DEF MoveShared
<1>11. ASSUME NEW sharedFails \in BOOLEAN, NEW bad, Boot(sharedFails, bad)
       PROVE  Goals
  BY <1>3, <1>11 DEF Boot
<1>12. ASSUME NEW i \in Installers, NEW bad, Reload(i, bad)
       PROVE  Goals
  <2>1. run'[i].pc = "idle"
    BY <1>12 DEF Reload, TypeOK, Idle
  <2>2. \A j \in Installers : run'[j] = run[j] \/ Goal(j)
    BY <1>12, <2>1 DEF Reload, TypeOK
  <2> QED BY <1>3, <1>12, <2>2 DEF Reload
<1>13. CASE Stop
  BY <1>3, <1>13 DEF Stop
<1> QED
  BY <1>4, <1>5, <1>6, <1>7, <1>8, <1>9, <1>10, <1>11, <1>12, <1>13
  DEF Next, Launcher, Proxy, MaybeProject

\* Every listener is the shared one on the daemon's port, or carries the device
\* id of an entry of its port.
LEMMA PinnedStep ==
    ASSUME TypeOK, [Next]_vars, PinnedRight, EntriesKept
    PROVE  PinnedRight'
<1> SUFFICES ASSUME NEW p \in Ports, listeners'[p] # None
             PROVE  \/ p = cfgPort' /\ listeners'[p] = SharedListener
                    \/ \E t \in Targets : /\ map'[t] # None /\ map'[t].port = p
                                          /\ listeners'[p].device = map'[t].device
  BY DEF PinnedRight, On, Mapped, SharedListener
<1>1. ASSUME NEW t \in On(p), listeners'[p].device = map[t].device
      PROVE  \E u \in Targets : /\ map'[u] # None /\ map'[u].port = p
                                /\ listeners'[p].device = map'[u].device
  BY <1>1 DEF On, EntriesKept
<1>2. CASE UNCHANGED <<cfgPort, listeners>>
  BY <1>1, <1>2 DEF PinnedRight
<1>3. ASSUME On(p) # {}, listeners'[p] = Pinned(CHOOSE t \in On(p) : TRUE)
      PROVE  \E u \in Targets : /\ map'[u] # None /\ map'[u].port = p
                                /\ listeners'[p].device = map'[u].device
  <2>1. (CHOOSE t \in On(p) : TRUE) \in On(p)
    BY <1>3
  <2> QED BY <1>1, <1>3, <2>1 DEF Pinned
<1>4. ASSUME NEW sharedFails \in BOOLEAN, NEW bad, Boot(sharedFails, bad)
      PROVE  \/ p = cfgPort' /\ listeners'[p] = SharedListener
             \/ On(p) # {} /\ listeners'[p] = Pinned(CHOOSE t \in On(p) : TRUE)
  BY <1>4 DEF Boot
<1>5. ASSUME NEW i \in Installers, NEW bad, Reload(i, bad)
      PROVE  \/ listeners'[p] = listeners[p] /\ cfgPort' = cfgPort
             \/ On(p) # {} /\ listeners'[p] = Pinned(CHOOSE t \in On(p) : TRUE)
  BY <1>5 DEF Reload, Synced
<1>6. CASE listeners'[p] = listeners[p] /\ cfgPort' = cfgPort
  BY <1>1, <1>6 DEF PinnedRight
<1>7. ~Stop
  BY DEF Stop, Absent
<1>8. CASE Launcher
  BY <1>2, <1>8 DEF Launcher, Start, Commit, CommitUnrecorded, WriteConfig, Quit,
                    MoveShared, daemon
<1>9. CASE Proxy
  BY <1>3, <1>4, <1>5, <1>6, <1>7, <1>9 DEF Proxy
<1> QED BY <1>2, <1>8, <1>9 DEF Next, vars

LEMMA IInvInit == Init => IInv
<1> SUFFICES ASSUME Init PROVE IInv
  OBVIOUS
<1>1. TypeOK
  BY TypeInit
<1>2. /\ \A t \in Targets : map[t] = None /\ config[t] = None
      /\ \A p \in Ports : listeners[p] = None
      /\ \A i \in Installers : run[i].pc = "idle"
  BY DEF Init, Absent, Idle
<1> QED
  BY <1>1, <1>2 DEF IInv, MapSound, DevicesMinted, PinnedRight, ConfigRight, RunRight, Mapped

LEMMA IInvStep == IInv /\ [Next]_vars => IInv'
<1> SUFFICES ASSUME IInv, [Next]_vars PROVE IInv'
  OBVIOUS
<1>1. TypeOK /\ MapSound /\ DevicesMinted /\ PinnedRight /\ ConfigRight /\ RunRight
  BY DEF IInv
<1>2. TypeOK' /\ EntriesKept
  BY <1>1, TypeStep, StepKeeps
<1>3. MapSound' /\ DevicesMinted'
  BY <1>1, <1>2, MapSoundStep
<1>4. ConfigRight' /\ RunRight'
  BY <1>1, <1>2, CopiesStep
<1>5. PinnedRight'
  BY <1>1, <1>2, PinnedStep
<1> QED BY <1>2, <1>3, <1>4, <1>5 DEF IInv

LEMMA IInvAlways == Spec => []IInv
  BY IInvInit, IInvStep, PTL DEF Spec

-----------------------------------------------------------------------------
(* The results.                                                            *)

\* No two targets ever share a port or a device id, for any number of
\* concurrent installs.
THEOREM MapCorrect == Spec => []MapSound
<1>1. IInv => MapSound
  BY DEF IInv
<1> QED BY <1>1, IInvAlways, PTL

LEMMA IdentityFollows ==
    ASSUME MapSound, PinnedRight, ConfigRight, TypeOK
    PROVE  RightIdentity
<1> SUFFICES ASSUME failures = 0, NEW t \in Targets, config[t] # None,
                    listeners[map[t].port] # None
             PROVE  listeners[map[t].port].device \in {map[t].device, None}
  BY DEF RightIdentity, ConfigRight
<1> DEFINE p == map[t].port
<1>1. Mapped(t) /\ p \in Ports
  BY DEF ConfigRight, TypeOK, Mapped, Entry
<1>2. CASE listeners[p] = SharedListener
  BY <1>2 DEF SharedListener
<1>3. ASSUME NEW u \in On(p), listeners[p].device = map[u].device
      PROVE  listeners[p].device = map[t].device
  BY <1>1, <1>3 DEF On, MapSound
<1> QED BY <1>1, <1>2, <1>3 DEF PinnedRight

\* A wired client never speaks under another target's identity, as long as the
\* map could be written.
THEOREM IdentityCorrect == Spec => []RightIdentity
<1>1. IInv => RightIdentity
  BY IdentityFollows DEF IInv
<1> QED BY <1>1, IInvAlways, PTL

\* A reload leaves every unchanged listener, every listener without an entry
\* and the shared one as they are, whichever binds fail.
THEOREM ReloadCorrect == Spec => ReloadDisturbsOnlyChanged
<1>1. ASSUME [Next]_vars, cfgPort # None, cfgPort' = cfgPort, NEW p \in Ports,
             listeners[p] # None, listeners'[p] # listeners[p]
      PROVE  p # cfgPort /\ \E t \in On(p) : map[t].project # listeners[p].project
  <2>1. CASE Launcher \/ UNCHANGED vars
    BY <1>1, <2>1 DEF Launcher, Start, Commit, CommitUnrecorded, WriteConfig, Quit,
                      MoveShared, daemon, vars
  <2>2. ASSUME NEW i \in Installers, NEW bad, Reload(i, bad)
        PROVE  On(p) # {} /\ \A t \in On(p) : ~Kept(p, t)
    BY <1>1, <2>2 DEF Reload, Synced
  <2>3. ASSUME NEW t \in On(p), ~Kept(p, t)
        PROVE  p # cfgPort /\ map[t].project # listeners[p].project
    BY <1>1, <2>3 DEF Kept
  <2>4. CASE Proxy
    BY <1>1, <2>2, <2>3, <2>4 DEF Proxy, Boot, Stop
  <2> QED BY <1>1, <2>1, <2>4 DEF Next
<1>2. [Next]_vars => [cfgPort # None /\ cfgPort' = cfgPort =>
          \A p \in Ports :
              listeners[p] # None /\ listeners'[p] # listeners[p]
                  => p # cfgPort /\ \E t \in On(p) : map[t].project # listeners[p].project]_vars
  BY <1>1
<1> QED BY <1>2, PTL DEF Spec, ReloadDisturbsOnlyChanged

\* On a port of its own an entry is the only one, and a listener there that has
\* its project also has its device id: a reload may leave it alone.
LEMMA KeptIsRight ==
    ASSUME IInv, NEW t \in Targets, Mapped(t), map[t].port # cfgPort
    PROVE  /\ On(map[t].port) = {t}
           /\ Kept(map[t].port, t) => listeners[map[t].port] = Pinned(t)
<1> DEFINE p == map[t].port
<1>1. p \in Ports
  BY DEF IInv, TypeOK, Mapped, Entry
<1>2. On(p) = {t}
  BY DEF IInv, MapSound, On
<1>3. ASSUME Kept(p, t)
      PROVE  listeners[p] = Pinned(t)
  <2>1. listeners[p] \in Listener /\ listeners[p].project = map[t].project
    BY <1>1, <1>3 DEF Kept, IInv, TypeOK
  <2>2. listeners[p].device = map[t].device
    BY <1>1, <1>2, <1>3 DEF Kept, IInv, PinnedRight
  <2> QED BY <2>1, <2>2 DEF Listener, Pinned
<1> QED BY <1>2, <1>3

\* After a reload whose binds succeed, every entry is served under its own
\* device id and project, whatever was lost or failed before.
THEOREM ReloadConvergence == Spec => ReloadConverges
<1>1. ASSUME IInv, NEW i \in Installers, Reload(i, {}), NEW t \in Targets,
             Mapped(t), map[t].port # cfgPort
      PROVE  listeners'[map[t].port] = Pinned(t)
  <2> DEFINE p == map[t].port
  <2>1. On(p) = {t} /\ (Kept(p, t) => listeners[p] = Pinned(t))
    BY <1>1, KeptIsRight
  <2>2. p \in Ports
    BY <1>1 DEF IInv, TypeOK, Mapped, Entry
  <2>3. (CHOOSE u \in On(p) : TRUE) = t
    BY <2>1
  <2>4. listeners'[p] = IF Kept(p, t) THEN listeners[p] ELSE Pinned(t)
    BY <1>1, <2>1, <2>2, <2>3 DEF Reload, Synced
  <2> QED BY <2>1, <2>4
<1>2. IInv /\ [Next]_vars => [\A i \in Installers : Reload(i, {}) =>
          \A t \in Targets :
              Mapped(t) /\ map[t].port # cfgPort
                  => listeners'[map[t].port] = Pinned(t)]_vars
  BY <1>1
<1> QED BY <1>2, IInvAlways, PTL DEF Spec, ReloadConverges

=============================================================================
