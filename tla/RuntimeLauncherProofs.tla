------------------------ MODULE RuntimeLauncherProofs ------------------------
(***************************************************************************)
(* Type correctness of RuntimeLauncher, and that no launcher ends a        *)
(* process of another program while it reaps, starts or enrolls.           *)
(***************************************************************************)
EXTENDS RuntimeLauncher, SequenceTheorems, TLAPS

-----------------------------------------------------------------------------
(* The lists of tasks.                                                     *)

\* Each function of the script is a list of tasks.
LEMMA ListsTyped ==
    /\ Reap \in Seq(Tasks) /\ Launch \in Seq(Tasks) /\ Retry \in Seq(Tasks)
    /\ Start \in Seq(Tasks) /\ Stop \in Seq(Tasks) /\ Restart \in Seq(Tasks)
    /\ Setup \in Seq(Tasks)
    /\ Reap \o Launch \in Seq(Tasks)
    /\ Reap \o <<"failed">> \in Seq(Tasks)
    /\ <<"failed">> \in Seq(Tasks) /\ <<"ok">> \in Seq(Tasks)
    /\ <<"probeProxy">> \in Seq(Tasks)
<1>1. Reap \in Seq(Tasks)
  BY DEF Reap, Tasks, Files
<1>2. <<"spawn", "await", "require", "ok">> \in Seq(Tasks)
  BY DEF Tasks
<1>3. <<"spawn", "awaitAgain", "require", "ok">> \in Seq(Tasks)
  BY DEF Tasks
<1>4. <<"spawnSetup", "record", "enrol", "stopSetup", "enrolledOk">> \in Seq(Tasks)
  BY DEF Tasks
<1>5. Start \in Seq(Tasks) /\ Stop \in Seq(Tasks) /\ <<"runtime", "strike">> \in Seq(Tasks)
  BY DEF Start, Stop, Tasks, Files
<1>6. /\ <<"failed">> \in Seq(Tasks) /\ <<"ok">> \in Seq(Tasks)
      /\ <<"probeProxy">> \in Seq(Tasks)
  BY DEF Tasks
<1>7. Launch \in Seq(Tasks)
  BY <1>1, <1>2, ConcatProperties DEF Launch
<1>8. Retry \in Seq(Tasks)
  BY <1>1, <1>3, ConcatProperties DEF Retry
<1>9. Restart \in Seq(Tasks)
  BY <1>5, ConcatProperties DEF Restart
<1>10. Setup \in Seq(Tasks)
  BY <1>1, <1>4, ConcatProperties DEF Setup
<1>11. Reap \o Launch \in Seq(Tasks) /\ Reap \o <<"failed">> \in Seq(Tasks)
  BY <1>1, <1>6, <1>7, ConcatProperties
<1> QED
  BY <1>1, <1>5, <1>6, <1>7, <1>8, <1>9, <1>10, <1>11

\* The rest of a list that is not finished is a list.
LEMMA TailTyped == ASSUME NEW s \in Seq(Tasks), s # <<>>
                   PROVE  Tail(s) \in Seq(Tasks)
  OBVIOUS

-----------------------------------------------------------------------------
(* Type correctness.                                                       *)

\* A launcher waits for a process only in the middle of a task that kills.
Killing    == {"runtime", "setup", "orphans", "stopSetup"}
TargetTask == \A l \in Launchers : lane[l].target # NoPid =>
                  lane[l].todo # <<>> /\ Head(lane[l].todo) \in Killing

LEMMA TypeInit == Init => TypeOK /\ TargetTask
<1> SUFFICES ASSUME Init PROVE TypeOK /\ TargetTask
  OBVIOUS
<1>1. AtRest \in LaneStates
  BY DEF AtRest, LaneStates, MaybePid
<1>2. lane \in [Launchers -> LaneStates] /\ TargetTask
  BY <1>1 DEF Init, TargetTask, AtRest
<1>3. enrolled \in BOOLEAN
  BY DEF Init
<1>4. commands \in 0..MaxCommands
  BY LauncherAssumption DEF Init
<1>5. proc \in [Pids -> ProcStates] /\ proxy \in MaybePid /\ pidfile \in [Files -> MaybePid]
  BY DEF Init, ProcStates, MaybePid
<1> QED
  BY <1>2, <1>3, <1>4, <1>5 DEF TypeOK

\* What the shared parts of the actions do to the types.
LEMMA SignalTypes ==
    ASSUME TypeOK, NEW p, Dies(p) \/ Terminate(p)
    PROVE  proc' \in [Pids -> ProcStates] /\ proxy' \in MaybePid
  BY DEF TypeOK, Dies, Terminate, WithoutProxy, MaybePid, ProcStates, Answering

LEMMA ContinueTypes ==
    ASSUME TypeOK, NEW l \in Launchers, NEW s \in Seq(Tasks), Continue(l, s)
    PROVE  lane' \in [Launchers -> LaneStates]
  BY DEF TypeOK, Continue, LaneStates

LEMMA NextTypes ==
    ASSUME TypeOK, NEW l \in Launchers, lane[l].todo # <<>>, Next1(l)
    PROVE  lane' \in [Launchers -> LaneStates]
<1>1. lane[l].todo \in Seq(Tasks)
  BY DEF TypeOK, LaneStates
<1> QED
  BY <1>1, TailTyped, ContinueTypes DEF Next1

LEMMA AwaitTypes ==
    ASSUME TypeOK, NEW l \in Launchers, NEW p \in Pids, Await(l, p)
    PROVE  lane' \in [Launchers -> LaneStates]
  BY DEF TypeOK, Await, LaneStates, MaybePid

LEMMA DisturbedTypes ==
    ASSUME TypeOK
    PROVE  Disturbed \in [Launchers -> LaneStates]
  BY DEF TypeOK, Disturbed, LaneStates

LEMMA GiveTypes ==
    ASSUME TypeOK, NEW l \in Launchers, NEW s \in Seq(Tasks), Give(l, s)
    PROVE  TypeOK'
<1>1. [AtRest EXCEPT !.todo = s, !.quiet = \A m \in Launchers \ {l} : Resting(m)] \in LaneStates
  <2> DEFINE q == \A m \in Launchers \ {l} : Resting(m)
  <2>1. q \in BOOLEAN
    OBVIOUS
  <2> HIDE DEF q
  <2>2. [AtRest EXCEPT !.todo = s, !.quiet = q] \in LaneStates
    BY <2>1 DEF AtRest, LaneStates, MaybePid
  <2> QED
    BY <2>2 DEF q
<1>2. lane' \in [Launchers -> LaneStates]
  BY <1>1, DisturbedTypes DEF Give
<1>3. commands' \in 0..MaxCommands
  BY LauncherAssumption DEF Give, TypeOK
<1> QED
  BY <1>2, <1>3 DEF Give, TypeOK, daemons

LEMMA SpawnsTypes ==
    ASSUME TypeOK, NEW l \in Launchers, NEW p \in Pids, NEW st \in ProcStates,
           lane[l].todo # <<>>, Spawns(l, p, st)
    PROVE  TypeOK'
<1>1. Tail(lane[l].todo) \in Seq(Tasks)
  BY TailTyped DEF TypeOK, LaneStates
<1>2. lane' \in [Launchers -> LaneStates]
  BY <1>1 DEF TypeOK, Spawns, LaneStates, MaybePid
<1> QED
  BY <1>2 DEF TypeOK, Spawns

LEMMA TypeReaping ==
    ASSUME TypeOK, TargetTask, NEW l \in Launchers, Reaping(l)
    PROVE  TypeOK'
<1> USE DEF daemons
<1>1. ASSUME NEW f \in Files, ReapRecorded(l, f)
      PROVE  TypeOK'
  <2>1. pidfile[f] \in Pids /\ Await(l, pidfile[f])
    BY <1>1 DEF ReapRecorded, IsRuntime
  <2> QED
    BY <1>1, <2>1, AwaitTypes, SignalTypes DEF ReapRecorded, Await, TypeOK
<1>2. ASSUME NEW f \in Files, ClearPidfile(l, f)
      PROVE  TypeOK'
  BY <1>2, NextTypes DEF ClearPidfile, Doing, TypeOK, MaybePid
<1>3. CASE Census(l)
  <2>1. lane[l].todo \in Seq(Tasks) /\ lane[l].todo # <<>>
    BY <1>3 DEF Census, Doing, TypeOK, LaneStates
  <2>2. Tail(lane[l].todo) \in Seq(Tasks) /\ <<"orphans">> \in Seq(Tasks)
    BY <2>1, TailTyped DEF Tasks
  <2>3. <<"orphans">> \o Tail(lane[l].todo) \in Seq(Tasks)
    BY <2>2, ConcatProperties
  <2>4. lane' \in [Launchers -> LaneStates]
    BY <1>3, <2>3 DEF Census, TypeOK, LaneStates, Runtimes
  <2> QED
    BY <1>3, <2>4 DEF Census, TypeOK
<1>4. ASSUME NEW p \in Pids, ReapOrphan(l, p)
      PROVE  TypeOK'
  <2>1. lane' \in [Launchers -> LaneStates]
    BY <1>4 DEF ReapOrphan, TypeOK, LaneStates, MaybePid
  <2> QED
    BY <1>4, <2>1, SignalTypes DEF ReapOrphan, TypeOK
<1>5. CASE OrphansReaped(l)
  <2>1. Tail(lane[l].todo) \in Seq(Tasks)
    BY <1>5, TailTyped DEF OrphansReaped, Doing, TypeOK, LaneStates
  <2>2. lane' \in [Launchers -> LaneStates]
    BY <1>5, <2>1 DEF OrphansReaped, TypeOK, LaneStates
  <2> QED
    BY <1>5, <2>2 DEF OrphansReaped, TypeOK
<1>6. CASE TargetGone(l)
  <2> DEFINE task == Head(lane[l].todo)
             file == IF task = "stopSetup" THEN "setup" ELSE task
             rest == IF file \in Files THEN Tail(lane[l].todo) ELSE lane[l].todo
  <2>1. pidfile' \in [Files -> MaybePid]
    BY <1>6 DEF TargetGone, TypeOK, MaybePid
  <2>2. lane[l].todo \in Seq(Tasks) /\ lane[l].todo # <<>>
    BY <1>6 DEF TypeOK, LaneStates, TargetTask, TargetGone
  <2>3. rest \in Seq(Tasks)
    <3>1. Tail(lane[l].todo) \in Seq(Tasks)
      BY <2>2, TailTyped
    <3> QED
      BY <2>2, <3>1
  <2>4. lane' = [lane EXCEPT ![l].target = NoPid, ![l].todo = rest]
    BY <1>6 DEF TargetGone
  <2>5. lane' \in [Launchers -> LaneStates]
    <3> HIDE DEF rest
    <3> QED
      BY <2>3, <2>4 DEF TypeOK, LaneStates, MaybePid
  <2> QED
    BY <1>6, <2>1, <2>5 DEF TargetGone, TypeOK
<1>7. CASE Escalate(l)
  BY <1>7, SignalTypes DEF Escalate, TypeOK
<1> QED
  BY <1>1, <1>2, <1>3, <1>4, <1>5, <1>6, <1>7 DEF Reaping

\* A launcher that is doing a task has it at the head of its list.
LEMMA DoingTask ==
    ASSUME TypeOK, NEW l \in Launchers, NEW task, Doing(l, task)
    PROVE  /\ lane[l].todo \in Seq(Tasks) /\ lane[l].todo # <<>>
           /\ Head(lane[l].todo) = task
           /\ lane[l].target = NoPid
           /\ Tail(lane[l].todo) \in Seq(Tasks)
<1>1. lane[l].todo \in Seq(Tasks) /\ lane[l].todo # <<>>
  BY DEF Doing, TypeOK, LaneStates
<1> QED
  BY <1>1, TailTyped DEF Doing

LEMMA GiveUpTypes ==
    ASSUME TypeOK, NEW l \in Launchers, NEW q \in BOOLEAN, GiveUpChild(l, q)
    PROVE  lane' \in [Launchers -> LaneStates]
<1> DEFINE rest == IF Doing(l, "await") THEN Retry ELSE <<"failed">>
<1>1. rest \in Seq(Tasks)
  BY ListsTyped
<1> DEFINE still == lane[l].quiet /\ q
<1>2. still \in BOOLEAN
  OBVIOUS
<1>3. lane' = [lane EXCEPT ![l].todo = rest, ![l].child = NoPid, ![l].quiet = still]
  BY Zenon DEF GiveUpChild
<1> DEFINE new == [lane[l] EXCEPT !.todo = rest, !.child = NoPid, !.quiet = still]
<1>4. new \in LaneStates
  <2> HIDE DEF rest, still
  <2>1. lane[l] \in LaneStates
    BY DEF TypeOK
  <2> QED
    BY <1>1, <1>2, <2>1, Zenon DEF LaneStates, MaybePid
<1>5. lane' = [lane EXCEPT ![l] = new]
  BY <1>3, Zenon
<1> HIDE DEF new
<1> QED
  BY <1>4, <1>5 DEF TypeOK

LEMMA TypeLaunching ==
    ASSUME TypeOK, NEW l \in Launchers, Launching(l)
    PROVE  TypeOK'
<1> USE DEF daemons
<1>1. CASE Probe(l)
  <2>1. (IF PortTaken THEN <<"probeProxy">> ELSE Launch) \in Seq(Tasks)
    BY ListsTyped
  <2> QED
    BY <1>1, <2>1, ContinueTypes DEF Probe, TypeOK
<1>2. CASE ProbeProxy(l)
  <2>1. (IF proxy # NoPid THEN <<"ok">> ELSE Reap \o Launch) \in Seq(Tasks)
    BY ListsTyped
  <2> QED
    BY <1>2, <2>1, ContinueTypes DEF ProbeProxy, TypeOK
<1>3. ASSUME NEW p \in Pids, Spawn(l, p)
      PROVE  TypeOK'
  BY <1>3, DoingTask, SpawnsTypes DEF Spawn, ProcStates, Starting
<1>4. CASE Answered(l)
  <2>1. lane[l].todo # <<>> /\ lane[l].child \in MaybePid
    BY <1>4, DoingTask DEF Answered, Awaiting, TypeOK, LaneStates
  <2> QED
    BY <1>4, <2>1, NextTypes DEF Answered, TypeOK
<1>5. CASE ChildDied(l)
  BY <1>5, GiveUpTypes DEF ChildDied, TypeOK
<1>6. CASE ChildTooSlow(l)
  <2>1. lane' \in [Launchers -> LaneStates]
    BY <1>6, GiveUpTypes DEF ChildTooSlow
  <2> QED
    BY <1>6, <2>1, SignalTypes DEF ChildTooSlow, TypeOK
<1>7. CASE ProxyUp(l)
  BY <1>7, DoingTask, NextTypes DEF ProxyUp, TypeOK
<1>8. CASE ProxyDown(l)
  BY <1>8, ListsTyped, ContinueTypes DEF ProxyDown, TypeOK
<1> QED
  BY <1>1, <1>2, <1>3, <1>4, <1>5, <1>6, <1>7, <1>8 DEF Launching

LEMMA TypeEnrolling ==
    ASSUME TypeOK, NEW l \in Launchers, Enrolling(l)
    PROVE  TypeOK'
<1> USE DEF daemons
<1>1. ASSUME NEW p \in Pids, SpawnSetup(l, p)
      PROVE  TypeOK'
  BY <1>1, DoingTask, SpawnsTypes DEF SpawnSetup, ProcStates, Starting
<1>2. CASE RecordSetup(l)
  <2>1. lane[l].todo # <<>> /\ lane[l].child \in MaybePid
    BY <1>2, DoingTask DEF RecordSetup, TypeOK, LaneStates
  <2> QED
    BY <1>2, <2>1, NextTypes DEF RecordSetup, TypeOK
<1>3. CASE SetupReady(l)
  BY <1>3, DoingTask, NextTypes DEF SetupReady, TypeOK
<1>4. CASE SetupDied(l)
  <2>1. <<"failed">> \in Seq(Tasks)
    BY DEF Tasks
  <2> QED
    BY <1>4, <2>1, ContinueTypes DEF SetupDied, TypeOK, MaybePid
<1>5. CASE SetupTooSlow(l)
  <2>1. <<"stopSetup", "failed">> \in Seq(Tasks)
    BY DEF Tasks
  <2>2. lane' \in [Launchers -> LaneStates]
    BY <1>5, <2>1 DEF SetupTooSlow, TypeOK, LaneStates
  <2> QED
    BY <1>5, <2>2 DEF SetupTooSlow, TypeOK
<1>6. CASE StopSetup(l)
  <2>1. CASE IsRuntime(lane[l].child)
    <3>1. lane[l].child \in Pids /\ Await(l, lane[l].child)
      BY <1>6, <2>1 DEF StopSetup, IsRuntime
    <3> QED
      BY <1>6, <2>1, <3>1, AwaitTypes, SignalTypes DEF StopSetup, Await, TypeOK
  <2>2. CASE ~IsRuntime(lane[l].child)
    BY <1>6, <2>2, DoingTask, NextTypes DEF StopSetup, TypeOK, MaybePid
  <2> QED
    BY <2>1, <2>2
<1> QED
  BY <1>1, <1>2, <1>3, <1>4, <1>5, <1>6 DEF Enrolling

LEMMA TypeCommanded ==
    ASSUME TypeOK, NEW l \in Launchers, Commanded(l)
    PROVE  TypeOK'
<1>1. CASE GiveStart(l)
  <2>1. (IF enrolled THEN Start ELSE Setup) \in Seq(Tasks)
    BY ListsTyped
  <2> QED
    BY <1>1, <2>1, GiveTypes DEF GiveStart
<1>2. CASE GiveStop(l) \/ GiveRestart(l)
  BY <1>2, ListsTyped, GiveTypes DEF GiveStop, GiveRestart
<1>3. CASE LauncherDies(l)
  <2>1. AtRest \in LaneStates
    BY DEF AtRest, LaneStates, MaybePid
  <2> QED
    BY <1>3, <2>1 DEF LauncherDies, TypeOK, daemons
<1>4. CASE SetupInterrupted(l)
  <2>1. <<"stopSetup">> \in Seq(Tasks)
    BY DEF Tasks
  <2> QED
    BY <1>4, <2>1, ContinueTypes DEF SetupInterrupted, TypeOK, daemons
<1> QED
  BY <1>1, <1>2, <1>3, <1>4 DEF Commanded

LEMMA TypeStrike ==
    ASSUME TypeOK, NEW l \in Launchers, Strike(l)
    PROVE  TypeOK'
<1>1. lane' \in [Launchers -> LaneStates]
  BY DoingTask, NextTypes DEF Strike
<1>2. proc' \in [Pids -> ProcStates] /\ proxy' \in MaybePid
  BY SignalTypes DEF Strike, TypeOK, daemons
<1> QED
  BY <1>1, <1>2 DEF Strike, TypeOK, MaybePid

LEMMA TypeMachine ==
    ASSUME TypeOK, \/ \E p \in Pids : Running(p) \/ Machine(p)
                   \/ CertificateRemoved
    PROVE  TypeOK'
<1> USE DEF daemons, ProcStates, Starting, Answering
<1>1. ASSUME NEW p \in Pids, Bind(p)
      PROVE  TypeOK'
  BY <1>1 DEF Bind, TypeOK, MaybePid
<1>2. ASSUME NEW p \in Pids, Serve(p)
      PROVE  TypeOK'
  BY <1>2, SignalTypes DEF Serve, TypeOK
<1>3. ASSUME NEW p \in Pids, Enroll(p)
      PROVE  TypeOK'
  BY <1>3 DEF Enroll, TypeOK
<1>4. ASSUME NEW p \in Pids, Exit(p)
      PROVE  TypeOK'
  BY <1>4, SignalTypes DEF Exit, TypeOK
<1>5. ASSUME NEW p \in Pids, Crash(p)
      PROVE  TypeOK'
  BY <1>5, SignalTypes, DisturbedTypes DEF Crash, TypeOK
<1>6. ASSUME NEW p \in Pids, Machine(p)
      PROVE  TypeOK'
  BY <1>6 DEF Machine, ForeignStarts, ForeignExits, TypeOK
<1>7. CASE CertificateRemoved
  BY <1>7, DisturbedTypes DEF CertificateRemoved, TypeOK
<1> QED
  BY <1>1, <1>2, <1>3, <1>4, <1>5, <1>6, <1>7 DEF Running

-----------------------------------------------------------------------------
(* What a launcher has in hand.  The wait of _kill_wait_escalate and the   *)
(* timeout of _spawn_runtime signal a pid without asking again whose it    *)
(* is: what they rely on is that a number in hand is not given out again.  *)

Hands(l)   == lane[l].found \cup {lane[l].target, lane[l].child}
CleanHands == \A l \in Launchers, p \in Pids :
                  ~Resting(l) /\ p \in Hands(l) => proc[p] # "foreign"

IInv == TypeOK /\ TargetTask /\ CleanHands

\* A launcher in the middle of a task, or waiting, is not at rest.
LEMMA DoingBusy ==
    ASSUME NEW l \in Launchers, NEW task, Doing(l, task),
           task \notin {"ok", "enrolledOk", "failed"}
    PROVE  ~Resting(l)
  BY DEF Doing, Resting, Ends

LEMMA TargetBusy ==
    ASSUME TargetTask, NEW l \in Launchers, lane[l].target # NoPid
    PROVE  ~Resting(l)
  BY DEF TargetTask, Killing, Resting, Ends

\* Signals make no process foreign and disturb no other.
LEMMA SignalForeign ==
    ASSUME TypeOK, NEW q, Dies(q) \/ Terminate(q), NEW p \in Pids
    PROVE  /\ proc'[p] = "foreign" => proc[p] = "foreign"
           /\ p # q => proc'[p] = proc[p]
  BY DEF TypeOK, Dies, Terminate

\* An invariant of each launcher by itself survives a step of one launcher.
LEMMA OneLane ==
    ASSUME IInv, NEW l \in Launchers, NEW r \in LaneStates, lane' = [lane EXCEPT ![l] = r],
           \A p \in Pids : proc'[p] = "foreign" => proc[p] = "foreign",
           r.target # NoPid => r.todo # <<>> /\ Head(r.todo) \in Killing,
           r.todo \notin Ends => \A p \in Pids \cap (r.found \cup {r.target, r.child}) :
                                     proc'[p] # "foreign"
    PROVE  TargetTask' /\ CleanHands'
<1>1. \A m \in Launchers : lane'[m] = IF m = l THEN r ELSE lane[m]
  BY DEF IInv, TypeOK
<1>2. TargetTask'
  BY <1>1 DEF IInv, TargetTask
<1>3. ASSUME NEW m \in Launchers, NEW p \in Pids, (~Resting(m))', p \in Hands(m)'
      PROVE  proc'[p] # "foreign"
  <2>1. CASE m = l
    BY <1>1, <1>3, <2>1 DEF Resting, Hands
  <2>2. CASE m # l
    BY <1>1, <1>3, <2>2 DEF IInv, CleanHands, Resting, Hands
  <2> QED
    BY <2>1, <2>2
<1> QED
  BY <1>2, <1>3 DEF CleanHands

\* ... and a step that only takes away their quiet, while no process in hand
\* becomes foreign.
LEMMA SameLanes ==
    ASSUME IInv, lane' = lane \/ lane' = Disturbed,
           \A p \in Pids : proc'[p] = "foreign" => proc[p] = "foreign" \/ p \notin InHand
    PROVE  TargetTask' /\ CleanHands'
<1>1. \A m \in Launchers : /\ lane'[m].todo = lane[m].todo
                            /\ lane'[m].target = lane[m].target
                            /\ lane'[m].found = lane[m].found
                            /\ lane'[m].child = lane[m].child
  BY DEF IInv, TypeOK, LaneStates, Disturbed
<1>2. TargetTask'
  BY <1>1 DEF IInv, TargetTask
<1>3. ASSUME NEW m \in Launchers, NEW p \in Pids, (~Resting(m))', p \in Hands(m)'
      PROVE  proc'[p] # "foreign"
  <2>1. ~Resting(m) /\ p \in Hands(m)
    BY <1>1, <1>3 DEF Resting, Hands
  <2>2. p \in InHand
    BY <2>1 DEF InHand, Hands
  <2>3. proc[p] # "foreign"
    BY <2>1 DEF IInv, CleanHands
  <2> QED
    BY <2>2, <2>3
<1> QED
  BY <1>2, <1>3 DEF CleanHands

\* Going on with another list, with no more in hand than before.
LEMMA ContinueClean ==
    ASSUME IInv, NEW l \in Launchers, NEW task, Doing(l, task),
           task \notin {"ok", "enrolledOk", "failed"},
           NEW r \in LaneStates, lane' = [lane EXCEPT ![l] = r],
           r.target = NoPid, r.found \subseteq lane[l].found,
           r.child \in {NoPid, lane[l].child} \/ proc'[r.child] # "foreign",
           \A p \in Pids : proc'[p] = "foreign" => proc[p] = "foreign"
    PROVE  TargetTask' /\ CleanHands'
<1>1. ~Resting(l)
  BY DoingBusy
<1>2. \A p \in Pids \cap (r.found \cup {r.target, r.child}) : proc'[p] # "foreign"
  BY <1>1, LauncherAssumption DEF IInv, CleanHands, Hands
<1> QED
  BY <1>2, OneLane

LEMMA GoOnClean ==
    ASSUME IInv, NEW l \in Launchers, NEW task, Doing(l, task),
           task \notin {"ok", "enrolledOk", "failed"},
           NEW s \in Seq(Tasks), Continue(l, s),
           \A p \in Pids : proc'[p] = "foreign" => proc[p] = "foreign"
    PROVE  TargetTask' /\ CleanHands'
<1> DEFINE r == [lane[l] EXCEPT !.todo = s]
<1>1. lane[l] \in LaneStates /\ lane[l].target = NoPid
  BY DEF IInv, TypeOK, Doing
<1>2. /\ r \in LaneStates /\ r.target = NoPid /\ r.found = lane[l].found
      /\ r.child = lane[l].child
  BY <1>1 DEF LaneStates
<1>3. lane' = [lane EXCEPT ![l] = r]
  BY DEF Continue
<1> HIDE DEF r
<1> QED
  BY <1>2, <1>3, ContinueClean

\* Signalling a process that is not foreign and waiting for it.
LEMMA AwaitClean ==
    ASSUME IInv, NEW l \in Launchers, NEW task \in Killing, Doing(l, task),
           NEW p \in Pids, IsRuntime(p), Terminate(p),
           NEW f \in SUBSET lane[l].found,
           lane' = [lane EXCEPT ![l] = [lane[l] EXCEPT !.target = p, !.found = f]]
    PROVE  TargetTask' /\ CleanHands'
<1> DEFINE r == [lane[l] EXCEPT !.target = p, !.found = f]
<1>1. lane[l] \in LaneStates
  BY DEF IInv, TypeOK
<1>2. f \subseteq Pids
  BY <1>1 DEF LaneStates
<1>3. r \in LaneStates
  BY <1>1, <1>2 DEF LaneStates, MaybePid
<1>4. /\ r.target = p /\ r.found = f /\ r.child = lane[l].child
      /\ r.todo = lane[l].todo
  BY <1>1 DEF LaneStates
<1>5. ~Resting(l)
  BY DoingBusy DEF Killing
<1>6. r.todo # <<>> /\ Head(r.todo) \in Killing
  BY <1>4 DEF Doing
<1>7. proc[p] # "foreign"
  BY DEF IsRuntime, Starting, Answering
<1>8. \A q \in Pids : proc'[q] = "foreign" => proc[q] = "foreign"
  BY SignalForeign DEF IInv
<1>9. \A q \in Pids \cap (r.found \cup {r.target, r.child}) : proc'[q] # "foreign"
  BY <1>4, <1>5, <1>7, <1>8 DEF IInv, CleanHands, Hands
<1>10. lane' = [lane EXCEPT ![l] = r]
  OBVIOUS
<1> HIDE DEF r
<1> QED
  BY <1>3, <1>6, <1>8, <1>9, <1>10, OneLane

LEMMA CleanReaping ==
    ASSUME IInv, NEW l \in Launchers, Reaping(l)
    PROVE  TargetTask' /\ CleanHands'
<1> USE DEF daemons
<1>0. TypeOK /\ TargetTask /\ lane[l] \in LaneStates
  BY DEF IInv, TypeOK
<1>1. ASSUME NEW f \in Files, ReapRecorded(l, f)
      PROVE  TargetTask' /\ CleanHands'
  <2>1. f \in Killing /\ Doing(l, f) /\ pidfile[f] \in Pids
    BY <1>1 DEF ReapRecorded, IsRuntime, Files, Killing
  <2>2. lane' = [lane EXCEPT ![l] = [lane[l] EXCEPT !.target = pidfile[f],
                                                    !.found = lane[l].found]]
    BY <1>0, <1>1 DEF ReapRecorded, Await, TypeOK, LaneStates
  <2> QED
    BY <1>1, <2>1, <2>2, AwaitClean DEF ReapRecorded, Await
<1>2. ASSUME NEW f \in Files, ClearPidfile(l, f)
      PROVE  TargetTask' /\ CleanHands'
  <2>1. Doing(l, f) /\ f \notin {"ok", "enrolledOk", "failed"}
    BY <1>2 DEF ClearPidfile, Files
  <2>2. Tail(lane[l].todo) \in Seq(Tasks) /\ Continue(l, Tail(lane[l].todo))
    BY <1>0, <1>2, <2>1, DoingTask DEF ClearPidfile, Next1
  <2> QED
    BY <1>2, <2>1, <2>2, GoOnClean DEF ClearPidfile
<1>3. CASE Census(l)
  <2> DEFINE s == <<"orphans">> \o Tail(lane[l].todo)
             r == [lane[l] EXCEPT !.todo = s, !.found = Runtimes]
  <2>1. /\ Tail(lane[l].todo) \in Seq(Tasks) /\ lane[l].target = NoPid
        /\ ~Resting(l)
    BY <1>0, <1>3, DoingTask, DoingBusy DEF Census
  <2>2. s \in Seq(Tasks)
    <3>1. <<"orphans">> \in Seq(Tasks)
      BY DEF Tasks
    <3> QED
      BY <2>1, <3>1, ConcatProperties
  <2>3. lane' = [lane EXCEPT ![l] = r]
    BY <1>3 DEF Census
  <2> HIDE DEF s
  <2>4. /\ r \in LaneStates /\ r.target = NoPid /\ r.found = Runtimes
        /\ r.child = lane[l].child
    BY <1>0, <2>1, <2>2 DEF LaneStates, Runtimes
  <2>5. \A p \in Pids : proc'[p] = "foreign" => proc[p] = "foreign"
    BY <1>3 DEF Census
  <2>6. \A p \in Pids \cap (r.found \cup {r.target, r.child}) : proc'[p] # "foreign"
    BY <1>3, <2>1, <2>4, LauncherAssumption
       DEF Census, IInv, CleanHands, Hands, Runtimes, IsRuntime, Starting, Answering
  <2> HIDE DEF r
  <2> QED
    BY <2>3, <2>4, <2>5, <2>6, OneLane
<1>4. ASSUME NEW p \in Pids, ReapOrphan(l, p)
      PROVE  TargetTask' /\ CleanHands'
  <2>1. lane' = [lane EXCEPT ![l] = [lane[l] EXCEPT !.target = p,
                                                    !.found = lane[l].found \ {p}]]
    BY <1>4 DEF ReapOrphan
  <2>2. "orphans" \in Killing
    BY DEF Killing
  <2>3. lane[l].found \ {p} \in SUBSET lane[l].found
    OBVIOUS
  <2> QED
    BY <1>4, <2>1, <2>2, <2>3, AwaitClean DEF ReapOrphan
<1>5. CASE OrphansReaped(l)
  <2> DEFINE s == Tail(lane[l].todo)
  <2>1. Doing(l, "orphans") /\ lane[l].target = NoPid /\ s \in Seq(Tasks)
    BY <1>0, <1>5, DoingTask DEF OrphansReaped
  <2> DEFINE r == [lane[l] EXCEPT !.todo = s, !.found = {}]
  <2>2. lane' = [lane EXCEPT ![l] = r]
    BY <1>5 DEF OrphansReaped
  <2>3. \A p \in Pids : proc'[p] = "foreign" => proc[p] = "foreign"
    BY <1>5 DEF OrphansReaped
  <2> HIDE DEF s
  <2>4. /\ r \in LaneStates /\ r.target = NoPid /\ r.found = {}
        /\ r.child = lane[l].child
    BY <1>0, <2>1 DEF LaneStates
  <2> HIDE DEF r
  <2> QED
    BY <2>1, <2>2, <2>3, <2>4, ContinueClean
<1>6. CASE TargetGone(l)
  <2> DEFINE task == Head(lane[l].todo)
             file == IF task = "stopSetup" THEN "setup" ELSE task
             rest == IF file \in Files THEN Tail(lane[l].todo) ELSE lane[l].todo
             r == [lane[l] EXCEPT !.target = NoPid, !.todo = rest]
  <2>1. lane' = [lane EXCEPT ![l] = r]
    BY <1>6 DEF TargetGone
  <2>2. lane[l].target # NoPid /\ lane[l].todo # <<>> /\ lane[l].todo \in Seq(Tasks)
    BY <1>0, <1>6 DEF TargetGone, TargetTask, LaneStates
  <2>3. rest \in Seq(Tasks)
    <3>1. Tail(lane[l].todo) \in Seq(Tasks)
      BY <2>2, TailTyped
    <3> QED
      BY <2>2, <3>1
  <2> HIDE DEF rest
  <2>4. /\ r \in LaneStates /\ r.target = NoPid /\ r.found = lane[l].found
        /\ r.child = lane[l].child
    BY <1>0, <2>3 DEF LaneStates, MaybePid
  <2>5. ~Resting(l)
    BY <1>0, <2>2, TargetBusy
  <2>6. \A p \in Pids : proc'[p] = "foreign" => proc[p] = "foreign"
    BY <1>6 DEF TargetGone
  <2>7. \A p \in Pids \cap (r.found \cup {r.target, r.child}) : proc'[p] # "foreign"
    BY <2>4, <2>5, <2>6, LauncherAssumption DEF IInv, CleanHands, Hands
  <2> HIDE DEF r
  <2> QED
    BY <2>1, <2>4, <2>6, <2>7, OneLane
<1>7. CASE Escalate(l)
  <2>1. lane' = lane /\ \A p \in Pids : proc'[p] = "foreign" => proc[p] = "foreign"
    BY <1>0, <1>7, SignalForeign DEF Escalate
  <2> QED
    BY <2>1, SameLanes
<1> QED
  BY <1>1, <1>2, <1>3, <1>4, <1>5, <1>6, <1>7 DEF Reaping

LEMMA SpawnsClean ==
    ASSUME IInv, NEW l \in Launchers, NEW task, Doing(l, task),
           task \notin {"ok", "enrolledOk", "failed"},
           NEW p \in Pids, NEW st, st # "foreign", Spawns(l, p, st)
    PROVE  TargetTask' /\ CleanHands'
<1> DEFINE s == Tail(lane[l].todo)
<1>1. TypeOK /\ lane[l] \in LaneStates
  BY DEF IInv, TypeOK
<1>2. s \in Seq(Tasks) /\ lane[l].target = NoPid
  BY <1>1, DoingTask
<1>3. \A q \in Pids : proc'[q] = IF q = p THEN st ELSE proc[q]
  BY <1>1 DEF Spawns, TypeOK
<1> DEFINE r == [lane[l] EXCEPT !.todo = s, !.child = p]
<1>4. lane' = [lane EXCEPT ![l] = r]
  BY DEF Spawns
<1> HIDE DEF s
<1>5. /\ r \in LaneStates /\ r.target = NoPid /\ r.found = lane[l].found
      /\ r.child = p
  BY <1>1, <1>2 DEF LaneStates, MaybePid
<1> HIDE DEF r
<1>6. \A q \in Pids : proc'[q] = "foreign" => proc[q] = "foreign"
  BY <1>3
<1>7. proc'[r.child] # "foreign"
  BY <1>3, <1>5
<1> QED
  BY <1>4, <1>5, <1>6, <1>7, ContinueClean

LEMMA GiveUpClean ==
    ASSUME IInv, NEW l \in Launchers, Awaiting(l), NEW q \in BOOLEAN, GiveUpChild(l, q),
           \A p \in Pids : proc'[p] = "foreign" => proc[p] = "foreign"
    PROVE  TargetTask' /\ CleanHands'
<1> DEFINE s == IF Doing(l, "await") THEN Retry ELSE <<"failed">>
           still == lane[l].quiet /\ q
<1>1. PICK task \in {"await", "awaitAgain"} : Doing(l, task)
  BY DEF Awaiting
<1>2. lane[l] \in LaneStates /\ lane[l].target = NoPid
  BY <1>1 DEF IInv, TypeOK, Doing
<1>3. s \in Seq(Tasks) /\ still \in BOOLEAN
  BY ListsTyped
<1> DEFINE r == [lane[l] EXCEPT !.todo = s, !.child = NoPid, !.quiet = still]
<1>4. lane' = [lane EXCEPT ![l] = [lane[l] EXCEPT !.todo = s, !.child = NoPid, !.quiet = still]]
  BY Zenon DEF GiveUpChild
<1> HIDE DEF s, still
<1>5. r \in LaneStates
  BY <1>2, <1>3, Zenon DEF LaneStates, MaybePid
<1>6. r.target = NoPid /\ r.found = lane[l].found /\ r.child = NoPid
  BY <1>2, Zenon DEF LaneStates
<1>7. lane' = [lane EXCEPT ![l] = r]
  BY <1>4
<1> HIDE DEF r
<1> QED
  BY <1>1, <1>5, <1>6, <1>7, ContinueClean

LEMMA CleanLaunching ==
    ASSUME IInv, NEW l \in Launchers, Launching(l)
    PROVE  TargetTask' /\ CleanHands'
<1> USE DEF daemons
<1>0. TypeOK
  BY DEF IInv
<1>1. CASE Probe(l)
  <2>1. (IF PortTaken THEN <<"probeProxy">> ELSE Launch) \in Seq(Tasks)
    BY ListsTyped
  <2> QED
    BY <1>1, <2>1, GoOnClean DEF Probe
<1>2. CASE ProbeProxy(l)
  <2>1. (IF proxy # NoPid THEN <<"ok">> ELSE Reap \o Launch) \in Seq(Tasks)
    BY ListsTyped
  <2> QED
    BY <1>2, <2>1, GoOnClean DEF ProbeProxy
<1>3. ASSUME NEW p \in Pids, Spawn(l, p)
      PROVE  TargetTask' /\ CleanHands'
  BY <1>3, SpawnsClean DEF Spawn
<1>4. CASE Answered(l)
  <2>1. PICK task \in {"await", "awaitAgain"} : Doing(l, task)
    BY <1>4 DEF Answered, Awaiting
  <2>2. Tail(lane[l].todo) \in Seq(Tasks) /\ Continue(l, Tail(lane[l].todo))
    BY <1>0, <1>4, <2>1, DoingTask DEF Answered, Next1
  <2> QED
    BY <1>4, <2>1, <2>2, GoOnClean DEF Answered
<1>5. CASE ChildDied(l)
  BY <1>5, GiveUpClean DEF ChildDied
<1>6. CASE ChildTooSlow(l)
  BY <1>0, <1>6, SignalForeign, GiveUpClean DEF ChildTooSlow
<1>7. CASE ProxyUp(l)
  <2>1. Tail(lane[l].todo) \in Seq(Tasks) /\ Continue(l, Tail(lane[l].todo))
    BY <1>0, <1>7, DoingTask DEF ProxyUp, Next1
  <2> QED
    BY <1>7, <2>1, GoOnClean DEF ProxyUp
<1>8. CASE ProxyDown(l)
  BY <1>8, ListsTyped, GoOnClean DEF ProxyDown
<1> QED
  BY <1>1, <1>2, <1>3, <1>4, <1>5, <1>6, <1>7, <1>8 DEF Launching

LEMMA CleanEnrolling ==
    ASSUME IInv, NEW l \in Launchers, Enrolling(l)
    PROVE  TargetTask' /\ CleanHands'
<1> USE DEF daemons
<1>0. TypeOK /\ lane[l] \in LaneStates
  BY DEF IInv, TypeOK
<1>1. ASSUME NEW p \in Pids, SpawnSetup(l, p)
      PROVE  TargetTask' /\ CleanHands'
  BY <1>1, SpawnsClean DEF SpawnSetup
<1>2. CASE RecordSetup(l)
  <2>1. Tail(lane[l].todo) \in Seq(Tasks) /\ Continue(l, Tail(lane[l].todo))
    BY <1>0, <1>2, DoingTask DEF RecordSetup, Next1
  <2> QED
    BY <1>2, <2>1, GoOnClean DEF RecordSetup
<1>3. CASE SetupReady(l)
  <2>1. Tail(lane[l].todo) \in Seq(Tasks) /\ Continue(l, Tail(lane[l].todo))
    BY <1>0, <1>3, DoingTask DEF SetupReady, Next1
  <2> QED
    BY <1>3, <2>1, GoOnClean DEF SetupReady
<1>4. CASE SetupDied(l)
  BY <1>4, ListsTyped, GoOnClean DEF SetupDied
<1>5. CASE SetupTooSlow(l)
  <2> DEFINE s == <<"stopSetup", "failed">>
             r == [lane[l] EXCEPT !.todo = s, !.quiet = FALSE]
  <2>1. Doing(l, "enrol") /\ lane[l].target = NoPid
    BY <1>5 DEF SetupTooSlow, Doing
  <2>2. lane' = [lane EXCEPT ![l] = r]
    BY <1>5 DEF SetupTooSlow
  <2>3. s \in Seq(Tasks)
    BY DEF Tasks
  <2>4. \A p \in Pids : proc'[p] = "foreign" => proc[p] = "foreign"
    BY <1>5 DEF SetupTooSlow
  <2> HIDE DEF s
  <2>5. r \in LaneStates /\ r.target = NoPid /\ r.found = lane[l].found /\ r.child = lane[l].child
    BY <1>0, <2>1, <2>3 DEF LaneStates
  <2> HIDE DEF r
  <2> QED
    BY <2>1, <2>2, <2>4, <2>5, ContinueClean
<1>6. CASE StopSetup(l)
  <2>1. Doing(l, "stopSetup") /\ "stopSetup" \in Killing
    BY <1>6 DEF StopSetup, Killing
  <2>2. CASE IsRuntime(lane[l].child)
    <3>1. lane[l].child \in Pids /\ Terminate(lane[l].child)
      BY <1>6, <2>2 DEF StopSetup, IsRuntime, Await
    <3>2. lane' = [lane EXCEPT ![l] = [lane[l] EXCEPT !.target = lane[l].child,
                                                      !.found = lane[l].found]]
      BY <1>0, <1>6, <2>2 DEF StopSetup, Await, TypeOK, LaneStates
    <3> QED
      BY <2>1, <2>2, <3>1, <3>2, AwaitClean
  <2>3. CASE ~IsRuntime(lane[l].child)
    <3>1. Tail(lane[l].todo) \in Seq(Tasks) /\ Continue(l, Tail(lane[l].todo))
      BY <1>0, <1>6, <2>1, <2>3, DoingTask DEF StopSetup, Next1
    <3> QED
      BY <1>6, <2>1, <2>3, <3>1, GoOnClean DEF StopSetup
  <2> QED
    BY <2>2, <2>3
<1> QED
  BY <1>1, <1>2, <1>3, <1>4, <1>5, <1>6 DEF Enrolling

LEMMA CleanStrike ==
    ASSUME IInv, NEW l \in Launchers, Strike(l)
    PROVE  TargetTask' /\ CleanHands'
<1>1. TypeOK /\ Doing(l, "strike")
  BY DEF IInv, Strike
<1>2. Tail(lane[l].todo) \in Seq(Tasks) /\ Continue(l, Tail(lane[l].todo))
  BY <1>1, DoingTask DEF Strike, Next1
<1>3. \A p \in Pids : proc'[p] = "foreign" => proc[p] = "foreign"
  BY <1>1, SignalForeign DEF Strike, daemons
<1> QED
  BY <1>1, <1>2, <1>3, GoOnClean

\* A command starts with nothing in hand.
LEMMA GiveClean ==
    ASSUME IInv, NEW l \in Launchers, NEW s \in Seq(Tasks), Give(l, s)
    PROVE  TargetTask' /\ CleanHands'
<1> DEFINE q == \A m \in Launchers \ {l} : Resting(m)
           r == [AtRest EXCEPT !.todo = s, !.quiet = q]
<1>1. lane' = [Disturbed EXCEPT ![l] = r] /\ proc' = proc
  BY DEF Give, daemons
<1>2. r.target = NoPid /\ r.found = {} /\ r.child = NoPid
  BY DEF AtRest
<1> HIDE DEF r
<1>3. \A m \in Launchers \ {l} : /\ lane'[m].todo = lane[m].todo
                                  /\ lane'[m].target = lane[m].target
                                  /\ lane'[m].found = lane[m].found
                                  /\ lane'[m].child = lane[m].child
  BY <1>1 DEF IInv, TypeOK, LaneStates, Disturbed
<1>4. lane'[l] = r
  BY <1>1 DEF Disturbed
<1>5. TargetTask'
  BY <1>2, <1>3, <1>4 DEF IInv, TargetTask
<1>6. ASSUME NEW m \in Launchers, NEW p \in Pids, (~Resting(m))', p \in Hands(m)'
      PROVE  proc'[p] # "foreign"
  <2>1. CASE m = l
    BY <1>2, <1>4, <1>6, <2>1, LauncherAssumption DEF Hands
  <2>2. CASE m # l
    BY <1>1, <1>3, <1>6, <2>2 DEF IInv, CleanHands, Resting, Hands
  <2> QED
    BY <2>1, <2>2
<1> QED
  BY <1>5, <1>6 DEF CleanHands

LEMMA CleanCommanded ==
    ASSUME IInv, NEW l \in Launchers, Commanded(l)
    PROVE  TargetTask' /\ CleanHands'
<1>1. CASE GiveStart(l)
  <2>1. (IF enrolled THEN Start ELSE Setup) \in Seq(Tasks)
    BY ListsTyped
  <2> QED
    BY <1>1, <2>1, GiveClean DEF GiveStart
<1>2. CASE GiveStop(l) \/ GiveRestart(l)
  BY <1>2, ListsTyped, GiveClean DEF GiveStop, GiveRestart
<1>3. CASE LauncherDies(l)
  <2>1. AtRest \in LaneStates /\ AtRest.target = NoPid /\ AtRest.todo \in Ends
    BY DEF AtRest, LaneStates, MaybePid, Ends
  <2>2. lane' = [lane EXCEPT ![l] = AtRest] /\ proc' = proc
    BY <1>3 DEF LauncherDies, daemons
  <2> QED
    BY <2>1, <2>2, OneLane
<1>4. CASE SetupInterrupted(l)
  <2>1. <<"stopSetup">> \in Seq(Tasks)
    BY DEF Tasks
  <2>2. PICK task \in {"record", "enrol"} : Doing(l, task)
    BY <1>4 DEF SetupInterrupted
  <2> QED
    BY <1>4, <2>1, <2>2, GoOnClean DEF SetupInterrupted, daemons
<1> QED
  BY <1>1, <1>2, <1>3, <1>4 DEF Commanded

\* Only here does a process become foreign, under a number nobody has in hand.
LEMMA CleanMachine ==
    ASSUME IInv, \/ \E p \in Pids : Running(p) \/ Machine(p)
                 \/ CertificateRemoved
    PROVE  TargetTask' /\ CleanHands'
<1>1. TypeOK /\ proc \in [Pids -> ProcStates]
  BY DEF IInv, TypeOK
<1>2. ASSUME NEW p \in Pids, Running(p)
      PROVE  \A q \in Pids : proc'[q] = "foreign" => proc[q] = "foreign"
  <2>1. CASE Bind(p) \/ Enroll(p)
    BY <1>1, <2>1 DEF Bind, Enroll
  <2>2. CASE Serve(p)
    BY <1>1, <2>2, SignalForeign DEF Serve
  <2>3. CASE Exit(p) \/ Crash(p)
    BY <1>1, <2>3, SignalForeign DEF Exit, Crash
  <2> QED
    BY <1>2, <2>1, <2>2, <2>3 DEF Running
<1>3. ASSUME NEW p \in Pids, Machine(p)
      PROVE  \A q \in Pids : proc'[q] = "foreign" => proc[q] = "foreign" \/ q \notin InHand
  BY <1>1, <1>3 DEF Machine, ForeignStarts, ForeignExits, Available
<1>4. CASE CertificateRemoved
  BY <1>4, SameLanes DEF CertificateRemoved, daemons
<1>5. ASSUME NEW p \in Pids, Running(p) \/ Machine(p)
      PROVE  lane' = lane \/ lane' = Disturbed
  BY <1>5 DEF Running, Machine, Bind, Serve, Enroll, Exit, Crash, ForeignStarts, ForeignExits
<1> QED
  BY <1>2, <1>3, <1>4, <1>5, SameLanes

-----------------------------------------------------------------------------
(* The theorems.                                                           *)

LEMMA IInvInit == Init => IInv
<1> SUFFICES ASSUME Init PROVE IInv
  OBVIOUS
<1>1. CleanHands
  BY DEF Init, CleanHands
<1> QED
  BY <1>1, TypeInit DEF IInv

LEMMA IInvStep == IInv /\ [Next]_vars => IInv'
<1> SUFFICES ASSUME IInv, [Next]_vars
             PROVE  IInv'
  OBVIOUS
<1>0. TypeOK /\ TargetTask
  BY DEF IInv
<1>1. CASE UNCHANGED vars
  <2> USE <1>1 DEF vars
  <2>1. TypeOK'
    BY <1>0 DEF TypeOK
  <2>2. TargetTask' /\ CleanHands'
    BY SameLanes
  <2> QED
    BY <2>1, <2>2 DEF IInv
<1>2. ASSUME NEW l \in Launchers, Commanded(l)
      PROVE  IInv'
  BY <1>0, <1>2, TypeCommanded, CleanCommanded DEF IInv
<1>3. ASSUME NEW l \in Launchers, Reaping(l)
      PROVE  IInv'
  BY <1>0, <1>3, TypeReaping, CleanReaping DEF IInv
<1>4. ASSUME NEW l \in Launchers, Strike(l)
      PROVE  IInv'
  BY <1>0, <1>4, TypeStrike, CleanStrike DEF IInv
<1>5. ASSUME NEW l \in Launchers, Launching(l)
      PROVE  IInv'
  BY <1>0, <1>5, TypeLaunching, CleanLaunching DEF IInv
<1>6. ASSUME NEW l \in Launchers, Enrolling(l)
      PROVE  IInv'
  BY <1>0, <1>6, TypeEnrolling, CleanEnrolling DEF IInv
<1>7. CASE (\E p \in Pids : Running(p) \/ Machine(p)) \/ CertificateRemoved
  BY <1>0, <1>7, TypeMachine, CleanMachine DEF IInv
<1> QED
  BY <1>1, <1>2, <1>3, <1>4, <1>5, <1>6, <1>7 DEF Next

\* Every variable of the launcher stays in its type, in every number of
\* launchers, processes and commands.
THEOREM TypeCorrect == Spec => []TypeOK
<1>1. IInv => TypeOK
  BY DEF IInv
<1> QED
  BY <1>1, IInvInit, IInvStep, PTL DEF Spec

\* No step of a reap, a start or an enrollment ends a process of another program.
LEMMA ForeignSpared ==
    ASSUME IInv, NEW l \in Launchers, Reaping(l) \/ Launching(l) \/ Enrolling(l)
    PROVE  SparesForeign(l)
<1> SUFFICES ASSUME NEW p \in Pids, proc[p] = "foreign"
             PROVE  proc'[p] = "foreign"
  BY DEF SparesForeign
<1> USE DEF daemons
<1>0. TypeOK /\ TargetTask /\ ~IsRuntime(p) /\ proc \in [Pids -> ProcStates]
  BY DEF IInv, TypeOK, IsRuntime, Starting, Answering
<1>1. ASSUME NEW q, Dies(q) \/ Terminate(q), q # p
      PROVE  proc'[p] = "foreign"
  BY <1>0, <1>1, SignalForeign
<1>2. ASSUME ~Resting(l)
      PROVE  p \notin Hands(l)
  BY <1>2 DEF IInv, CleanHands
<1>3. ASSUME NEW f \in Files, ReapRecorded(l, f) \/ ClearPidfile(l, f)
      PROVE  proc'[p] = "foreign"
  BY <1>0, <1>1, <1>3 DEF ReapRecorded, ClearPidfile, Await
<1>4. CASE Census(l) \/ OrphansReaped(l) \/ TargetGone(l)
  BY <1>4 DEF Census, OrphansReaped, TargetGone
<1>5. ASSUME NEW q \in Pids, ReapOrphan(l, q)
      PROVE  proc'[p] = "foreign"
  BY <1>0, <1>1, <1>5 DEF ReapOrphan
<1>6. CASE Escalate(l)
  BY <1>0, <1>1, <1>2, <1>6, TargetBusy DEF Escalate, Hands
<1>7. CASE Probe(l) \/ ProbeProxy(l) \/ Answered(l) \/ ChildDied(l) \/ ProxyUp(l) \/ ProxyDown(l)
  BY <1>7 DEF Probe, ProbeProxy, Answered, ChildDied, ProxyUp, ProxyDown
<1>8. ASSUME NEW q \in Pids, Spawn(l, q) \/ SpawnSetup(l, q)
      PROVE  proc'[p] = "foreign"
  BY <1>0, <1>8 DEF Spawn, SpawnSetup, Spawns, Available
<1>9. CASE ChildTooSlow(l)
  <2>1. ~Resting(l)
    BY <1>9, DoingBusy DEF ChildTooSlow, Awaiting
  <2> QED
    BY <1>1, <1>2, <1>9, <2>1 DEF ChildTooSlow, Hands
<1>10. CASE RecordSetup(l) \/ SetupReady(l) \/ SetupDied(l) \/ SetupTooSlow(l)
  BY <1>10 DEF RecordSetup, SetupReady, SetupDied, SetupTooSlow
<1>11. CASE StopSetup(l)
  BY <1>0, <1>1, <1>11 DEF StopSetup, Await
<1> QED
  BY <1>3, <1>4, <1>5, <1>6, <1>7, <1>8, <1>9, <1>10, <1>11 DEF Reaping, Launching, Enrolling

\* A recycled pid is never killed by the auto-heal, by a start that gives up on
\* its child or by an enrollment, whatever the pidfiles say.
THEOREM ReapSparesCorrect == Spec => ReapSparesForeign
<1>1. IInv => [\A l \in Launchers :
                 Reaping(l) \/ Launching(l) \/ Enrolling(l) => SparesForeign(l)]_vars
  BY ForeignSpared
<1> QED
  BY <1>1, IInvInit, IInvStep, PTL DEF Spec, ReapSparesForeign
=============================================================================
