---------------------- MODULE RuntimeLauncherQuietProofs ----------------------
(***************************************************************************)
(* What a command that has the machine to itself achieves, whatever        *)
(* earlier commands left behind: QuietWorks and QuietOutcome.              *)
(*                                                                         *)
(* The invariant says of an undisturbed command what each task finds:      *)
(* after the census its list holds every daemon, after the orphans there   *)
(* is none, and from then on its own child is the only one.  A launcher is *)
(* its list of tasks, so an order of the tasks comes with it, from which   *)
(* the task before the next one is known.                                  *)
(***************************************************************************)
EXTENDS RuntimeLauncherProofs

-----------------------------------------------------------------------------
(* The order of the tasks.                                                 *)

\* Which task may follow which in the list of a command that nothing disturbs.
Follows ==
    {<<"runtime", "setup">>, <<"runtime", "strike">>, <<"setup", "census">>,
     <<"census", "runtime">>, <<"census", "spawn">>, <<"census", "spawnSetup">>,
     <<"orphans", "runtime">>, <<"orphans", "spawn">>, <<"orphans", "spawnSetup">>,
     <<"strike", "probe">>, <<"strike", "ok">>,
     <<"spawn", "await">>, <<"await", "require">>, <<"require", "ok">>,
     <<"spawnSetup", "record">>, <<"record", "enrol">>, <<"enrol", "stopSetup">>,
     <<"stopSetup", "enrolledOk">>}

\* It never comes to a second attempt, let alone to a failure.
Ordered(s) ==
    /\ s # <<>> => Head(s) \notin {"awaitAgain", "failed"}
    /\ \A i \in 1..(Len(s) - 1) : <<s[i], s[i + 1]>> \in Follows

\* What is left when the first task is done is ordered, and begins with a task
\* that may follow it.
LEMMA OrderedTail ==
    ASSUME NEW s \in Seq(Tasks), s # <<>>, Ordered(s)
    PROVE  /\ Ordered(Tail(s))
           /\ Tail(s) # <<>> => <<Head(s), Head(Tail(s))>> \in Follows
<1> DEFINE t == Tail(s)
<1>1. /\ t \in Seq(Tasks) /\ Len(s) \in Nat /\ Len(s) >= 1 /\ Len(t) = Len(s) - 1
      /\ \A i \in 1..Len(t) : t[i] = s[i + 1]
      /\ Head(s) = s[1]
  OBVIOUS
<1>2. t # <<>> => Len(t) >= 1 /\ Head(t) = t[1]
  BY <1>1
<1> HIDE DEF t
<1>3. ASSUME t # <<>>
      PROVE  <<Head(s), Head(t)>> \in Follows
  <2>1. 1 \in 1..(Len(s) - 1) /\ 1 \in 1..Len(t)
    BY <1>1, <1>2, <1>3
  <2>2. Head(t) = s[2]
    BY <1>1, <1>2, <1>3, <2>1
  <2> QED
    BY <1>1, <2>1, <2>2 DEF Ordered
<1>4. t # <<>> => Head(t) \notin {"awaitAgain", "failed"}
  BY <1>3 DEF Follows
<1>5. ASSUME NEW i \in 1..(Len(t) - 1)
      PROVE  <<t[i], t[i + 1]>> \in Follows
  <2>1. /\ i + 1 \in 1..(Len(s) - 1) /\ i \in 1..Len(t) /\ i + 1 \in 1..Len(t)
    BY <1>1, <1>5
  <2>2. t[i] = s[i + 1] /\ t[i + 1] = s[(i + 1) + 1]
    BY <1>1, <2>1
  <2> QED
    BY <2>1, <2>2 DEF Ordered
<1> QED
  BY <1>3, <1>4, <1>5 DEF Ordered, t

\* One list in front of another.
LEMMA OrderedConcat ==
    ASSUME NEW s \in Seq(Tasks), NEW t \in Seq(Tasks), s # <<>>, t # <<>>,
           Ordered(s), Ordered(t), <<s[Len(s)], Head(t)>> \in Follows
    PROVE  s \o t \in Seq(Tasks) /\ s \o t # <<>> /\ Ordered(s \o t) /\ Head(s \o t) = Head(s)
<1> DEFINE u == s \o t
<1>1. /\ u \in Seq(Tasks) /\ Len(u) = Len(s) + Len(t)
      /\ Len(s) \in Nat /\ Len(s) >= 1 /\ Len(t) \in Nat /\ Len(t) >= 1
      /\ \A i \in 1..Len(u) : u[i] = IF i <= Len(s) THEN s[i] ELSE t[i - Len(s)]
      /\ Head(s) = s[1] /\ Head(t) = t[1]
  OBVIOUS
<1> HIDE DEF u
<1>2. u # <<>> /\ Head(u) = u[1] /\ u[1] = s[1]
  BY <1>1
<1>3. ASSUME NEW i \in 1..(Len(u) - 1)
      PROVE  <<u[i], u[i + 1]>> \in Follows
  <2>1. i \in 1..Len(u) /\ i + 1 \in 1..Len(u)
    BY <1>1, <1>3
  <2>2. CASE i < Len(s)
    <3>1. u[i] = s[i] /\ u[i + 1] = s[i + 1] /\ i \in 1..(Len(s) - 1)
      BY <1>1, <2>1, <2>2
    <3> QED
      BY <3>1 DEF Ordered
  <2>3. CASE i = Len(s)
    <3>1. u[i] = s[Len(s)] /\ u[i + 1] = Head(t)
      BY <1>1, <2>1, <2>3
    <3> QED
      BY <3>1
  <2>4. CASE i > Len(s)
    <3>1. i - Len(s) \in 1..(Len(t) - 1)
      BY <1>1, <1>3, <2>4
    <3>2. u[i] = t[i - Len(s)] /\ u[i + 1] = t[(i - Len(s)) + 1]
      BY <1>1, <2>1, <2>4
    <3> QED
      BY <3>1, <3>2 DEF Ordered
  <2> QED
    BY <1>1, <2>2, <2>3, <2>4
<1> QED
  BY <1>1, <1>2, <1>3 DEF Ordered, u

\* The lists an undisturbed command puts in front of it.
LEMMA ListsOrdered ==
    /\ Ordered(Start) /\ Head(Start) = "probe"
    /\ Ordered(Stop) /\ Head(Stop) = "runtime"
    /\ Ordered(Restart) /\ Head(Restart) = "runtime"
    /\ Ordered(Setup) /\ Head(Setup) = "runtime"
    /\ Ordered(Launch) /\ Head(Launch) = "runtime"
    /\ Ordered(Reap \o Launch) /\ Head(Reap \o Launch) = "runtime"
    /\ Ordered(<<"probeProxy">>) /\ Ordered(<<"ok">>) /\ Ordered(<<"stopSetup">>)
<1>1. /\ Reap # <<>> /\ Ordered(Reap) /\ Head(Reap) = "runtime" /\ Reap[Len(Reap)] = "census"
      /\ Reap \in Seq(Tasks)
  BY DEF Reap, Ordered, Follows, Tasks, Files
<1>2. /\ Ordered(Start) /\ Head(Start) = "probe" /\ Start # <<>>
      /\ Ordered(Stop) /\ Head(Stop) = "runtime"
      /\ Ordered(<<"probeProxy">>) /\ Ordered(<<"ok">>) /\ Ordered(<<"stopSetup">>)
  BY DEF Start, Stop, Ordered, Follows
<1>3. Ordered(Launch) /\ Head(Launch) = "runtime" /\ Launch # <<>> /\ Launch \in Seq(Tasks)
  <2> DEFINE t == <<"spawn", "await", "require", "ok">>
  <2>1. t \in Seq(Tasks) /\ t # <<>> /\ Ordered(t) /\ Head(t) = "spawn"
    BY DEF Tasks, Ordered, Follows
  <2> HIDE DEF t
  <2>2. <<Reap[Len(Reap)], Head(t)>> \in Follows
    BY <1>1, <2>1 DEF Follows
  <2> QED
    BY <1>1, <2>1, <2>2, OrderedConcat DEF Launch, t
<1>4. Ordered(Setup) /\ Head(Setup) = "runtime"
  <2> DEFINE t == <<"spawnSetup", "record", "enrol", "stopSetup", "enrolledOk">>
  <2>1. t \in Seq(Tasks) /\ t # <<>> /\ Ordered(t) /\ Head(t) = "spawnSetup"
    BY DEF Tasks, Ordered, Follows
  <2> HIDE DEF t
  <2>2. <<Reap[Len(Reap)], Head(t)>> \in Follows
    BY <1>1, <2>1 DEF Follows
  <2> QED
    BY <1>1, <2>1, <2>2, OrderedConcat DEF Setup, t
<1>5. Ordered(Restart) /\ Head(Restart) = "runtime"
  <2> DEFINE s == <<"runtime", "strike">>
  <2>1. s \in Seq(Tasks) /\ s # <<>> /\ Ordered(s) /\ Head(s) = "runtime" /\ s[Len(s)] = "strike"
    BY DEF Tasks, Files, Ordered, Follows
  <2> HIDE DEF s
  <2>2. <<s[Len(s)], Head(Start)>> \in Follows
    BY <1>2, <2>1 DEF Follows
  <2> QED
    BY <1>2, <2>1, <2>2, ListsTyped, OrderedConcat DEF Restart, s
<1>6. Ordered(Reap \o Launch) /\ Head(Reap \o Launch) = "runtime"
  <2>1. <<Reap[Len(Reap)], Head(Launch)>> \in Follows
    BY <1>1, <1>3 DEF Follows
  <2> QED
    BY <1>1, <1>3, <2>1, OrderedConcat
<1> QED
  BY <1>2, <1>3, <1>4, <1>5, <1>6

-----------------------------------------------------------------------------
(* What an undisturbed command finds at each task.                         *)

Early == {"runtime", "setup", "census", "orphans", "strike", "probe", "probeProxy",
          "spawn", "spawnSetup"}

Only(c, states) == Runtimes = {c} /\ proc[c] \in states

\* Its child on the way to serving: it has the proxy port once it has loaded.
Coming(c) ==
    /\ Only(c, {"loading", "reconciling", "serving"})
    /\ enrolled /\ proc[c] # "loading" => proxy = c

Up(c) ==
    /\ Only(c, {"serving"})
    /\ enrolled => proxy = c
    /\ pidfile["runtime"] = c

AtTask(r, tasks) == r.todo # <<>> /\ Head(r.todo) \in tasks

\* r is the record of its lane.
Reached(r) ==
    /\ AtTask(r, Early) => r.child = NoPid
    /\ AtTask(r, {"orphans"}) => Runtimes \subseteq r.found \cup {r.target}
    /\ AtTask(r, {"spawn", "spawnSetup"}) => Runtimes = {}
    /\ AtTask(r, {"await"}) => Coming(r.child)
    /\ AtTask(r, {"require"}) => r.child # NoPid
    /\ AtTask(r, {"require", "ok"}) /\ r.child # NoPid => Up(r.child)
    /\ AtTask(r, {"record", "enrol"}) =>
          Only(r.child, {"setupLoading", "setupServing", "setupDone"})
    /\ AtTask(r, {"stopSetup"}) =>
          Runtimes \subseteq {r.child} /\ r.target \in {NoPid, r.child}
    /\ AtTask(r, {"enrolledOk"}) => Runtimes = {} /\ pidfile["setup"] = NoPid

Alone(l) == \A m \in Launchers \ {l} : Resting(m)

\* Only a runtime that has loaded and is not stopping listens on the proxy port.
ProxyOwned == proxy # NoPid => proc[proxy] \in {"reconciling", "serving"}

QuietInv ==
    /\ ProxyOwned
    /\ \A l \in Launchers :
          lane[l].quiet => Alone(l) /\ Ordered(lane[l].todo) /\ Reached(lane[l])

QInv == IInv /\ QuietInv

\* A daemon is a process, and only daemons run in the stages of one.
LEMMA RuntimeFacts ==
    ASSUME TypeOK
    PROVE  /\ Runtimes \subseteq Pids
           /\ \A p \in Pids : p \in Runtimes <=> proc[p] \notin {"free", "foreign"}
           /\ NoPid \notin Runtimes
  BY LauncherAssumption DEF TypeOK, Runtimes, IsRuntime, ProcStates, Starting, Answering

\* A signal adds no daemon and takes the proxy port from the one it is sent to.
LEMMA SignalShrinks ==
    ASSUME TypeOK, ProxyOwned, NEW q, Dies(q) \/ Terminate(q)
    PROVE  /\ Runtimes' \subseteq Runtimes
           /\ ProxyOwned'
           /\ Dies(q) => q \notin Runtimes'
<1>1. \A p \in Pids : proc'[p] = proc[p] \/ proc'[p] = "free"
                         \/ (p = q /\ proc[p] \in Answering /\ proc'[p] = "stopping")
  BY DEF TypeOK, Dies, Terminate
<1>2. Runtimes' \subseteq Runtimes
  BY <1>1 DEF Runtimes, IsRuntime, Starting, Answering
<1>3. ProxyOwned'
  <2> SUFFICES ASSUME proxy' # NoPid
               PROVE  proc'[proxy'] \in {"reconciling", "serving"}
    BY DEF ProxyOwned
  <2>1. proxy' = proxy /\ proxy # q /\ proxy \in Pids
    BY DEF Dies, Terminate, WithoutProxy, TypeOK, MaybePid
  <2> QED
    BY <2>1 DEF ProxyOwned, Dies, Terminate, TypeOK
<1>4. Dies(q) => q \notin Runtimes'
  BY DEF Dies, Runtimes, IsRuntime, Starting, Answering, TypeOK
<1> QED
  BY <1>2, <1>3, <1>4

\* An undisturbed command keeps the invariant for all if its own step keeps it:
\* the others are at rest, and none of them is undisturbed.
LEMMA OwnStep ==
    ASSUME QInv, NEW l \in Launchers, ~Resting(l), ProxyOwned',
           \A m \in Launchers : m # l => lane'[m] = lane[m],
           lane'[l].quiet => lane[l].quiet,
           lane[l].quiet /\ lane'[l].quiet => Ordered(lane'[l].todo) /\ Reached(lane[l])'
    PROVE  QuietInv'
<1>1. ASSUME NEW m \in Launchers, lane'[m].quiet
      PROVE  m = l
  BY <1>1 DEF QInv, QuietInv, Alone
<1>2. ASSUME lane'[l].quiet
      PROVE  Alone(l)' /\ Ordered(lane'[l].todo) /\ Reached(lane[l])'
  BY <1>2 DEF QInv, QuietInv, Alone, Resting
<1>3. \A m \in Launchers : lane'[m].quiet =>
          Alone(m)' /\ Ordered(lane'[m].todo) /\ Reached(lane[m])'
  <2>1. ASSUME NEW m \in Launchers, lane'[m].quiet
        PROVE  Alone(m)' /\ Ordered(lane'[m].todo) /\ Reached(lane[m])'
    <3>1. m = l
      BY <1>1, <2>1
    <3> QED
      BY <1>2, <2>1, <3>1
  <2> QED
    BY <2>1
<1> QED
  BY <1>3 DEF QuietInv

\* A step of the rest of the machine.
LEMMA OthersStep ==
    ASSUME QInv, ProxyOwned', lane' = lane \/ lane' = Disturbed,
           \A l \in Launchers : lane[l].quiet /\ lane' = lane => Reached(lane[l])'
    PROVE  QuietInv'
<1>1. CASE lane' = lane
  BY <1>1 DEF QInv, QuietInv, Alone, Resting
<1>2. CASE lane' = Disturbed
  <2>1. \A l \in Launchers : ~lane'[l].quiet
    BY <1>2 DEF Disturbed, QInv, IInv, TypeOK, LaneStates
  <2> QED
    BY <2>1 DEF QuietInv
<1> QED
  BY <1>1, <1>2

-----------------------------------------------------------------------------
(* Steps of an undisturbed command.                                        *)

LEMMA QuietFacts ==
    ASSUME QInv, NEW l \in Launchers
    PROVE  /\ TypeOK /\ TargetTask /\ ProxyOwned
           /\ lane[l] \in LaneStates /\ lane[l].todo \in Seq(Tasks)
           /\ lane[l].quiet => Alone(l) /\ Ordered(lane[l].todo) /\ Reached(lane[l])
  BY DEF QInv, IInv, QuietInv, TypeOK, LaneStates

LEMMA ContinueFacts ==
    ASSUME TypeOK, NEW l \in Launchers, NEW s, Continue(l, s)
    PROVE  /\ lane'[l].todo = s /\ lane'[l].target = lane[l].target
           /\ lane'[l].found = lane[l].found /\ lane'[l].child = lane[l].child
           /\ lane'[l].quiet = lane[l].quiet
           /\ \A m \in Launchers : m # l => lane'[m] = lane[m]
  BY DEF Continue, TypeOK, LaneStates

LEMMA AwaitFacts ==
    ASSUME TypeOK, NEW l \in Launchers, NEW p, Await(l, p)
    PROVE  /\ lane'[l].todo = lane[l].todo /\ lane'[l].target = p
           /\ lane'[l].found = lane[l].found /\ lane'[l].child = lane[l].child
           /\ lane'[l].quiet = lane[l].quiet
           /\ \A m \in Launchers : m # l => lane'[m] = lane[m]
  BY DEF Await, TypeOK, LaneStates

\* The next task of an undisturbed command is one that follows.
LEMMA NextFacts ==
    ASSUME QInv, NEW l \in Launchers, NEW task, Doing(l, task), Next1(l)
    PROVE  /\ lane'[l].target = NoPid
           /\ lane'[l].found = lane[l].found /\ lane'[l].child = lane[l].child
           /\ lane'[l].quiet = lane[l].quiet
           /\ \A m \in Launchers : m # l => lane'[m] = lane[m]
           /\ lane[l].quiet =>
                 /\ Ordered(lane'[l].todo)
                 /\ lane'[l].todo # <<>> => <<task, Head(lane'[l].todo)>> \in Follows
<1>1. Continue(l, Tail(lane[l].todo))
  BY DEF Next1
<1>2. /\ lane[l].todo \in Seq(Tasks) /\ lane[l].todo # <<>> /\ Head(lane[l].todo) = task
      /\ lane[l].target = NoPid
  BY QuietFacts, DoingTask
<1>3. lane[l].quiet => Ordered(lane[l].todo)
  BY QuietFacts
<1> QED
  BY <1>1, <1>2, <1>3, QuietFacts, ContinueFacts, OrderedTail

\* Before anything has been reaped there is nothing to know but that the
\* command has no child.
LEMMA EarlyReached ==
    ASSUME NEW l \in Launchers, lane'[l].child = NoPid,
           lane'[l].todo # <<>> => Head(lane'[l].todo) \in
               {"runtime", "setup", "census", "strike", "probe", "probeProxy", "ok"}
    PROVE  Reached(lane[l])'
  BY DEF Reached, AtTask, Early

\* A wait that begins or ends leaves the list of daemons found as it is.
LEMMA OrphansReached ==
    ASSUME NEW l \in Launchers, lane'[l].child = NoPid,
           lane'[l].todo # <<>> /\ Head(lane'[l].todo) = "orphans",
           Runtimes' \subseteq lane'[l].found \cup {lane'[l].target}
    PROVE  Reached(lane[l])'
  BY DEF Reached, AtTask, Early

LEMMA QuietReaping ==
    ASSUME QInv, NEW l \in Launchers, Reaping(l)
    PROVE  QuietInv'
<1> USE DEF daemons
<1>0. /\ TypeOK /\ TargetTask /\ ProxyOwned
      /\ lane[l] \in LaneStates /\ lane[l].todo \in Seq(Tasks)
      /\ lane[l].quiet => Alone(l) /\ Ordered(lane[l].todo) /\ Reached(lane[l])
  BY QuietFacts
<1>1. ASSUME NEW f \in Files, ReapRecorded(l, f)
      PROVE  QuietInv'
  <2>1. Doing(l, f) /\ Await(l, pidfile[f]) /\ Terminate(pidfile[f])
    BY <1>1 DEF ReapRecorded, Await
  <2>2. ~Resting(l) /\ lane[l].todo # <<>> /\ Head(lane[l].todo) = f
    BY <1>0, <2>1, DoingBusy, DoingTask DEF Files
  <2>3. ASSUME lane[l].quiet
        PROVE  Reached(lane[l])'
    <3>1. lane[l].child = NoPid
      BY <1>0, <2>2, <2>3 DEF Reached, AtTask, Early, Files
    <3> QED
      BY <1>0, <2>1, <2>2, <3>1, AwaitFacts, EarlyReached DEF Files
  <2> QED
    BY <1>0, <2>1, <2>2, <2>3, AwaitFacts, SignalShrinks, OwnStep
<1>2. ASSUME NEW f \in Files, ClearPidfile(l, f)
      PROVE  QuietInv'
  <2>1. Doing(l, f) /\ Next1(l) /\ UNCHANGED daemons
    BY <1>2 DEF ClearPidfile
  <2>2. ~Resting(l) /\ lane[l].todo # <<>> /\ Head(lane[l].todo) = f /\ ProxyOwned'
    BY <1>0, <2>1, DoingBusy, DoingTask DEF Files, ProxyOwned
  <2>3. ASSUME lane[l].quiet
        PROVE  Reached(lane[l])'
    <3>1. lane[l].child = NoPid
      BY <1>0, <2>2, <2>3 DEF Reached, AtTask, Early, Files
    <3>2. lane'[l].todo # <<>> => Head(lane'[l].todo) \in {"setup", "strike", "census"}
      BY <2>1, <2>3, NextFacts DEF Files, Follows
    <3> QED
      BY <2>1, <3>1, <3>2, NextFacts, EarlyReached
  <2> QED
    BY <2>1, <2>2, <2>3, NextFacts, OwnStep
<1>3. CASE Census(l)
  <2> DEFINE t == Tail(lane[l].todo)
             s == <<"orphans">> \o t
  <2>1. Doing(l, "census") /\ UNCHANGED daemons
    BY <1>3 DEF Census
  <2>2. /\ ~Resting(l) /\ lane[l].todo # <<>> /\ Head(lane[l].todo) = "census" /\ ProxyOwned'
        /\ lane[l].target = NoPid /\ t \in Seq(Tasks)
    BY <1>0, <2>1, DoingBusy, DoingTask DEF ProxyOwned
  <2>3. lane' = [lane EXCEPT ![l].todo = s, ![l].found = Runtimes]
    BY <1>3 DEF Census
  <2>4. /\ lane'[l].todo = s /\ lane'[l].found = Runtimes /\ lane'[l].target = NoPid
        /\ lane'[l].child = lane[l].child /\ lane'[l].quiet = lane[l].quiet
        /\ \A m \in Launchers : m # l => lane'[m] = lane[m]
    <3> HIDE DEF s
    <3> QED
      BY <1>0, <2>2, <2>3 DEF TypeOK, LaneStates
  <2>5. s # <<>> /\ Head(s) = "orphans"
    BY <2>2
  <2>6. ASSUME lane[l].quiet
        PROVE  Ordered(s)
    <3>1. Ordered(t) /\ (t # <<>> => <<"census", Head(t)>> \in Follows)
      BY <1>0, <2>2, <2>6, OrderedTail
    <3>2. CASE t = <<>>
      <4>1. /\ s \in Seq(Tasks) /\ Len(s) = 1 + Len(t) /\ Len(t) = 0
            /\ Head(s) = "orphans"
        <5>1. <<"orphans">> \in Seq(Tasks)
          BY DEF Tasks
        <5> HIDE DEF t
        <5> QED
          BY <2>2, <3>2, <5>1
      <4> HIDE DEF s
      <4> QED
        BY <4>1 DEF Ordered
    <3>3. CASE t # <<>>
      <4>1. <<"orphans">> \in Seq(Tasks) /\ Ordered(<<"orphans">>)
        BY DEF Tasks, Ordered
      <4>2. <<(<<"orphans">>)[Len(<<"orphans">>)], Head(t)>> \in Follows
        BY <3>1, <3>3 DEF Follows
      <4> HIDE DEF t
      <4> QED
        BY <2>2, <3>1, <3>3, <4>1, <4>2, OrderedConcat
    <3> QED
      BY <3>2, <3>3
  <2> HIDE DEF s
  <2>7. ASSUME lane[l].quiet
        PROVE  Reached(lane[l])'
    <3>1. lane[l].child = NoPid
      BY <1>0, <2>2, <2>7 DEF Reached, AtTask, Early
    <3>2. Runtimes' = Runtimes
      BY <2>1 DEF Runtimes, IsRuntime
    <3> QED
      BY <2>4, <2>5, <3>1, <3>2, OrphansReached
  <2> QED
    BY <2>2, <2>4, <2>6, <2>7, OwnStep
<1>4. ASSUME NEW p \in Pids, ReapOrphan(l, p)
      PROVE  QuietInv'
  <2>1. Doing(l, "orphans") /\ Terminate(p)
    BY <1>4 DEF ReapOrphan
  <2>2. ~Resting(l) /\ lane[l].todo # <<>> /\ Head(lane[l].todo) = "orphans"
        /\ lane[l].target = NoPid
    BY <1>0, <2>1, DoingBusy, DoingTask
  <2>3. /\ lane'[l].todo = lane[l].todo /\ lane'[l].found = lane[l].found \ {p}
        /\ lane'[l].target = p /\ lane'[l].child = lane[l].child
        /\ lane'[l].quiet = lane[l].quiet
        /\ \A m \in Launchers : m # l => lane'[m] = lane[m]
    BY <1>0, <1>4 DEF ReapOrphan, TypeOK, LaneStates
  <2>4. ASSUME lane[l].quiet
        PROVE  Reached(lane[l])'
    <3>1. lane[l].child = NoPid /\ Runtimes \subseteq lane[l].found \cup {NoPid}
      BY <1>0, <2>2, <2>4 DEF Reached, AtTask, Early
    <3>2. Runtimes' \subseteq Runtimes /\ NoPid \notin Runtimes
      BY <1>0, <2>1, SignalShrinks, RuntimeFacts
    <3> QED
      BY <2>2, <2>3, <3>1, <3>2, OrphansReached
  <2> QED
    BY <1>0, <2>1, <2>2, <2>3, <2>4, SignalShrinks, OwnStep
<1>5. CASE OrphansReaped(l)
  <2>1. Doing(l, "orphans") /\ UNCHANGED daemons
    BY <1>5 DEF OrphansReaped
  <2>2. /\ ~Resting(l) /\ lane[l].todo # <<>> /\ Head(lane[l].todo) = "orphans"
        /\ lane[l].target = NoPid /\ ProxyOwned'
    BY <1>0, <2>1, DoingBusy, DoingTask DEF ProxyOwned
  <2>3. /\ lane'[l].todo = Tail(lane[l].todo) /\ lane'[l].child = lane[l].child
        /\ lane'[l].quiet = lane[l].quiet
        /\ \A m \in Launchers : m # l => lane'[m] = lane[m]
    BY <1>0, <1>5 DEF OrphansReaped, TypeOK, LaneStates
  <2>4. ASSUME lane[l].quiet
        PROVE  Ordered(lane'[l].todo) /\ Reached(lane[l])'
    <3>1. lane[l].child = NoPid /\ Runtimes \subseteq lane[l].found \cup {NoPid}
      BY <1>0, <2>2, <2>4 DEF Reached, AtTask, Early
    <3>2. Runtimes = {}
      BY <1>0, <1>5, <3>1, RuntimeFacts DEF OrphansReaped, Runtimes
    <3>3. Runtimes' = {}
      BY <2>1, <3>2 DEF Runtimes, IsRuntime
    <3>4. /\ Ordered(lane'[l].todo)
          /\ lane'[l].todo # <<>> => Head(lane'[l].todo) \in {"runtime", "spawn", "spawnSetup"}
      BY <1>0, <2>2, <2>3, <2>4, OrderedTail DEF Follows
    <3> QED
      BY <2>3, <3>1, <3>3, <3>4 DEF Reached, AtTask, Early
  <2> QED
    BY <2>2, <2>3, <2>4, OwnStep
<1>6. CASE TargetGone(l)
  <2> DEFINE task == Head(lane[l].todo)
             file == IF task = "stopSetup" THEN "setup" ELSE task
             rest == IF file \in Files THEN Tail(lane[l].todo) ELSE lane[l].todo
  <2>1. lane[l].target # NoPid /\ lane[l].todo # <<>> /\ task \in Killing /\ ~Resting(l)
    BY <1>0, <1>6, TargetBusy DEF TargetGone, TargetTask
  <2>2. lane' = [lane EXCEPT ![l].target = NoPid, ![l].todo = rest] /\ UNCHANGED daemons
    BY <1>6 DEF TargetGone
  <2>3. /\ lane'[l].todo = rest /\ lane'[l].target = NoPid /\ lane'[l].found = lane[l].found
        /\ lane'[l].child = lane[l].child /\ lane'[l].quiet = lane[l].quiet
        /\ \A m \in Launchers : m # l => lane'[m] = lane[m]
    <3> HIDE DEF rest
    <3> QED
      BY <1>0, <2>2 DEF TypeOK, LaneStates
  <2>4. ProxyOwned' /\ Runtimes' = Runtimes /\ lane[l].target \notin Runtimes
    BY <1>0, <1>6, <2>2 DEF ProxyOwned, Runtimes, IsRuntime, TargetGone, Starting, Answering
  <2>5. ASSUME lane[l].quiet
        PROVE  Ordered(lane'[l].todo) /\ Reached(lane[l])'
    <3>1. CASE task \in Files
      <4>1. /\ lane'[l].todo = Tail(lane[l].todo) /\ Ordered(lane'[l].todo)
            /\ lane'[l].todo # <<>> => Head(lane'[l].todo) \in {"setup", "strike", "census"}
        BY <1>0, <2>1, <2>3, <2>5, <3>1, OrderedTail DEF Files, Follows
      <4>2. lane[l].child = NoPid
        BY <1>0, <2>1, <2>5, <3>1 DEF Reached, AtTask, Early, Files
      <4> QED
        BY <2>3, <4>1, <4>2, EarlyReached
    <3>2. CASE task = "orphans"
      <4>1. lane'[l].todo = lane[l].todo
        BY <2>3, <3>2 DEF Files
      <4>2. lane[l].child = NoPid /\ Runtimes \subseteq lane[l].found \cup {lane[l].target}
        BY <1>0, <2>1, <2>5, <3>2 DEF Reached, AtTask, Early
      <4> QED
        BY <1>0, <2>1, <2>3, <2>4, <2>5, <3>2, <4>1, <4>2, OrphansReached
    <3>3. CASE task = "stopSetup"
      <4>1. /\ lane'[l].todo = Tail(lane[l].todo) /\ Ordered(lane'[l].todo)
            /\ lane'[l].todo # <<>> => Head(lane'[l].todo) = "enrolledOk"
        BY <1>0, <2>1, <2>3, <2>5, <3>3, OrderedTail DEF Files, Follows
      <4>2. Runtimes \subseteq {lane[l].child} /\ lane[l].target = lane[l].child
        BY <1>0, <2>1, <2>5, <3>3 DEF Reached, AtTask
      <4>3. Runtimes' = {}
        BY <2>4, <4>2
      <4>4. pidfile'["setup"] = NoPid
        BY <1>0, <1>6, <3>3 DEF TargetGone, Files, TypeOK
      <4> QED
        BY <4>1, <4>3, <4>4 DEF Reached, AtTask, Early
    <3> QED
      BY <2>1, <3>1, <3>2, <3>3 DEF Killing, Files
  <2> QED
    BY <2>1, <2>3, <2>4, <2>5, OwnStep
<1>7. CASE Escalate(l)
  <2>1. lane[l].target # NoPid /\ Dies(lane[l].target) /\ UNCHANGED <<lane, pidfile>>
    BY <1>7 DEF Escalate
  <2>2. lane[l].todo # <<>> /\ Head(lane[l].todo) \in Killing /\ ~Resting(l)
    BY <1>0, <2>1, TargetBusy DEF TargetTask
  <2>3. Runtimes' \subseteq Runtimes /\ ProxyOwned'
    BY <1>0, <2>1, SignalShrinks
  <2>4. ASSUME lane[l].quiet
        PROVE  Ordered(lane'[l].todo) /\ Reached(lane[l])'
    <3>1. Ordered(lane[l].todo) /\ Reached(lane[l])
      BY <1>0, <2>4
    <3> QED
      BY <2>1, <2>2, <2>3, <3>1 DEF Reached, AtTask, Early, Killing
  <2> QED
    BY <2>1, <2>2, <2>3, <2>4, OwnStep
<1> QED
  BY <1>1, <1>2, <1>3, <1>4, <1>5, <1>6, <1>7 DEF Reaping

\* A probe goes on with an ordered list that begins early.
LEMMA EarlyContinue ==
    ASSUME QInv, NEW l \in Launchers, NEW task \in Early, Doing(l, task), NEW s,
           Continue(l, s), UNCHANGED daemons, Ordered(s),
           s # <<>> => Head(s) \in
               {"runtime", "setup", "census", "strike", "probe", "probeProxy", "ok"}
    PROVE  QuietInv'
<1>1. TypeOK /\ ~Resting(l) /\ lane[l].todo # <<>> /\ Head(lane[l].todo) = task /\ ProxyOwned'
  BY QuietFacts, DoingBusy, DoingTask DEF ProxyOwned, daemons, Early
<1>2. lane[l].quiet => lane[l].child = NoPid
  BY <1>1, QuietFacts DEF Reached, AtTask
<1> QED
  BY <1>1, <1>2, ContinueFacts, EarlyReached, OwnStep

\* The child that is spawned where there is no daemon is the only one.
LEMMA SpawnsFacts ==
    ASSUME TypeOK, ProxyOwned, NEW l \in Launchers, NEW p \in Pids, NEW st \in Starting,
           Spawns(l, p, st)
    PROVE  /\ Runtimes' = Runtimes \cup {p} /\ proc'[p] = st /\ ProxyOwned'
           /\ lane'[l].todo = Tail(lane[l].todo) /\ lane'[l].child = p
           /\ lane'[l].quiet = lane[l].quiet
           /\ \A m \in Launchers : m # l => lane'[m] = lane[m]
<1>1. \A q \in Pids : proc'[q] = IF q = p THEN st ELSE proc[q]
  BY DEF Spawns, TypeOK
<1>2. Runtimes' = Runtimes \cup {p} /\ proc'[p] = st
  BY <1>1 DEF Runtimes, IsRuntime
<1>3. ProxyOwned'
  BY <1>1 DEF ProxyOwned, Spawns, Available, TypeOK, MaybePid
<1> QED
  BY <1>2, <1>3 DEF Spawns, TypeOK, LaneStates

LEMMA QuietLaunching ==
    ASSUME QInv, NEW l \in Launchers, Launching(l)
    PROVE  QuietInv'
<1> USE DEF daemons
<1>0. /\ TypeOK /\ ProxyOwned /\ lane[l] \in LaneStates /\ lane[l].todo \in Seq(Tasks)
      /\ lane[l].quiet => Ordered(lane[l].todo) /\ Reached(lane[l])
      /\ UNCHANGED daemons => ProxyOwned' /\ Runtimes' = Runtimes
  BY QuietFacts DEF ProxyOwned, Runtimes, IsRuntime
<1>1. CASE Probe(l)
  <2> DEFINE s == IF PortTaken THEN <<"probeProxy">> ELSE Launch
  <2>1. Ordered(s) /\ (s # <<>> => Head(s) \in {"probeProxy", "runtime"})
    BY ListsOrdered
  <2>2. Doing(l, "probe") /\ Continue(l, s) /\ UNCHANGED daemons /\ "probe" \in Early
    BY <1>1 DEF Probe, Early
  <2> HIDE DEF s
  <2> QED
    BY <2>1, <2>2, EarlyContinue
<1>2. CASE ProbeProxy(l)
  <2> DEFINE s == IF proxy # NoPid THEN <<"ok">> ELSE Reap \o Launch
  <2>1. Ordered(s) /\ (s # <<>> => Head(s) \in {"ok", "runtime"})
    BY ListsOrdered
  <2>2. Doing(l, "probeProxy") /\ Continue(l, s) /\ UNCHANGED daemons /\ "probeProxy" \in Early
    BY <1>2 DEF ProbeProxy, Early
  <2> HIDE DEF s
  <2> QED
    BY <2>1, <2>2, EarlyContinue
<1>3. ASSUME NEW p \in Pids, Spawn(l, p)
      PROVE  QuietInv'
  <2>1. Doing(l, "spawn") /\ Spawns(l, p, "loading") /\ "loading" \in Starting
    BY <1>3 DEF Spawn, Starting
  <2>2. ~Resting(l) /\ lane[l].todo # <<>> /\ Head(lane[l].todo) = "spawn"
    BY <1>0, <2>1, DoingBusy, DoingTask
  <2>3. ASSUME lane[l].quiet
        PROVE  Ordered(lane'[l].todo) /\ Reached(lane[l])'
    <3>1. Runtimes = {}
      BY <1>0, <2>2, <2>3 DEF Reached, AtTask
    <3>2. /\ Ordered(lane'[l].todo)
          /\ lane'[l].todo # <<>> => Head(lane'[l].todo) = "await"
      <4>1. lane'[l].todo = Tail(lane[l].todo)
        BY <1>0, <2>1, SpawnsFacts
      <4> QED
        BY <1>0, <2>2, <2>3, <4>1, OrderedTail DEF Follows
    <3>3. Runtimes' = {p} /\ proc'[p] = "loading" /\ lane'[l].child = p
      BY <1>0, <2>1, <3>1, SpawnsFacts
    <3> QED
      BY <3>2, <3>3 DEF Reached, AtTask, Early, Coming, Only
  <2> QED
    BY <1>0, <2>1, <2>2, <2>3, SpawnsFacts, OwnStep
<1>4. ASSUME Awaiting(l)
      PROVE  /\ ~Resting(l) /\ lane[l].todo # <<>>
             /\ Head(lane[l].todo) \in {"await", "awaitAgain"}
             /\ lane[l].quiet => Doing(l, "await") /\ Coming(lane[l].child)
  <2>1. PICK task \in {"await", "awaitAgain"} : Doing(l, task)
    BY <1>4 DEF Awaiting
  <2>2. ~Resting(l) /\ lane[l].todo # <<>> /\ Head(lane[l].todo) = task
    BY <1>0, <2>1, DoingBusy, DoingTask
  <2> QED
    BY <1>0, <2>1, <2>2 DEF Ordered, Reached, AtTask
<1>5. CASE Answered(l)
  <2>1. Awaiting(l) /\ PortTaken /\ Next1(l) /\ UNCHANGED <<daemons, enrolled>>
        /\ pidfile' = [pidfile EXCEPT !["runtime"] = lane[l].child]
    BY <1>5 DEF Answered
  <2>2. PICK task \in {"await", "awaitAgain"} : Doing(l, task)
    BY <2>1 DEF Awaiting
  <2>3. ASSUME lane[l].quiet
        PROVE  Ordered(lane'[l].todo) /\ Reached(lane[l])'
    <3> DEFINE c == lane[l].child
    <3>1. Doing(l, "await") /\ Coming(c)
      BY <1>4, <2>1, <2>3
    <3>2. c \in Pids /\ c # NoPid
      BY <1>0, <3>1, RuntimeFacts DEF Coming, Only
    <3>3. proc[c] = "serving"
      BY <1>0, <2>1, <3>1, <3>2 DEF Coming, Only, PortTaken, Runtimes, IsRuntime, Answering
    <3>4. pidfile'["runtime"] = c
      BY <1>0, <2>1 DEF TypeOK, Files
    <3>5. Up(c)'
      BY <1>0, <2>1, <3>1, <3>3, <3>4, NextFacts DEF Up, Only, Coming
    <3>6. /\ Ordered(lane'[l].todo) /\ lane'[l].child = c
          /\ lane'[l].todo # <<>> => Head(lane'[l].todo) = "require"
      BY <2>1, <2>3, <3>1, NextFacts DEF Follows
    <3>7. Up(lane[l].child)'
      BY <3>5, <3>6
    <3> QED
      BY <3>2, <3>6, <3>7 DEF Reached, AtTask, Early
  <2> QED
    BY <1>0, <1>4, <2>1, <2>2, <2>3, NextFacts, OwnStep
<1>6. ASSUME Awaiting(l), NEW q \in BOOLEAN, GiveUpChild(l, q), ProxyOwned',
             lane[l].quiet /\ q => FALSE
      PROVE  QuietInv'
  <2> DEFINE s == IF Doing(l, "await") THEN Retry ELSE <<"failed">>
  <2>1. lane' = [lane EXCEPT ![l].todo = s, ![l].child = NoPid, ![l].quiet = @ /\ q]
    BY <1>6, Zenon DEF GiveUpChild
  <2> HIDE DEF s
  <2>2. ~lane'[l].quiet
    BY <1>0, <1>6, <2>1 DEF TypeOK, LaneStates
  <2>3. \A m \in Launchers : m # l => lane'[m] = lane[m]
    BY <1>0, <2>1 DEF TypeOK
  <2> QED
    BY <1>4, <1>6, <2>2, <2>3, OwnStep
<1>7. CASE ChildDied(l)
  <2>1. Awaiting(l) /\ GiveUpChild(l, TRUE) /\ UNCHANGED daemons /\ proc[lane[l].child] = "free"
    BY <1>7 DEF ChildDied
  <2>2. ~lane[l].quiet
    BY <1>4, <2>1 DEF Coming, Only
  <2> QED
    BY <1>0, <1>6, <2>1, <2>2
<1>8. CASE ChildTooSlow(l)
  <2>1. Awaiting(l) /\ GiveUpChild(l, FALSE) /\ Terminate(lane[l].child)
    BY <1>8 DEF ChildTooSlow
  <2>2. ProxyOwned'
    BY <1>0, <2>1, SignalShrinks
  <2> QED
    BY <1>6, <2>1, <2>2
<1>9. CASE ProxyUp(l)
  <2>1. Doing(l, "require") /\ Next1(l) /\ UNCHANGED <<daemons, pidfile, enrolled>>
    BY <1>9 DEF ProxyUp
  <2>2. ~Resting(l) /\ lane[l].todo # <<>> /\ Head(lane[l].todo) = "require"
    BY <1>0, <2>1, DoingBusy, DoingTask
  <2>3. ASSUME lane[l].quiet
        PROVE  Ordered(lane'[l].todo) /\ Reached(lane[l])'
    <3> DEFINE c == lane[l].child
    <3>1. c # NoPid /\ Up(c)
      BY <1>0, <2>2, <2>3 DEF Reached, AtTask
    <3>2. /\ Ordered(lane'[l].todo) /\ lane'[l].child = c
          /\ lane'[l].todo # <<>> => Head(lane'[l].todo) = "ok"
      BY <2>1, <2>3, NextFacts DEF Follows
    <3>3. Up(lane[l].child)'
      BY <1>0, <2>1, <3>1, <3>2 DEF Up, Only
    <3> QED
      BY <3>1, <3>2, <3>3 DEF Reached, AtTask, Early
  <2> QED
    BY <1>0, <2>1, <2>2, <2>3, NextFacts, OwnStep
<1>10. CASE ProxyDown(l)
  <2>1. Doing(l, "require") /\ enrolled /\ proxy = NoPid /\ UNCHANGED daemons
        /\ Continue(l, Reap \o <<"failed">>)
    BY <1>10 DEF ProxyDown
  <2>2. ~Resting(l) /\ lane[l].todo # <<>> /\ Head(lane[l].todo) = "require"
    BY <1>0, <2>1, DoingBusy, DoingTask
  <2>3. ~lane[l].quiet
    BY <1>0, <2>1, <2>2 DEF Reached, AtTask, Up
  <2> QED
    BY <1>0, <2>1, <2>2, <2>3, ContinueFacts, OwnStep
<1> QED
  BY <1>1, <1>2, <1>3, <1>5, <1>7, <1>8, <1>9, <1>10 DEF Launching

LEMMA QuietEnrolling ==
    ASSUME QInv, NEW l \in Launchers, Enrolling(l)
    PROVE  QuietInv'
<1> USE DEF daemons
<1>0. /\ TypeOK /\ ProxyOwned /\ lane[l] \in LaneStates /\ lane[l].todo \in Seq(Tasks)
      /\ lane[l].quiet => Ordered(lane[l].todo) /\ Reached(lane[l])
      /\ UNCHANGED daemons => ProxyOwned' /\ Runtimes' = Runtimes
  BY QuietFacts DEF ProxyOwned, Runtimes, IsRuntime
<1>1. ASSUME NEW p \in Pids, SpawnSetup(l, p)
      PROVE  QuietInv'
  <2>1. Doing(l, "spawnSetup") /\ Spawns(l, p, "setupLoading") /\ "setupLoading" \in Starting
    BY <1>1 DEF SpawnSetup, Starting
  <2>2. ~Resting(l) /\ lane[l].todo # <<>> /\ Head(lane[l].todo) = "spawnSetup"
    BY <1>0, <2>1, DoingBusy, DoingTask
  <2>3. ASSUME lane[l].quiet
        PROVE  Ordered(lane'[l].todo) /\ Reached(lane[l])'
    <3>1. Runtimes = {}
      BY <1>0, <2>2, <2>3 DEF Reached, AtTask
    <3>2. /\ Ordered(lane'[l].todo)
          /\ lane'[l].todo # <<>> => Head(lane'[l].todo) = "record"
      <4>1. lane'[l].todo = Tail(lane[l].todo)
        BY <1>0, <2>1, SpawnsFacts
      <4> QED
        BY <1>0, <2>2, <2>3, <4>1, OrderedTail DEF Follows
    <3>3. Runtimes' = {p} /\ proc'[p] = "setupLoading" /\ lane'[l].child = p
      BY <1>0, <2>1, <3>1, SpawnsFacts
    <3> QED
      BY <3>2, <3>3 DEF Reached, AtTask, Early, Only
  <2> QED
    BY <1>0, <2>1, <2>2, <2>3, SpawnsFacts, OwnStep
<1>2. CASE RecordSetup(l)
  <2>1. Doing(l, "record") /\ Next1(l) /\ UNCHANGED daemons
    BY <1>2 DEF RecordSetup
  <2>2. ~Resting(l) /\ lane[l].todo # <<>> /\ Head(lane[l].todo) = "record"
    BY <1>0, <2>1, DoingBusy, DoingTask
  <2>3. ASSUME lane[l].quiet
        PROVE  Reached(lane[l])'
    <3>1. Only(lane[l].child, {"setupLoading", "setupServing", "setupDone"})
      BY <1>0, <2>2, <2>3 DEF Reached, AtTask
    <3>2. Only(lane[l].child, {"setupLoading", "setupServing", "setupDone"})'
      BY <1>0, <2>1, <3>1, NextFacts DEF Only
    <3>3. lane'[l].todo # <<>> => Head(lane'[l].todo) = "enrol"
      BY <2>1, <2>3, NextFacts DEF Follows
    <3> QED
      BY <3>2, <3>3 DEF Reached, AtTask, Early
  <2> QED
    BY <1>0, <2>1, <2>2, <2>3, NextFacts, OwnStep
<1>3. CASE SetupReady(l)
  <2>1. Doing(l, "enrol") /\ Next1(l) /\ UNCHANGED daemons
    BY <1>3 DEF SetupReady
  <2>2. ~Resting(l) /\ lane[l].todo # <<>> /\ Head(lane[l].todo) = "enrol"
    BY <1>0, <2>1, DoingBusy, DoingTask
  <2>3. ASSUME lane[l].quiet
        PROVE  Reached(lane[l])'
    <3>1. Runtimes = {lane[l].child}
      BY <1>0, <2>2, <2>3 DEF Reached, AtTask, Only
    <3>2. lane'[l].todo # <<>> => Head(lane'[l].todo) = "stopSetup"
      BY <2>1, <2>3, NextFacts DEF Follows
    <3> QED
      BY <1>0, <2>1, <3>1, <3>2, NextFacts DEF Reached, AtTask, Early
  <2> QED
    BY <1>0, <2>1, <2>2, <2>3, NextFacts, OwnStep
<1>4. CASE SetupDied(l)
  <2>1. Doing(l, "enrol") /\ proc[lane[l].child] = "free" /\ UNCHANGED daemons
        /\ Continue(l, <<"failed">>)
    BY <1>4 DEF SetupDied
  <2>2. ~Resting(l) /\ lane[l].todo # <<>> /\ Head(lane[l].todo) = "enrol"
    BY <1>0, <2>1, DoingBusy, DoingTask
  <2>3. ~lane[l].quiet
    BY <1>0, <2>1, <2>2 DEF Reached, AtTask, Only
  <2> QED
    BY <1>0, <2>1, <2>2, <2>3, ContinueFacts, OwnStep
<1>5. CASE SetupTooSlow(l)
  <2>1. Doing(l, "enrol") /\ UNCHANGED daemons
        /\ lane' = [lane EXCEPT ![l].todo = <<"stopSetup", "failed">>, ![l].quiet = FALSE]
    BY <1>5 DEF SetupTooSlow
  <2>2. ~Resting(l)
    BY <2>1, DoingBusy
  <2>3. ~lane'[l].quiet /\ \A m \in Launchers : m # l => lane'[m] = lane[m]
    BY <1>0, <2>1 DEF TypeOK, LaneStates
  <2> QED
    BY <1>0, <2>1, <2>2, <2>3, OwnStep
<1>6. CASE StopSetup(l)
  <2> DEFINE c == lane[l].child
  <2>1. Doing(l, "stopSetup")
    BY <1>6 DEF StopSetup
  <2>2. ~Resting(l) /\ lane[l].todo # <<>> /\ Head(lane[l].todo) = "stopSetup"
    BY <1>0, <2>1, DoingBusy, DoingTask
  <2>3. lane[l].quiet => Runtimes \subseteq {c}
    BY <1>0, <2>2 DEF Reached, AtTask
  <2>4. CASE IsRuntime(c)
    <3>1. Await(l, c) /\ Terminate(c)
      BY <1>6, <2>4 DEF StopSetup, Await
    <3>2. Runtimes' \subseteq Runtimes /\ ProxyOwned'
      BY <1>0, <3>1, SignalShrinks
    <3>3. /\ lane'[l].todo = lane[l].todo /\ lane'[l].target = c /\ lane'[l].child = c
          /\ lane'[l].quiet = lane[l].quiet
          /\ \A m \in Launchers : m # l => lane'[m] = lane[m]
      BY <1>0, <3>1, AwaitFacts
    <3>4. lane[l].quiet => Reached(lane[l])'
      BY <2>2, <2>3, <3>2, <3>3 DEF Reached, AtTask, Early
    <3> QED
      BY <1>0, <2>2, <3>2, <3>3, <3>4, OwnStep
  <2>5. CASE ~IsRuntime(c)
    <3>1. Next1(l) /\ UNCHANGED daemons /\ pidfile' = [pidfile EXCEPT !["setup"] = NoPid]
      BY <1>6, <2>5 DEF StopSetup
    <3>2. lane[l].quiet => Runtimes' = {}
      BY <1>0, <2>3, <2>5, <3>1 DEF Runtimes
    <3>3. pidfile'["setup"] = NoPid
      BY <1>0, <3>1 DEF TypeOK, Files
    <3>4. ASSUME lane[l].quiet
          PROVE  Reached(lane[l])'
      <4>1. lane'[l].todo # <<>> => Head(lane'[l].todo) = "enrolledOk"
        BY <2>1, <3>1, <3>4, NextFacts DEF Follows
      <4> QED
        BY <3>2, <3>3, <3>4, <4>1 DEF Reached, AtTask, Early
    <3> QED
      BY <1>0, <2>1, <2>2, <3>1, <3>4, NextFacts, OwnStep
  <2> QED
    BY <2>4, <2>5
<1> QED
  BY <1>1, <1>2, <1>3, <1>4, <1>5, <1>6 DEF Enrolling

LEMMA QuietStrike ==
    ASSUME QInv, NEW l \in Launchers, Strike(l)
    PROVE  QuietInv'
<1>0. /\ TypeOK /\ ProxyOwned /\ lane[l].quiet => Reached(lane[l])
  BY QuietFacts
<1>1. Doing(l, "strike") /\ Next1(l)
  BY DEF Strike
<1>2. ~Resting(l) /\ lane[l].todo # <<>> /\ Head(lane[l].todo) = "strike"
  BY <1>0, <1>1, QuietFacts, DoingBusy, DoingTask
<1>3. ProxyOwned'
  <2>1. CASE Terminate(pidfile["setup"])
    BY <1>0, <2>1, QuietFacts, SignalShrinks
  <2>2. CASE UNCHANGED daemons
    BY <2>2, QuietFacts DEF ProxyOwned, daemons
  <2> QED
    BY <2>1, <2>2 DEF Strike
<1>4. ASSUME lane[l].quiet
      PROVE  Reached(lane[l])'
  <2>1. lane[l].child = NoPid
    BY <1>2, <1>4, QuietFacts DEF Reached, AtTask, Early
  <2>2. lane'[l].todo # <<>> => Head(lane'[l].todo) \in {"probe", "ok"}
    BY <1>1, <1>4, NextFacts DEF Follows
  <2> QED
    BY <1>1, <2>1, <2>2, NextFacts, EarlyReached
<1> QED
  BY <1>1, <1>2, <1>3, <1>4, NextFacts, OwnStep

\* A new command: every other is at rest if it counts as undisturbed, and the
\* others no longer do.
LEMMA QuietGive ==
    ASSUME QInv, NEW l \in Launchers, NEW s, Give(l, s), Ordered(s),
           s # <<>> => Head(s) \in {"probe", "runtime"}
    PROVE  QuietInv'
<1> DEFINE q == \A m \in Launchers \ {l} : Resting(m)
           r == [AtRest EXCEPT !.todo = s, !.quiet = q]
<1>1. TypeOK /\ ProxyOwned' /\ lane' = [Disturbed EXCEPT ![l] = r]
  BY QuietFacts DEF Give, ProxyOwned, daemons
<1>2. r.todo = s /\ r.child = NoPid /\ r.quiet = q
  BY DEF AtRest
<1> HIDE DEF q, r
<1>3. lane'[l] = r
  BY <1>1 DEF Disturbed
<1>4. \A m \in Launchers : m # l => ~lane'[m].quiet /\ lane'[m].todo = lane[m].todo
  BY <1>1 DEF Disturbed, TypeOK, LaneStates
<1>5. q => Alone(l)'
  BY <1>4 DEF Alone, Resting, q
<1>6. Reached(lane[l])'
  BY <1>2, <1>3, EarlyReached
<1> QED
  BY <1>1, <1>2, <1>3, <1>4, <1>5, <1>6 DEF QuietInv

LEMMA QuietCommanded ==
    ASSUME QInv, NEW l \in Launchers, Commanded(l)
    PROVE  QuietInv'
<1>0. TypeOK /\ ProxyOwned
  BY QuietFacts
<1>1. CASE GiveStart(l)
  <2> DEFINE s == IF enrolled THEN Start ELSE Setup
  <2>1. Ordered(s) /\ Head(s) \in {"probe", "runtime"} /\ Give(l, s)
    BY <1>1, ListsOrdered DEF GiveStart
  <2> HIDE DEF s
  <2> QED
    BY <2>1, QuietGive
<1>2. CASE GiveStop(l) \/ GiveRestart(l)
  BY <1>2, ListsOrdered, QuietGive DEF GiveStop, GiveRestart
<1>3. CASE LauncherDies(l)
  <2>1. /\ ~Resting(l) /\ UNCHANGED daemons /\ ~lane'[l].quiet
        /\ \A m \in Launchers : m # l => lane'[m] = lane[m]
    BY <1>0, <1>3 DEF LauncherDies, TypeOK, AtRest
  <2> QED
    BY <1>0, <2>1, OwnStep DEF ProxyOwned, daemons
<1>4. CASE SetupInterrupted(l)
  <2> DEFINE c == lane[l].child
  <2>1. PICK task \in {"record", "enrol"} : Doing(l, task)
    BY <1>4 DEF SetupInterrupted
  <2>2. Continue(l, <<"stopSetup">>) /\ UNCHANGED daemons
    BY <1>4 DEF SetupInterrupted
  <2>3. /\ ~Resting(l) /\ lane[l].todo # <<>> /\ Head(lane[l].todo) = task
        /\ lane[l].target = NoPid
    BY <1>0, <2>1, DoingBusy, DoingTask
  <2>4. ProxyOwned' /\ Runtimes' = Runtimes
    BY <1>0, <2>2 DEF ProxyOwned, Runtimes, IsRuntime, daemons
  <2>5. ASSUME lane[l].quiet
        PROVE  Reached(lane[l])'
    <3>1. Runtimes = {c}
      BY <2>3, <2>5, QuietFacts DEF Reached, AtTask, Only
    <3>2. Head(<<"stopSetup">>) = "stopSetup"
      OBVIOUS
    <3> QED
      BY <1>0, <2>2, <2>3, <2>4, <3>1, <3>2, ContinueFacts DEF Reached, AtTask, Early
  <2> QED
    BY <1>0, <2>2, <2>3, <2>4, <2>5, ContinueFacts, ListsOrdered, OwnStep
<1> QED
  BY <1>1, <1>2, <1>3, <1>4 DEF Commanded

-----------------------------------------------------------------------------
(* Steps of the daemons and of the rest of the machine.                    *)

\* What an undisturbed command has reached is kept by any step that adds no
\* daemon, keeps the files and lets a child that is coming up come up.
LEMMA KeepsReached ==
    ASSUME QInv, NEW l \in Launchers, lane[l].quiet, lane' = lane, pidfile' = pidfile,
           Runtimes' \subseteq Runtimes,
           \A c \in MaybePid :
              /\ Coming(c) => Coming(c)'
              /\ Up(c) => Up(c)'
              /\ Only(c, {"setupLoading", "setupServing", "setupDone"}) =>
                    Only(c, {"setupLoading", "setupServing", "setupDone"})'
    PROVE  Reached(lane[l])'
<1> DEFINE r == lane[l]
<1>1. Reached(r) /\ r.child \in MaybePid
  BY QuietFacts DEF LaneStates
<1>2. Coming(r.child) => Coming(lane[l].child)'
  BY <1>1
<1>3. Up(r.child) => Up(lane[l].child)'
  BY <1>1
<1>4. Only(r.child, {"setupLoading", "setupServing", "setupDone"}) =>
          Only(lane[l].child, {"setupLoading", "setupServing", "setupDone"})'
  BY <1>1
<1>5. r' = r
  OBVIOUS
<1> QED
  BY <1>1, <1>2, <1>3, <1>4, <1>5 DEF Reached, AtTask

LEMMA QuietMachine ==
    ASSUME QInv, \/ \E p \in Pids : Running(p) \/ Machine(p)
                 \/ CertificateRemoved
    PROVE  QuietInv'
<1> DEFINE Setups == {"setupLoading", "setupServing", "setupDone"}
           Kept   == \A c \in MaybePid : /\ Coming(c) => Coming(c)'
                                         /\ Up(c) => Up(c)'
                                         /\ Only(c, Setups) => Only(c, Setups)'
<1>0. TypeOK /\ ProxyOwned /\ proc \in [Pids -> ProcStates] /\ proxy \in MaybePid
  BY DEF QInv, IInv, QuietInv, TypeOK
<1>1. ASSUME lane' = lane, pidfile' = pidfile, Runtimes' \subseteq Runtimes, ProxyOwned', Kept
      PROVE  QuietInv'
  BY <1>1, KeepsReached, OthersStep
<1> HIDE DEF Kept
<1>2. ASSUME NEW p \in Pids, Bind(p)
      PROVE  QuietInv'
  <2>1. /\ proc[p] = "loading" /\ UNCHANGED <<pidfile, enrolled, lane>>
        /\ proxy' = IF enrolled /\ proxy = NoPid THEN p ELSE proxy
        /\ \A x \in Pids : proc'[x] = IF x = p THEN "reconciling" ELSE proc[x]
    BY <1>0, <1>2 DEF Bind
  <2>2. Runtimes' = Runtimes /\ p \in Runtimes
    BY <2>1 DEF Runtimes, IsRuntime, Starting, Answering
  <2>3. ProxyOwned'
    BY <1>0, <2>1 DEF ProxyOwned, MaybePid
  <2>4. ASSUME NEW c \in MaybePid, Coming(c)
        PROVE  Coming(c)'
    <3>1. c = p
      BY <2>2, <2>4 DEF Coming, Only
    <3>2. proxy = NoPid
      <4>1. proxy # NoPid => proxy \in Runtimes
        BY <1>0 DEF ProxyOwned, MaybePid, Runtimes, IsRuntime, Starting, Answering
      <4> QED
        BY <1>0, <2>1, <2>4, <3>1, <4>1 DEF ProxyOwned, Coming, Only
    <3> QED
      BY <2>1, <2>2, <2>4, <3>1, <3>2 DEF Coming, Only
  <2>5. \A c \in MaybePid : ~Up(c) /\ ~Only(c, Setups)
    BY <2>1, <2>2 DEF Up, Only
  <2> QED
    BY <1>1, <2>1, <2>2, <2>3, <2>4, <2>5 DEF Kept
<1>3. ASSUME NEW p \in Pids, Serve(p)
      PROVE  QuietInv'
  <2>1. proc[p] \in {"reconciling", "setupLoading"} /\ UNCHANGED <<pidfile, enrolled, lane>>
    BY <1>3 DEF Serve
  <2>2. p \in Runtimes
    BY <2>1 DEF Runtimes, IsRuntime, Starting
  <2>3. CASE PortTaken
    <3>1. Runtimes' \subseteq Runtimes /\ ProxyOwned'
      BY <1>0, <1>3, <2>3, SignalShrinks DEF Serve
    <3>2. PICK x \in Pids : proc[x] \in Answering
      BY <2>3 DEF PortTaken
    <3>3. x \in Runtimes /\ x # p
      BY <2>1, <3>2 DEF Runtimes, IsRuntime, Answering
    <3>4. \A c \in MaybePid : \A states : ~Only(c, states)
      BY <2>2, <3>3 DEF Only
    <3> QED
      BY <1>1, <2>1, <3>1, <3>4 DEF Kept, Coming, Up
  <2>4. CASE ~PortTaken
    <3>1. /\ proxy' = proxy
          /\ \A x \in Pids : proc'[x] = IF x # p THEN proc[x]
                 ELSE IF proc[p] = "reconciling" THEN "serving" ELSE "setupServing"
      BY <1>0, <1>3, <2>4 DEF Serve
    <3>2. Runtimes' = Runtimes
      BY <2>1, <3>1 DEF Runtimes, IsRuntime, Starting, Answering
    <3>3. ProxyOwned'
      BY <1>0, <2>1, <3>1 DEF ProxyOwned, MaybePid
    <3>4. ASSUME NEW c \in MaybePid, Coming(c)
          PROVE  Coming(c)'
      <4>1. c = p
        BY <2>2, <3>4 DEF Coming, Only
      <4> QED
        BY <2>1, <3>1, <3>2, <3>4, <4>1 DEF Coming, Only
    <3>5. ASSUME NEW c \in MaybePid, Only(c, Setups)
          PROVE  Only(c, Setups)'
      <4>1. c = p
        BY <2>2, <3>5 DEF Only
      <4> QED
        BY <2>1, <3>1, <3>2, <3>5, <4>1 DEF Only
    <3>6. \A c \in MaybePid : ~Up(c)
      BY <2>1, <2>2 DEF Up, Only
    <3> QED
      BY <1>1, <2>1, <3>2, <3>3, <3>4, <3>5, <3>6 DEF Kept
  <2> QED
    BY <2>3, <2>4
<1>4. ASSUME NEW p \in Pids, Enroll(p)
      PROVE  QuietInv'
  <2>1. /\ proc[p] = "setupServing" /\ UNCHANGED <<proxy, pidfile, lane>>
        /\ \A x \in Pids : proc'[x] = IF x = p THEN "setupDone" ELSE proc[x]
    BY <1>0, <1>4 DEF Enroll
  <2>2. Runtimes' = Runtimes /\ p \in Runtimes
    BY <2>1 DEF Runtimes, IsRuntime, Starting, Answering
  <2>3. ProxyOwned'
    BY <1>0, <2>1 DEF ProxyOwned, MaybePid
  <2>4. \A c \in MaybePid : ~Coming(c) /\ ~Up(c)
    BY <2>1, <2>2 DEF Coming, Up, Only
  <2>5. ASSUME NEW c \in MaybePid, Only(c, Setups)
        PROVE  Only(c, Setups)'
    <3>1. c = p
      BY <2>2, <2>5 DEF Only
    <3> QED
      BY <2>1, <2>2, <2>5, <3>1 DEF Only
  <2> QED
    BY <1>1, <2>1, <2>2, <2>3, <2>4, <2>5 DEF Kept
<1>5. ASSUME NEW p \in Pids, Exit(p)
      PROVE  QuietInv'
  <2>1. proc[p] = "stopping" /\ Dies(p) /\ UNCHANGED <<pidfile, enrolled, lane>>
    BY <1>5 DEF Exit
  <2>2. p \in Runtimes /\ Runtimes' \subseteq Runtimes /\ ProxyOwned'
    BY <1>0, <2>1, SignalShrinks DEF Runtimes, IsRuntime, Starting, Answering
  <2>3. \A c \in MaybePid : ~Coming(c) /\ ~Up(c) /\ ~Only(c, Setups)
    BY <2>1, <2>2 DEF Coming, Up, Only
  <2> QED
    BY <1>1, <2>1, <2>2, <2>3 DEF Kept
<1>6. ASSUME NEW p \in Pids, Crash(p)
      PROVE  QuietInv'
  <2>1. ProxyOwned' /\ lane' = Disturbed
    BY <1>0, <1>6, SignalShrinks DEF Crash
  <2>2. ASSUME NEW l \in Launchers, lane[l].quiet, lane' = lane
        PROVE  FALSE
    BY <1>0, <2>1, <2>2 DEF Disturbed, TypeOK, LaneStates
  <2> QED
    BY <2>1, <2>2, OthersStep
<1>7. ASSUME NEW p \in Pids, Machine(p)
      PROVE  QuietInv'
  <2>1. /\ UNCHANGED <<proxy, pidfile, enrolled, lane>>
        /\ \A x \in Pids : x # p => proc'[x] = proc[x]
        /\ proc[p] \in {"free", "foreign"} /\ proc'[p] \in {"free", "foreign"}
    BY <1>0, <1>7 DEF Machine, ForeignStarts, ForeignExits, Available
  <2>2. Runtimes' = Runtimes /\ p \notin Runtimes
    BY <2>1 DEF Runtimes, IsRuntime, Starting, Answering
  <2>3. ProxyOwned'
    BY <1>0, <2>1 DEF ProxyOwned, MaybePid
  <2>4. ASSUME NEW c \in MaybePid, NEW states, Only(c, states)
        PROVE  Only(c, states)' /\ proc'[c] = proc[c]
    <3>1. c \in Pids /\ c # p
      BY <2>2, <2>4 DEF Only, Runtimes
    <3> QED
      BY <2>1, <2>2, <2>4, <3>1 DEF Only
  <2> QED
    BY <1>1, <2>1, <2>2, <2>3, <2>4 DEF Kept, Coming, Up
<1>8. CASE CertificateRemoved
  <2>1. UNCHANGED daemons /\ lane' = Disturbed
    BY <1>8 DEF CertificateRemoved
  <2>2. ASSUME NEW l \in Launchers, lane[l].quiet, lane' = lane
        PROVE  FALSE
    BY <1>0, <2>1, <2>2 DEF Disturbed, TypeOK, LaneStates
  <2> QED
    BY <1>0, <2>1, <2>2, OthersStep DEF ProxyOwned, daemons
<1> QED
  BY <1>2, <1>3, <1>4, <1>5, <1>6, <1>7, <1>8 DEF Running

-----------------------------------------------------------------------------
(* The theorems.                                                           *)

LEMMA QInvInit == Init => QInv
<1> SUFFICES ASSUME Init PROVE QInv
  OBVIOUS
<1>1. ProxyOwned /\ \A l \in Launchers : ~lane[l].quiet
  BY DEF Init, ProxyOwned, AtRest
<1> QED
  BY <1>1, IInvInit DEF QInv, QuietInv

LEMMA QInvStep == QInv /\ [Next]_vars => QInv'
<1> SUFFICES ASSUME QInv, [Next]_vars
             PROVE  QInv'
  OBVIOUS
<1>1. IInv'
  BY IInvStep DEF QInv
<1>2. CASE UNCHANGED vars
  <2> USE <1>2 DEF vars, daemons
  <2>1. ProxyOwned'
    BY DEF ProxyOwned, QInv, QuietInv
  <2>2. Runtimes' = Runtimes
    BY DEF Runtimes, IsRuntime
  <2>3. \A l \in Launchers : lane[l].quiet => Reached(lane[l])'
    BY <2>2, QuietFacts DEF Reached, AtTask, Coming, Up, Only
  <2> QED
    BY <1>1, <2>1, <2>3, OthersStep DEF QInv
<1>3. ASSUME NEW l \in Launchers,
             Commanded(l) \/ Reaping(l) \/ Strike(l) \/ Launching(l) \/ Enrolling(l)
      PROVE  QInv'
  BY <1>1, <1>3, QuietCommanded, QuietReaping, QuietStrike, QuietLaunching, QuietEnrolling
     DEF QInv
<1>4. CASE (\E p \in Pids : Running(p) \/ Machine(p)) \/ CertificateRemoved
  BY <1>1, <1>4, QuietMachine DEF QInv
<1> QED
  BY <1>2, <1>3, <1>4 DEF Next

\* The auto-heal works: a start, restart or enrollment that had the machine to
\* itself and timed out nowhere never fails, whatever it found at first.
THEOREM QuietWorksCorrect == Spec => []QuietWorks
<1>1. QInv => QuietWorks
  <2> SUFFICES ASSUME QInv, NEW l \in Launchers, Finished(l, "failed")
               PROVE  FALSE
    BY DEF QuietWorks
  <2>1. lane[l].quiet /\ lane[l].todo = <<"failed">>
    BY DEF Finished
  <2>2. Ordered(<<"failed">>)
    BY <2>1, QuietFacts
  <2> QED
    BY <2>2 DEF Ordered
<1> QED
  BY <1>1, QInvInit, QInvStep, PTL DEF Spec

\* Such a start leaves one daemon, which serves, has the proxy port and is the
\* one its pidfile names; such an enrollment leaves none.
THEOREM QuietOutcomeCorrect == Spec => []QuietOutcome
<1>1. QInv => QuietOutcome
  <2> SUFFICES ASSUME QInv, NEW l \in Launchers
               PROVE  /\ Finished(l, "ok") /\ lane[l].child # NoPid => Up(lane[l].child)
                      /\ Finished(l, "enrolledOk") => Runtimes = {} /\ pidfile["setup"] = NoPid
    BY DEF QuietOutcome, Up, Only
  <2>1. lane[l].quiet => Reached(lane[l])
    BY QuietFacts
  <2>2. ASSUME Finished(l, "ok"), lane[l].child # NoPid
        PROVE  Up(lane[l].child)
    <3>1. AtTask(lane[l], {"require", "ok"})
      BY <2>2 DEF Finished, AtTask
    <3> QED
      BY <2>1, <2>2, <3>1 DEF Finished, Reached
  <2>3. ASSUME Finished(l, "enrolledOk")
        PROVE  Runtimes = {} /\ pidfile["setup"] = NoPid
    <3>1. AtTask(lane[l], {"enrolledOk"})
      BY <2>3 DEF Finished, AtTask
    <3> QED
      BY <2>1, <2>3, <3>1 DEF Finished, Reached
  <2> QED
    BY <2>2, <2>3
<1> QED
  BY <1>1, QInvInit, QInvStep, PTL DEF Spec
=============================================================================
