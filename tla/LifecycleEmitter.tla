--------------------------- MODULE LifecycleEmitter ---------------------------
(***************************************************************************)
(* The daemon's event emitter (runtime/src/lib/lifecycle-emitter.ts): a    *)
(* bounded queue in memory and one chain of drainNext calls that sends its *)
(* head to the backend (lib/backend-mcp-client.ts), with retries.          *)
(*                                                                         *)
(* One action is one run of the event loop.  A chain of drainNext calls is *)
(* a drain: it awaits its call, or its timer.  The code means to have one; *)
(* the model would let several run.                                        *)
(***************************************************************************)
EXTENDS Naturals, Sequences

CONSTANTS
    Drains,       \* names for the chains of drainNext calls
    Cap,          \* QUEUE_CAP (1000 in the code)
    MaxAttempts,  \* MAX_ATTEMPTS (5 in the code)
    MaxEvents     \* bound: events emitted, over all lives of the daemon

ASSUME EmitterAssumption ==
    /\ Cap \in Nat \ {0} /\ MaxAttempts \in Nat \ {0} /\ MaxEvents \in Nat

Events == 1..MaxEvents

VARIABLES
    running,   \* the daemon runs
    emitted,   \* events emitted so far; the n-th is event n
    queue,     \* the queue, oldest first
    flushing,  \* the flag that keeps flush from starting a second drain
    drain,     \* what each drain awaits
    attempts,  \* the attempts field of each event
    late,      \* calls of each event given up here that may still reach the backend
    copies,    \* history: how often the backend recorded each event
    acked      \* history: the events whose call returned ok

vars == <<running, emitted, queue, flushing, drain, attempts, late, copies, acked>>
backend == <<late, copies>>

-----------------------------------------------------------------------------
Idle  == [at |-> "idle"]
Timer == [at |-> "timer"]    \* setImmediate, or setTimeout with the backoff
Call(e) == [at |-> "call", event |-> e, landed |-> FALSE]
Calls == [at : {"call"}, event : Events, landed : BOOLEAN]

TypeOK ==
    /\ running \in BOOLEAN /\ emitted \in 0..MaxEvents
    /\ queue \in Seq(Events) /\ Len(queue) <= Cap
    /\ flushing \in BOOLEAN
    /\ drain \in [Drains -> {Idle, Timer} \cup Calls]
    /\ attempts \in [Events -> 0..MaxAttempts]
    /\ late \in [Events -> Nat] /\ copies \in [Events -> Nat]
    /\ acked \subseteq Events

Init ==
    /\ running = TRUE /\ emitted = 0
    /\ queue = <<>> /\ flushing = FALSE
    /\ drain = [d \in Drains |-> Idle]
    /\ attempts = [e \in Events |-> 0]
    /\ late = [e \in Events |-> 0] /\ copies = [e \in Events |-> 0]
    /\ acked = {}

\* Array.shift: nothing happens to an empty array.
Shift(q) == IF q = <<>> THEN q ELSE Tail(q)

\* Mutant of Push: the cap is checked after the push, and nothing is dropped.
PushUnbounded(e) == Append(queue, e)

\* The first half of emit: drop-oldest at the cap.
Push(e) == Append(IF Len(queue) >= Cap THEN Shift(queue) ELSE queue, e)

\* Mutant of Flush: the flag is not looked at.
FlushAgain(q) ==
    \E d \in Drains :
        /\ drain[d] = Idle
        /\ flushing' = TRUE
        /\ drain' = [drain EXCEPT ![d] = Call(Head(q))]

\* flush, and drainNext up to its await.
Flush(q) ==
    IF flushing \/ q = <<>> THEN UNCHANGED <<flushing, drain>>
    ELSE \E d \in Drains :
             /\ drain[d] = Idle
             /\ flushing' = TRUE
             /\ drain' = [drain EXCEPT ![d] = Call(Head(q))]

Emit ==
    /\ running /\ emitted < MaxEvents
    /\ emitted' = emitted + 1
    /\ queue' = Push(emitted + 1)
    /\ Flush(queue')
    /\ UNCHANGED <<running, attempts, backend, acked>>

-----------------------------------------------------------------------------
(* drainNext.                                                              *)

\* From the timer to the await, or to the end of the drain.
Fire(d) ==
    /\ drain[d] = Timer
    /\ flushing' = (queue # <<>>)
    /\ drain' = [drain EXCEPT ![d] = IF queue = <<>> THEN Idle ELSE Call(Head(queue))]
    /\ UNCHANGED <<running, emitted, queue, attempts, backend, acked>>

Calling(d) == drain[d].at = "call"

\* Mutant of Succeed: the acknowledged event stays in the queue.
SucceedKeeps(d) ==
    /\ Calling(d) /\ drain[d].landed
    /\ acked' = acked \cup {drain[d].event}
    /\ drain' = [drain EXCEPT ![d] = Timer]
    /\ UNCHANGED <<running, emitted, queue, flushing, attempts, backend>>

\* result.ok: the head of the queue leaves, whichever event it is by now.
Succeed(d) ==
    /\ Calling(d) /\ drain[d].landed
    /\ acked' = acked \cup {drain[d].event}
    /\ queue' = Shift(queue)
    /\ drain' = [drain EXCEPT ![d] = Timer]
    /\ UNCHANGED <<running, emitted, flushing, attempts, backend>>

\* Any other result: not enrolled, timed out, the answer lost, rejected.  A call
\* given up on may be lost or still be under way.
Abandoned(d) ==
    /\ UNCHANGED copies
    /\ \/ UNCHANGED late
       \/ /\ ~drain[d].landed
          /\ late' = [late EXCEPT ![drain[d].event] = @ + 1]

\* Mutant of Retry: the attempt is not counted.
RetryUncounted(d) ==
    /\ Calling(d)
    /\ attempts[drain[d].event] + 1 < MaxAttempts
    /\ Abandoned(d)
    /\ drain' = [drain EXCEPT ![d] = Timer]
    /\ UNCHANGED <<running, emitted, queue, flushing, attempts, acked>>

\* Mutant of Retry: the event leaves on its first failure.
RetryDrops(d) ==
    /\ Calling(d)
    /\ attempts[drain[d].event] + 1 < MaxAttempts
    /\ attempts' = [attempts EXCEPT ![drain[d].event] = @ + 1]
    /\ Abandoned(d)
    /\ queue' = Shift(queue)
    /\ drain' = [drain EXCEPT ![d] = Timer]
    /\ UNCHANGED <<running, emitted, flushing, acked>>

\* Not the last attempt: wait for the backoff.
Retry(d) ==
    /\ Calling(d)
    /\ attempts[drain[d].event] + 1 < MaxAttempts
    /\ attempts' = [attempts EXCEPT ![drain[d].event] = @ + 1]
    /\ Abandoned(d)
    /\ drain' = [drain EXCEPT ![d] = Timer]
    /\ UNCHANGED <<running, emitted, queue, flushing, acked>>

\* The last attempt: the head leaves, as after a success.
GiveUp(d) ==
    /\ Calling(d)
    /\ attempts[drain[d].event] + 1 >= MaxAttempts
    /\ attempts' = [attempts EXCEPT ![drain[d].event] = @ + 1]
    /\ Abandoned(d)
    /\ queue' = Shift(queue)
    /\ drain' = [drain EXCEPT ![d] = Timer]
    /\ UNCHANGED <<running, emitted, flushing, acked>>

-----------------------------------------------------------------------------
(* The backend, and the process.                                           *)

\* fos_event_emit is recorded, while its caller waits ...
Land(d) ==
    /\ Calling(d) /\ ~drain[d].landed
    /\ drain' = [drain EXCEPT ![d].landed = TRUE]
    /\ copies' = [copies EXCEPT ![drain[d].event] = @ + 1]
    /\ UNCHANGED <<running, emitted, queue, flushing, attempts, late, acked>>

\* ... or after it gave up.
LandLate(e) ==
    /\ late[e] > 0
    /\ late' = [late EXCEPT ![e] = @ - 1]
    /\ copies' = [copies EXCEPT ![e] = @ + 1]
    /\ UNCHANGED <<running, emitted, queue, flushing, drain, attempts, acked>>

\* Calls under way when the process ends may still land, in part or not at all.
Orphaned(calling) ==
    \E some \in SUBSET calling :
        late' = [e \in Events |-> IF e \in some THEN late[e] + 1 ELSE late[e]]

UnderWay == {e \in Events : \E d \in Drains : Calling(d) /\ drain[d].event = e
                                                /\ ~drain[d].landed}

Gone ==
    /\ running' = FALSE
    /\ queue' = <<>> /\ flushing' = FALSE
    /\ drain' = [d \in Drains |-> Idle]

Crash ==
    /\ running
    /\ Gone
    /\ Orphaned(UnderWay)
    /\ UNCHANGED <<emitted, attempts, copies, acked>>

\* shutdownSessions emits daemon_shutdown and process.exit(0) follows in the same
\* run: with a drain at work the event is only queued, without one its call is
\* begun.
Shutdown ==
    /\ running /\ emitted < MaxEvents
    /\ emitted' = emitted + 1
    /\ Gone
    /\ Orphaned(UnderWay \cup IF flushing THEN {} ELSE {emitted + 1})
    /\ UNCHANGED <<attempts, copies, acked>>

\* The next life starts with an empty queue.
Boot ==
    /\ ~running
    /\ running' = TRUE
    /\ UNCHANGED <<emitted, queue, flushing, drain, attempts, backend, acked>>

-----------------------------------------------------------------------------
Settle(d) == Succeed(d) \/ Retry(d) \/ GiveUp(d)

Next ==
    \/ Emit \/ Crash \/ Shutdown \/ Boot
    \/ \E d \in Drains : Fire(d) \/ Settle(d) \/ Land(d)
    \/ \E e \in Events : LandLate(e)

Spec == Init /\ [][Next]_vars

\* Timers fire and callMcpTool settles every call within 8 s.
Fairness == \A d \in Drains : WF_vars(Fire(d)) /\ WF_vars(Settle(d))

FairSpec == Spec /\ Fairness

-----------------------------------------------------------------------------
(* Properties.                                                             *)

\* The flag is set exactly while one drain is at work, and a queue with no drain
\* is empty: emit never starts a second drain nor leaves an event to nobody
\* (flush, drainNext, and the exits of drainNext that clear the flag).
OneDrainer ==
    /\ \A c, d \in Drains : drain[c] # Idle /\ drain[d] # Idle => c = d
    /\ flushing <=> \E d \in Drains : drain[d] # Idle
    /\ ~flushing => queue = <<>>

\* The backend records an event at most MAX_ATTEMPTS times, and whatever is taken
\* for delivered is recorded: an abandoned call that lands late costs a
\* duplicate, never a false success (the attempts counter of drainNext).
CopiesBounded ==
    /\ \A e \in Events : copies[e] + late[e] <= MaxAttempts
    /\ \A e \in acked : copies[e] > 0

\* The emitter is a lossy bounded queue: events leave in emission order, none is
\* acknowledged twice or behind a younger one, whatever is dropped at the cap
\* while its call is under way (emit and drainNext together).
Fifo == INSTANCE LossyFifo
        WITH pending <- queue, accepted <- emitted, delivered <- acked
Implements == Fifo!Spec

\* Until the cap has dropped an event, nothing leaves the queue of a daemon that
\* stays up but what was acknowledged or tried MAX_ATTEMPTS times.  (At the cap
\* the event in flight is dropped, and the next one leaves for it unsent.)
NoneSkipped ==
    [][emitted' <= Cap /\ running' =>
          \A i \in DOMAIN queue :
              \/ \E j \in DOMAIN queue' : queue'[j] = queue[i]
              \/ queue[i] \in acked' \/ attempts'[queue[i]] = MaxAttempts]_vars

\* Whatever the backend does, a daemon that stays up empties its queue: no event
\* is retried for ever and no drain stops short of the end of the queue.
Empties == queue # <<>> ~> queue = <<>>
=============================================================================
