------------------------ MODULE LifecycleEmitterProofs ------------------------
(* Proofs about LifecycleEmitter, for any set of drains, any capacity, any *)
(* number of attempts and any bound on the events.                         *)
EXTENDS LifecycleEmitter, TLAPS

-----------------------------------------------------------------------------
(* The queue.  It always holds consecutive events, the youngest last.      *)

Contiguous(q, n) == Len(q) <= n /\ \A i \in 1..Len(q) : q[i] = n - Len(q) + i

\* The event at the head of the queue, or the next one to be emitted.
First == emitted - Len(queue) + 1

\* Array.shift on a sequence of consecutive events.
LEMMA ShiftFacts ==
    ASSUME NEW S, NEW q \in Seq(S), q # <<>>, NEW n \in Nat, Contiguous(q, n)
    PROVE  /\ Shift(q) = Tail(q) /\ Shift(q) \in Seq(S)
           /\ Len(Shift(q)) = Len(q) - 1
           /\ Contiguous(Shift(q), n)
           /\ Head(q) = n - Len(q) + 1
<1>1. Len(q) \in Nat \ {0} /\ Tail(q) \in Seq(S) /\ Len(Tail(q)) = Len(q) - 1
  OBVIOUS
<1>2. \A i \in 1..(Len(q) - 1) : Tail(q)[i] = q[i + 1]
  OBVIOUS
<1>3. Contiguous(Tail(q), n)
  BY <1>1, <1>2 DEF Contiguous
<1>4. Head(q) = q[1]
  OBVIOUS
<1> QED BY <1>1, <1>3, <1>4 DEF Shift, Contiguous

\* The first half of emit: the queue stays within the cap and keeps every event
\* it held below the cap.
LEMMA PushFacts ==
    ASSUME TypeOK, emitted < MaxEvents, Contiguous(queue, emitted)
    PROVE  /\ Push(emitted + 1) \in Seq(Events)
           /\ Push(emitted + 1) # <<>>
           /\ Len(Push(emitted + 1)) =
                 IF Len(queue) >= Cap THEN Len(queue) ELSE Len(queue) + 1
           /\ Len(Push(emitted + 1)) <= Cap
           /\ Contiguous(Push(emitted + 1), emitted + 1)
<1> DEFINE kept == IF Len(queue) >= Cap THEN Shift(queue) ELSE queue
<1>1. emitted \in Nat /\ emitted + 1 \in Events /\ Cap \in Nat \ {0} /\ MaxEvents \in Nat
  BY EmitterAssumption DEF TypeOK, Events
<1>2. queue \in Seq(Events) /\ Len(queue) \in Nat /\ Len(queue) <= Cap
  BY DEF TypeOK
<1>3. /\ kept \in Seq(Events) /\ Contiguous(kept, emitted)
      /\ Len(kept) = IF Len(queue) >= Cap THEN Len(queue) - 1 ELSE Len(queue)
  <2>1. CASE Len(queue) >= Cap
    <3>1. queue # <<>>
      BY <1>1, <1>2, <2>1
    <3> QED BY <1>1, <1>2, <2>1, <3>1, ShiftFacts
  <2>2. CASE ~(Len(queue) >= Cap)
    BY <1>2, <2>2
  <2> QED BY <2>1, <2>2
<1>4. Push(emitted + 1) = Append(kept, emitted + 1)
  BY DEF Push
<1> HIDE DEF kept
<1>5. Append(kept, emitted + 1) \in Seq(Events) /\ Append(kept, emitted + 1) # <<>>
  <2>1. kept \in Seq(Events) /\ emitted + 1 \in Events
    BY <1>1, <1>3
  <2>2. Append(kept, emitted + 1) \in Seq(Events)
    BY <2>1
  <2>3. Len(Append(kept, emitted + 1)) # 0
    BY <2>1
  <2> QED BY <2>2, <2>3
<1>6. /\ Len(kept) \in Nat
      /\ Len(Append(kept, emitted + 1)) = Len(kept) + 1
      /\ \A i \in 1..Len(kept) : Append(kept, emitted + 1)[i] = kept[i]
      /\ Append(kept, emitted + 1)[Len(kept) + 1] = emitted + 1
  <2>1. kept \in Seq(Events)
    BY <1>3
  <2> QED BY <2>1
<1>7. Contiguous(Append(kept, emitted + 1), emitted + 1)
  <2>1. Len(kept) + 1 <= emitted + 1
    BY <1>1, <1>3, <1>6 DEF Contiguous
  <2>2. ASSUME NEW i \in 1..(Len(kept) + 1)
        PROVE  Append(kept, emitted + 1)[i] = (emitted + 1) - (Len(kept) + 1) + i
    <3>1. CASE i = Len(kept) + 1
      BY <1>1, <1>6, <3>1
    <3>2. CASE i # Len(kept) + 1
      <4>1. i \in 1..Len(kept)
        BY <1>6, <3>2
      <4>2. kept[i] = emitted - Len(kept) + i
        BY <1>3, <4>1 DEF Contiguous
      <4> QED BY <1>1, <1>6, <4>1, <4>2
    <3> QED BY <3>1, <3>2
  <2> QED BY <1>6, <2>1, <2>2 DEF Contiguous
<1>8. Len(kept) + 1 = IF Len(queue) >= Cap THEN Len(queue) ELSE Len(queue) + 1
  BY <1>2, <1>3
<1>9. Len(kept) + 1 <= Cap
  BY <1>1, <1>2, <1>3
<1> QED BY <1>4, <1>5, <1>6, <1>7, <1>8, <1>9

-----------------------------------------------------------------------------
(* The inductive invariant.                                                *)

\* What is acknowledged is older than what is in a call, and that is no younger
\* than the head of the queue: it is the head, or was dropped at the cap.
Behind ==
    /\ \A a \in acked : a < First
    /\ \A d \in Drains : Calling(d) =>
           /\ queue # <<>> /\ drain[d].event <= First
           /\ \A a \in acked : a < drain[d].event

\* Every copy of an event, recorded or still under way, was paid for with an
\* attempt, or is the one its present call has recorded.
Budget ==
    /\ \A e \in Events : copies[e] + late[e] <= MaxAttempts
    /\ \A e \in acked : copies[e] > 0
    /\ \A e \in Events : e >= First =>
           /\ attempts[e] < MaxAttempts
           /\ \/ copies[e] + late[e] <= attempts[e]
              \/ \E d \in Drains : Calling(d) /\ drain[d].event = e
    /\ \A d \in Drains : Calling(d) =>
           /\ attempts[drain[d].event] < MaxAttempts
           /\ ~drain[d].landed =>
                  copies[drain[d].event] + late[drain[d].event] <= attempts[drain[d].event]
           /\ drain[d].landed =>
                  /\ copies[drain[d].event] > 0
                  /\ copies[drain[d].event] + late[drain[d].event]
                         <= attempts[drain[d].event] + 1

IInv ==
    /\ TypeOK
    /\ Contiguous(queue, emitted)
    /\ OneDrainer
    /\ Behind
    /\ Budget

-----------------------------------------------------------------------------
(* What the actions do, in the terms of the invariant.                     *)

\* The values a drain can have.
LEMMA DrainValues ==
    ASSUME TypeOK, NEW d \in Drains
    PROVE  /\ Calling(d) <=> drain[d] \in Calls
           /\ Calling(d) => /\ drain[d].event \in Events
                            /\ drain[d].landed \in BOOLEAN
                            /\ drain[d] # Idle /\ drain[d] # Timer
           /\ drain[d] # Idle <=> drain[d] = Timer \/ Calling(d)
<1>1. drain[d] \in {Idle, Timer} \cup Calls
  BY DEF TypeOK
<1> QED BY <1>1 DEF Calling, Idle, Timer, Calls

\* A call begun.
LEMMA CallIs ==
    ASSUME NEW e \in Events
    PROVE  /\ Call(e) \in Calls /\ Call(e) # Idle /\ Call(e) # Timer
           /\ Call(e).at = "call" /\ Call(e).event = e /\ Call(e).landed = FALSE
BY DEF Call, Calls, Idle, Timer

\* Emit: the drain it starts, if any, is the only one and calls the head.
LEMMA EmitFacts ==
    ASSUME IInv, Emit
    PROVE  /\ queue' \in Seq(Events) /\ queue' # <<>> /\ Len(queue') <= Cap
           /\ Contiguous(queue', emitted')
           /\ emitted' \in 0..MaxEvents /\ emitted' \in Events
           /\ First' \in Events /\ First <= First' /\ Head(queue') = First'
           /\ flushing' = TRUE
           /\ \/ flushing /\ UNCHANGED drain
              \/ /\ ~flushing /\ \A d \in Drains : drain[d] = Idle
                 /\ \E d \in Drains : drain' = [drain EXCEPT ![d] = Call(First')]
<1>1. emitted \in Nat /\ MaxEvents \in Nat /\ emitted < MaxEvents /\ Cap \in Nat \ {0}
  BY EmitterAssumption DEF IInv, TypeOK, Emit
<1>2. emitted' = emitted + 1 /\ emitted' \in Events /\ emitted' \in 0..MaxEvents
  BY <1>1 DEF Emit, Events
<1>3. /\ queue' \in Seq(Events) /\ queue' # <<>> /\ Len(queue') <= Cap
      /\ Len(queue') = IF Len(queue) >= Cap THEN Len(queue) ELSE Len(queue) + 1
      /\ Contiguous(queue', emitted')
  BY <1>1, <1>2, PushFacts DEF IInv, Emit
<1>4. Len(queue) \in Nat /\ Len(queue') \in Nat /\ Len(queue') # 0
  BY <1>3 DEF IInv, TypeOK
<1>5. Head(queue') = queue'[1]
  BY <1>3
<1>6. /\ First' = emitted' - Len(queue') + 1
      /\ First' \in Events /\ First <= First' /\ Head(queue') = First'
  <2>1. First' = emitted' - Len(queue') + 1
    BY DEF First
  <2>2. Len(queue') <= emitted' /\ queue'[1] = emitted' - Len(queue') + 1
    BY <1>3, <1>4 DEF Contiguous
  <2>3. Len(queue) <= emitted
    BY DEF IInv, Contiguous
  <2>4. First = emitted - Len(queue) + 1
    BY DEF First
  <2>5. Len(queue') <= Len(queue) + 1
    BY <1>3, <1>4
  <2>6. First' \in 1..emitted' /\ First <= First'
    BY <1>1, <1>2, <1>4, <2>1, <2>2, <2>3, <2>4, <2>5
  <2>7. First' \in Events
    BY <1>1, <1>2, <2>6 DEF Events
  <2>8. Head(queue') = First'
    BY <1>5, <2>1, <2>2
  <2> QED BY <2>1, <2>6, <2>7, <2>8
<1>7. flushing \in BOOLEAN /\ (flushing <=> \E d \in Drains : drain[d] # Idle)
  BY DEF IInv, TypeOK, OneDrainer
<1>8. CASE flushing
  BY <1>2, <1>3, <1>6, <1>7, <1>8 DEF Emit, Flush
<1>9. CASE ~flushing
  <2>1. Flush(queue')
    BY DEF Emit
  <2>2. PICK d \in Drains : /\ flushing' = TRUE
                            /\ drain' = [drain EXCEPT ![d] = Call(Head(queue'))]
    BY <1>3, <1>9, <2>1 DEF Flush
  <2>3. drain' = [drain EXCEPT ![d] = Call(First')]
    BY <1>6, <2>2
  <2>4. \A c \in Drains : drain[c] = Idle
    BY <1>7, <1>9
  <2> QED BY <1>2, <1>3, <1>6, <1>9, <2>2, <2>3, <2>4
<1> QED BY <1>7, <1>8, <1>9

\* The orphans of a process that ends: one more late call each, at most.
LEMMA OrphanFacts ==
    ASSUME TypeOK, NEW S \in SUBSET Events, Orphaned(S)
    PROVE  /\ late' \in [Events -> Nat]
           /\ \A e \in Events : \/ late'[e] = late[e]
                                \/ e \in S /\ late'[e] = late[e] + 1
<1>1. PICK some \in SUBSET S :
         late' = [e \in Events |-> IF e \in some THEN late[e] + 1 ELSE late[e]]
  BY DEF Orphaned
<1>2. late \in [Events -> Nat]
  BY DEF TypeOK
<1> QED BY <1>1, <1>2

\* A call given up on: one more late call of its event, at most.
LEMMA AbandonFacts ==
    ASSUME TypeOK, NEW d \in Drains, Calling(d), Abandoned(d)
    PROVE  /\ late' \in [Events -> Nat] /\ copies' = copies
           /\ \A e \in Events :
                 \/ late'[e] = late[e]
                 \/ e = drain[d].event /\ ~drain[d].landed /\ late'[e] = late[e] + 1
<1>1. drain[d].event \in Events
  BY DrainValues
<1>2. late \in [Events -> Nat]
  BY DEF TypeOK
<1> QED BY <1>1, <1>2 DEF Abandoned

\* The head leaves.
LEMMA LeaveFacts ==
    ASSUME IInv, queue # <<>>, queue' = Shift(queue), emitted' = emitted
    PROVE  /\ queue' \in Seq(Events) /\ Len(queue') <= Cap
           /\ Contiguous(queue', emitted') /\ First' = First + 1
           /\ queue' = Tail(queue) /\ Head(queue) = First
<1>1. /\ queue \in Seq(Events) /\ Len(queue) \in Nat /\ Len(queue) <= Cap
      /\ emitted \in Nat /\ Contiguous(queue, emitted) /\ Cap \in Nat
  BY EmitterAssumption DEF IInv, TypeOK
<1>2. /\ queue' = Tail(queue) /\ queue' \in Seq(Events)
      /\ Len(queue') = Len(queue) - 1 /\ Contiguous(queue', emitted)
      /\ Head(queue) = emitted - Len(queue) + 1
  BY <1>1, ShiftFacts
<1> QED BY <1>1, <1>2 DEF First

\* With one drain in a call, nothing else is at work.
LEMMA Sole ==
    ASSUME IInv, NEW d \in Drains, drain[d] # Idle
    PROVE  flushing /\ \A c \in Drains : c # d => drain[c] = Idle
BY DEF IInv, OneDrainer

\* First is a number.
LEMMA FirstNat ==
    ASSUME IInv
    PROVE  First \in Nat \ {0} /\ First <= emitted + 1 /\ (queue # <<>> => First <= emitted)
<1>1. /\ queue \in Seq(Events) /\ Len(queue) \in Nat /\ emitted \in Nat
      /\ Len(queue) <= emitted
  BY EmitterAssumption DEF IInv, TypeOK, Contiguous
<1> QED BY <1>1 DEF First

\* Emit.
LEMMA EmitInv == ASSUME IInv, Emit PROVE IInv'
<1>1. /\ queue' \in Seq(Events) /\ queue' # <<>> /\ Len(queue') <= Cap
      /\ Contiguous(queue', emitted')
      /\ emitted' \in 0..MaxEvents /\ First' \in Events /\ First <= First'
      /\ flushing' = TRUE
      /\ \/ flushing /\ UNCHANGED drain
         \/ /\ ~flushing /\ \A d \in Drains : drain[d] = Idle
            /\ \E d \in Drains : drain' = [drain EXCEPT ![d] = Call(First')]
  BY EmitFacts
<1>2. UNCHANGED <<running, attempts, late, copies, acked>>
  BY DEF Emit, backend
<1>3. First \in Nat /\ First' \in Nat
  BY <1>1, FirstNat DEF Events
<1>4. TypeOK /\ drain \in [Drains -> {Idle, Timer} \cup Calls] /\ acked \subseteq Nat
  BY DEF IInv, TypeOK, Events
<1>5. CASE flushing /\ UNCHANGED drain
  <2>1. TypeOK'
    BY <1>1, <1>2, <1>5 DEF IInv, TypeOK
  <2>2. OneDrainer'
    BY <1>1, <1>5 DEF IInv, OneDrainer
  <2>3. Behind'
    <3>1. \A a \in acked' : a < First'
      BY <1>1, <1>2, <1>3, <1>4 DEF IInv, Behind
    <3>2. ASSUME NEW d \in Drains, Calling(d)'
          PROVE  /\ queue' # <<>> /\ drain'[d].event <= First'
                 /\ \A a \in acked' : a < drain'[d].event
      <4>1. Calling(d) /\ drain'[d] = drain[d] /\ drain[d].event \in Nat
        BY <1>4, <1>5, <3>2, DrainValues DEF Calling, Events
      <4> QED BY <1>1, <1>2, <1>3, <4>1 DEF IInv, Behind
    <3> QED BY <3>1, <3>2 DEF Behind
  <2>4. Budget'
    <3>1. \A e \in Events : e >= First' => e >= First
      BY <1>1, <1>3 DEF Events
    <3> QED BY <1>2, <1>5, <3>1 DEF IInv, Budget, Calling
  <2> QED BY <1>1, <2>1, <2>2, <2>3, <2>4 DEF IInv
<1>6. CASE /\ ~flushing /\ \A d \in Drains : drain[d] = Idle
           /\ \E d \in Drains : drain' = [drain EXCEPT ![d] = Call(First')]
  <2>1. PICK d \in Drains : drain' = [drain EXCEPT ![d] = Call(First')]
    BY <1>6
  <2>2. /\ drain'[d] = Call(First') /\ \A c \in Drains : c # d => drain'[c] = Idle
        /\ drain' \in [Drains -> {Idle, Timer} \cup Calls]
    BY <1>1, <1>4, <1>6, <2>1, CallIs
  <2>3. /\ drain'[d].event = First' /\ drain'[d].landed = FALSE /\ drain'[d] # Idle
        /\ \A c \in Drains : Calling(c)' => c = d
    <3>1. Idle.at # "call"
      BY DEF Idle
    <3> QED BY <1>1, <2>2, <3>1, CallIs DEF Calling
  <2>4. \A c \in Drains : ~Calling(c)
    BY <1>6 DEF Calling, Idle
  <2>5. TypeOK'
    BY <1>1, <1>2, <2>2 DEF IInv, TypeOK
  <2>6. OneDrainer'
    BY <1>1, <2>2, <2>3 DEF OneDrainer
  <2>7. Behind'
    <3>1. \A a \in acked' : a < First'
      BY <1>1, <1>2, <1>3, <1>4 DEF IInv, Behind
    <3> QED BY <1>1, <1>3, <2>3, <3>1 DEF Behind
  <2>8. Budget'
    <3>1. \A e \in Events : e >= First' => e >= First
      BY <1>1, <1>3 DEF Events
    <3>2. \A e \in Events : e >= First => attempts[e] < MaxAttempts
                                          /\ copies[e] + late[e] <= attempts[e]
      BY <2>4 DEF IInv, Budget
    <3>3. First' >= First' /\ First' \in Events
      BY <1>1, <1>3
    <3> QED BY <1>2, <2>3, <3>1, <3>2, <3>3 DEF IInv, Budget
  <2> QED BY <1>1, <2>5, <2>6, <2>7, <2>8 DEF IInv
<1> QED BY <1>1, <1>5, <1>6

\* The drain at work moves on; the others stay idle.
LEMMA Moved ==
    ASSUME IInv, NEW d \in Drains, drain[d] # Idle,
           NEW v \in {Idle, Timer} \cup Calls, drain' = [drain EXCEPT ![d] = v]
    PROVE  /\ drain' \in [Drains -> {Idle, Timer} \cup Calls] /\ drain'[d] = v
           /\ \A c \in Drains : c # d => drain'[c] = Idle
           /\ \A c \in Drains : Calling(c)' => c = d /\ v \in Calls
           /\ \A c \in Drains : Calling(c) => c = d
<1>1. drain \in [Drains -> {Idle, Timer} \cup Calls]
  BY DEF IInv, TypeOK
<1>2. /\ drain' \in [Drains -> {Idle, Timer} \cup Calls] /\ drain'[d] = v
      /\ \A c \in Drains : c # d => drain'[c] = Idle /\ drain[c] = Idle
  BY <1>1, Sole
<1>3. Idle.at # "call" /\ Timer.at # "call"
  BY DEF Idle, Timer
<1> QED BY <1>2, <1>3 DEF Calling

\* What the settling actions and Fire share: once nothing is in a call, an
\* invariant about calls is void.
LEMMA NobodyCalls ==
    ASSUME IInv, NEW d \in Drains, drain[d] # Idle,
           NEW v \in {Idle, Timer}, drain' = [drain EXCEPT ![d] = v]
    PROVE  /\ drain' \in [Drains -> {Idle, Timer} \cup Calls] /\ drain'[d] = v
           /\ \A c \in Drains : ~Calling(c)'
           /\ \A c \in Drains : c # d => drain'[c] = Idle
<1>1. v \in {Idle, Timer} \cup Calls /\ v \notin Calls
  BY DEF Idle, Timer, Calls
<1> QED BY <1>1, Moved

\* Fire.
LEMMA FireInv == ASSUME IInv, NEW d \in Drains, Fire(d) PROVE IInv'
<1>1. /\ drain[d] = Timer /\ drain[d] # Idle /\ flushing' = (queue # <<>>)
      /\ UNCHANGED <<running, emitted, queue, attempts, late, copies, acked>>
  BY DEF Fire, backend, Timer, Idle
<1>2. First' = First /\ First \in Nat \ {0} /\ First <= emitted + 1 /\ (queue # <<>> => First <= emitted)
  BY <1>1, FirstNat DEF First
<1>3. TypeOK /\ emitted \in 0..MaxEvents /\ MaxEvents \in Nat
  BY EmitterAssumption DEF IInv, TypeOK
<1>4. CASE queue = <<>>
  <2>1. drain' = [drain EXCEPT ![d] = Idle]
    BY <1>4 DEF Fire
  <2>2. /\ drain' \in [Drains -> {Idle, Timer} \cup Calls]
        /\ \A c \in Drains : drain'[c] = Idle /\ ~Calling(c)'
    BY <1>1, <2>1, NobodyCalls
  <2>3. TypeOK'
    BY <1>1, <2>2 DEF TypeOK, IInv
  <2>4. OneDrainer'
    BY <1>1, <1>4, <2>2 DEF OneDrainer
  <2>5. Behind'
    BY <1>1, <1>2, <2>2 DEF IInv, Behind
  <2>6. \A c \in Drains : ~Calling(c)
    BY <1>1, Sole DEF Calling, Idle, Timer
  <2>7. Budget'
    BY <1>1, <1>2, <2>2, <2>6 DEF IInv, Budget
  <2> QED BY <1>1, <2>3, <2>4, <2>5, <2>7 DEF IInv
<1>5. CASE queue # <<>>
  <2>1. Head(queue) = First /\ First \in Events
    <3>1. Head(queue) = First
      <4>1. queue \in Seq(Events) /\ emitted \in Nat /\ Contiguous(queue, emitted)
        BY <1>3 DEF IInv, TypeOK
      <4>2. Head(queue) = emitted - Len(queue) + 1
        BY <1>5, <4>1, ShiftFacts
      <4> QED BY <4>2 DEF First
    <3> QED BY <1>2, <1>3, <1>5, <3>1 DEF Events
  <2>2. drain' = [drain EXCEPT ![d] = Call(First)]
    BY <1>5, <2>1 DEF Fire
  <2>3. /\ drain' \in [Drains -> {Idle, Timer} \cup Calls] /\ drain'[d] = Call(First)
        /\ \A c \in Drains : c # d => drain'[c] = Idle
        /\ \A c \in Drains : Calling(c)' => c = d
    BY <1>1, <2>1, <2>2, CallIs, Moved
  <2>4. drain'[d].event = First /\ drain'[d].landed = FALSE /\ drain'[d] # Idle
    BY <2>1, <2>3, CallIs
  <2>5. \A c \in Drains : ~Calling(c)
    BY <1>1, Sole DEF Calling, Idle, Timer
  <2>6. TypeOK'
    BY <1>1, <2>3 DEF IInv, TypeOK
  <2>7. OneDrainer'
    BY <1>1, <1>5, <2>3, <2>4 DEF OneDrainer
  <2>8. Behind'
    BY <1>1, <1>2, <1>5, <2>3, <2>4 DEF IInv, Behind
  <2>9. Budget'
    <3>1. First >= First
      BY <1>2
    <3> QED BY <1>1, <1>2, <2>1, <2>3, <2>4, <2>5, <3>1 DEF IInv, Budget
  <2> QED BY <1>1, <2>6, <2>7, <2>8, <2>9 DEF IInv
<1> QED BY <1>4, <1>5

\* Succeed.
LEMMA SucceedInv == ASSUME IInv, NEW d \in Drains, Succeed(d) PROVE IInv'
<1> DEFINE e == drain[d].event
<1>1. /\ Calling(d) /\ drain[d].landed /\ e \in Events /\ drain[d] # Idle
      /\ queue # <<>> /\ e <= First /\ \A a \in acked : a < e
  BY DrainValues DEF Succeed, IInv, Behind
<1>2. /\ acked' = acked \cup {e} /\ drain' = [drain EXCEPT ![d] = Timer]
      /\ UNCHANGED <<running, emitted, flushing, attempts, late, copies>>
      /\ queue' = Shift(queue)
  BY DEF Succeed, backend
<1>3. /\ queue' \in Seq(Events) /\ Len(queue') <= Cap
      /\ Contiguous(queue', emitted') /\ First' = First + 1
  BY <1>1, <1>2, LeaveFacts
<1>4. /\ drain' \in [Drains -> {Idle, Timer} \cup Calls] /\ drain'[d] = Timer
      /\ \A c \in Drains : ~Calling(c)'
      /\ \A c \in Drains : c # d => drain'[c] = Idle
  BY <1>1, <1>2, NobodyCalls
<1>5. First \in Nat /\ e \in Nat /\ acked \subseteq Events /\ Events \subseteq Nat
  BY <1>1, FirstNat DEF IInv, TypeOK, Events
<1>6. TypeOK'
  BY <1>1, <1>2, <1>3, <1>4 DEF IInv, TypeOK
<1>7. OneDrainer'
  BY <1>1, <1>2, <1>4, Sole DEF OneDrainer, Timer, Idle
<1>8. Behind'
  <2>1. \A a \in acked' : a < First + 1
    BY <1>1, <1>2, <1>5 DEF IInv, Behind
  <2> QED BY <1>3, <1>4, <2>1 DEF Behind
<1>9. Budget'
  <2>1. \A x \in acked' : copies'[x] > 0
    BY <1>1, <1>2 DEF IInv, Budget
  <2>2. \A x \in Events : x >= First' => x >= First /\ x # e
    BY <1>1, <1>3, <1>5
  <2>3. \A c \in Drains : Calling(c) => c = d
    BY <1>1, Sole DEF Calling, Idle
  <2> QED BY <1>2, <1>4, <2>1, <2>2, <2>3 DEF IInv, Budget
<1> QED BY <1>3, <1>6, <1>7, <1>8, <1>9 DEF IInv

\* What Retry and GiveUp share: the attempt pays for the copy it may have left.
LEMMA FailFacts ==
    ASSUME IInv, NEW d \in Drains, Calling(d), Abandoned(d),
           attempts' = [attempts EXCEPT ![drain[d].event] = @ + 1]
    PROVE  /\ attempts' \in [Events -> 0..MaxAttempts] /\ late' \in [Events -> Nat]
           /\ copies' = copies
           /\ \A x \in Events : copies'[x] + late'[x] <= MaxAttempts
           /\ \A x \in Events :
                 x >= First /\ x # drain[d].event =>
                     attempts'[x] < MaxAttempts /\ copies'[x] + late'[x] <= attempts'[x]
           /\ copies'[drain[d].event] + late'[drain[d].event] <= attempts'[drain[d].event]
           /\ attempts'[drain[d].event] = attempts[drain[d].event] + 1
<1> DEFINE e == drain[d].event
<1>1. e \in Events /\ drain[d].landed \in BOOLEAN /\ drain[d] # Idle
  BY DrainValues DEF IInv
<1>2. /\ attempts \in [Events -> 0..MaxAttempts] /\ MaxAttempts \in Nat
      /\ late \in [Events -> Nat] /\ copies \in [Events -> Nat]
  BY EmitterAssumption DEF IInv, TypeOK
<1>3. /\ late' \in [Events -> Nat] /\ copies' = copies
      /\ \A x \in Events : \/ late'[x] = late[x]
                           \/ x = e /\ ~drain[d].landed /\ late'[x] = late[x] + 1
  BY AbandonFacts DEF IInv
<1>4. /\ attempts[e] < MaxAttempts
      /\ ~drain[d].landed => copies[e] + late[e] <= attempts[e]
      /\ drain[d].landed => copies[e] + late[e] <= attempts[e] + 1
  BY DEF IInv, Budget
<1>5. \A c \in Drains : Calling(c) => c = d
  BY <1>1, Sole DEF Calling, Idle
<1>6. /\ attempts' \in [Events -> 0..MaxAttempts] /\ attempts'[e] = attempts[e] + 1
      /\ \A x \in Events : x # e => attempts'[x] = attempts[x]
  BY <1>1, <1>2, <1>4
<1>7. copies'[e] + late'[e] <= attempts'[e]
  BY <1>1, <1>2, <1>3, <1>4, <1>6
<1>8. ASSUME NEW x \in Events, x # e
      PROVE  /\ copies'[x] + late'[x] <= MaxAttempts
             /\ x >= First => /\ attempts'[x] < MaxAttempts
                              /\ copies'[x] + late'[x] <= attempts'[x]
  <2>1. copies'[x] + late'[x] = copies[x] + late[x] /\ attempts'[x] = attempts[x]
    BY <1>3, <1>6, <1>8
  <2> QED BY <1>1, <1>5, <1>8, <2>1 DEF IInv, Budget
<1>9. copies'[e] + late'[e] <= MaxAttempts
  BY <1>1, <1>2, <1>3, <1>6, <1>7
<1> QED BY <1>3, <1>6, <1>7, <1>8, <1>9

\* Retry.
LEMMA RetryInv == ASSUME IInv, NEW d \in Drains, Retry(d) PROVE IInv'
<1> DEFINE e == drain[d].event
<1>1. /\ Calling(d) /\ e \in Events /\ drain[d] # Idle
  BY DrainValues DEF Retry, IInv
<1>2. /\ drain' = [drain EXCEPT ![d] = Timer] /\ Abandoned(d)
      /\ attempts' = [attempts EXCEPT ![e] = @ + 1] /\ attempts[e] + 1 < MaxAttempts
      /\ UNCHANGED <<running, emitted, queue, flushing, acked>>
  BY DEF Retry
<1>3. /\ attempts' \in [Events -> 0..MaxAttempts] /\ late' \in [Events -> Nat]
      /\ copies' = copies
      /\ \A x \in Events : copies'[x] + late'[x] <= MaxAttempts
      /\ \A x \in Events :
            x >= First /\ x # e =>
                attempts'[x] < MaxAttempts /\ copies'[x] + late'[x] <= attempts'[x]
      /\ copies'[e] + late'[e] <= attempts'[e] /\ attempts'[e] = attempts[e] + 1
  BY <1>1, <1>2, FailFacts
<1>4. /\ drain' \in [Drains -> {Idle, Timer} \cup Calls] /\ drain'[d] = Timer
      /\ \A c \in Drains : ~Calling(c)'
      /\ \A c \in Drains : c # d => drain'[c] = Idle
  BY <1>1, <1>2, NobodyCalls
<1>5. First' = First
  BY <1>2 DEF First
<1>6. TypeOK'
  BY <1>2, <1>3, <1>4 DEF IInv, TypeOK
<1>7. OneDrainer'
  BY <1>1, <1>2, <1>4, Sole DEF OneDrainer, Timer, Idle
<1>8. Behind'
  BY <1>2, <1>4, <1>5 DEF IInv, Behind
<1>9. Budget'
  <2>1. \A x \in Events : x >= First' =>
           attempts'[x] < MaxAttempts /\ copies'[x] + late'[x] <= attempts'[x]
    BY <1>2, <1>3, <1>5
  <2> QED BY <1>2, <1>3, <1>4, <2>1 DEF IInv, Budget
<1> QED BY <1>2, <1>6, <1>7, <1>8, <1>9 DEF IInv

\* GiveUp.
LEMMA GiveUpInv == ASSUME IInv, NEW d \in Drains, GiveUp(d) PROVE IInv'
<1> DEFINE e == drain[d].event
<1>1. /\ Calling(d) /\ e \in Events /\ drain[d] # Idle /\ queue # <<>> /\ e <= First
  BY DrainValues DEF GiveUp, IInv, Behind
<1>2. /\ drain' = [drain EXCEPT ![d] = Timer] /\ Abandoned(d)
      /\ attempts' = [attempts EXCEPT ![e] = @ + 1] /\ queue' = Shift(queue)
      /\ UNCHANGED <<running, emitted, flushing, acked>>
  BY DEF GiveUp
<1>3. /\ attempts' \in [Events -> 0..MaxAttempts] /\ late' \in [Events -> Nat]
      /\ copies' = copies
      /\ \A x \in Events : copies'[x] + late'[x] <= MaxAttempts
      /\ \A x \in Events :
            x >= First /\ x # e =>
                attempts'[x] < MaxAttempts /\ copies'[x] + late'[x] <= attempts'[x]
  BY <1>1, <1>2, FailFacts
<1>4. /\ drain' \in [Drains -> {Idle, Timer} \cup Calls] /\ drain'[d] = Timer
      /\ \A c \in Drains : ~Calling(c)'
      /\ \A c \in Drains : c # d => drain'[c] = Idle
  BY <1>1, <1>2, NobodyCalls
<1>5. /\ queue' \in Seq(Events) /\ Len(queue') <= Cap
      /\ Contiguous(queue', emitted') /\ First' = First + 1
  BY <1>1, <1>2, LeaveFacts
<1>6. First \in Nat /\ e \in Nat /\ Events \subseteq Nat /\ acked \subseteq Events
  BY <1>1, FirstNat DEF IInv, TypeOK, Events
<1>7. TypeOK'
  BY <1>2, <1>3, <1>4, <1>5 DEF IInv, TypeOK
<1>8. OneDrainer'
  BY <1>1, <1>2, <1>4, Sole DEF OneDrainer, Timer, Idle
<1>9. Behind'
  <2>1. \A a \in acked : a < First + 1
    BY <1>6 DEF IInv, Behind
  <2> QED BY <1>2, <1>4, <1>5, <2>1 DEF Behind
<1>10. Budget'
  <2>1. ASSUME NEW x \in Events, x >= First' PROVE x >= First /\ x # e
    <3>1. x \in Nat /\ x >= First + 1 /\ e <= First
      BY <1>1, <1>5, <1>6, <2>1
    <3> HIDE DEF e
    <3> QED BY <3>1, <1>6
  <2>2. \A x \in Events : x >= First' =>
           attempts'[x] < MaxAttempts /\ copies'[x] + late'[x] <= attempts'[x]
    BY <1>3, <2>1
  <2> QED BY <1>2, <1>3, <1>4, <2>2 DEF IInv, Budget
<1> QED BY <1>5, <1>7, <1>8, <1>9, <1>10 DEF IInv

\* Land.
LEMMA LandInv == ASSUME IInv, NEW d \in Drains, Land(d) PROVE IInv'
<1> DEFINE e == drain[d].event
           v == [drain[d] EXCEPT !.landed = TRUE]
<1>1. Calling(d) /\ ~drain[d].landed /\ e \in Events /\ drain[d] \in Calls /\ drain[d] # Idle
  BY DrainValues DEF Land, IInv
<1>2. /\ drain' = [drain EXCEPT ![d] = v]
      /\ copies' = [copies EXCEPT ![e] = @ + 1]
      /\ UNCHANGED <<running, emitted, queue, flushing, attempts, late, acked>>
  BY DEF Land
<1>3. v \in Calls /\ v.event = e /\ v.landed = TRUE /\ v # Idle
  BY <1>1 DEF Calls, Idle
<1>4. /\ drain' \in [Drains -> {Idle, Timer} \cup Calls] /\ drain'[d] = v
      /\ \A c \in Drains : c # d => drain'[c] = Idle
      /\ \A c \in Drains : Calling(c)' => c = d
      /\ \A c \in Drains : Calling(c) => c = d
  <2> HIDE DEF v
  <2> QED BY <1>1, <1>2, <1>3, Moved
<1>5. /\ copies \in [Events -> Nat] /\ late \in [Events -> Nat]
      /\ attempts \in [Events -> 0..MaxAttempts] /\ MaxAttempts \in Nat
      /\ acked \subseteq Events
  BY EmitterAssumption DEF IInv, TypeOK
<1>6. /\ copies' \in [Events -> Nat] /\ copies'[e] = copies[e] + 1
      /\ \A x \in Events : x # e => copies'[x] = copies[x]
  BY <1>1, <1>2, <1>5
<1>7. First' = First
  BY <1>2 DEF First
<1>8. TypeOK'
  BY <1>2, <1>4, <1>6 DEF IInv, TypeOK
<1> HIDE DEF v
<1>9. OneDrainer'
  BY <1>1, <1>2, <1>3, <1>4, Sole DEF OneDrainer
<1>10. Behind'
  BY <1>1, <1>2, <1>3, <1>4, <1>7 DEF IInv, Behind
<1>11. Budget'
  <2>1. attempts[e] < MaxAttempts /\ copies[e] + late[e] <= attempts[e]
    BY <1>1 DEF IInv, Budget
  <2>2. /\ copies'[e] + late'[e] <= attempts'[e] + 1 /\ copies'[e] > 0
        /\ copies'[e] + late'[e] <= MaxAttempts
    BY <1>1, <1>2, <1>5, <1>6, <2>1
  <2>3. \A x \in Events : copies'[x] + late'[x] <= MaxAttempts
    BY <1>2, <1>6, <2>2 DEF IInv, Budget
  <2>4. \A x \in acked' : copies'[x] > 0
    BY <1>2, <1>5, <1>6, <2>2 DEF IInv, Budget
  <2>5. Calling(d)' /\ drain'[d].event = e /\ drain'[d].landed
    BY <1>3, <1>4 DEF Calling, Calls
  <2>6. ASSUME NEW x \in Events, x >= First'
        PROVE  /\ attempts'[x] < MaxAttempts
               /\ \/ copies'[x] + late'[x] <= attempts'[x]
                  \/ \E c \in Drains : Calling(c)' /\ drain'[c].event = x
    <3>1. CASE x = e
      BY <1>2, <2>1, <2>5, <3>1
    <3>2. CASE x # e
      BY <1>2, <1>4, <1>6, <1>7, <2>6, <3>2 DEF IInv, Budget
    <3> QED BY <3>1, <3>2
  <2>7. ASSUME NEW c \in Drains, Calling(c)'
        PROVE  /\ attempts'[drain'[c].event] < MaxAttempts
               /\ drain'[c].landed
               /\ copies'[drain'[c].event] > 0
               /\ copies'[drain'[c].event] + late'[drain'[c].event]
                      <= attempts'[drain'[c].event] + 1
    BY <1>2, <1>4, <2>1, <2>2, <2>5, <2>7
  <2> QED BY <2>3, <2>4, <2>6, <2>7 DEF Budget
<1> QED BY <1>2, <1>8, <1>9, <1>10, <1>11 DEF IInv

\* LandLate: the copy was counted when its call was given up.
LEMMA LandLateInv == ASSUME IInv, NEW e \in Events, LandLate(e) PROVE IInv'
<1>1. /\ late[e] > 0 /\ late' = [late EXCEPT ![e] = @ - 1]
      /\ copies' = [copies EXCEPT ![e] = @ + 1]
      /\ UNCHANGED <<running, emitted, queue, flushing, drain, attempts, acked>>
  BY DEF LandLate
<1>2. copies \in [Events -> Nat] /\ late \in [Events -> Nat]
  BY DEF IInv, TypeOK
<1>3. /\ late' \in [Events -> Nat] /\ copies' \in [Events -> Nat]
      /\ \A x \in Events : /\ copies'[x] + late'[x] = copies[x] + late[x]
                           /\ copies'[x] >= copies[x]
  BY <1>1, <1>2
<1>4. First' = First
  BY <1>1 DEF First
<1>5. TypeOK'
  BY <1>1, <1>3 DEF IInv, TypeOK
<1>6. OneDrainer' /\ Behind'
  BY <1>1, <1>4 DEF IInv, OneDrainer, Behind, Calling
<1>7. Budget'
  <2>1. \A x \in Events : copies[x] > 0 => copies'[x] > 0
    BY <1>2, <1>3
  <2>2. \A d \in Drains : Calling(d) => drain[d].event \in Events
    BY DrainValues DEF IInv
  <2>3. acked \subseteq Events
    BY DEF IInv, TypeOK
  <2> QED BY <1>1, <1>3, <1>4, <2>1, <2>2, <2>3 DEF IInv, Budget, Calling
<1> QED BY <1>1, <1>5, <1>6, <1>7 DEF IInv

\* Arithmetic of the numbers the lives of the daemon count.
LEMMA Beyond ==
    ASSUME NEW i \in Nat, NEW m \in Nat, NEW n \in Nat, m >= n
    PROVE  /\ i >= m + 1 => i >= n + 1 /\ ~(i <= n) /\ ~(i = n + 1 /\ m = n + 1)
           /\ i <= n => i < m + 1
OBVIOUS

\* The process ends, on a last event or not, and the calls of S are orphaned.
Ends(S) ==
    /\ Gone /\ Orphaned(S)
    /\ emitted' = emitted \/ emitted' = emitted + 1
    /\ emitted' <= MaxEvents
    /\ attempts' = attempts /\ copies' = copies /\ acked' = acked
    /\ \A x \in S : x \in UnderWay \/ (x = emitted + 1 /\ emitted' = emitted + 1)

\* A call under way was not recorded, so the orphan it may leave is within its
\* event's attempts.
LEMMA EndInv == ASSUME IInv, NEW S \in SUBSET Events, Ends(S) PROVE IInv'
<1>0. /\ Gone /\ Orphaned(S) /\ emitted' <= MaxEvents
      /\ attempts' = attempts /\ copies' = copies /\ acked' = acked
  BY DEF Ends
<1>51. TypeOK
  BY DEF IInv
<1>52. MaxEvents \in Nat /\ MaxAttempts \in Nat /\ Cap \in Nat
  BY EmitterAssumption
<1>53. Events \subseteq Nat
  BY DEF Events
<1>54. emitted \in Nat
  BY <1>51, <1>52 DEF TypeOK
<1>55. /\ attempts \in [Events -> 0..MaxAttempts] /\ acked \subseteq Events
       /\ copies \in [Events -> Nat] /\ late \in [Events -> Nat]
  BY <1>51 DEF TypeOK
<1>1. /\ emitted \in Nat /\ MaxEvents \in Nat /\ MaxAttempts \in Nat /\ Cap \in Nat
      /\ attempts \in [Events -> 0..MaxAttempts] /\ acked \subseteq Events
      /\ copies \in [Events -> Nat] /\ late \in [Events -> Nat]
      /\ Events \subseteq Nat
  BY <1>52, <1>53, <1>54, <1>55
<1>2. /\ late' \in [Events -> Nat]
      /\ \A e \in Events : \/ late'[e] = late[e]
                           \/ e \in S /\ late'[e] = late[e] + 1
  BY <1>0, OrphanFacts DEF IInv
<1>3. /\ running' = FALSE /\ queue' = <<>> /\ flushing' = FALSE
      /\ drain' = [d \in Drains |-> Idle]
  BY <1>0 DEF Gone
<1>4. /\ emitted' \in 0..MaxEvents /\ emitted' >= emitted
      /\ Len(queue') = 0 /\ queue' \in Seq(Events) /\ First' = emitted' + 1
  <2>1. emitted' \in 0..MaxEvents /\ emitted' >= emitted
    BY <1>1 DEF Ends
  <2>2. Len(queue') = 0 /\ queue' \in Seq(Events)
    BY <1>3
  <2> QED BY <2>1, <2>2 DEF First
<1>5. First \in Nat /\ First <= emitted + 1 /\ (queue # <<>> => First <= emitted)
  BY FirstNat
<1>50. /\ emitted \in Nat /\ emitted' \in Nat /\ emitted' >= emitted
      /\ First \in Nat /\ First <= emitted + 1
      /\ First' = emitted' + 1 /\ Events \subseteq Nat /\ acked \subseteq Events
  BY <1>1, <1>4, <1>5
<1>6. \A d \in Drains : ~Calling(d)'
  BY <1>3 DEF Calling, Idle
<1>7. TypeOK'
  <2>1. Len(queue') <= Cap
    BY <1>52, <1>4
  <2>3. running' \in BOOLEAN /\ flushing' \in BOOLEAN
    BY <1>3
  <2>2. drain' \in [Drains -> {Idle, Timer} \cup Calls]
    BY <1>3
  <2> QED BY <1>0, <1>1, <1>2, <1>4, <2>1, <2>2, <2>3 DEF TypeOK
<1>8. Contiguous(queue', emitted')
  BY <1>1, <1>4 DEF Contiguous
<1>9. OneDrainer'
  BY <1>3 DEF OneDrainer
<1>10. Behind'
  <2>1. \A a \in acked : a < emitted' + 1
    <3>1. \A a \in acked : a \in Nat /\ a <= emitted
      <4>1. \A a \in acked : a \in Nat /\ a < First
        BY <1>1 DEF IInv, Behind
      <4> QED BY <1>5, <1>54, <4>1
    <3>2. emitted' \in Nat /\ emitted' >= emitted
      BY <1>1, <1>4
    <3> QED BY <1>54, <3>1, <3>2, Beyond, Zenon
  <2> QED BY <1>0, <1>4, <1>6, <2>1 DEF Behind
<1>11. Budget'
  <2>1. \A e \in UnderWay :
           /\ e \in Events /\ e <= emitted
           /\ copies[e] + late[e] <= attempts[e] /\ attempts[e] < MaxAttempts
    <3>1. ASSUME NEW e \in UnderWay
          PROVE  /\ e \in Events /\ e <= emitted
                 /\ copies[e] + late[e] <= attempts[e] /\ attempts[e] < MaxAttempts
      <4>1. PICK d \in Drains : Calling(d) /\ drain[d].event = e /\ ~drain[d].landed
        BY DEF UnderWay
      <4>2. queue # <<>> /\ e <= First /\ e \in Events
        BY <4>1 DEF IInv, Behind, UnderWay
      <4> QED BY <1>1, <1>5, <4>1, <4>2 DEF IInv, Budget
    <3> QED BY <3>1
  <2>2. \A e \in Events : e >= emitted + 1 =>
           copies[e] + late[e] <= attempts[e] /\ attempts[e] < MaxAttempts
    <3>1. ASSUME NEW e \in Events, e >= emitted + 1
          PROVE  copies[e] + late[e] <= attempts[e] /\ attempts[e] < MaxAttempts
      <4>1. e >= First
        BY <1>1, <1>5, <3>1
      <4>2. ~ \E d \in Drains : Calling(d) /\ drain[d].event = e
        <5>1. ASSUME NEW d \in Drains, Calling(d), drain[d].event = e PROVE FALSE
          <6>1. queue # <<>> /\ e <= First
            BY <5>1 DEF IInv, Behind
          <6> QED BY <1>1, <1>5, <3>1, <6>1
        <5> QED BY <5>1
      <4> QED BY <4>1, <4>2 DEF IInv, Budget
    <3> QED BY <3>1
  <2>3. ASSUME NEW e \in Events PROVE copies[e] + late'[e] <= MaxAttempts
    <3>1. CASE late'[e] = late[e]
      BY <3>1 DEF IInv, Budget
    <3>2. CASE e \in S /\ late'[e] = late[e] + 1
      <4>1. e \in UnderWay \/ e = emitted + 1
        BY <3>2 DEF Ends
      <4>2. copies[e] + late[e] <= attempts[e] /\ attempts[e] < MaxAttempts
        BY <1>54, <2>1, <2>2, <4>1
      <4>3. copies[e] \in Nat /\ late[e] \in Nat /\ attempts[e] \in Nat
        BY <1>55
      <4> QED BY <1>52, <3>2, <4>2, <4>3
    <3> QED BY <1>2, <3>1, <3>2
  <2>4. \A e \in Events : e >= First' => e >= emitted + 1 /\ e \notin S
    <3>1. ASSUME NEW e \in Events, e >= First' PROVE e >= emitted + 1 /\ e \notin S
      <4>1. e \in Nat /\ emitted' \in Nat /\ e >= emitted' + 1 /\ emitted' >= emitted
        BY <1>50, <3>1
      <4>6. e >= emitted + 1 /\ ~(e <= emitted) /\ ~(e = emitted + 1 /\ emitted' = emitted + 1)
        BY <1>54, <4>1, Beyond, Zenon
      <4>2. e \notin UnderWay
        BY <2>1, <4>6
      <4>4. e \notin S
        BY <4>2, <4>6 DEF Ends
      <4> QED BY <4>4, <4>6
    <3> QED BY <3>1
  <2>5. \A e \in Events : e >= First' =>
           copies[e] + late'[e] <= attempts[e] /\ attempts[e] < MaxAttempts
    BY <1>2, <2>2, <2>4
  <2>6. \A e \in acked : copies[e] > 0
    BY DEF IInv, Budget
  <2>7. /\ \A e \in Events : copies'[e] + late'[e] <= MaxAttempts
        /\ \A e \in Events : e >= First' =>
              copies'[e] + late'[e] <= attempts'[e] /\ attempts'[e] < MaxAttempts
        /\ \A e \in acked' : copies'[e] > 0
    BY <1>0, <2>3, <2>5, <2>6
  <2> QED BY <1>6, <2>7 DEF Budget
<1> QED BY <1>7, <1>8, <1>9, <1>10, <1>11 DEF IInv

\* Crash and Shutdown.
LEMMA CrashInv == ASSUME IInv, Crash PROVE IInv'
<1>1. UnderWay \subseteq Events /\ emitted \in 0..MaxEvents /\ MaxEvents \in Nat
  BY EmitterAssumption DEF UnderWay, IInv, TypeOK
<1>2. emitted' = emitted /\ emitted' <= MaxEvents
  BY <1>1 DEF Crash
<1>3. Ends(UnderWay)
  BY <1>2 DEF Crash, Ends
<1> QED BY <1>1, <1>3, EndInv

LEMMA ShutdownInv == ASSUME IInv, Shutdown PROVE IInv'
<1> DEFINE S == UnderWay \cup IF flushing THEN {} ELSE {emitted + 1}
<1>1. emitted \in Nat /\ MaxEvents \in Nat /\ emitted < MaxEvents
  BY EmitterAssumption DEF Shutdown, IInv, TypeOK
<1>2. S \subseteq Events
  BY <1>1 DEF UnderWay, Events
<1>3. emitted' = emitted + 1 /\ emitted' <= MaxEvents
  BY <1>1 DEF Shutdown
<1>4. /\ Gone /\ Orphaned(S) /\ UNCHANGED <<attempts, copies, acked>>
  BY DEF Shutdown
<1>5. \A x \in S : x \in UnderWay \/ (x = emitted + 1 /\ emitted' = emitted + 1)
  BY <1>3
<1> HIDE DEF S
<1>6. Ends(S)
  BY <1>3, <1>4, <1>5 DEF Ends
<1> QED BY <1>2, <1>6, EndInv

\* Boot, and nothing.
LEMMA BootInv == ASSUME IInv, Boot \/ UNCHANGED vars PROVE IInv'
<1>1. UNCHANGED <<emitted, queue, flushing, drain, attempts, late, copies, acked>>
      /\ running' \in BOOLEAN
  BY DEF Boot, vars, backend, IInv, TypeOK
<1>2. First' = First
  BY <1>1 DEF First
<1>3. TypeOK' /\ OneDrainer' /\ Behind'
  BY <1>1, <1>2 DEF IInv, TypeOK, OneDrainer, Behind, Calling
<1>4. Budget'
  BY <1>1, <1>2 DEF IInv, Budget, Calling
<1> QED BY <1>1, <1>3, <1>4 DEF IInv

-----------------------------------------------------------------------------
(* The theorems.                                                           *)

LEMMA InitInv == Init => IInv
<1> SUFFICES ASSUME Init PROVE IInv
  OBVIOUS
<1>1. /\ Cap \in Nat \ {0} /\ MaxAttempts \in Nat \ {0} /\ MaxEvents \in Nat
      /\ Events \subseteq Nat
  BY EmitterAssumption DEF Events
<1>2. Len(queue) = 0 /\ queue \in Seq(Events) /\ First = 1
  BY DEF Init, First
<1>3. \A d \in Drains : ~Calling(d)
  BY DEF Init, Calling, Idle
<1>4. TypeOK
  <2>1. drain \in [Drains -> {Idle, Timer} \cup Calls]
    BY DEF Init
  <2>2. /\ attempts \in [Events -> 0..MaxAttempts]
        /\ late \in [Events -> Nat] /\ copies \in [Events -> Nat]
    BY <1>1 DEF Init
  <2>3. Len(queue) <= Cap /\ emitted \in 0..MaxEvents
    BY <1>1, <1>2 DEF Init
  <2> QED BY <1>2, <2>1, <2>2, <2>3 DEF Init, TypeOK
<1>5. Contiguous(queue, emitted)
  BY <1>2 DEF Init, Contiguous
<1>6. OneDrainer /\ Behind
  BY <1>2, <1>3 DEF Init, OneDrainer, Behind
<1>7. Budget
  BY <1>1, <1>3 DEF Init, Budget
<1> QED BY <1>4, <1>5, <1>6, <1>7 DEF IInv

LEMMA NextInv == IInv /\ [Next]_vars => IInv'
<1> SUFFICES ASSUME IInv, [Next]_vars PROVE IInv'
  OBVIOUS
<1>1. CASE Emit
  BY <1>1, EmitInv
<1>2. CASE Crash
  BY <1>2, CrashInv
<1>3. CASE Shutdown
  BY <1>3, ShutdownInv
<1>4. CASE Boot \/ UNCHANGED vars
  BY <1>4, BootInv
<1>5. ASSUME NEW d \in Drains, Fire(d) \/ Settle(d) \/ Land(d) PROVE IInv'
  BY <1>5, FireInv, SucceedInv, RetryInv, GiveUpInv, LandInv DEF Settle
<1>6. ASSUME NEW e \in Events, LandLate(e) PROVE IInv'
  BY <1>6, LandLateInv
<1> QED BY <1>1, <1>2, <1>3, <1>4, <1>5, <1>6 DEF Next

\* Every reachable state satisfies the inductive invariant.
THEOREM Invariant == Spec => []IInv
BY InitInv, NextInv, PTL DEF Spec

\* The queue never grows past QUEUE_CAP, and no event is tried more than
\* MAX_ATTEMPTS times, whatever the cap and the number of attempts.
THEOREM TypeCorrect == Spec => []TypeOK
<1>1. IInv => TypeOK
  BY DEF IInv
<1> QED BY <1>1, Invariant, PTL

\* emit and drainNext keep exactly one drain at work while the queue holds an
\* event, however many could be started.
THEOREM OneDrainerCorrect == Spec => []OneDrainer
<1>1. IInv => OneDrainer
  BY DEF IInv
<1> QED BY <1>1, Invariant, PTL

\* Retries, abandoned calls that land late and the end of the process give the
\* backend at most MAX_ATTEMPTS copies of an event, and at least one of every
\* event taken for delivered.
THEOREM CopiesCorrect == Spec => []CopiesBounded
<1>1. IInv => CopiesBounded
  BY DEF IInv, Budget, CopiesBounded
<1> QED BY <1>1, Invariant, PTL

-----------------------------------------------------------------------------
(* The emitter implements the lossy queue.                                 *)

\* A call is about the head of the queue, or an older event.
LEMMA CallFacts ==
    ASSUME IInv, NEW d \in Drains, Calling(d)
    PROVE  /\ queue # <<>> /\ Shift(queue) = Tail(queue)
           /\ drain[d].event \in 1..emitted /\ drain[d].event <= Head(queue)
           /\ \A a \in acked : a < drain[d].event
<1>1. /\ queue # <<>> /\ drain[d].event <= First
      /\ \A a \in acked : a < drain[d].event
  BY DEF IInv, Behind
<1>2. drain[d].event \in Nat \ {0}
  BY DrainValues DEF IInv, Events
<1>3. First \in Nat /\ First <= emitted /\ emitted \in Nat
  BY <1>1, FirstNat, EmitterAssumption DEF IInv, TypeOK
<1>4. queue \in Seq(Events) /\ Contiguous(queue, emitted)
  BY DEF IInv, TypeOK
<1>5. Shift(queue) = Tail(queue) /\ Head(queue) = First
  BY <1>1, <1>3, <1>4, ShiftFacts DEF First
<1> QED BY <1>1, <1>2, <1>3, <1>5

LEMMA EmitPuts == ASSUME IInv, Emit PROVE Fifo!Put
<1>1. queue \in Seq(Events) /\ Len(queue) \in Nat /\ Cap \in Nat \ {0}
  BY EmitterAssumption DEF IInv, TypeOK
<1>2. Len(queue) >= Cap => Shift(queue) = Tail(queue)
  <2>1. Len(queue) >= Cap => queue # <<>>
    BY <1>1
  <2> QED BY <2>1 DEF Shift
<1>3. /\ emitted' = emitted + 1 /\ queue' = Push(emitted + 1)
      /\ acked' = acked
  BY DEF Emit
<1>4. queue' = Append(IF Len(queue) >= Cap THEN Tail(queue) ELSE queue, emitted + 1)
  BY <1>2, <1>3 DEF Push
<1> QED BY <1>3, <1>4 DEF Fifo!Put

LEMMA InitMaps == Init => Fifo!Init
BY DEF Init, Fifo!Init

LEMMA StepMaps == IInv /\ [Next]_vars => [Fifo!Next]_(Fifo!fifo)
<1> SUFFICES ASSUME IInv, [Next]_vars PROVE Fifo!Next \/ UNCHANGED Fifo!fifo
  OBVIOUS
<1>1. CASE Emit
  BY <1>1, EmitPuts DEF Fifo!Next
<1>2. CASE Crash \/ Shutdown
  BY <1>2 DEF Crash, Shutdown, Gone, Fifo!Next, Fifo!Vanish
<1>3. CASE Boot \/ UNCHANGED vars
  BY <1>3 DEF Boot, vars, Fifo!fifo
<1>4. ASSUME NEW d \in Drains, Succeed(d) PROVE Fifo!Next
  <2>1. Calling(d)
    BY <1>4 DEF Succeed
  <2>2. /\ queue' = Tail(queue) /\ emitted' = emitted
        /\ acked' = acked \cup {drain[d].event}
    BY <1>4, <2>1, CallFacts DEF Succeed
  <2>3. Fifo!Deliver(drain[d].event)
    BY <2>1, <2>2, CallFacts DEF Fifo!Deliver
  <2> QED BY <2>1, <2>3, CallFacts DEF Fifo!Next
<1>5. ASSUME NEW d \in Drains, GiveUp(d) PROVE Fifo!Next
  <2>1. Calling(d)
    BY <1>5 DEF GiveUp
  <2>2. queue' = Tail(queue) /\ emitted' = emitted /\ acked' = acked /\ queue # <<>>
    BY <1>5, <2>1, CallFacts DEF GiveUp
  <2> QED BY <2>2 DEF Fifo!Next, Fifo!Lose
<1>6. ASSUME NEW d \in Drains, Fire(d) \/ Retry(d) \/ Land(d) PROVE UNCHANGED Fifo!fifo
  BY <1>6 DEF Fire, Retry, Land, Fifo!fifo
<1>7. ASSUME NEW e \in Events, LandLate(e) PROVE UNCHANGED Fifo!fifo
  BY <1>7 DEF LandLate, Fifo!fifo
<1> QED BY <1>1, <1>2, <1>3, <1>4, <1>5, <1>6, <1>7 DEF Next, Settle

\* emit, drainNext and the end of the process do to the queue and to the
\* acknowledged events only what LossyFifo allows: no caller sees an event out of
\* order, twice, or acknowledged behind a younger one.
THEOREM Implementation == Spec => Implements
<1>1. Spec => Fifo!Init
  BY InitMaps DEF Spec
<1>2. Spec => [][Fifo!Next]_(Fifo!fifo)
  BY Invariant, StepMaps, PTL DEF Spec
<1> QED BY <1>1, <1>2 DEF Implements, Fifo!Spec

-----------------------------------------------------------------------------
(* Below the cap nothing leaves unsent.                                    *)

\* Until the cap drops an event, a call is about the head of the queue.
Undropped == emitted <= Cap =>
                 \A d \in Drains : Calling(d) => drain[d].event = Head(queue)

\* Emit below the cap: the queue is only appended to.
LEMMA EmitBelow ==
    ASSUME IInv, Emit, emitted' <= Cap
    PROVE  /\ queue' = Append(queue, emitted + 1)
           /\ \A i \in DOMAIN queue : i \in DOMAIN queue' /\ queue'[i] = queue[i]
           /\ queue # <<>> => Head(queue') = Head(queue)
<1>1. emitted \in Nat /\ Cap \in Nat /\ emitted + 1 <= Cap /\ emitted + 1 \in Events
  BY EmitterAssumption DEF IInv, TypeOK, Emit, Events
<1>2. queue \in Seq(Events) /\ Len(queue) \in Nat /\ Len(queue) <= emitted
  BY DEF IInv, TypeOK, Contiguous
<1>3. ~(Len(queue) >= Cap)
  BY <1>1, <1>2
<1>4. queue' = Append(queue, emitted + 1)
  BY <1>3 DEF Emit, Push
<1>5. \A i \in DOMAIN queue : i \in DOMAIN queue' /\ queue'[i] = queue[i]
  BY <1>1, <1>2, <1>4
<1>6. queue # <<>> => Head(queue') = Head(queue)
  BY <1>1, <1>2, <1>4
<1> QED BY <1>4, <1>5, <1>6

LEMMA UndroppedStep == IInv /\ Undropped /\ [Next]_vars => Undropped'
<1> SUFFICES ASSUME IInv, Undropped, [Next]_vars, emitted' <= Cap,
                    NEW d \in Drains, Calling(d)'
             PROVE  drain'[d].event = Head(queue')
  BY DEF Undropped
<1>1. CASE Emit
  <2>1. emitted <= Cap
    BY <1>1, EmitterAssumption DEF IInv, TypeOK, Emit
  <2>2. CASE UNCHANGED drain
    <3>1. Calling(d) /\ drain'[d] = drain[d]
      BY <2>2 DEF Calling
    <3>2. queue # <<>>
      BY <3>1 DEF IInv, Behind
    <3> QED BY <1>1, <2>1, <3>1, <3>2, EmitBelow DEF Undropped
  <2>3. CASE /\ \A c \in Drains : drain[c] = Idle
             /\ \E c \in Drains : drain' = [drain EXCEPT ![c] = Call(First')]
    <3>1. First' \in Events /\ Head(queue') = First'
      BY <1>1, EmitFacts
    <3>2. drain \in [Drains -> {Idle, Timer} \cup Calls] /\ Idle.at # "call"
      BY DEF IInv, TypeOK, Idle
    <3>3. drain'[d] = Call(First')
      BY <2>3, <3>2 DEF Calling
    <3> QED BY <3>1, <3>3, CallIs
  <2> QED BY <1>1, <2>2, <2>3, EmitFacts
<1>2. CASE Crash \/ Shutdown
  BY <1>2 DEF Crash, Shutdown, Gone, Calling, Idle
<1>3. CASE Boot \/ UNCHANGED vars \/ \E e \in Events : LandLate(e)
  BY <1>3 DEF Boot, vars, LandLate, Undropped, Calling
<1>4. ASSUME NEW c \in Drains, Fire(c) PROVE drain'[d].event = Head(queue')
  <2>1. drain[c] = Timer /\ drain[c] # Idle /\ queue' = queue
    BY <1>4 DEF Fire, Timer, Idle
  <2>2. drain \in [Drains -> {Idle, Timer} \cup Calls]
    BY DEF IInv, TypeOK
  <2>3. CASE d = c
    BY <1>4, <2>1, <2>2, <2>3 DEF Fire, Calling, Call, Idle
  <2>4. CASE d # c
    <3>1. drain'[d] = Idle
      BY <1>4, <2>1, <2>2, <2>4, Sole DEF Fire
    <3> QED BY <3>1 DEF Calling, Idle
  <2> QED BY <2>3, <2>4
<1>5. ASSUME NEW c \in Drains, Settle(c) PROVE FALSE
  <2>1. Calling(c) /\ drain' = [drain EXCEPT ![c] = Timer]
    BY <1>5 DEF Settle, Succeed, Retry, GiveUp
  <2>2. drain[c] # Idle
    BY <2>1 DEF Calling, Idle
  <2> QED BY <2>1, <2>2, NobodyCalls
<1>6. ASSUME NEW c \in Drains, Land(c) PROVE drain'[d].event = Head(queue')
  <2>1. /\ drain' = [drain EXCEPT ![c].landed = TRUE]
        /\ queue' = queue /\ emitted' = emitted /\ Calling(c)
    BY <1>6 DEF Land
  <2>2. drain \in [Drains -> {Idle, Timer} \cup Calls]
    BY DEF IInv, TypeOK
  <2>3. drain[c] \in Calls
    BY <2>1, DrainValues DEF IInv
  <2>4. drain'[d].at = drain[d].at /\ (d = c => drain'[d].event = drain[d].event)
        /\ (d # c => drain'[d] = drain[d])
    BY <2>1, <2>2, <2>3 DEF Calls
  <2>5. Calling(d) /\ drain'[d].event = drain[d].event
    BY <2>4 DEF Calling
  <2> QED BY <2>1, <2>5 DEF Undropped
<1> QED BY <1>1, <1>2, <1>3, <1>4, <1>5, <1>6 DEF Next

\* What leaves with the head, for a success or a last attempt.
LEMMA TailKeeps ==
    ASSUME IInv, NEW d \in Drains, Calling(d), queue' = Shift(queue)
    PROVE  \A i \in DOMAIN queue :
               \/ queue[i] = Head(queue)
               \/ \E j \in DOMAIN queue' : queue'[j] = queue[i]
<1>1. queue' = Tail(queue) /\ queue # <<>>
  BY CallFacts
<1>2. queue \in Seq(Events)
  BY DEF IInv, TypeOK
<1> SUFFICES ASSUME NEW i \in DOMAIN queue, i # 1
             PROVE  \E j \in DOMAIN queue' : queue'[j] = queue[i]
  BY <1>1, <1>2
<1>3. i - 1 \in DOMAIN Tail(queue) /\ Tail(queue)[i - 1] = queue[i]
  BY <1>1, <1>2
<1> QED BY <1>1, <1>3

LEMMA NoneSkippedStep ==
    ASSUME IInv, IInv', Undropped, [Next]_vars, emitted' <= Cap, running',
           NEW i \in DOMAIN queue
    PROVE  \/ \E j \in DOMAIN queue' : queue'[j] = queue[i]
           \/ queue[i] \in acked' \/ attempts'[queue[i]] = MaxAttempts
<1>1. CASE Emit
  BY <1>1, EmitBelow
<1>2. CASE queue' = queue
  BY <1>2
<1>3. ASSUME NEW d \in Drains, Succeed(d) \/ GiveUp(d)
      PROVE  \/ \E j \in DOMAIN queue' : queue'[j] = queue[i]
             \/ queue[i] \in acked' \/ attempts'[queue[i]] = MaxAttempts
  <2>1. Calling(d) /\ queue' = Shift(queue) /\ emitted' = emitted
    BY <1>3 DEF Succeed, GiveUp
  <2>2. drain[d].event = Head(queue) /\ drain[d].event \in Events
    BY <2>1, DrainValues DEF Undropped, IInv
  <2>3. \/ queue[i] = Head(queue)
        \/ \E j \in DOMAIN queue' : queue'[j] = queue[i]
    BY <2>1, TailKeeps
  <2>4. CASE Succeed(d)
    BY <2>2, <2>3, <2>4 DEF Succeed
  <2>5. CASE GiveUp(d)
    <3>1. /\ attempts[Head(queue)] + 1 >= MaxAttempts
          /\ attempts' = [attempts EXCEPT ![Head(queue)] = @ + 1]
      BY <2>2, <2>5 DEF GiveUp
    <3>2. /\ attempts \in [Events -> 0..MaxAttempts]
          /\ attempts' \in [Events -> 0..MaxAttempts] /\ MaxAttempts \in Nat
      BY EmitterAssumption DEF IInv, TypeOK
    <3>3. attempts'[Head(queue)] = MaxAttempts
      BY <2>2, <3>1, <3>2
    <3> QED BY <2>3, <3>3
  <2> QED BY <1>3, <2>4, <2>5
<1>4. CASE Crash \/ Shutdown
  BY <1>4 DEF Crash, Shutdown, Gone
<1>5. CASE Boot \/ UNCHANGED vars \/ \E e \in Events : LandLate(e)
  BY <1>2, <1>5 DEF Boot, vars, LandLate
<1>6. ASSUME NEW d \in Drains, Fire(d) \/ Retry(d) \/ Land(d) PROVE queue' = queue
  BY <1>6 DEF Fire, Retry, Land
<1> QED BY <1>1, <1>2, <1>3, <1>4, <1>5, <1>6 DEF Next, Settle

\* Until more than QUEUE_CAP events were ever emitted, drainNext lets an event
\* leave only acknowledged or tried MAX_ATTEMPTS times.
THEOREM NoneSkippedCorrect == Spec => NoneSkipped
<1>1. Init => Undropped
  BY DEF Init, Undropped, Calling, Idle
<1>2. Spec => []Undropped
  BY <1>1, UndroppedStep, Invariant, PTL DEF Spec
<1>3. IInv /\ IInv' /\ Undropped /\ [Next]_vars =>
         [emitted' <= Cap /\ running' =>
          \A i \in DOMAIN queue :
              \/ \E j \in DOMAIN queue' : queue'[j] = queue[i]
              \/ queue[i] \in acked' \/ attempts'[queue[i]] = MaxAttempts]_vars
  BY NoneSkippedStep
<1> QED BY <1>2, <1>3, Invariant, PTL DEF Spec, NoneSkipped
=============================================================================
