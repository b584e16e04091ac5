-------------------------- MODULE HourEventsProofs --------------------------
(***************************************************************************)
(* The lodging step never acts before its hour, for every plan of targets, *)
(* length of the day and number of events.                                 *)
(*                                                                         *)
(* NeverEarly is not inductive: current must never go back, so the events  *)
(* still queued must be later than it and in order, and an event that has  *)
(* left the service must not be later than it wherever it waits on its way *)
(* to the step.                                                            *)
(***************************************************************************)
EXTENDS HourEvents, TLAPS

\* The queued events are in order, later than current and already published.
Queued ==
  /\ current < clock
  /\ \A i \in 1..Len(deliveries) :
       deliveries[i] # Undecodable
         => current < deliveries[i] /\ deliveries[i] < clock
  /\ \A i, j \in 1..Len(deliveries) :
       i < j /\ deliveries[i] # Undecodable /\ deliveries[j] # Undecodable
         => deliveries[i] < deliveries[j]

\* No event on its way to the step is later than current.
Seen ==
  /\ \A w \in Waits : \A i \in 1..Len(events[w]) : events[w][i] <= current
  /\ \A w \in Waits : \A i \in 1..Len(timer[w]) : timer[w][i] <= current
  /\ \A w \in Waits : watcher[w] = "forward" => held[w] <= current

\* A wait in progress is one of the plan, and the service notifies of a time.
Waiting ==
  /\ pc \in {"check", "select"} => step \in Waits
  /\ svc \in {"snapshot", "notify"} => current # NoTime

HInv == TypeOK /\ Queued /\ Seen /\ Waiting /\ NeverEarly
-----------------------------------------------------------------------------
USE HourAssumption DEF vars, svcVars, chanVars

\* Receiving from a channel removes its first element.
LEMMA Receive ==
  ASSUME NEW S, NEW s \in Seq(S), s # <<>>
  PROVE  /\ Tail(s) \in Seq(S) /\ Len(Tail(s)) = Len(s) - 1
         /\ 1 \in 1..Len(s) /\ Head(s) = s[1] /\ Head(s) \in S
         /\ \A i \in 1..Len(Tail(s)) : i + 1 \in 1..Len(s) /\ Tail(s)[i] = s[i + 1]
  OBVIOUS

\* Sending to a channel puts an element behind the others.
LEMMA Send ==
  ASSUME NEW S, NEW s \in Seq(S), NEW e \in S
  PROVE  /\ Append(s, e) \in Seq(S) /\ Len(Append(s, e)) = Len(s) + 1
         /\ \A i \in 1..Len(s) : Append(s, e)[i] = s[i]
         /\ Append(s, e)[Len(s) + 1] = e
  OBVIOUS

\* Times and targets are natural numbers.
LEMMA Times ==
  /\ \A t \in Time : t \in Nat /\ t \in Int
  /\ 0 \in Time /\ NoTime = -1 /\ NoTime \notin Time
  /\ Undecodable = -2 /\ Undecodable \notin Time
  /\ Len(Targets) \in Nat /\ \A w \in Waits : Targets[w] \in Nat
  BY DEF Time, NoTime, Undecodable, Waits

\* The service and the step start with nothing queued and nothing seen.
LEMMA HInvInit == Init => HInv
<1> SUFFICES ASSUME Init PROVE HInv
  OBVIOUS
<1>1. TypeOK
  <2>1. events \in [Waits -> Seq(Time)] /\ timer \in [Waits -> Seq(Time)]
    BY DEF Init
  <2>2. deliveries \in Seq(Time \cup {Undecodable})
    BY DEF Init
  <2>3. held \in [Waits -> Time]
    BY Times DEF Init
  <2>4. /\ clock \in 0..MaxTime + 1 /\ faults \in 0..MaxFaults
        /\ step \in 1..Len(Targets) + 1
    BY Times DEF Init
  <2> QED
    BY <2>1, <2>2, <2>3, <2>4, Zenon DEF Init, TypeOK
<1>2. Queued /\ Seen
  BY DEF Init, NoTime, Queued, Seen
<1>3. Waiting /\ NeverEarly
  BY DEF Init, Waiting, NeverEarly, Waits
<1> QED
  BY <1>1, <1>2, <1>3 DEF HInv

\* What has been seen stays seen while current grows.
LEMMA SeenGrows ==
  ASSUME HInv, current' \in Int, current <= current',
         UNCHANGED <<watcher, events, held, timer, step>>
  PROVE  Seen' /\ NeverEarly'
<1>1. current \in Int
  BY Times DEF HInv, TypeOK
<1>2. \A t \in Time : t <= current => t <= current'
  BY <1>1, Times
<1>3. \A w \in Waits : \A i \in 1..Len(events[w]) : events[w][i] <= current'
  <2>1. \A w \in Waits : \A i \in 1..Len(events[w]) : events[w][i] \in Time
    BY DEF HInv, TypeOK
  <2> QED
    BY <1>2, <2>1 DEF HInv, Seen
<1>4. \A w \in Waits : \A i \in 1..Len(timer[w]) : timer[w][i] <= current'
  <2>1. \A w \in Waits : \A i \in 1..Len(timer[w]) : timer[w][i] \in Time
    BY DEF HInv, TypeOK
  <2> QED
    BY <1>2, <2>1 DEF HInv, Seen
<1>5. \A w \in Waits : watcher[w] = "forward" => held[w] <= current'
  <2>1. \A w \in Waits : held[w] \in Time
    BY DEF HInv, TypeOK
  <2> QED
    BY <1>2, <2>1 DEF HInv, Seen
<1>6. Seen'
  BY <1>3, <1>4, <1>5 DEF Seen
<1>7. NeverEarly'
  BY <1>1, Times DEF HInv, NeverEarly
<1> QED
  BY <1>6, <1>7

\* The service's own steps preserve the invariant.
LEMMA ServiceKeeps == HInv /\ (Service \/ consumerCloses \/ Tick) => HInv'
<1> SUFFICES ASSUME HInv, Service \/ consumerCloses \/ Tick PROVE HInv'
  OBVIOUS
<1> USE DEF HInv
<1>1. CASE receiveHourChange
  <2> DEFINE e == Head(deliveries)
  <2>1. /\ deliveries' \in Seq(Time \cup {Undecodable})
        /\ Len(deliveries') = Len(deliveries) - 1
        /\ 1 \in 1..Len(deliveries) /\ e = deliveries[1]
        /\ e \in Time \cup {Undecodable}
        /\ \A i \in 1..Len(deliveries') :
             i + 1 \in 1..Len(deliveries) /\ deliveries'[i] = deliveries[i + 1]
    BY <1>1, Receive DEF receiveHourChange, TypeOK
  <2> HIDE DEF e
  <2>2. \/ e # Undecodable /\ current' = e /\ svc' = "snapshot"
        \/ current' = current /\ svc' = svc
    BY <1>1 DEF receiveHourChange, e
  <2>3. UNCHANGED <<clock, toNotify, chanVars, step, pc, flowDone, faults>>
    BY <1>1 DEF receiveHourChange
  <2>4. TypeOK'
    BY <2>1, <2>2, <2>3 DEF TypeOK
  <2>5. /\ current \in Int /\ current' \in Int /\ clock \in Int
        /\ current <= current' /\ current' < clock
    BY <2>1, <2>2, Times DEF TypeOK, Queued
  <2>6. ASSUME NEW i \in 1..Len(deliveries'), deliveries'[i] # Undecodable
        PROVE  current' < deliveries'[i] /\ deliveries'[i] < clock
    <3>1. i + 1 \in 1..Len(deliveries) /\ deliveries'[i] = deliveries[i + 1] /\ 1 < i + 1
      BY <2>1
    <3> QED
      BY <2>1, <2>2, <2>6, <3>1, SMTT(60) DEF Queued
  <2>7. ASSUME NEW i \in 1..Len(deliveries'), NEW j \in 1..Len(deliveries'), i < j,
               deliveries'[i] # Undecodable, deliveries'[j] # Undecodable
        PROVE  deliveries'[i] < deliveries'[j]
    <3>1. /\ i + 1 \in 1..Len(deliveries) /\ deliveries'[i] = deliveries[i + 1]
          /\ j + 1 \in 1..Len(deliveries) /\ deliveries'[j] = deliveries[j + 1]
          /\ i + 1 < j + 1
      BY <2>1, <2>7
    <3> QED
      BY <2>7, <3>1 DEF Queued
  <2>8. Queued'
    BY <2>3, <2>5, <2>6, <2>7 DEF Queued
  <2>9. Seen' /\ NeverEarly' /\ Waiting'
    BY <2>1, <2>2, <2>3, <2>5, SeenGrows, Times DEF Waiting
  <2> QED
    BY <2>4, <2>8, <2>9
<1>2. CASE snapshotChannels
  BY <1>2 DEF snapshotChannels, TypeOK, Queued, Seen, Waiting, NeverEarly
<1>3. CASE notified
  BY <1>3 DEF notified, TypeOK, Queued, Seen, Waiting, NeverEarly
<1>4. CASE \E w \in Waits : notify(w)
  <2>1. PICK w \in Waits : notify(w)
    BY <1>4
  <2>2. CASE events' = events
    BY <2>1, <2>2 DEF notify, TypeOK, Queued, Seen, Waiting, NeverEarly
  <2>3. CASE events' = [events EXCEPT ![w] = Append(@, current)] /\ current \in Time
    <3>1. events[w] \in Seq(Time)
      BY DEF TypeOK
    <3>2. Append(events[w], current) \in Seq(Time)
      BY <2>3, <3>1, Send
    <3>3. TypeOK'
      BY <2>1, <2>3, <3>2 DEF notify, TypeOK
    <3>4. Queued' /\ Waiting' /\ NeverEarly'
      BY <2>1 DEF notify, Queued, Waiting, NeverEarly
    <3>5. \A i \in 1..Len(Append(events[w], current)) :
            Append(events[w], current)[i] <= current
      BY <2>3, <3>1, Send, Times DEF Seen
    <3>6. Seen'
      BY <2>1, <2>3, <3>5 DEF notify, Seen, TypeOK
    <3> QED
      BY <3>3, <3>4, <3>6
  <2> QED
    BY <2>1, <2>2, <2>3 DEF notify, TypeOK, Waiting
<1>5. CASE consumerCloses
  BY <1>5 DEF consumerCloses, TypeOK, Queued, Seen, Waiting, NeverEarly
<1>6. CASE Tick
  <2>1. PICK e \in {clock, Undecodable} : deliveries' = Append(deliveries, e)
    BY <1>6 DEF Tick
  <2>2. clock \in Time /\ e \in Time \cup {Undecodable} /\ clock' = clock + 1
    BY <1>6, <2>1 DEF Tick, TypeOK, Time
  <2>3. /\ deliveries' \in Seq(Time \cup {Undecodable})
        /\ Len(deliveries') = Len(deliveries) + 1
        /\ \A i \in 1..Len(deliveries) : deliveries'[i] = deliveries[i]
        /\ deliveries'[Len(deliveries) + 1] = e
    BY <2>1, <2>2, Send DEF TypeOK
  <2>4. TypeOK'
    <3>1. clock' \in 0..MaxTime + 1 /\ faults' \in 0..MaxFaults
      BY <1>6 DEF Tick, TypeOK
    <3> QED
      BY <1>6, <2>3, <3>1 DEF Tick, TypeOK
  <2>5. Queued'
    <3>1. Len(deliveries) \in Nat
      BY DEF TypeOK
    <3>2. \A i \in 1..Len(deliveries') : i \in 1..Len(deliveries) \/ i = Len(deliveries) + 1
      BY <2>3, <3>1
    <3>3. UNCHANGED current /\ current \in Int
      BY <1>6, Times DEF Tick, TypeOK
    <3>4. \A i \in 1..Len(deliveries) : deliveries[i] \in Time \cup {Undecodable}
      BY DEF TypeOK
    <3> QED
      BY <2>1, <2>2, <2>3, <3>1, <3>2, <3>3, <3>4, Times, SMTT(60) DEF Queued
  <2>6. Seen' /\ Waiting' /\ NeverEarly'
    BY <1>6, Zenon DEF Tick, Seen, Waiting, NeverEarly
  <2> QED
    BY <2>4, <2>5, <2>6
<1> QED
  BY <1>1, <1>2, <1>3, <1>4, <1>5, <1>6 DEF Service

\* So do those of the goroutine of a wait.
LEMMA WatcherKeeps ==
  ASSUME HInv, NEW w \in Waits, Watcher(w)
  PROVE  HInv'
<1> USE DEF HInv
<1>1. CASE Register(w)
  BY <1>1 DEF Register, TypeOK, Queued, Seen, Waiting, NeverEarly
<1>2. CASE receiveEvent(w)
  <2>1. events[w] \in Seq(Time) /\ events[w] # <<>>
    BY <1>2 DEF receiveEvent, TypeOK
  <2>2. /\ Tail(events[w]) \in Seq(Time) /\ Head(events[w]) \in Time
        /\ Head(events[w]) <= current
        /\ \A i \in 1..Len(Tail(events[w])) : Tail(events[w])[i] <= current
    BY <2>1, Receive DEF Seen
  <2>3. TypeOK'
    BY <1>2, <2>2, Zenon DEF receiveEvent, TypeOK
  <2>4. Queued' /\ Waiting' /\ NeverEarly'
    BY <1>2 DEF receiveEvent, Queued, Waiting, NeverEarly
  <2>5. Seen'
    BY <1>2, <2>2, Zenon DEF receiveEvent, Seen, TypeOK
  <2> QED
    BY <2>3, <2>4, <2>5
<1>3. CASE forward(w)
  <2>1. timer[w] \in Seq(Time) /\ held[w] \in Time /\ held[w] <= current
    BY <1>3 DEF forward, TypeOK, Seen
  <2>2. /\ Append(timer[w], held[w]) \in Seq(Time)
        /\ \A i \in 1..Len(Append(timer[w], held[w])) :
             Append(timer[w], held[w])[i] <= current
    BY <2>1, Send DEF Seen
  <2>3. TypeOK'
    BY <1>3, <2>2 DEF forward, TypeOK
  <2>4. Queued' /\ Waiting' /\ NeverEarly'
    BY <1>3 DEF forward, Queued, Waiting, NeverEarly
  <2>5. Seen'
    BY <1>3, <2>2 DEF forward, Seen, TypeOK
  <2> QED
    BY <2>3, <2>4, <2>5
<1>4. CASE Unregister(w)
  BY <1>4 DEF Unregister, TypeOK, Queued, Seen, Waiting, NeverEarly
<1> QED
  BY <1>1, <1>2, <1>3, <1>4 DEF Watcher

\* And those of the lodging step: the only one that can end a wait on an
\* event asks for one at or after the target, and the event is seen.
LEMMA LodgingKeeps == HInv /\ (Lodging \/ flowReturns \/ Cancel) => HInv'
<1> SUFFICES ASSUME HInv, Lodging \/ flowReturns \/ Cancel PROVE HInv'
  OBVIOUS
<1> USE DEF HInv
<1>1. CASE waitUntil
  <2>1. step \in Waits
    BY <1>1, Times DEF waitUntil, Waits, TypeOK
  <2> QED
    BY <1>1, <2>1, SMTT(60) DEF waitUntil, TypeOK, Queued, Seen, Waiting, NeverEarly
<1>2. CASE checkCurrentTime
  <2>1. step \in Waits
    BY <1>2 DEF checkCurrentTime, Waiting
  <2>2. step + 1 \in 1..Len(Targets) + 1
    BY <2>1, Times DEF Waits
  <2>3. TypeOK'
    BY <1>2, <2>2 DEF checkCurrentTime, TypeOK
  <2>4. Queued' /\ Seen' /\ Waiting'
    BY <1>2 DEF checkCurrentTime, Queued, Seen, Waiting
  <2>5. NeverEarly'
    BY <1>2, <2>1, Times DEF checkCurrentTime, NeverEarly, Waits
  <2> QED
    BY <2>3, <2>4, <2>5
<1>3. CASE receiveNotification
  <2>1. step \in Waits
    BY <1>3 DEF receiveNotification, Waiting
  <2>2. timer[step] \in Seq(Time) /\ timer[step] # <<>>
    BY <1>3, <2>1 DEF receiveNotification, TypeOK
  <2>3. /\ Tail(timer[step]) \in Seq(Time) /\ Head(timer[step]) \in Time
        /\ Head(timer[step]) <= current
        /\ \A i \in 1..Len(Tail(timer[step])) : Tail(timer[step])[i] <= current
    BY <2>1, <2>2, Receive DEF Seen
  <2>4. timer' \in [Waits -> Seq(Time)]
    BY <1>3, <2>3, Zenon DEF receiveNotification, TypeOK
  <2>5. TypeOK'
    <3>1. step + 1 \in 1..Len(Targets) + 1
      BY <2>1, Times DEF Waits
    <3> QED
      BY <1>3, <2>4, <3>1, SMTT(60) DEF receiveNotification, TypeOK
  <2>6. Queued' /\ Waiting'
    BY <1>3 DEF receiveNotification, Queued, Waiting
  <2>7. Seen'
    BY <1>3, <2>3 DEF receiveNotification, Seen, TypeOK
  <2>8. Reached(Head(timer[step])) => current >= Targets[step]
    <3>1. Head(timer[step]) \in Int /\ Targets[step] \in Int /\ current \in Int
      BY <2>1, <2>3, Times DEF TypeOK
    <3> QED
      BY <2>3, <3>1 DEF Reached
  <2>9. NeverEarly'
    BY <1>3, <2>1, <2>8, Times DEF receiveNotification, NeverEarly, Waits
  <2> QED
    BY <2>5, <2>6, <2>7, <2>9
<1>4. CASE waitCancelled
  BY <1>4 DEF waitCancelled, TypeOK, Queued, Seen, Waiting, NeverEarly
<1>5. CASE flowReturns
  BY <1>5 DEF flowReturns, TypeOK, Queued, Seen, Waiting, NeverEarly
<1>6. CASE Cancel
  BY <1>6 DEF Cancel, TypeOK, Queued, Seen, Waiting, NeverEarly
<1> QED
  BY <1>1, <1>2, <1>3, <1>4, <1>5, <1>6 DEF Lodging

\* HInv is an invariant of the waits.
LEMMA Invariance == Spec => []HInv
<1>1. HInv /\ [Next]_vars => HInv'
  <2> SUFFICES ASSUME HInv, [Next]_vars PROVE HInv'
    OBVIOUS
  <2>1. CASE UNCHANGED vars
    BY <2>1 DEF HInv, TypeOK, Queued, Seen, Waiting, NeverEarly
  <2> QED
    BY <2>1, ServiceKeeps, WatcherKeeps, LodgingKeeps DEF Next
<1> QED
  BY <1>1, HInvInit, PTL DEF Spec
-----------------------------------------------------------------------------
\* Type correctness of HourEvents: an undecodable event never becomes the
\* current time of the service and never reaches a channel.
THEOREM TypeCorrect == Spec => []TypeOK
<1>1. HInv => TypeOK
  BY DEF HInv
<1> QED
  BY <1>1, Invariance, PTL

\* A wait of the lodging step that is over had its target reached, whatever
\* the order in which service, goroutines and step run.
THEOREM WaitsAreNotEarly == Spec => []NeverEarly
<1>1. HInv => NeverEarly
  BY DEF HInv
<1> QED
  BY <1>1, Invariance, PTL
=============================================================================
