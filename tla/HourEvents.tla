----------------------------- MODULE HourEvents -----------------------------
(***************************************************************************)
(* How a lodging step waits for an hour of the day.  timeEventService      *)
(* consumes the hour-change queue and offers each event to the registered  *)
(* channels; every waitUntil call starts a HourNotification goroutine that *)
(* registers, filters on the hour and forwards to the call's channel.      *)
(*                                                                         *)
(* A time is a number of hours since the first event; a day has            *)
(* HoursPerDay of them.  The step waits for Targets[1], Targets[2], ... in *)
(* turn, with arbitrary delays in between.                                 *)
(***************************************************************************)
EXTENDS Integers, Sequences

CONSTANTS HoursPerDay,  \* 24 in the code
          Targets,      \* the "not before" times of the plan, in order
          MaxTime,      \* bound on the clock
          MaxFaults     \* bound on undecodable events and closed consumers

ASSUME HourAssumption ==
  /\ HoursPerDay \in Nat \ {0} /\ MaxTime \in Nat /\ MaxFaults \in Nat
  /\ Targets \in Seq(Nat)

VARIABLES
  clock,       \* time of the next hour-change event to be published
  deliveries,  \* events handed to the consumer
  svc,         \* Start: "recv" | "snapshot" | "notify" | "stopped"
  current,     \* currentTime, -1 while hasCurrentTime is false
  toNotify,    \* channels of the snapshot still to be offered the event
  registered,  \* hourChangeChannels
  watcher,     \* goroutine of each wait: "none" | "spawned" | "watch" |
               \* "forward" | "gone"
  events,      \* its events channel (capacity 1)
  held,        \* the event it is forwarding
  timer,       \* the notifications channel of the wait (capacity 1)
  step,        \* index of the current or next wait
  pc,          \* lodging step: "act" | "check" | "select" | "ended"
  flowDone,    \* the flow's context is cancelled
  faults

svcVars == <<svc, current, toNotify>>
chanVars == <<registered, watcher, events, held, timer>>
vars == <<clock, deliveries, svcVars, chanVars, step, pc, flowDone, faults>>

Waits == 1..Len(Targets)
Time == 0..MaxTime
NoTime == -1       \* before the first event
Undecodable == -2
ChCapacity == 1

Hour(t) == t % HoursPerDay
sameUTCDay(t, u) == t \div HoursPerDay = u \div HoursPerDay

Init ==
  /\ clock = 0 /\ deliveries = <<>>
  /\ svc = "recv" /\ current = NoTime /\ toNotify = {}
  /\ registered = {} /\ watcher = [w \in Waits |-> "none"]
  /\ events = [w \in Waits |-> <<>>] /\ held = [w \in Waits |-> 0]
  /\ timer = [w \in Waits |-> <<>>]
  /\ step = 1 /\ pc = "act" /\ flowDone = FALSE /\ faults = 0
-----------------------------------------------------------------------------
(* timeEventService.Start                                                   *)

\* Mutation: the continue after nackDelivery is missing.
receiveHourChange_keepsBad ==
  /\ svc = "recv" /\ deliveries # <<>>
  /\ deliveries' = Tail(deliveries)
  /\ svc' = "snapshot" /\ current' = Head(deliveries)
  /\ UNCHANGED <<clock, toNotify, chanVars, step, pc, flowDone, faults>>

\* An undecodable event is nacked and forgotten; any other is acked and its
\* time becomes the current time.
receiveHourChange ==
  /\ svc = "recv" /\ deliveries # <<>>
  /\ deliveries' = Tail(deliveries)
  /\ IF Head(deliveries) = Undecodable
     THEN UNCHANGED <<svc, current>>
     ELSE svc' = "snapshot" /\ current' = Head(deliveries)
  /\ UNCHANGED <<clock, toNotify, chanVars, step, pc, flowDone, faults>>

snapshotChannels ==
  /\ svc = "snapshot"
  /\ toNotify' = registered
  /\ svc' = "notify"
  /\ UNCHANGED <<clock, deliveries, current, chanVars, step, pc, flowDone,
                 faults>>

\* Mutation: the send has no default case.
notify_blocks(w) ==
  /\ svc = "notify" /\ w \in toNotify
  /\ Len(events[w]) < ChCapacity
  /\ toNotify' = toNotify \ {w}
  /\ events' = [events EXCEPT ![w] = Append(@, current)]
  /\ UNCHANGED <<clock, deliveries, svc, current, registered, watcher, held,
                 timer, step, pc, flowDone, faults>>

\* A non-blocking send to one channel; a full one is skipped.
notify(w) ==
  /\ svc = "notify" /\ w \in toNotify
  /\ toNotify' = toNotify \ {w}
  /\ events' = IF Len(events[w]) < ChCapacity
               THEN [events EXCEPT ![w] = Append(@, current)]
               ELSE events
  /\ UNCHANGED <<clock, deliveries, svc, current, registered, watcher, held,
                 timer, step, pc, flowDone, faults>>

notified ==
  /\ svc = "notify" /\ toNotify = {}
  /\ svc' = "recv"
  /\ UNCHANGED <<clock, deliveries, current, toNotify, chanVars, step, pc,
                 flowDone, faults>>

\* The deliveries channel is closed or the context of the process is done:
\* the service returns for good.
consumerCloses ==
  /\ svc = "recv" /\ faults < MaxFaults
  /\ faults' = faults + 1
  /\ svc' = "stopped"
  /\ UNCHANGED <<clock, deliveries, current, toNotify, chanVars, step, pc,
                 flowDone>>
-----------------------------------------------------------------------------
(* hourNotificationService.HourNotification, the goroutine of wait w.       *)
Register(w) ==
  /\ watcher[w] = "spawned"
  /\ registered' = registered \cup {w}
  /\ watcher' = [watcher EXCEPT ![w] = "watch"]
  /\ UNCHANGED <<clock, deliveries, svcVars, events, held, timer, step, pc,
                 flowDone, faults>>

\* Mutation: the hour after the target is let through.
receiveEvent_offByOne(w) ==
  /\ watcher[w] = "watch" /\ events[w] # <<>>
  /\ events' = [events EXCEPT ![w] = Tail(@)]
  /\ IF Hour(Head(events[w])) = Hour(Targets[w] + 1)
     THEN /\ held' = [held EXCEPT ![w] = Head(events[w])]
          /\ watcher' = [watcher EXCEPT ![w] = "forward"]
     ELSE UNCHANGED <<held, watcher>>
  /\ UNCHANGED <<clock, deliveries, svcVars, registered, timer, step, pc,
                 flowDone, faults>>

receiveEvent(w) ==
  /\ watcher[w] = "watch" /\ events[w] # <<>>
  /\ events' = [events EXCEPT ![w] = Tail(@)]
  /\ IF Hour(Head(events[w])) = Hour(Targets[w])
     THEN /\ held' = [held EXCEPT ![w] = Head(events[w])]
          /\ watcher' = [watcher EXCEPT ![w] = "forward"]
     ELSE UNCHANGED <<held, watcher>>
  /\ UNCHANGED <<clock, deliveries, svcVars, registered, timer, step, pc,
                 flowDone, faults>>

forward(w) ==
  /\ watcher[w] = "forward" /\ Len(timer[w]) < ChCapacity
  /\ timer' = [timer EXCEPT ![w] = Append(@, held[w])]
  /\ watcher' = [watcher EXCEPT ![w] = "watch"]
  /\ UNCHANGED <<clock, deliveries, svcVars, registered, events, held, step, pc,
                 flowDone, faults>>

\* Mutation: the inner select does not watch the context.
Unregister_outerOnly(w) ==
  /\ watcher[w] = "watch" /\ flowDone
  /\ registered' = registered \ {w}
  /\ watcher' = [watcher EXCEPT ![w] = "gone"]
  /\ UNCHANGED <<clock, deliveries, svcVars, events, held, timer, step, pc,
                 flowDone, faults>>

\* Both selects watch the context; the deferred Unregister runs on return.
Unregister(w) ==
  /\ watcher[w] \in {"watch", "forward"} /\ flowDone
  /\ registered' = registered \ {w}
  /\ watcher' = [watcher EXCEPT ![w] = "gone"]
  /\ UNCHANGED <<clock, deliveries, svcVars, events, held, timer, step, pc,
                 flowDone, faults>>
-----------------------------------------------------------------------------
(* RunLodgingStep.waitUntil                                                 *)

\* go HourNotification(ctx, notifications, target.Hour())
waitUntil ==
  /\ pc = "act" /\ step <= Len(Targets)
  /\ watcher' = [watcher EXCEPT ![step] = "spawned"]
  /\ pc' = "check"
  /\ UNCHANGED <<clock, deliveries, svcVars, registered, events, held, timer,
                 step, flowDone, faults>>

\* CurrentTime: a target already reached ends the wait at once.
checkCurrentTime ==
  /\ pc = "check"
  /\ IF current >= Targets[step]
     THEN pc' = "act" /\ step' = step + 1
     ELSE pc' = "select" /\ UNCHANGED step
  /\ UNCHANGED <<clock, deliveries, svcVars, chanVars, flowDone, faults>>

\* Mutation: the hour is trusted and the day not looked at.
Reached_anyDay(t) == Hour(t) = Hour(Targets[step])

\* An event counts only on the target's own day.
Reached(t) == sameUTCDay(t, Targets[step]) /\ t >= Targets[step]

receiveNotification ==
  /\ pc = "select" /\ timer[step] # <<>>
  /\ timer' = [timer EXCEPT ![step] = Tail(@)]
  /\ IF Reached(Head(timer[step]))
     THEN pc' = "act" /\ step' = step + 1
     ELSE UNCHANGED <<pc, step>>
  /\ UNCHANGED <<clock, deliveries, svcVars, registered, watcher, events, held,
                 flowDone, faults>>

waitCancelled ==
  /\ pc = "select" /\ flowDone
  /\ pc' = "ended"
  /\ UNCHANGED <<clock, deliveries, svcVars, chanVars, step, flowDone, faults>>

\* The step returns, at the end of its plan or because a chat call failed,
\* and the flow's deferred cancel() runs.
flowReturns ==
  /\ pc = "act"
  /\ pc' = "ended"
  /\ flowDone' = TRUE
  /\ UNCHANGED <<clock, deliveries, svcVars, chanVars, step, faults>>
-----------------------------------------------------------------------------
(* The environment: the clock service and process shutdown.                 *)
Tick ==
  /\ clock <= MaxTime
  /\ clock' = clock + 1
  /\ \/ deliveries' = Append(deliveries, clock) /\ UNCHANGED faults
     \/ /\ faults < MaxFaults
        /\ faults' = faults + 1
        /\ deliveries' = Append(deliveries, Undecodable)
  /\ UNCHANGED <<svcVars, chanVars, step, pc, flowDone>>

Cancel ==
  /\ ~flowDone
  /\ flowDone' = TRUE
  /\ UNCHANGED <<clock, deliveries, svcVars, chanVars, step, pc, faults>>

Service == receiveHourChange \/ snapshotChannels \/ notified
             \/ \E w \in Waits : notify(w)
Watcher(w) == Register(w) \/ receiveEvent(w) \/ forward(w) \/ Unregister(w)
Lodging == waitUntil \/ checkCurrentTime \/ receiveNotification \/ waitCancelled
Next ==
  \/ Service \/ consumerCloses \/ \E w \in Waits : Watcher(w)
  \/ Lodging \/ flowReturns \/ Tick \/ Cancel

Spec == Init /\ [][Next]_vars

\* Go runs every goroutine that can run; when the flow returns, and whether
\* hours go by, is not promised.
FairSpec ==
  /\ Spec /\ WF_vars(Service) /\ WF_vars(Lodging)
  /\ \A w \in Waits : WF_vars(Watcher(w))
-----------------------------------------------------------------------------
(* Properties.                                                              *)

\* Types; an undecodable event never becomes the current time or reaches a
\* channel.
TypeOK ==
  /\ clock \in 0..MaxTime + 1
  /\ deliveries \in Seq(Time \cup {Undecodable})
  /\ svc \in {"recv", "snapshot", "notify", "stopped"}
  /\ current \in Time \cup {NoTime}
  /\ toNotify \subseteq Waits /\ registered \subseteq Waits
  /\ watcher \in [Waits -> {"none", "spawned", "watch", "forward", "gone"}]
  /\ events \in [Waits -> Seq(Time)]
  /\ held \in [Waits -> Time]
  /\ timer \in [Waits -> Seq(Time)]
  /\ step \in 1..Len(Targets) + 1
  /\ pc \in {"act", "check", "select", "ended"}
  /\ flowDone \in BOOLEAN
  /\ faults \in 0..MaxFaults

\* The step never acts before its hour: a wait that is over had its target
\* reached by the service's current time, although the hour filter of the
\* goroutine also lets the same hour of an earlier day through.
NeverEarly == \A w \in Waits : step > w => current >= Targets[w]

\* The event loop is never held up by a subscriber, not even by the
\* goroutine of a finished wait, blocked for ever on its full channel.
ServiceNeverStalls == (svc \in {"snapshot", "notify"}) ~> (svc = "recv")

\* When the flow ends, every goroutine it started for a wait returns.
WatchersEnd ==
  flowDone ~> (\A w \in Waits : watcher[w] \in {"none", "gone"})

\* An event of the target hour that entered the goroutine's channel during
\* the wait ends the wait.
OfferedHourEndsWait ==
  \A w \in Waits :
    (/\ pc = "select" /\ step = w
     /\ events[w] # <<>> /\ Head(events[w]) = Targets[w])
      ~> (step > w \/ pc = "ended")

\* What the README says: the step waits until the hour "or after", so a wait
\* whose target the current time has reached ends.
ReachedEndsWait ==
  \A w \in Waits :
    (pc = "select" /\ step = w /\ current >= Targets[w])
      ~> (step > w \/ pc = "ended")
=============================================================================
