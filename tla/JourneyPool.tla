---------------------------- MODULE JourneyPool -----------------------------
(***************************************************************************)
(* The process: main acquires its resources, runJourneys keeps             *)
(* concurrencyLevel journeys going, and after a signal the resources are   *)
(* released in reverse order.  Journeys are alike, so the model counts the *)
(* goroutines in each stage; what a journey does is GuestJourney.          *)
(***************************************************************************)
EXTENDS Integers, Sequences

CONSTANT concurrencyLevel

ASSUME PoolAssumption == concurrencyLevel \in Nat

VARIABLES
  main,       \* "startup" | "spawn" | "run" | "cleanup" | "exited"
  cleanup,    \* number of functions on main's cleanup list
  started,    \* main's flag of that name
  spawned,    \* i of the loop that starts the first journeys
  building,   \* goroutines inside factory()
  running,    \* goroutines inside Start
  finishing,  \* goroutines about to send to finishNotification
  tokens,     \* elements of finishNotification, of capacity concurrencyLevel
  ctxDone

poolVars == <<building, running, finishing, tokens>>
vars == <<main, cleanup, started, spawned, poolVars, ctxDone>>

Resources == <<"telemetry", "rabbitmq", "redis", "clock", "probe">>

Init ==
  /\ main = "startup" /\ cleanup = 0 /\ started = FALSE /\ spawned = 0
  /\ building = 0 /\ running = 0 /\ finishing = 0 /\ tokens = 0
  /\ ctxDone = FALSE
-----------------------------------------------------------------------------
(* main                                                                     *)

acquire ==
  /\ main = "startup" /\ cleanup < Len(Resources)
  /\ cleanup' = cleanup + 1
  /\ UNCHANGED <<main, started, spawned, poolVars, ctxDone>>

\* A resource other than the probe server, or the time event service, cannot
\* be had: os.Exit ends the process there and then, without the deferred
\* calls of main.
exitOnError ==
  /\ main = "startup" /\ (cleanup < Len(Resources) => Resources[cleanup + 1] # "probe")
  /\ main' = "exited"
  /\ UNCHANGED <<cleanup, started, spawned, poolVars, ctxDone>>

startService ==
  /\ main = "startup" /\ cleanup = Len(Resources)
  /\ started' = TRUE
  /\ main' = "spawn"
  /\ UNCHANGED <<cleanup, spawned, poolVars, ctxDone>>

startFirst ==
  /\ main = "spawn" /\ spawned < concurrencyLevel
  /\ spawned' = spawned + 1
  /\ building' = building + 1
  /\ UNCHANGED <<main, cleanup, started, running, finishing, tokens, ctxDone>>

allStarted ==
  /\ main = "spawn" /\ spawned = concurrencyLevel
  /\ main' = "run"
  /\ UNCHANGED <<cleanup, started, spawned, poolVars, ctxDone>>

\* Mutation: a new journey is started without receiving the notification.
startNext_peeks ==
  /\ main = "run" /\ tokens > 0
  /\ building' = building + 1
  /\ UNCHANGED <<main, cleanup, started, spawned, running, finishing, tokens, ctxDone>>

startNext ==
  /\ main = "run" /\ tokens > 0
  /\ tokens' = tokens - 1
  /\ building' = building + 1
  /\ UNCHANGED <<main, cleanup, started, spawned, running, finishing, ctxDone>>

\* runJourneys returns and leaves the journeys to themselves.
stopPool ==
  /\ main = "run" /\ ctxDone
  /\ main' = "cleanup"
  /\ UNCHANGED <<cleanup, started, spawned, poolVars, ctxDone>>

\* Mutation: the loop stops at the first error.
runCleanup_stops ==
  /\ main = "cleanup"
  /\ \/ cleanup > 0 /\ cleanup' = cleanup - 1 /\ UNCHANGED main
     \/ main' = "exited" /\ UNCHANGED cleanup
  /\ UNCHANGED <<started, spawned, poolVars, ctxDone>>

\* The functions are called from the last to the first, failing or not; then
\* main returns.
runCleanup ==
  /\ main = "cleanup"
  /\ \/ cleanup > 0 /\ cleanup' = cleanup - 1 /\ UNCHANGED main
     \/ cleanup = 0 /\ main' = "exited" /\ UNCHANGED cleanup
  /\ UNCHANGED <<started, spawned, poolVars, ctxDone>>
-----------------------------------------------------------------------------
(* The goroutines of startJourney; they end with the process.               *)

factorySucceeds ==
  /\ main # "exited" /\ building > 0
  /\ building' = building - 1 /\ running' = running + 1
  /\ UNCHANGED <<main, cleanup, started, spawned, finishing, tokens, ctxDone>>

\* Mutation: the goroutine returns without a notification.
factoryFails_silent ==
  /\ main # "exited" /\ building > 0
  /\ building' = building - 1
  /\ UNCHANGED <<main, cleanup, started, spawned, running, finishing, tokens, ctxDone>>

factoryFails ==
  /\ main # "exited" /\ building > 0
  /\ building' = building - 1 /\ finishing' = finishing + 1
  /\ UNCHANGED <<main, cleanup, started, spawned, running, tokens, ctxDone>>

\* Start returns, with or without an error.
journeyEnds ==
  /\ main # "exited" /\ running > 0
  /\ running' = running - 1 /\ finishing' = finishing + 1
  /\ UNCHANGED <<main, cleanup, started, spawned, building, tokens, ctxDone>>

\* A send to the buffered channel.
finishNotification ==
  /\ main # "exited" /\ finishing > 0 /\ tokens < concurrencyLevel
  /\ finishing' = finishing - 1 /\ tokens' = tokens + 1
  /\ UNCHANGED <<main, cleanup, started, spawned, building, running, ctxDone>>

\* SIGINT or SIGTERM.
Signal ==
  /\ ~ctxDone /\ main # "exited"
  /\ ctxDone' = TRUE
  /\ UNCHANGED <<main, cleanup, started, spawned, poolVars>>

Startup == acquire \/ exitOnError \/ startService
Main == Startup \/ startFirst \/ allStarted \/ stopPool \/ runCleanup
Factory == factorySucceeds \/ factoryFails
Next ==
  \/ Main \/ startNext \/ Factory \/ journeyEnds \/ finishNotification \/ Signal

Spec == Init /\ [][Next]_vars

\* Go runs main and the goroutines; a select that can always take ctx.Done
\* or the notification does so in the end.  When a journey ends is not
\* promised.
FairSpec ==
  /\ Spec /\ WF_vars(Main) /\ WF_vars(startNext)
  /\ WF_vars(Factory) /\ WF_vars(finishNotification)
-----------------------------------------------------------------------------
(* Properties.                                                              *)

\* Types; the cleanup loop stays within its list.
TypeOK ==
  /\ main \in {"startup", "spawn", "run", "cleanup", "exited"}
  /\ cleanup \in 0..Len(Resources) /\ started \in BOOLEAN
  /\ spawned \in 0..concurrencyLevel
  /\ building \in Nat /\ running \in Nat /\ finishing \in Nat
  /\ tokens \in 0..concurrencyLevel
  /\ ctxDone \in BOOLEAN

\* Never more journeys than configured, and a goroutine that has ended finds
\* room for its notification: none is left blocked, not even when runJourneys
\* has returned and nobody receives.
WithinLevel ==
  /\ building + running <= concurrencyLevel
  /\ finishing > 0 => tokens < concurrencyLevel

\* A process that got through its startup releases every resource before it
\* exits, whatever the functions on the list return.
ShutdownReleases == main = "exited" /\ started => cleanup = 0

\* The pool does not run dry: when all journeys have ended, one is started
\* again, however their factories and they themselves ended.
PoolRefills ==
  (main = "run" /\ building + running = 0) ~> (building + running > 0 \/ ctxDone)
=============================================================================
