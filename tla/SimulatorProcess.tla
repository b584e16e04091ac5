-------------------------- MODULE SimulatorProcess --------------------------
(***************************************************************************)
(* The process with its goroutines and the AMQP connection they share:     *)
(* main, the time event service and the journeys, each with a consumer     *)
(* (mq.RabbitmqConsumer) whose calls open and reopen channels through      *)
(* RabbitConnection.  JourneyPool, which only counts journeys, is          *)
(* implemented by it.                                                      *)
(*                                                                         *)
(* A journey is reduced to the calls of its consumer; it may end anywhere  *)
(* between them.  The callers of RabbitConnection are the slots of the     *)
(* pool and Hours, whose consumer main sets up and the service uses.       *)
(***************************************************************************)
EXTENDS RabbitConnection, Sequences

CONSTANT Hours

Slots == Callers \ {Hours}
concurrencyLevel == Cardinality(Slots)

ASSUME ProcessAssumption == Hours \in Callers /\ IsFiniteSet(Callers)

VARIABLES
  main, cleanup, started, spawned, tokens, ctxDone,   \* as in JourneyPool
  stage,   \* goroutine of a slot: "none" | "building" | "running" | "finishing"
  op,      \* next call of a consumer, "done" when it consumes, or "failed"
  chan     \* the connection its channel is on; 0: nil or closed

connVars == <<lock, conn, up, closed, callVars, attempt, closer, drops>>
mainVars == <<main, cleanup, started, spawned, ctxDone>>
taskVars == <<stage, tokens>>
mqVars == <<op, chan>>
allVars == <<connVars, mainVars, taskVars, mqVars>>

In(s) == {g \in Slots : stage[g] = s}
Pool == INSTANCE JourneyPool WITH
  building <- Cardinality(In("building")), running <- Cardinality(In("running")),
  finishing <- Cardinality(In("finishing"))

ProcessInit ==
  /\ Init
  /\ main = "startup" /\ cleanup = 0 /\ started = FALSE /\ spawned = 0
  /\ tokens = 0 /\ ctxDone = FALSE
  /\ stage = [g \in Slots |-> "none"]
  /\ op = [c \in Callers |-> "new"] /\ chan = [c \in Callers |-> 0]
-----------------------------------------------------------------------------
(* The calls of a consumer.                                                 *)

\* Hours belongs to main inside NewRabbitmq and then to the service.
InNewRabbitmq ==
  main = "startup" /\ cleanup = 1 /\ closer \in {"dialing", "running"}
Active(c) ==
  /\ main # "exited" /\ op[c] \notin {"done", "failed"}
  /\ IF c = Hours
     THEN IF op[c] = "consume" THEN started ELSE InNewRabbitmq
     ELSE stage[c] \in {"building", "running"}

After(o) == CASE o = "new" -> "declare" [] o = "declare" -> "bind"
              [] o = "bind" -> "consume" [] o = "consume" -> "done"

\* The goroutine of a journey goes to s; the service has no stage.
Goes(c, s) == IF c \in Slots THEN [stage EXCEPT ![c] = s] ELSE stage

\* A connection that goes takes its channels with it.
stillOpen == [c \in Callers |-> IF chan[c] \in up' THEN chan[c] ELSE 0]

\* NewRabbitmqConsumer opens a channel; the other calls do so when it is
\* nil or closed.
reopenChannel(c) ==
  /\ Active(c) /\ chan[c] = 0 /\ openChannel(c)
  /\ UNCHANGED <<mainVars, taskVars, mqVars>>

\* openChannel inside a call; at its end it sets the channel.
opening(c) ==
  /\ main # "exited"
  /\ \/ channelOpens(c) /\ chan' = [chan EXCEPT ![c] = got[c]]
     \/ (openConnection(c) \/ dialSucceeds(c) \/ dialFails(c) \/ channelFails(c))
        /\ UNCHANGED chan
  /\ UNCHANGED <<mainVars, taskVars, op>>

\* The call succeeds on a channel that is open; NewRabbitmqConsumer makes none.
callSucceeds(c) ==
  /\ Active(c)
  /\ \/ pc[c] = "ok" /\ returned(c)
     \/ pc[c] = "idle" /\ op[c] # "new" /\ UNCHANGED connVars
  /\ op[c] = "new" \/ chan[c] \in up
  /\ op' = [op EXCEPT ![c] = After(@)]
  /\ stage' = Goes(c, "running")
  /\ UNCHANGED <<mainVars, tokens, chan>>

\* No channel, or the call fails on it, which may have been closed since it
\* was looked at; SetupCommunication then closes the channel and Start
\* returns.  A factory can also fail before it comes to the consumer.
callFails(c) ==
  /\ Active(c)
  /\ \/ pc[c] = "err" /\ returned(c)
     \/ pc[c] = "ok" /\ op[c] # "new" /\ returned(c)
     \/ pc[c] = "idle" /\ (op[c] = "new" => c # Hours) /\ UNCHANGED connVars
  /\ op' = [op EXCEPT ![c] = "failed"]
  /\ chan' = [chan EXCEPT ![c] = IF c \in Slots THEN 0 ELSE @]
  /\ stage' = Goes(c, "finishing")
  /\ UNCHANGED <<mainVars, tokens>>
-----------------------------------------------------------------------------
(* The goroutines of startJourney.                                          *)

startJourney ==
  /\ \E g \in In("none") : stage' = [stage EXCEPT ![g] = "building"]
  /\ UNCHANGED mqVars

\* Mutation: the goroutine returns without a notification.
journeyEnds_silent(g) ==
  /\ main # "exited" /\ stage[g] = "running" /\ pc[g] = "idle"
  /\ op[g] \in {"declare", "done"}
  /\ stage' = [stage EXCEPT ![g] = "none"]
  /\ op' = [op EXCEPT ![g] = "new"] /\ chan' = [chan EXCEPT ![g] = 0]
  /\ UNCHANGED <<connVars, mainVars, tokens>>

\* Start returns: an error between the calls, or after the cleanup, which
\* closes the channel unless it stopped earlier.  A journey that fails before
\* its communication is set up leaves the channel open.
journeyEnds(g) ==
  /\ main # "exited" /\ stage[g] = "running" /\ pc[g] = "idle"
  /\ op[g] \in {"declare", "done"}
  /\ stage' = [stage EXCEPT ![g] = "finishing"]
  /\ chan' \in IF op[g] = "done" THEN {chan, [chan EXCEPT ![g] = 0]} ELSE {chan}
  /\ UNCHANGED <<connVars, mainVars, tokens, op>>

finishNotification(g) ==
  /\ main # "exited" /\ stage[g] = "finishing" /\ tokens < concurrencyLevel
  /\ stage' = [stage EXCEPT ![g] = "none"] /\ tokens' = tokens + 1
  /\ op' = [op EXCEPT ![g] = "new"] /\ chan' = [chan EXCEPT ![g] = 0]
  /\ UNCHANGED <<connVars, mainVars>>
-----------------------------------------------------------------------------
(* main                                                                     *)

\* Telemetry, Redis, clock and probe server.
acquire ==
  /\ main = "startup" /\ cleanup < Len(Pool!Resources)
  /\ Pool!Resources[cleanup + 1] # "rabbitmq"
  /\ cleanup' = cleanup + 1
  /\ UNCHANGED <<connVars, main, started, spawned, ctxDone, taskVars, mqVars>>

dial ==
  /\ InNewRabbitmq /\ NewRabbitMqConnection
  /\ UNCHANGED <<mainVars, taskVars, mqVars>>

\* NewRabbitmq has declared and bound the queue of the hour events.
NewRabbitmq ==
  /\ InNewRabbitmq /\ op[Hours] = "consume"
  /\ cleanup' = cleanup + 1
  /\ UNCHANGED <<connVars, main, started, spawned, ctxDone, taskVars, mqVars>>

\* os.Exit; a NewRabbitmq that failed has released what it had before.
exitOnError ==
  /\ main = "startup"
  /\ CASE cleanup = Len(Pool!Resources) -> TRUE
       [] Pool!Resources[cleanup + 1] = "rabbitmq" -> closer \in {"failed", "closed"}
       [] OTHER -> Pool!Resources[cleanup + 1] # "probe"
  /\ main' = "exited"
  /\ UNCHANGED <<connVars, cleanup, started, spawned, ctxDone, taskVars, mqVars>>

startService ==
  /\ main = "startup" /\ cleanup = Len(Pool!Resources)
  /\ started' = TRUE /\ main' = "spawn"
  /\ UNCHANGED <<connVars, cleanup, spawned, ctxDone, taskVars, mqVars>>

startFirst ==
  /\ main = "spawn" /\ spawned < concurrencyLevel /\ startJourney
  /\ spawned' = spawned + 1
  /\ UNCHANGED <<connVars, main, cleanup, started, tokens, ctxDone>>

runJourneys ==
  /\ \/ main = "spawn" /\ spawned = concurrencyLevel /\ main' = "run"
     \/ main = "run" /\ ctxDone /\ main' = "cleanup"
  /\ UNCHANGED <<connVars, cleanup, started, spawned, ctxDone, taskVars, mqVars>>

startNext ==
  /\ main = "run" /\ tokens > 0 /\ startJourney
  /\ tokens' = tokens - 1
  /\ UNCHANGED <<connVars, mainVars>>

\* The function of RabbitMQ, in NewRabbitmq or on main's list: CloseChannel
\* of the hour consumer, then Close, which waits for mu.
ConnectionClose ==
  /\ \/ main = "startup" /\ op[Hours] = "failed"
     \/ main = "cleanup" /\ cleanup = 2
  /\ \/ shutdown /\ chan' = [chan EXCEPT ![Hours] = 0]
     \/ Close /\ chan' = stillOpen
  /\ UNCHANGED <<mainVars, taskVars, op>>

\* Mutation: Close is not waited for.
runCleanup_early ==
  /\ main = "cleanup"
  /\ \/ cleanup > 0 /\ cleanup' = cleanup - 1 /\ UNCHANGED main
     \/ cleanup = 0 /\ main' = "exited" /\ UNCHANGED cleanup
  /\ UNCHANGED <<connVars, started, spawned, ctxDone, taskVars, mqVars>>

runCleanup ==
  /\ main = "cleanup"
  /\ \/ /\ cleanup > 0 /\ (cleanup = 2 => closer = "closed")
        /\ cleanup' = cleanup - 1 /\ UNCHANGED main
     \/ cleanup = 0 /\ main' = "exited" /\ UNCHANGED cleanup
  /\ UNCHANGED <<connVars, started, spawned, ctxDone, taskVars, mqVars>>

Signal ==
  /\ ~ctxDone /\ main # "exited" /\ ctxDone' = TRUE
  /\ UNCHANGED <<connVars, main, cleanup, started, spawned, taskVars, mqVars>>

Lost ==
  /\ main # "exited" /\ Drop /\ chan' = stillOpen
  /\ UNCHANGED <<mainVars, taskVars, op>>
-----------------------------------------------------------------------------
Consumer(c) == reopenChannel(c) \/ opening(c) \/ callSucceeds(c) \/ callFails(c)
Main ==
  \/ acquire \/ dial \/ NewRabbitmq \/ exitOnError \/ startService
  \/ startFirst \/ runJourneys \/ ConnectionClose \/ runCleanup
ProcessNext ==
  \/ Main \/ startNext \/ Signal \/ Lost
  \/ \E c \in Callers : Consumer(c)
  \/ \E g \in Slots : journeyEnds(g) \/ finishNotification(g)

ProcessSpec == ProcessInit /\ [][ProcessNext]_allVars

\* Main and the goroutines run, dials and calls return, and a mutex is not
\* withheld for ever from a goroutine that waits for it (hence strong
\* fairness).  That a journey ends, or another is started, is not needed.
FairProcess ==
  /\ ProcessSpec /\ SF_allVars(Main) /\ \A c \in Callers : SF_allVars(Consumer(c))
-----------------------------------------------------------------------------
(* Properties.                                                              *)

\* The goroutines with their consumers implement the counting JourneyPool:
\* what is proved of it for every level holds of the process.
PoolSpec == Pool!Spec

\* A process that shut down, or whose NewRabbitmq failed, leaves no open
\* connection behind, also when goroutines were reconnecting at the time.
ExitDisconnects == main = "exited" /\ (started \/ cleanup < 2) => up = {}

\* A factory returns, although the time event service and other journeys
\* lose and dial the same connection in turn with it.
BuildEnds ==
  \A g \in Slots : (stage[g] = "building") ~> (stage[g] # "building" \/ main = "exited")

\* A signal ends the process although journeys hang, and although Close has
\* to wait for goroutines that dial with the mutex held.
SignalEndsProcess == ctxDone ~> (main = "exited")
=============================================================================
