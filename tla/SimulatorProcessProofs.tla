----------------------- MODULE SimulatorProcessProofs -----------------------
(***************************************************************************)
(* The composed process, for every number of journeys and of losses: it    *)
(* uses the connection only as RabbitConnection allows, it implements      *)
(* JourneyPool, and it leaves no connection open behind it.  First the     *)
(* connection itself: it is never leaked and never reopened after Close,   *)
(* for every set of callers and every number of drops and dials.           *)
(***************************************************************************)
EXTENDS SimulatorProcess, FiniteSetTheorems, TLAPS

USE RabbitAssumption DEF vars, callVars
-----------------------------------------------------------------------------
(* The connection.                                                          *)
(*                                                                         *)
(* Its two properties hold because mu is held from the test of closed and  *)
(* conn to the end of the dial: a caller that dials is the holder of mu,   *)
(* and until it is done nothing is open and Close has not run.  The        *)
(* constructor dials without mu; it can, for nobody knows of it yet.       *)

Exclusive ==
  \A c \in Callers : pc[c] = "dial" => lock = c /\ up = {} /\ ~closed

\* While the constructor dials, and after it has failed, there is no caller.
Unshared ==
  closer \in {"dialing", "failed"} =>
    conn = 0 /\ up = {} /\ ~closed /\ \A c \in Callers : pc[c] = "idle"

RInv == TypeOK /\ OnlyCurrentIsOpen /\ ClosedForGood /\ Exclusive /\ Unshared

\* Before the constructor has dialled, nothing is open.
LEMMA RInvInit == Init => RInv
<1> SUFFICES ASSUME Init PROVE RInv
  OBVIOUS
<1>1. 1 \in 0..rabbitDialAttempts /\ 0 \in 0..MaxDrops
  OBVIOUS
<1>2. up \in SUBSET Nat
  BY DEF Init
<1>3. TypeOK
  BY <1>1, <1>2, ZenonT(60) DEF Init, TypeOK
<1> QED
  BY <1>3 DEF Init, RInv, OnlyCurrentIsOpen, ClosedForGood, Exclusive, Unshared

\* Every step of a caller, of the closer and of the broker preserves it.
LEMMA RInvNext == RInv /\ [Next]_vars => RInv'
<1> SUFFICES ASSUME RInv, [Next]_vars PROVE RInv'
  OBVIOUS
<1> USE DEF RInv, TypeOK, OnlyCurrentIsOpen, ClosedForGood, Exclusive, Unshared
<1>1. ASSUME NEW c \in Callers, openChannel(c) PROVE RInv'
  BY <1>1 DEF openChannel
<1>2. ASSUME NEW c \in Callers, openConnection(c) PROVE RInv'
  <2>1. CASE closed
    BY <1>2, <2>1 DEF openConnection
  <2>2. CASE ~closed /\ conn \in up
    BY <1>2, <2>2 DEF openConnection
  <2>3. CASE ~closed /\ conn \notin up
    <3>1. up = {} /\ \A d \in Callers : pc[d] # "dial"
      BY <1>2, <2>3 DEF openConnection
    <3> QED
      BY <1>2, <2>3, <3>1 DEF openConnection
  <2> QED
    BY <2>1, <2>2, <2>3
<1>3. ASSUME NEW c \in Callers, dialSucceeds(c) PROVE RInv'
  <2>1. \A d \in Callers : d # c => pc[d] # "dial"
    BY <1>3 DEF dialSucceeds
  <2> QED
    BY <1>3, <2>1 DEF dialSucceeds
<1>4. ASSUME NEW c \in Callers, dialFails(c) PROVE RInv'
  <2>1. \A d \in Callers : d # c => pc[d] # "dial"
    BY <1>4 DEF dialFails
  <2> QED
    BY <1>4, <2>1 DEF dialFails
<1>5. ASSUME NEW c \in Callers, channelOpens(c) PROVE RInv'
  BY <1>5 DEF channelOpens
<1>6. ASSUME NEW c \in Callers, channelFails(c) PROVE RInv'
  BY <1>6, ZenonT(60) DEF channelFails
<1>7. CASE shutdown
  BY <1>7 DEF shutdown
<1>8. CASE Close
  <2>1. \A d \in Callers : pc[d] # "dial"
    BY <1>8 DEF Close
  <2> QED
    BY <1>8, <2>1 DEF Close
<1>9. CASE Drop
  BY <1>9 DEF Drop
<1>10. CASE NewRabbitMqConnection
  <2>1. 0 \in 0..rabbitDialAttempts
    OBVIOUS
  <2>2. CASE closer' = "running" /\ conn' = 1 /\ up' = {1} /\ attempt' = 0
    <3>1. {1} \in SUBSET Nat /\ \A c \in Callers : pc'[c] = "idle"
      BY <1>10 DEF NewRabbitMqConnection
    <3> QED
      BY <1>10, <2>1, <2>2, <3>1 DEF NewRabbitMqConnection
  <2>3. CASE closer' # "running" /\ UNCHANGED <<conn, up>>
    BY <1>10, <2>1, <2>3 DEF NewRabbitMqConnection
  <2> QED
    BY <1>10, <2>2, <2>3 DEF NewRabbitMqConnection
<1>11. ASSUME NEW c \in Callers, returned(c) PROVE RInv'
  BY <1>11 DEF returned
<1>12. CASE UNCHANGED vars
  BY <1>12
<1> QED
  BY <1>1, <1>2, <1>3, <1>4, <1>5, <1>6, <1>7, <1>8, <1>9, <1>10,
     <1>11, <1>12, SMTT(60) DEF Next, Call

\* RInv is an invariant of the connection.
LEMMA Invariance == Spec => []RInv
  BY RInvInit, RInvNext, PTL DEF Spec
-----------------------------------------------------------------------------
\* Type correctness of RabbitConnection, with the bound on the dials.
THEOREM TypeCorrect == Spec => []TypeOK
<1>1. RInv => TypeOK
  BY DEF RInv
<1> QED
  BY <1>1, Invariance, PTL

\* However many goroutines reconnect, no open connection is lost sight of.
THEOREM NoConnectionLeaks == Spec => []OnlyCurrentIsOpen
<1>1. RInv => OnlyCurrentIsOpen
  BY DEF RInv
<1> QED
  BY <1>1, Invariance, PTL

\* After Close no goroutine that is still running opens a connection again.
THEOREM CloseIsFinal == Spec => []ClosedForGood
<1>1. RInv => ClosedForGood
  BY SMTT(60) DEF RInv
<1> QED
  BY <1>1, Invariance, PTL
-----------------------------------------------------------------------------
(* The connection in the process.                                           *)
HIDE RabbitAssumption
USE ProcessAssumption DEF connVars, mainVars, taskVars, mqVars, allVars

\* Whatever main, the service and the journeys do, to the connection it is
\* one of its own steps or none.
LEMMA ConnectionStep == [ProcessNext]_allVars => [Next]_vars
<1> SUFFICES ASSUME [ProcessNext]_allVars PROVE [Next]_vars
  OBVIOUS
<1>1. ASSUME NEW c \in Callers, Consumer(c) PROVE [Next]_vars
  <2>1. CASE reopenChannel(c)
    BY <2>1 DEF reopenChannel, Next
  <2>2. CASE opening(c)
    BY <2>2, SMTT(60) DEF opening, Next, Call
  <2>3. CASE callSucceeds(c)
    BY <2>3 DEF callSucceeds, Next
  <2>4. CASE callFails(c)
    BY <2>4, SMTT(60) DEF callFails, Next
  <2> QED
    BY <1>1, <2>1, <2>2, <2>3, <2>4 DEF Consumer
<1>2. ASSUME NEW g \in Slots, journeyEnds(g) \/ finishNotification(g)
      PROVE [Next]_vars
  BY <1>2 DEF journeyEnds, finishNotification
<1>3. CASE acquire \/ NewRabbitmq \/ exitOnError \/ startService
  BY <1>3 DEF acquire, NewRabbitmq, exitOnError, startService
<1>4. CASE startFirst \/ runJourneys \/ runCleanup \/ startNext \/ Signal
  BY <1>4 DEF startFirst, runJourneys, runCleanup, startNext, Signal
<1>5. CASE dial
  BY <1>5 DEF dial, Next
<1>6. CASE ConnectionClose
  BY <1>6 DEF ConnectionClose, Next
<1>7. CASE Lost
  BY <1>7 DEF Lost, Next
<1>8. CASE UNCHANGED allVars
  BY <1>8
<1> QED
  BY <1>1, <1>2, <1>3, <1>4, <1>5, <1>6, <1>7, <1>8, SMTT(60) DEF ProcessNext, Main

\* In the process too, only the connection the struct holds can be open, and
\* none is after Close.
THEOREM ProcessConnection == ProcessSpec => [](OnlyCurrentIsOpen /\ ClosedForGood)
<1>1. ProcessInit => Init
  BY DEF ProcessInit
<1>2. RInv => OnlyCurrentIsOpen /\ ClosedForGood
  BY DEF RInv
<1> QED
  BY <1>1, <1>2, ConnectionStep, RInvInit, RInvNext, PTL DEF ProcessSpec
-----------------------------------------------------------------------------
(* The end of the process.                                                  *)

\* What main relies on: the connection is untouched before NewRabbitmq, is
\* there from the start of the service on, and is closed when runCleanup has
\* passed it.
Owned ==
  /\ main \in {"startup", "spawn", "run", "cleanup", "exited"}
  /\ cleanup \in 0..5 /\ started \in BOOLEAN
  /\ main = "startup" => ~started
  /\ main = "startup" /\ cleanup = 0 => closer = "dialing"
  /\ main \in {"spawn", "run"} => cleanup = 5
  /\ main = "cleanup" /\ cleanup < 2 => closer = "closed"
  /\ closer = "closed" => closed

EInv == RInv /\ Owned /\ ExitDisconnects

\* The list of resources; RabbitMQ is the second.
LEMMA Second ==
  /\ Len(Pool!Resources) = 5 /\ Pool!Resources[2] = "rabbitmq"
  /\ Pool!Resources[1] # "rabbitmq"
  BY DEF Pool!Resources

\* Nothing is open before the constructor has dialled.
LEMMA EInvInit == ProcessInit => EInv
<1> SUFFICES ASSUME ProcessInit PROVE EInv
  OBVIOUS
<1>1. RInv
  BY RInvInit DEF ProcessInit
<1>2. 0 \in 0..5
  BY SMTT(60)
<1> QED
  BY <1>1, <1>2, Zenon DEF ProcessInit, Init, EInv, Owned, ExitDisconnects

\* Only main closes the connection, and it exits after that or when there is
\* none.
LEMMA EInvNext == EInv /\ [ProcessNext]_allVars => EInv'
<1> SUFFICES ASSUME EInv, [ProcessNext]_allVars PROVE EInv'
  OBVIOUS
<1>0. RInv'
  BY ConnectionStep, RInvNext DEF EInv
<1> USE DEF EInv, Owned, ExitDisconnects
<1>1. ASSUME NEW c \in Callers, Consumer(c) PROVE EInv'
  <2>1. main # "exited" /\ UNCHANGED mainVars
    BY <1>1, SMTT(60) DEF Consumer, reopenChannel, opening, callSucceeds, callFails, Active
  <2>2. UNCHANGED <<closer, closed>>
    BY <1>1, SMTT(60) DEF Consumer, reopenChannel, opening, callSucceeds, callFails,
       openChannel, openConnection, dialSucceeds, dialFails, channelOpens,
       channelFails, returned, vars, callVars
  <2> QED
    BY <1>0, <2>1, <2>2, SMTT(60)
<1>2. ASSUME NEW g \in Slots, journeyEnds(g) \/ finishNotification(g) PROVE EInv'
  <2>1. UNCHANGED <<mainVars, closer, closed, up>>
    BY <1>2 DEF journeyEnds, finishNotification, mainVars
  <2> QED
    BY <1>0, <2>1, ZenonT(60) DEF mainVars
<1>3. CASE acquire \/ NewRabbitmq
  BY <1>0, <1>3, Second DEF acquire, NewRabbitmq, InNewRabbitmq
<1>4. CASE exitOnError
  <2>1. UNCHANGED connVars /\ main = "startup" /\ main' = "exited"
    BY <1>4 DEF exitOnError
  <2>2. cleanup = 0 \/ cleanup = 1 \/ cleanup >= 2
    OBVIOUS
  <2>3. cleanup < 2 => up = {}
    BY <1>4, <2>2, Second DEF exitOnError, RInv, Unshared, ClosedForGood
  <2> QED
    BY <1>0, <1>4, <2>1, <2>3 DEF exitOnError
<1>5. CASE startService
  BY <1>0, <1>5, Second DEF startService
<1>6. CASE startFirst \/ startNext \/ Signal
  BY <1>0, <1>6 DEF startFirst, startNext, Signal
<1>7. CASE runJourneys
  BY <1>0, <1>7 DEF runJourneys
<1>8. CASE runCleanup
  BY <1>0, <1>8 DEF runCleanup, RInv, ClosedForGood
<1>9. CASE dial
  BY <1>0, <1>9 DEF dial, NewRabbitMqConnection, InNewRabbitmq
<1>10. CASE ConnectionClose
  BY <1>0, <1>10 DEF ConnectionClose, shutdown, Close
<1>11. CASE Lost
  BY <1>0, <1>11 DEF Lost, Drop
<1>12. CASE UNCHANGED allVars
  BY <1>0, <1>12
<1> QED
  BY <1>1, <1>2, <1>3, <1>4, <1>5, <1>6, <1>7, <1>8, <1>9, <1>10, <1>11, <1>12, SMTT(60)
     DEF ProcessNext, Main

\* However many journeys are reconnecting, a process that shut down, or whose
\* NewRabbitmq failed, leaves no open connection.
THEOREM ExitIsClean == ProcessSpec => []ExitDisconnects
<1>1. EInv => ExitDisconnects
  BY DEF EInv
<1> QED
  BY <1>1, EInvInit, EInvNext, PTL DEF ProcessSpec
-----------------------------------------------------------------------------
(* The pool.                                                                *)

Stages == {"none", "building", "running", "finishing"}
Staged == stage \in [Slots -> Stages]

Count(s) == Cardinality(In(s))

\* A set of slots is finite.
LEMMA InFinite == \A s \in Stages : IsFiniteSet(In(s)) /\ Count(s) \in Nat
<1>1. IsFiniteSet(Slots)
  BY FS_Difference, Zenon DEF Slots
<1>2. \A s \in Stages : In(s) \subseteq Slots
  BY DEF In
<1> QED
  BY <1>1, <1>2, FS_Subset, FS_CardinalityType DEF Count

\* A goroutine that goes from one stage to another is counted there.
LEMMA Moves ==
  ASSUME Staged, NEW g \in Slots, NEW s \in Stages, NEW t \in Stages \ {s},
         stage[g] = s, stage' = [stage EXCEPT ![g] = t]
  PROVE  /\ Staged'
         /\ Count(t)' = Count(t) + 1 /\ Count(s)' = Count(s) - 1
         /\ Count(s) > 0
         /\ \A u \in Stages \ {s, t} : Count(u)' = Count(u)
<1>1. In(t)' = In(t) \cup {g} /\ g \notin In(t)
  BY DEF In, Staged
<1>2. In(s)' = In(s) \ {g} /\ g \in In(s)
  BY DEF In, Staged
<1>3. \A u \in Stages \ {s, t} : In(u)' = In(u)
  BY DEF In, Staged
<1>4. Count(t)' = Count(t) + 1
  BY <1>1, InFinite, FS_AddElement, Zenon DEF Count
<1>5. Count(s)' = Count(s) - 1
  <2>1. Cardinality(In(s) \ {g}) = Cardinality(In(s)) - 1
    BY <1>2, InFinite, FS_RemoveElement, Zenon
  <2> QED
    BY <1>2, <2>1, Zenon DEF Count
<1>6. Count(s) > 0
  BY <1>2, InFinite, FS_EmptySet, SMTT(60) DEF Count
<1>7. \A u \in Stages \ {s, t} : Count(u)' = Count(u)
  BY <1>3 DEF Count
<1>8. Staged'
  BY DEF Staged
<1> QED
  BY <1>4, <1>5, <1>6, <1>7, <1>8

\* A step that leaves the stages alone leaves the counts alone.
LEMMA Stays ==
  UNCHANGED stage =>
    UNCHANGED <<Cardinality(In("building")), Cardinality(In("running")),
                Cardinality(In("finishing"))>>
  BY SMTT(60) DEF In

\* Every step of a goroutine is one of the counting pool, or none.
LEMMA GoroutineStep ==
  ASSUME Staged, NEW c \in Callers,
         \/ Consumer(c)
         \/ c \in Slots /\ (journeyEnds(c) \/ finishNotification(c))
  PROVE  Staged' /\ [Pool!Next]_(Pool!vars)
<1> USE DEF Pool!vars, Pool!poolVars
<1>1. CASE UNCHANGED <<stage, mainVars, tokens>>
  BY <1>1, Stays, SMTT(60) DEF Staged
<1>2. ASSUME c \in Slots, main # "exited", stage[c] = "building",
             stage' = [stage EXCEPT ![c] = "running"], UNCHANGED <<mainVars, tokens>>
      PROVE  Staged' /\ Pool!factorySucceeds
  <2>1. "building" \in Stages /\ "running" \in Stages \ {"building"}
    BY DEF Stages
  <2>2. /\ Staged' /\ Count("building") > 0
        /\ Count("running")' = Count("running") + 1 /\ Count("building")' = Count("building") - 1
        /\ \A u \in Stages \ {"building", "running"} : Count(u)' = Count(u)
    BY <2>1, <1>2, Moves, ZenonT(60)
  <2>3. Count("finishing")' = Count("finishing")
    BY <2>2 DEF Stages
  <2> QED
    BY <1>2, <2>2, <2>3 DEF Pool!factorySucceeds, Count
<1>3. ASSUME c \in Slots, main # "exited", stage[c] = "building",
             stage' = [stage EXCEPT ![c] = "finishing"], UNCHANGED <<mainVars, tokens>>
      PROVE  Staged' /\ Pool!factoryFails
  <2>1. "building" \in Stages /\ "finishing" \in Stages \ {"building"}
    BY DEF Stages
  <2>2. /\ Staged' /\ Count("building") > 0
        /\ Count("finishing")' = Count("finishing") + 1 /\ Count("building")' = Count("building") - 1
        /\ \A u \in Stages \ {"building", "finishing"} : Count(u)' = Count(u)
    BY <2>1, <1>3, Moves, ZenonT(60)
  <2>3. Count("running")' = Count("running")
    BY <2>2 DEF Stages
  <2> QED
    BY <1>3, <2>2, <2>3, SMTT(60) DEF Pool!factoryFails, Count
<1>4. ASSUME c \in Slots, main # "exited", stage[c] = "running",
             stage' = [stage EXCEPT ![c] = "finishing"], UNCHANGED <<mainVars, tokens>>
      PROVE  Staged' /\ Pool!journeyEnds
  <2>1. "running" \in Stages /\ "finishing" \in Stages \ {"running"}
    BY DEF Stages
  <2>2. /\ Staged' /\ Count("running") > 0
        /\ Count("finishing")' = Count("finishing") + 1 /\ Count("running")' = Count("running") - 1
        /\ \A u \in Stages \ {"running", "finishing"} : Count(u)' = Count(u)
    BY <2>1, <1>4, Moves, ZenonT(60)
  <2>3. Count("building")' = Count("building")
    BY <2>2 DEF Stages
  <2> QED
    BY <1>4, <2>2, <2>3, SMTT(60) DEF Pool!journeyEnds, Count
<1>5. CASE c \in Slots /\ finishNotification(c)
  <2>1. "finishing" \in Stages /\ "none" \in Stages \ {"finishing"}
    BY DEF Stages
  <2>2. /\ Staged' /\ Count("finishing") > 0
        /\ Count("finishing")' = Count("finishing") - 1
        /\ \A u \in Stages \ {"finishing", "none"} : Count(u)' = Count(u)
    BY <2>1, <1>5, Moves, ZenonT(60) DEF finishNotification
  <2>3. UNCHANGED <<Count("building"), Count("running")>>
    BY <2>2 DEF Stages
  <2>4. Pool!finishNotification
    BY <1>5, <2>2, <2>3, SMTT(60) DEF finishNotification, Pool!finishNotification, Count
  <2> QED
    BY <2>2, <2>4 DEF Pool!Next
<1>6. CASE c \in Slots /\ journeyEnds(c)
  <2>1. /\ main # "exited" /\ stage[c] = "running"
        /\ stage' = [stage EXCEPT ![c] = "finishing"] /\ UNCHANGED <<mainVars, tokens>>
    BY <1>6, Zenon DEF journeyEnds
  <2> QED
    BY <1>4, <1>6, <2>1, Zenon DEF Pool!Next
<1>7. CASE callSucceeds(c)
  <2>0. Active(c) /\ stage' = Goes(c, "running") /\ UNCHANGED <<mainVars, tokens>>
    BY <1>7, Zenon DEF callSucceeds
  <2>1. CASE c \in Slots /\ stage[c] = "building"
    BY <1>2, <2>0, <2>1, Zenon DEF Goes, Active, Pool!Next, Pool!Factory
  <2>2. CASE c \notin Slots \/ stage[c] = "running"
    <3>1. stage' = stage
      BY <2>0, <2>2 DEF Goes, Staged
    <3> QED
      BY <1>1, <2>0, <3>1, Zenon
  <2> QED
    BY <2>0, <2>1, <2>2, Zenon DEF Active, Slots
<1>8. CASE callFails(c)
  <2>0. Active(c) /\ stage' = Goes(c, "finishing") /\ UNCHANGED <<mainVars, tokens>>
    BY <1>8, Zenon DEF callFails
  <2>1. CASE c \in Slots /\ stage[c] = "building"
    BY <1>3, <2>0, <2>1, Zenon DEF Goes, Active, Pool!Next, Pool!Factory
  <2>2. CASE c \in Slots /\ stage[c] = "running"
    BY <1>4, <2>0, <2>2, Zenon DEF Goes, Active, Pool!Next
  <2>3. CASE c \notin Slots
    BY <1>1, <2>0, <2>3, Zenon DEF Goes
  <2> QED
    BY <2>0, <2>1, <2>2, <2>3, Zenon DEF Active, Slots
<1>9. CASE reopenChannel(c) \/ opening(c)
  BY <1>1, <1>9, SMTT(60) DEF reopenChannel, opening
<1> QED
  BY <1>5, <1>6, <1>7, <1>8, <1>9, SMTT(60) DEF Consumer

\* So is every step of main, of the signal and of the broker.
LEMMA PoolStep ==
  Staged /\ [ProcessNext]_allVars => Staged' /\ [Pool!Next]_(Pool!vars)
<1> SUFFICES ASSUME Staged, [ProcessNext]_allVars
             PROVE  Staged' /\ [Pool!Next]_(Pool!vars)
  OBVIOUS
<1> USE DEF Pool!vars, Pool!poolVars
<1>1. ASSUME NEW c \in Callers, Consumer(c)
      PROVE  Staged' /\ [Pool!Next]_(Pool!vars)
  BY <1>1, GoroutineStep
<1>2. ASSUME NEW g \in Slots, journeyEnds(g) \/ finishNotification(g)
      PROVE  Staged' /\ [Pool!Next]_(Pool!vars)
  BY <1>2, GoroutineStep DEF Slots
<1>3. ASSUME startJourney
      PROVE  /\ Staged' /\ Count("building")' = Count("building") + 1
             /\ UNCHANGED <<Count("running"), Count("finishing")>>
  <2>1. PICK g \in Slots : stage[g] = "none" /\ stage' = [stage EXCEPT ![g] = "building"]
    BY <1>3, Zenon DEF startJourney, In
  <2>2. "none" \in Stages /\ "building" \in Stages \ {"none"}
    BY DEF Stages
  <2>3. /\ Staged' /\ Count("building")' = Count("building") + 1
        /\ \A u \in Stages \ {"none", "building"} : Count(u)' = Count(u)
    BY <2>1, <2>2, Moves, ZenonT(60)
  <2> QED
    BY <2>3 DEF Stages
<1>4. CASE startFirst
  <2>1. Pool!startFirst
    BY <1>3, <1>4 DEF startFirst, Pool!startFirst, Count
  <2> QED
    BY <1>3, <1>4, <2>1 DEF startFirst, Pool!Next, Pool!Main
<1>5. CASE startNext
  <2>1. Pool!startNext
    BY <1>3, <1>5, SMTT(60) DEF startNext, Pool!startNext, Count
  <2> QED
    BY <1>3, <1>5, <2>1, SMTT(60) DEF startNext, Pool!Next
<1>6. CASE UNCHANGED <<stage, tokens, mainVars>>
  BY <1>6, Stays, SMTT(60) DEF Staged
<1>7. CASE dial \/ ConnectionClose \/ Lost \/ UNCHANGED allVars
  BY <1>6, <1>7 DEF dial, ConnectionClose, Lost
<1>8. CASE acquire \/ NewRabbitmq
  <2>1. UNCHANGED <<stage, tokens>> /\ Pool!acquire
    BY <1>8, Stays, Second, SMTT(60) DEF acquire, NewRabbitmq, InNewRabbitmq, Pool!acquire
  <2> QED
    BY <2>1, SMTT(60) DEF Staged, Pool!Next, Pool!Main, Pool!Startup
<1>9. CASE exitOnError
  <2>1. UNCHANGED <<stage, tokens>> /\ Pool!exitOnError
    BY <1>9, Stays, Second, SMTT(60) DEF exitOnError, Pool!exitOnError
  <2> QED
    BY <2>1 DEF Staged, Pool!Next, Pool!Main, Pool!Startup
<1>10. CASE startService
  <2>1. UNCHANGED <<stage, tokens>> /\ Pool!startService
    BY <1>10, Stays, SMTT(60) DEF startService, Pool!startService
  <2> QED
    BY <2>1, SMTT(60) DEF Staged, Pool!Next, Pool!Main, Pool!Startup
<1>11. CASE runJourneys
  <2>1. UNCHANGED <<stage, tokens>> /\ (Pool!allStarted \/ Pool!stopPool)
    BY <1>11, Stays, SMTT(60) DEF runJourneys, Pool!allStarted, Pool!stopPool
  <2> QED
    BY <2>1, SMTT(60) DEF Staged, Pool!Next, Pool!Main
<1>12. CASE runCleanup
  <2>1. UNCHANGED <<stage, tokens>> /\ Pool!runCleanup
    BY <1>12, Stays DEF runCleanup, Pool!runCleanup
  <2> QED
    BY <2>1, SMTT(60) DEF Staged, Pool!Next, Pool!Main
<1>13. CASE Signal
  <2>1. UNCHANGED <<stage, tokens>> /\ Pool!Signal
    BY <1>13, Stays DEF Signal, Pool!Signal
  <2> QED
    BY <2>1, SMTT(60) DEF Staged, Pool!Next
<1> QED
  BY <1>1, <1>2, <1>4, <1>5, <1>7, <1>8, <1>9, <1>10, <1>11, <1>12, <1>13, ZenonT(60)
     DEF ProcessNext, Main

\* The process with its goroutines, consumers and connection implements the
\* pool that only counts journeys, whose level and release of resources are
\* proved in JourneyPoolProofs.
THEOREM ProcessImplementsPool == ProcessSpec => PoolSpec
<1>1. ProcessInit => Staged /\ Pool!Init
  <2> SUFFICES ASSUME ProcessInit PROVE Staged /\ Pool!Init
    OBVIOUS
  <2>1. \A s \in Stages \ {"none"} : In(s) = {}
    BY DEF ProcessInit, In
  <2>2. \A s \in Stages \ {"none"} : Cardinality(In(s)) = 0
    BY <2>1, FS_EmptySet
  <2> QED
    BY <2>2 DEF ProcessInit, Staged, Stages, Pool!Init
<1> QED
  BY <1>1, PoolStep, PTL DEF ProcessSpec, PoolSpec, Pool!Spec
=============================================================================
