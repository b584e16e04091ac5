# A TLA+ model of the guest simulator

The guest simulator plays guests of a cottage resort. A process keeps a number of
*journeys* going; each journey registers a guest, books a cottage, pays, waits for
the check-in day and lives through the stay, talking to HTTP services, RabbitMQ,
Redis, a clock and a lodging chat. This directory models the control flow of that
program, checks it with TLC on small instances and proves its safety properties with TLAPS.

## The system and its modules

| Part (under `src/internal/`) | Module | Proofs |
|---|---|---|
| `main.go`: startup, `runJourneys`, shutdown | `JourneyPool` | `JourneyPoolProofs` |
| `infra/mq`: shared connection, `openChannel` | `RabbitConnection` | `SimulatorProcessProofs` |
| the process: `main.go`, `infra/init.go` and `infra/mq` with the consumers | `SimulatorProcess` | `SimulatorProcessProofs` |
| `app/journey/guest_journey.go`, `app/flows`, `app/steps`, cache and cleanup | `GuestJourney` | `GuestJourneyProofs` |
| the booking flow: weighted step graph, `SelectPeriod` in detail | `BookingFlow`, `StepSelector` | `BookingFlowProofs` |
| `app/journey/journey_services`: the bus and the three waits | `GuestBus` | `GuestBusProofs` |
| `app/services`: time events, hour notifications; `waitUntil` | `HourEvents` | `HourEventsProofs` |
| `infra/websocket/lodging_chat.go` | `LodgingChat`, contract `ChatContract` | `LodgingChatProofs` |
| `app/steps/lodging_step/run_lodging.go` and its default plan | `LodgingStep` | `LodgingStepProofs` |

How they interact. `SimulatorProcess` composes the process: main, the time event
service and the journeys, each with a consumer that opens and reopens its channel on
the one `RabbitConnection`, which it extends. It implements `JourneyPool`, which only
counts journeys; this is checked and proved. A journey is there reduced to the calls
of its consumer; `GuestJourney` is one journey with everything else. The booking flow
of `GuestJourney` is implemented by `BookingFlow`, which has the draws and the search
for a stay; this too is checked and proved. Three links are by argument: the waits of `GuestJourney`
are those of `GuestBus`, seen from outside as a message that matches or a failure; its
`RunLodging` step is `LodgingStep`; and `LodgingStep` relies on a chat that hands out
messages in order (`ChatContract`, implemented by `LodgingChat`) and on waits for an
hour that never end early (`HourEvents`).

Every module has the same layout: variables with the Go field they stand for, one
action per operation named after the Go function, the environment, the
specification, a fair specification, and the properties. A definition whose name
has a suffix and whose comment begins with "Mutation" is a plausible bug in the
definition that follows it; it is no part of the specification and shows that a
property notices that bug.

### Correspondence and abstractions

- **GuestBus.** Two goroutines: the delivery loop (`handleDelivery`,
  `settleDelivery`, `stopLoop`) and the journey (`subscribe`, `takePending`,
  `receive`, `abandon`, `unsubscribe` and the cleanup). A mutex-protected section is
  one step. A message is its kind and whether the matcher of that kind accepts it; kind
  "bad" stands for an unsupported type or an undecodable body.
- **LodgingChat.** The reader goroutine and the caller share `inboundCh`, `ackCh`
  and `errCh`; every channel operation is a step. Contents are reduced to id and type.
  Only `sendAndWaitAck` empties `ackCh`. Acks the system repeats while nobody sends can
  fill it, and the reader then stays in front of it until the next send: a call of
  `WaitForNextSystemMessage` does not end it. `AcksStuck` is that state, and
  `MessageEndsWait` says that it is the only one that keeps a message from the caller.
- **HourEvents.** Service loop, one goroutine per wait and the lodging step.
  Registration and the check of the current time are separate steps, as in the code.
  A time is a count of hours; `NoTime` is the time before the first event, and an
  event that does not decode has a value of its own.
- **GuestJourney.** A step of a flow is one action. A call may fail before its effect
  (`callFails`), after it (the `Fail` alternatives) or through a cancelled context.
  A flow whose context is cancelled returns nil (`flowCancelled`). A period is
  reduced to the cottage it was found for; weights to the set of successors, since
  every configured weight is positive.
- **BookingFlow**, **StepSelector.** One action per step, except that `SelectPeriod` is
  taken apart: `beginSearch` reads clock and cache, `loadAvailablePeriods` is one
  request, `collected` and `SelectPeriod` rank and save. Instants are hours, dates are
  days, and `startOfUTCDay` rounds down, so a stay may begin at midnight of the day on
  which an offer begins at noon. The night options are tried from the shortest, so of
  one answer only the shortest that fits becomes a candidate; `BestOffered` says that
  nothing better is lost by that. Candidates are a set, so none is there twice;
  `ranked` puts in place i the one with i - 1 others before it and cuts the list at
  `maxPeriodAttempts`. `Upto` is the loop of `PickRandomWeighted`, item by item. Weights are scaled to integers. That is exact: the
  bounds the loop compares the draw with are sums of weights, and with the configured
  weights the largest draw leaves no rounding residue that would reach the fallback to
  the last item.
- **LodgingStep.** The default plan, expanded by `buildStayActionPlan` and
  `buildCheckoutActionPlan`, and the dialogue. The lodging system is external: `Due`
  is the dialogue the step is written for. Of `waitUntil` it has the check of the
  current time and the two ends of a wait that `HourEvents` shows: the event of the
  hour comes (`hourReached`), or it is lost or handed out too soon, and the step waits
  until its context is cancelled (`hourMissed`).
- **RabbitConnection.** A connection is a number. The constructor dials before anyone
  else can; later the mutex is held from the test to the end of the dial loop.
- **SimulatorProcess.** A slot of the pool is a caller of the connection, `Hours` the
  consumer of the time event service, which main sets up in `NewRabbitmq`. The calls of
  a consumer are `new`, `declare`, `bind` and `consume`; each reopens its channel when
  it finds it closed. A journey that fails before its communication is set up leaves
  its channel open, and a lost connection ends the time event service for good: both
  are in the model as in the code.
- **JourneyPool.** Journeys are alike, so goroutines are counted by stage.
  Resources are acquired and released in the order of the code.

## Runs

Each passing run checks the safety and the liveness properties of one module, under
its fair specification where it has one (fairness adds no safety property).

| Run | Properties | What it shows |
|---|---|---|
| `bus` | `TypeOK`, `AckedNotLost`, `DeliveredOnce`, `InvoiceOfMatch`; `StopUnblocks`, `FirstBufferedEndsWait` | what was acked is kept for its wait and judged once; the invoice number is that of a matching request; cancellation, a closed channel and a first buffered match end the wait the journey is in |
| `bus_stuck` | `BufferedEndsWait` (violated) | a match buffered behind another message does not end the wait |
| `chat` | `TypeOK`, `AckedBeforeDispatch`, `ContractSpec`; `AckEndsSend`, `MessageEndsWait`, `ErrorEndsCall` | the client implements the FIFO contract; no call blocks on something that is there, unless acks fill `ackCh` during a wait for a message |
| `chat_reject` | `RejectedIsReported` (violated) | a rejected message is reported as sent |
| `hours` | `TypeOK`, `NeverEarly`; `ServiceNeverStalls`, `WatchersEnd`, `OfferedHourEndsWait` | no wait ends before its target; finished waits do not hold up the service and end with the flow |
| `hours_missed` | `ReachedEndsWait` (violated) | an hour handed out before the registration is missed for good |
| `journey` | `TypeOK`, `PostedOnce`, `PeriodOfCottage`, `CacheNotAhead`, `StayIsPaid`, `SuccessIsReal`, `OpenChannelIsHeld`; `CancelEndsJourney` | one journey, with every call failing before or after its effect; cancellation ends every stage |
| `lodging` | `TypeOK`, `NothingUnprompted`; `StayEnds` | the guest acts only on messages of the system, each used once; with a system that follows the dialogue the stay ends, unless a wait misses its hour |
| `lodging_days` | `FullDaysLived` (violated) | the first full day has no plan |
| `booking` | `BestOffered`, `FairShare`, `JourneySteps` | the stay taken is the best of all answers, edges are drawn by their weights, and the detailed flow takes only steps of `GuestJourney` |
| `pool` | `WithinLevel`, `ShutdownReleases`; `PoolRefills` | the level is kept, nobody blocks, shutdown releases everything; the pool does not run dry |
| `process` | `OnlyCurrentIsOpen`, `ClosedForGood`, `ExitDisconnects`, `PoolSpec`; `BuildEnds`, `SignalEndsProcess` | goroutines that share a connection which drops and is dialled again implement the pool; no connection leaks or outlives the process; every factory returns and a signal ends the process |

### What the violated properties show

1. `bus_stuck`. A wait takes one buffered message and, if it does not match, goes
   into its select, which sees new messages only. The README says messages are
   buffered until the step subscribes.
2. `hours_missed`. `waitUntil` starts the goroutine that registers and then looks at
   the current time. If the event of the target hour is handed out after that look
   and before the registration, later events are filtered out by hour or by day. The
   README says "at or after".
3. `chat_reject`. `sendAndWaitAck` compares the acknowledged id only; the protocol
   has a status for messages "rejected and not processed".
4. `lodging_days`. The loop over full days begins at offset 2, although
   `fullStayDays` counts two full days for three nights.

A failed startup is modelled as the code has it: `exitOnError` calls `os.Exit`, which
skips the deferred cleanup, so `ShutdownReleases` and `ExitDisconnects` speak of a
process that got through startup, and `ExitDisconnects` also of a `NewRabbitmq` that
failed and released what it had itself.

### Bounds

| Module | Bounds | Why they are enough |
|---|---|---|
| `GuestBus` | `MaxMsgs` 3, `MaxRedisErrs` 1 | a channel of capacity one, a message behind it and one more; each kind can occur twice |
| `LodgingChat` | `InCap` 1, `AckCap` 1 (32 in the code), `MaxSends` 2, `MaxSys` 2, `MaxDups` 2, one ack status | both channels become full, repeated acks exceed `ackCh`, and of two messages each can be buffered, queued or in the reader's hand while the other is elsewhere; the client never reads the status, and only `chat_reject`, whose property does, has both |
| `HourEvents` | `HoursPerDay` 3 (24), two targets at one hour of two days, `MaxTime` 4, `MaxFaults` 1 | an event of the right hour and the wrong day, and a finished wait whose goroutine still runs |
| `GuestJourney` | two cottages | a period of another cottage; no other bound, since a failure ends the journey |
| `LodgingStep` | `Nights` 3, `MaxStrays` 1 | the shortest stay `SelectPeriod` chooses, with one recurring day; the stray message is one no wait expects, one that moves the check-in on or one that is to be answered; hours without a plan are skipped and the clock stops at the last one that is waited for |
| `BookingFlow` | two cottages, nights {2, 3}, two windows, lead 1, two attempts, days of two hours, three times of the search, seven answers, two graphs | the answers have what the date arithmetic tells apart: none, a period begun before the search, beginning or ending at noon, an exact fit, too short, two periods with the nearer one last; the second graph has weights that are zero and negative, which `PickRandomWeighted` skips |
| `JourneyPool` | level 4 | journeys in every stage at once |
| `SimulatorProcess` | one slot and the service, two dial attempts (5), `MaxDrops` 2 | the service, a journey and `Close` compete for the mutex, one dials while another waits, and a channel is lost on each of two connections; safety and refinement are proved for every number of slots |

Deadlock checking is off: each modelled part ends by design (a journey, a chat, a stay
or the process is over, or the bounded clock or message supply is used up). That
nothing stops too early is what the liveness properties say.

### Fairness

Weak fairness of the steps a goroutine takes by itself: the Go scheduler runs what can
run. It does not extend to what may hang or need not happen. In `GuestBus` the delivery
loop and a wait that has begun are fair, but not the flows, the stay and the cleanup
between the waits, so its properties speak of the wait the journey is in; in
`LodgingChat` the reader and a call are fair, but the caller decides when to call.
`GuestJourney` is fair as a whole, since its one liveness property begins with a
cancelled context and every call it makes takes that context. In
`JourneyPool` the receive from `finishNotification` and the return on `ctx.Done()`
are fair separately, because a select chooses among ready cases at random.
`FairProcess` assumes strong fairness of main and of every consumer, because a Go mutex
hands itself over to a goroutine that has waited long and because a dial and a
`Channel` call return; it assumes neither that journeys end nor that new ones start.
`BookingFlow` is checked for safety only: its loops end by chance.

Nothing is assumed of brokers, networks, operators or the end of a journey, with one
exception: `StayEnds` is about a lodging system that goes on with the dialogue and a
clock that goes on. Two things are left out of it, and the property names them: a
message that a wait may expect, sent out of turn (`Misled`), and a wait that misses its
hour (`pc = "missed"`), which is what `hours_missed` shows.

## Proofs

All theorems hold for every value of the constants under the assumption named in
the component's module.

- **GuestJourneyProofs** (`JourneyAssumption`: `None` is no cottage): `TypeCorrect`,
  `PostsAreMadeOnce`, `BookedPeriodFits`, `CacheFollowsServices`, `StayNeedsPayment`,
  `SuccessMeansDone`, `OpenChannelsAreKnown`. No property is inductive: a step relies
  on what earlier stages established. The invariant `JInv` adds `Progress`, which says
  stage by stage what that is; after a flow it must allow for a cancelled context,
  which lets `Start` reach the next stage without the flow's effect.
- **HourEventsProofs** (`HourAssumption`): `TypeCorrect`, `WaitsAreNotEarly`. The
  invariant `HInv` adds that queued events are in order and later than the current
  time (`Queued`) and that no event on its way to the step is later than it (`Seen`);
  so the current time never goes back and an event that ends a wait was current. This
  rests on a broker that delivers the hours in order.
- **JourneyPoolProofs** (`PoolAssumption`): `TypeCorrect`, `PoolKeepsItsLevel`,
  `ShutdownIsComplete`. `Conserved` says that goroutines and notifications together
  are as many as the starts of the first loop.
- **SimulatorProcessProofs** (`RabbitAssumption`; `ProcessAssumption`: finitely many
  goroutines): of the connection alone `TypeCorrect`, `NoConnectionLeaks` and
  `CloseIsFinal`, of the process `ProcessConnection`, `ExitIsClean` and
  `ProcessImplementsPool`. `Exclusive` says that a caller that dials holds the mutex,
  that nothing is open and that `Close` has not run; `Unshared` that the constructor has
  the connection to itself. Every step of the process is a step of `RabbitConnection` or
  leaves it alone, so its invariant carries over. For the refinement a step of one
  goroutine changes the sets `In(s)` by one element and so the counts of the pool by one.
- **GuestBusProofs** (`BusAssumption`): `BusTypes`, `AckedAreHeld`, `InvoiceIsMatched`,
  `MatchedAtMostOnce`.
  The invariant `BInv` says that a delivery is held from `handleDelivery` on, before it
  is acked (`Held`); that only the kind waited for is subscribed and other channels are
  empty (`Subscribed`); that buffers and channels hold their own kind (`Sorted`); and
  what each stage can rely on (`Stages`). For `MatchedAtMostOnce` it is extended to
  `OInv`: deliveries are in the order they were sent (`Queued`), whatever was handed
  over is older than all of them (`Fresh`), and a message is in one place of buffer,
  channel and judged messages only (`Distinct`).
- **LodgingChatProofs** (`ChatAssumption`): `ChatTypes`, `AckedFirst` and
  `ChatKeepsContract`, the refinement of `ChatContract`. The messages received and not
  handed out are one sequence cut into `pending`, `inboundCh` and the reader's hand;
  lemmas about concatenation show that moving a message from one part to the next
  leaves it alone. `Answered` says that an ack on its way belongs to a message the
  system has acknowledged, `HandAcked` that the reader acknowledges before it
  dispatches.

- **LodgingStepProofs** (`LodgingAssumption`): `StepTypes` and `GuestIsPrompted`, for
  every number of nights. `Balanced` says that every message that prompts the guest is
  unread, in hand or used up, in the right numbers; `Dialogue` where the step stands in
  the dialogue. Both need what the expanded plan has at any index. The plan is defined
  by recursion over the days: `StayPlanDef` shows that the recursion defines a function
  and `StayPlanShape` what it is.
- **BookingFlowProofs** (`BookingAssumption`, `GraphsAssumption`): `BestStayIsSelected`,
  `DrawsAreFair`, `BookingFlowIsAJourney`. While the answers come in, `Collected` says
  that every candidate lies within an answer and that no answer allows a stay before all
  candidates; the lemmas about `pickNearestSuitablePeriod`, `bestOption` and
  `stayCandidates` show that one more answer keeps this, although only the shortest
  option of each becomes a candidate. The head of `ranked` is then before all others.
  `Searching` says that a search runs within `SelectPeriod` only and over cottages that
  are still listed; with it every step is one of `GuestJourney` or changes nothing of
  it. The draws that fall to an item are those between two sums of `Upto`, which is
  again shown to be a function and to grow. `BookingAssumption` gives the constants
  their types and says that the cottages are finitely many, as a decoded answer lists
  them. `GraphsAssumption` says that the lists of a graph are not empty, name no step
  twice and have edges of `DefaultBookingFlow` only: the one graph the program runs
  (`app/flows/booking_flow.go`) is built by that function, which fixes the edges. The
  weights are arbitrary integers.

Every invariant, action property and refinement that a passing run checks is thus
proved. Induction is done with a least counterexample (`Least`, from the well-founded
order of the naturals), since the induction theorems of the library take an operator as
parameter, which the provers cannot instantiate.

Only model-checked: all liveness properties, since liveness under fairness is out of
the prover's reach; and the four violated properties, which are counterexamples.

## Not modelled

- Clock client, HTTP clients, telemetry, logging, configuration, generated protobuf
  code: stateless, observational or generated.
- HTTP probes. The readiness handler reads whether the connection is open, under a read
  lock it gives back at once, and shutdown waits for the server five seconds at most,
  so no other part depends on them.
- `NewRedisClient` is one step of startup: it pings, and closes its client when the
  ping fails.
- The fields a matcher of the bus compares, and the contents of chat messages, are
  abstracted to what the control depends on.
- Journeys that still run while the process cleans up keep running in
  `SimulatorProcess` and lose their channels; what their services see of it is covered
  by `LoseConnection` in `GuestJourney`.

## What could follow

A composition of `GuestJourney` with `GuestBus` would replace the first of the three
links above that are by argument.
