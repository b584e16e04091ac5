---------------------------- MODULE GuestJourney ----------------------------
(***************************************************************************)
(* One guest journey from createGuest to its cleanup: the register,        *)
(* booking, payment and lodging flows with their steps, the cached journey *)
(* context they load and save, the effects of their POST requests, and the *)
(* two passes of the cleanup.  The bus behind the waits is GuestBus.       *)
(*                                                                         *)
(* A step is one action.  Any call to Redis, RabbitMQ or a service may     *)
(* fail, and a failing call may have had its effect; a cache call made     *)
(* with a cancelled context fails.  A failure ends the journey, so nothing *)
(* needs to bound them.                                                    *)
(***************************************************************************)
EXTENDS Naturals, Sequences

CONSTANTS Cottages,   \* names the cottage service may list
          None        \* no cottage

ASSUME JourneyAssumption == None \notin Cottages

VARIABLES
  pc,          \* step of a flow or stage of Start, "over" when it has returned
  ctxDone,     \* the context of the process is cancelled
  cache,       \* the value under the journey's Redis key
  guestId,     \* state.GuestId is set
  names,       \* state.CottageNames
  channel,     \* the AMQP channel main opened: "open" | "closed"
  consumer,    \* bus.Consumer is set
  registered,  \* guests created by the guest service
  bookings,    \* bookings made by the cottage service
  paid,        \* payments made by the payment service
  stayed,      \* the lodging step ran to its end
  result       \* of Start: "none" | "ok" | "err"

guestVars == <<guestId, names>>
mqVars == <<channel, consumer>>
postVars == <<registered, bookings, paid>>
endVars == <<stayed, result>>
vars == <<pc, ctxDone, cache, guestVars, mqVars, postVars, endVars>>

\* The cached context: whether the key exists, the selected cottage, the
\* cottage whose free dates gave the selected period, and which ids are set.
Value == [key : BOOLEAN, guestId : BOOLEAN, cottage : Cottages \cup {None},
          period : Cottages \cup {None}, bookingId : BOOLEAN,
          invoice : BOOLEAN, receipt : BOOLEAN]
NoValue == [key |-> FALSE, guestId |-> FALSE, cottage |-> None, period |-> None,
            bookingId |-> FALSE, invoice |-> FALSE, receipt |-> FALSE]
NewValue == [NoValue EXCEPT !.key = TRUE]

\* A booking made: the cottage and the one its dates were found for.
Booking == [cottage : Cottages, period : Cottages]

Stages == {"create", "setup", "validate", "syncBooking", "waitPayment",
           "syncInvoice", "waitConfirmation", "waitCheckin", "finish",
           "cleanup", "over"}
BookingFlow == {"ListCottages", "SelectCottage", "SelectPeriod", "BookCottage"}
Steps == {"RegisterGuest", "RetrieveGuest", "PayInvoice", "RunLodging"}
           \cup BookingFlow

Init ==
  /\ pc = "create" /\ ctxDone = FALSE /\ cache = NoValue
  /\ guestId = FALSE /\ names = {}
  /\ channel = "open" /\ consumer = FALSE
  /\ registered = 0 /\ bookings = <<>> /\ paid = 0
  /\ stayed = FALSE /\ result = "none"
-----------------------------------------------------------------------------
(* Flows: runStepGraph over the maps of internal/config.                    *)

\* The stage of Start after the flow of a step; an EndStep does nothing.
AfterFlow(s) ==
  CASE s \in {"RegisterGuest", "RetrieveGuest"} -> "setup"
    [] s \in BookingFlow -> "validate"
    [] s = "PayInvoice" -> "syncInvoice"
    [] s = "RunLodging" -> "finish"

GuestRegisterTransitions(s) ==
  IF s = "RegisterGuest" THEN {"RetrieveGuest"} ELSE {AfterFlow(s)}

\* Mutation: the period chosen earlier is kept when another cottage is chosen.
BookingTransitions_bookAfterCottage(s) ==
  CASE s = "ListCottages" -> {"SelectCottage", AfterFlow(s)}
    [] s = "SelectCottage" ->
         {"SelectPeriod", "ListCottages", "BookCottage", AfterFlow(s)}
    [] s = "SelectPeriod" -> BookingFlow \cup {AfterFlow(s)}
    [] OTHER -> {AfterFlow(s)}

\* Every weight is positive, so PickRandomWeighted may return any target.
BookingTransitions(s) ==
  CASE s = "ListCottages" -> {"SelectCottage", AfterFlow(s)}
    [] s = "SelectCottage" -> {"SelectPeriod", "ListCottages", AfterFlow(s)}
    [] s = "SelectPeriod" -> BookingFlow \cup {AfterFlow(s)}
    [] OTHER -> {AfterFlow(s)}

PaymentTransitions(s) == {AfterFlow(s)}

\* The step of the lodging flow has no successor.
LodgingTransitions(s) == {AfterFlow(s)}

\* A flow that finds its context cancelled returns nil.
flowCancelled ==
  /\ pc \in Steps /\ ctxDone
  /\ pc' = AfterFlow(pc)
  /\ UNCHANGED <<ctxDone, cache, guestVars, mqVars, postVars, endVars>>
-----------------------------------------------------------------------------
(* Cache calls and errors.                                                  *)
Loaded == ~ctxDone /\ cache.key

\* Start returns an error: its deferred function runs the cleanup.
Fail == pc' = "cleanup" /\ result' = "err"

\* cache.Save, after which control goes to one of next.
Save(v, next) ==
  \/ ~ctxDone /\ cache' = v /\ pc' \in next /\ UNCHANGED result
  \/ cache' \in (IF ctxDone THEN {cache} ELSE {cache, v}) /\ Fail

\* Some call before the first effect of the current step or stage fails.
callFails ==
  /\ pc \notin {"setup", "waitPayment", "waitConfirmation", "waitCheckin",
                "finish", "cleanup", "over"}
  /\ Fail
  /\ UNCHANGED <<ctxDone, cache, guestVars, mqVars, postVars, stayed>>
-----------------------------------------------------------------------------
(* Registration and communication.                                          *)
createGuest ==
  /\ pc = "create"
  /\ Save(NewValue, {"RegisterGuest"})
  /\ UNCHANGED <<ctxDone, guestVars, mqVars, postVars, stayed>>

\* POST /guest, then the id goes to the state and to the cache.
RegisterGuest ==
  /\ pc = "RegisterGuest" /\ Loaded
  /\ registered' = registered + 1
  /\ \/ /\ guestId' = TRUE
        /\ Save([cache EXCEPT !.guestId = TRUE], GuestRegisterTransitions(pc))
     \/ Fail /\ UNCHANGED <<guestId, cache>>       \* no readable answer
  /\ UNCHANGED <<ctxDone, names, mqVars, bookings, paid, stayed>>

\* GET /guest/<id>
RetrieveGuest ==
  /\ pc = "RetrieveGuest" /\ guestId /\ ~ctxDone
  /\ pc' \in GuestRegisterTransitions(pc)
  /\ UNCHANGED <<ctxDone, cache, guestVars, mqVars, postVars, endVars>>

\* Declare and bind reopen a closed channel; a failing one is closed again,
\* and only success sets bus.Consumer.
setupCommunication ==
  /\ pc = "setup"
  /\ \/ /\ guestId
        /\ channel' = "open" /\ consumer' = TRUE
        /\ pc' = "ListCottages" /\ UNCHANGED result
     \/ guestId /\ channel' \in {"open", "closed"} /\ Fail /\ UNCHANGED consumer
     \/ ~guestId /\ Fail /\ UNCHANGED mqVars
  /\ UNCHANGED <<ctxDone, cache, guestVars, postVars, stayed>>
-----------------------------------------------------------------------------
(* The booking flow.                                                        *)

\* GET /cottages
ListCottages ==
  /\ pc = "ListCottages" /\ ~ctxDone
  /\ names' \in SUBSET Cottages
  /\ pc' \in BookingTransitions(pc)
  /\ UNCHANGED <<ctxDone, cache, guestId, mqVars, postVars, endVars>>

\* The period chosen for another cottage stays in the cache.
SelectCottage ==
  /\ pc = "SelectCottage" /\ names # {} /\ Loaded
  /\ \E c \in names : Save([cache EXCEPT !.cottage = c], BookingTransitions(pc))
  /\ UNCHANGED <<ctxDone, guestVars, mqVars, postVars, stayed>>

\* Candidates come from every listed cottage: the nearest one may belong to
\* another cottage than the selected one.  Without any the step fails.
SelectPeriod ==
  /\ pc = "SelectPeriod" /\ names # {} /\ Loaded /\ cache.cottage # None
  /\ \E c \in names :
       Save([cache EXCEPT !.cottage = c, !.period = c], BookingTransitions(pc))
  /\ UNCHANGED <<ctxDone, guestVars, mqVars, postVars, stayed>>

Bookable == cache.cottage # None /\ cache.period # None /\ ~cache.bookingId

\* Mutation: a POST without a readable answer is made again.
BookCottage_retries ==
  /\ pc = "BookCottage" /\ guestId /\ Loaded /\ Bookable
  /\ bookings' = Append(bookings, [cottage |-> cache.cottage, period |-> cache.period])
  /\ \/ Save([cache EXCEPT !.bookingId = TRUE], BookingTransitions(pc))
     \/ UNCHANGED <<pc, result, cache>>
  /\ UNCHANGED <<ctxDone, guestVars, mqVars, registered, paid, stayed>>

\* Mutation: the dates are left out of the request.
BookCottage_noDates ==
  /\ pc = "BookCottage" /\ guestId /\ Loaded /\ Bookable
  /\ bookings' = Append(bookings, [cottage |-> cache.cottage, period |-> None])
  /\ Save([cache EXCEPT !.bookingId = TRUE], BookingTransitions(pc))
  /\ UNCHANGED <<ctxDone, guestVars, mqVars, registered, paid, stayed>>

\* Mutation: an error status of the service is not looked at.
BookCottage_ignoresStatus ==
  /\ pc = "BookCottage" /\ guestId /\ Loaded /\ Bookable
  /\ Save([cache EXCEPT !.bookingId = TRUE], BookingTransitions(pc))
  /\ bookings' \in {bookings,
       Append(bookings, [cottage |-> cache.cottage, period |-> cache.period])}
  /\ UNCHANGED <<ctxDone, guestVars, mqVars, registered, paid, stayed>>

\* POST /cottage/<name>/booking
BookCottage ==
  /\ pc = "BookCottage" /\ guestId /\ Loaded /\ Bookable
  /\ bookings' = Append(bookings, [cottage |-> cache.cottage, period |-> cache.period])
  /\ \/ Save([cache EXCEPT !.bookingId = TRUE], BookingTransitions(pc))
     \/ Fail /\ UNCHANGED cache
  /\ UNCHANGED <<ctxDone, guestVars, mqVars, registered, paid, stayed>>

\* Start rejects a booking flow that ended without a booking.
validateBooking ==
  /\ pc = "validate" /\ Loaded /\ cache.bookingId
  /\ pc' = "syncBooking"
  /\ UNCHANGED <<ctxDone, cache, guestVars, mqVars, postVars, endVars>>
-----------------------------------------------------------------------------
(* Payment, the waits and the stay.                                         *)
SyncStateCache ==
  /\ pc \in {"syncBooking", "syncInvoice"} /\ guestId /\ Loaded
  /\ Save([cache EXCEPT !.guestId = TRUE],
          {IF pc = "syncBooking" THEN "waitPayment" ELSE "waitConfirmation"})
  /\ UNCHANGED <<ctxDone, guestVars, mqVars, postVars, stayed>>

\* A matching payment request puts its invoice number in the cache.
waitPaymentRequest ==
  /\ pc = "waitPayment" /\ Loaded /\ cache.cottage # None
  /\ cache' = [cache EXCEPT !.invoice = TRUE]
  /\ pc' = "PayInvoice"
  /\ UNCHANGED <<ctxDone, guestVars, mqVars, postVars, endVars>>

waitMessage ==
  /\ Loaded
  /\ \/ pc = "waitConfirmation" /\ pc' = "waitCheckin"
     \/ pc = "waitCheckin" /\ pc' = "RunLodging"
  /\ UNCHANGED <<ctxDone, cache, guestVars, mqVars, postVars, endVars>>

\* Mutation: the wait watches the bus and not the context.
waitFails_busOnly ==
  /\ pc \in {"waitPayment", "waitConfirmation", "waitCheckin"}
  /\ channel = "closed"
  /\ Fail
  /\ UNCHANGED <<ctxDone, cache, guestVars, mqVars, postVars, stayed>>

\* The context is done or the deliveries are closed; a matcher whose Save
\* failed may have stored an invoice number before.
waitFails ==
  /\ pc \in {"waitPayment", "waitConfirmation", "waitCheckin"}
  /\ ctxDone \/ channel = "closed"
  /\ cache' \in IF pc = "waitPayment" /\ cache.key
                THEN {cache, [cache EXCEPT !.invoice = TRUE]} ELSE {cache}
  /\ Fail
  /\ UNCHANGED <<ctxDone, guestVars, mqVars, postVars, stayed>>

Payable == cache.cottage # None /\ cache.period # None /\ cache.bookingId /\ cache.invoice

\* Mutation: a payment that did not succeed is taken for one that did.
PayInvoice_anyStatus ==
  /\ pc = "PayInvoice" /\ guestId /\ Loaded /\ Payable
  /\ paid' \in {paid, paid + 1}
  /\ Save([cache EXCEPT !.receipt = TRUE], PaymentTransitions(pc))
  /\ UNCHANGED <<ctxDone, guestVars, mqVars, registered, bookings, stayed>>

\* POST /v1/payments/invoice/<number>
PayInvoice ==
  /\ pc = "PayInvoice" /\ guestId /\ Loaded /\ Payable
  /\ paid' = paid + 1
  /\ \/ Save([cache EXCEPT !.receipt = TRUE], PaymentTransitions(pc))
     \/ Fail /\ UNCHANGED cache
  /\ UNCHANGED <<ctxDone, guestVars, mqVars, registered, bookings, stayed>>

\* The stay itself is LodgingStep.
RunLodging ==
  /\ pc = "RunLodging" /\ Loaded
  /\ stayed' = TRUE
  /\ pc' \in LodgingTransitions(pc)
  /\ UNCHANGED <<ctxDone, cache, guestVars, mqVars, postVars, result>>
-----------------------------------------------------------------------------
(* cleanupGuestJourney: LogStateCache, DeleteStateCache, CloseCommunication. *)

\* Mutation: the consumer is forgotten without being closed.
CloseCommunication_forgets == consumer' = FALSE /\ UNCHANGED channel

\* CloseCommunication without an error: a channel that never became the
\* bus's consumer is left as it is.
CloseCommunication ==
  IF consumer
  THEN channel' = "closed" /\ consumer' = FALSE
  ELSE UNCHANGED mqVars

\* Mutation: the cleanup has a context of its own that is not cancelled.
CleanupSucceeds_ownContext ==
  /\ cache.key
  /\ cache' = NoValue
  /\ CloseCommunication

CleanupSucceeds ==
  /\ Loaded
  /\ cache' = NoValue
  /\ CloseCommunication

\* The Get of LogStateCache or the Del fails, or CloseChannel does after the
\* key is gone.
CleanupFails ==
  \/ UNCHANGED <<cache, mqVars>>
  \/ Loaded /\ cache' = NoValue /\ UNCHANGED mqVars
  \/ /\ Loaded /\ consumer
     /\ cache' = NoValue
     /\ channel' \in {"open", "closed"} /\ UNCHANGED consumer

\* return g.cleanupGuestJourney(ctx)
finish ==
  /\ pc = "finish"
  /\ \/ CleanupSucceeds /\ pc' = "over" /\ result' = "ok"
     \/ CleanupFails /\ Fail
  /\ UNCHANGED <<ctxDone, guestVars, postVars, stayed>>

\* The deferred cleanup after an error.
deferredCleanup ==
  /\ pc = "cleanup"
  /\ CleanupSucceeds \/ CleanupFails
  /\ pc' = "over"
  /\ UNCHANGED <<ctxDone, guestVars, postVars, stayed, result>>
-----------------------------------------------------------------------------
(* The environment.                                                         *)
Cancel ==
  /\ ~ctxDone /\ ctxDone' = TRUE
  /\ UNCHANGED <<pc, cache, guestVars, mqVars, postVars, endVars>>

LoseConnection ==
  /\ channel = "open" /\ channel' = "closed"
  /\ UNCHANGED <<pc, ctxDone, cache, guestVars, consumer, postVars, endVars>>

Journey ==
  \/ createGuest \/ RegisterGuest \/ RetrieveGuest \/ setupCommunication
  \/ ListCottages \/ SelectCottage \/ SelectPeriod \/ BookCottage
  \/ validateBooking \/ SyncStateCache \/ waitPaymentRequest \/ waitMessage
  \/ waitFails \/ PayInvoice \/ RunLodging \/ flowCancelled \/ callFails
  \/ finish \/ deferredCleanup
Next == Journey \/ Cancel \/ LoseConnection

Spec == Init /\ [][Next]_vars

\* The goroutine of the journey runs whenever it can.
FairSpec == Spec /\ WF_vars(Journey)
-----------------------------------------------------------------------------
(* Properties.                                                              *)

\* Types.
TypeOK ==
  /\ pc \in Stages \cup Steps
  /\ ctxDone \in BOOLEAN /\ guestId \in BOOLEAN
  /\ cache \in Value
  /\ names \subseteq Cottages
  /\ channel \in {"open", "closed"} /\ consumer \in BOOLEAN
  /\ registered \in Nat /\ paid \in Nat
  /\ bookings \in Seq(Booking)
  /\ stayed \in BOOLEAN
  /\ result \in {"none", "ok", "err"}

\* The three POST requests of a journey are made at most once each, also when
\* an answer is lost or a later Save fails and the booking flow goes round.
PostedOnce == registered <= 1 /\ Len(bookings) <= 1 /\ paid <= 1

\* A booking is made for dates found free for that very cottage, although
\* SelectCottage leaves an earlier cottage's period in the cache and the walk
\* through the booking flow is random.
PeriodOfCottage ==
  \A i \in 1..Len(bookings) : bookings[i].cottage = bookings[i].period

\* The cache is never ahead of the services: a cached booking id or receipt
\* stands for a booking or payment that was made.
CacheNotAhead ==
  /\ cache.guestId => registered = 1
  /\ cache.bookingId => Len(bookings) = 1
  /\ cache.receipt => paid = 1

\* The stay begins only for a guest that is registered, has booked and paid,
\* although a flow that is cancelled half-way returns without an error.
StayIsPaid ==
  pc = "RunLodging" => registered = 1 /\ Len(bookings) = 1 /\ paid = 1

\* A journey reports success only when the guest stayed and nothing of the
\* journey is left behind; a cancelled stay, whose flow also returns nil, is
\* never reported as success.
SuccessIsReal ==
  result = "ok" => stayed /\ paid = 1 /\ ~cache.key /\ channel = "closed"

\* An AMQP channel that is still open after the journey is one the cleanup
\* was stopped in front of, and is still held as the bus's consumer; only a
\* journey that posted no booking is excepted, since it may have failed
\* before its communication was set up.
OpenChannelIsHeld ==
  pc = "over" /\ channel = "open" => consumer \/ bookings = <<>>

\* Cancelling the context ends the journey, wherever it is: no wait and no
\* round of the booking flow goes on.
CancelEndsJourney == ctxDone ~> (pc = "over")
=============================================================================
