------------------------------ MODULE GuestBus ------------------------------
(***************************************************************************)
(* The guest communication bus of one journey: the queue is set up, one    *)
(* goroutine moves deliveries into per-kind buffers or subscriber          *)
(* channels, and the journey goroutine waits for a payment request, a      *)
(* booking confirmation and a check-in notification, in that order, and    *)
(* then closes the communication.                                          *)
(*                                                                         *)
(* Every mutex-protected section of the code is one step.  A message is    *)
(* reduced to its kind and to whether the matcher of that kind accepts it  *)
(* for this guest and booking ("mine").                                    *)
(***************************************************************************)
EXTENDS Naturals, Sequences

CONSTANTS MaxMsgs,       \* bound on the messages the services send
          MaxRedisErrs   \* bound on failing cache calls inside a matcher

ASSUME BusAssumption == MaxMsgs \in Nat /\ MaxRedisErrs \in Nat

VARIABLES
  mqChannel,   \* the AMQP channel of the journey's consumer: "open" | "closed"
  consumer,    \* bus.Consumer is set
  deliveries,  \* deliveries the broker has handed to the consumer
  closed,      \* the deliveries Go channel is closed
  loop,        \* goroutine of Start: "off" | "recv" | "settle" | "stopped"
  hand,        \* delivery handled but neither acked nor nacked yet
  acked, nacked,
  pending,     \* pendingPaymentRequests, pendingBookingConfirmations, ...
  subs,        \* kinds whose channel set holds the waiter's channel
  ch,          \* content of the waiter's channel of each kind (capacity 1)
  pc,          \* where the journey goroutine is
  step,        \* index in Order of the wait it is at
  res,         \* outcome of the wait of each kind
  judged,      \* messages a matcher has looked at
  invoice,     \* id of the request whose invoice number the cache holds
  ctxDone,     \* the journey's context is cancelled
  redisErrs,   \* cache errors met so far
  sent         \* messages sent by the services so far

busVars == <<pending, subs, ch>>
mqVars == <<mqChannel, consumer, deliveries, closed, sent>>
loopVars == <<loop, hand, acked, nacked>>
waitVars == <<pc, step, res, judged, invoice, redisErrs>>
vars == <<busVars, mqVars, loopVars, waitVars, ctxDone>>

Kinds == {"payment", "confirmation", "checkin"}
Order == <<"payment", "confirmation", "checkin">>
ChCapacity == 1

\* Kind "bad" stands for an unsupported message_type or an undecodable body.
Message == [id : 1..MaxMsgs, kind : Kinds \cup {"bad"}, mine : BOOLEAN]
NoMsg == [id |-> 0, kind |-> "none", mine |-> FALSE]

Cur == Order[step]
InSeq(m, s) == \E i \in 1..Len(s) : s[i] = m
-----------------------------------------------------------------------------
(* NewGuestCommunicationBus, with the AMQP channel main opened beforehand.  *)
Init ==
  /\ mqChannel = "open" /\ consumer = FALSE
  /\ deliveries = <<>> /\ closed = FALSE /\ sent = 0
  /\ loop = "off" /\ hand = NoMsg /\ acked = {} /\ nacked = {}
  /\ pending = [k \in Kinds |-> <<>>]
  /\ subs = {} /\ ch = [k \in Kinds |-> <<>>]
  /\ pc = "setup" /\ step = 1 /\ res = [k \in Kinds |-> "none"]
  /\ judged = {} /\ invoice = 0 /\ ctxDone = FALSE /\ redisErrs = 0

\* Reset also replaces done and err; Start makes a fresh done of its own and
\* nobody waits after the last Reset, so both are left to loop.
Reset ==
  /\ pending' = [k \in Kinds |-> <<>>]
  /\ subs' = {}

(* SetupCommunication: a failing declare, bind or consume closes the       *)
(* channel, ignoring that call's error, and returns; otherwise Reset,      *)
(* Consumer, Start.                                                        *)
SetupFails ==
  /\ pc = "setup"
  /\ mqChannel' \in {"open", "closed"}
  /\ pc' = "failed"
  /\ UNCHANGED <<busVars, consumer, deliveries, closed, sent, loopVars,
                 step, res, judged, invoice, redisErrs, ctxDone>>

SetupCommunication ==
  /\ pc = "setup"
  /\ Reset
  /\ consumer' = TRUE
  /\ loop' = "recv"
  /\ pc' = "ready"
  /\ UNCHANGED <<ch, mqChannel, deliveries, closed, sent, hand, acked, nacked,
                 step, res, judged, invoice, redisErrs, ctxDone>>
-----------------------------------------------------------------------------
(* The delivery goroutine.                                                  *)

\* notify*Subscribers: a non-blocking send to the subscribed channel.
Notified(k) == k \in subs /\ Len(ch[k]) < ChCapacity

\* Mutation: a message for a busy subscriber is dropped.
publish_dropsWhenBusy(m) ==
  IF m.kind \in subs
  THEN /\ ch' = IF Notified(m.kind) THEN [ch EXCEPT ![m.kind] = Append(@, m)]
                ELSE ch
       /\ UNCHANGED <<pending, subs>>
  ELSE /\ pending' = [pending EXCEPT ![m.kind] = Append(@, m)]
       /\ UNCHANGED <<ch, subs>>

\* Mutation: a delivered message is buffered as well.
publish_buffersAlways(m) ==
  /\ ch' = IF Notified(m.kind) THEN [ch EXCEPT ![m.kind] = Append(@, m)] ELSE ch
  /\ pending' = [pending EXCEPT ![m.kind] = Append(@, m)]
  /\ UNCHANGED subs

publish(m) ==
  IF Notified(m.kind)
  THEN /\ ch' = [ch EXCEPT ![m.kind] = Append(@, m)]
       /\ UNCHANGED <<pending, subs>>
  ELSE /\ pending' = [pending EXCEPT ![m.kind] = Append(@, m)]
       /\ UNCHANGED <<ch, subs>>

handleDelivery ==
  /\ loop = "recv" /\ deliveries # <<>>
  /\ deliveries' = Tail(deliveries)
  /\ hand' = Head(deliveries)
  /\ loop' = "settle"
  /\ IF Head(deliveries).kind \in Kinds
     THEN publish(Head(deliveries))
     ELSE UNCHANGED busVars
  /\ UNCHANGED <<mqChannel, consumer, closed, sent, acked, nacked, waitVars,
                 ctxDone>>

\* Mutation: the continue after nackDelivery is missing.
settleDelivery_acksAfterNack ==
  /\ loop = "settle"
  /\ acked' = acked \cup {hand}
  /\ nacked' = IF hand.kind \in Kinds THEN nacked ELSE nacked \cup {hand}
  /\ hand' = NoMsg
  /\ loop' = "recv"
  /\ UNCHANGED <<busVars, mqVars, waitVars, ctxDone>>

\* A handler error is nacked without requeue, anything else is acked; an
\* error of the ack itself is only logged.
settleDelivery ==
  /\ loop = "settle"
  /\ IF hand.kind \in Kinds
     THEN acked' = acked \cup {hand} /\ UNCHANGED nacked
     ELSE nacked' = nacked \cup {hand} /\ UNCHANGED acked
  /\ hand' = NoMsg
  /\ loop' = "recv"
  /\ UNCHANGED <<busVars, mqVars, waitVars, ctxDone>>

\* Either select case that ends the goroutine; its deferred close(done).
stopLoop ==
  /\ loop = "recv"
  /\ ctxDone \/ closed
  /\ loop' = "stopped"
  /\ UNCHANGED <<busVars, mqVars, hand, acked, nacked, waitVars, ctxDone>>
-----------------------------------------------------------------------------
(* The journey goroutine: Wait*Message for the kind Cur.                    *)

\* A fresh channel joins the set of its kind.
subscribe ==
  /\ pc = "ready" /\ step <= Len(Order)
  /\ subs' = subs \cup {Cur}
  /\ ch' = [ch EXCEPT ![Cur] = <<>>]
  /\ pc' = "take"
  /\ UNCHANGED <<pending, mqVars, loopVars, step, res, judged, invoice,
                 redisErrs, ctxDone>>

\* Mutation: the matcher forgets to save the invoice number.
matchPaymentRequest_noSave(m) == m.mine /\ UNCHANGED invoice

\* The three matchers, when their cache calls succeed.
matchPaymentRequest(m) == m.mine /\ invoice' = m.id
matchBookingConfirmation(m) == m.mine /\ UNCHANGED invoice
matchCheckinToday(m) == m.mine /\ UNCHANGED invoice

\* A Save that reports an error may or may not have stored the number.
SaveFails(m) ==
  invoice' \in IF Cur = "payment" /\ m.mine THEN {invoice, m.id} ELSE {invoice}

\* What the wait does with a message: a cache error inside a matcher counts
\* as a mismatch; once the context is done every cache call may fail.
match(m, next) ==
  /\ judged' = judged \cup {m}
  /\ \/ /\ CASE Cur = "payment" -> matchPaymentRequest(m)
             [] Cur = "confirmation" -> matchBookingConfirmation(m)
             [] Cur = "checkin" -> matchCheckinToday(m)
        /\ res' = [res EXCEPT ![Cur] = "matched"]
        /\ pc' = "leave"
        /\ UNCHANGED redisErrs
     \/ /\ ~m.mine
        /\ pc' = next
        /\ UNCHANGED <<res, invoice, redisErrs>>
     \/ /\ ctxDone \/ redisErrs < MaxRedisErrs
        /\ redisErrs' = IF ctxDone THEN redisErrs ELSE redisErrs + 1
        /\ SaveFails(m)
        /\ pc' = next
        /\ UNCHANGED res

\* Mutation: the buffer is not looked at before the select.
takePending_skips ==
  /\ pc = "take"
  /\ pc' = "select"
  /\ UNCHANGED <<busVars, res, judged, invoice, redisErrs, mqVars, loopVars, step,
                 ctxDone>>

takePending ==
  /\ pc = "take"
  /\ IF pending[Cur] = <<>>
     THEN /\ pc' = "select"
          /\ UNCHANGED <<pending, res, judged, invoice, redisErrs>>
     ELSE /\ pending' = [pending EXCEPT ![Cur] = Tail(@)]
          /\ match(Head(pending[Cur]), "select")
  /\ UNCHANGED <<subs, ch, mqVars, loopVars, step, ctxDone>>

receive ==
  /\ pc = "select" /\ ch[Cur] # <<>>
  /\ ch' = [ch EXCEPT ![Cur] = Tail(@)]
  /\ match(Head(ch[Cur]), "take")
  /\ UNCHANGED <<pending, subs, mqVars, loopVars, step, ctxDone>>

\* Mutation: the select does not watch bus.Done().
abandon_contextOnly ==
  /\ pc = "select"
  /\ ctxDone
  /\ res' = [res EXCEPT ![Cur] = "failed"]
  /\ pc' = "leave"
  /\ UNCHANGED <<busVars, mqVars, loopVars, step, judged, invoice, redisErrs,
                 ctxDone>>

\* The ctx.Done() and bus.Done() cases.
abandon ==
  /\ pc = "select"
  /\ ctxDone \/ loop = "stopped"
  /\ res' = [res EXCEPT ![Cur] = "failed"]
  /\ pc' = "leave"
  /\ UNCHANGED <<busVars, mqVars, loopVars, step, judged, invoice, redisErrs,
                 ctxDone>>

\* The deferred unsubscribe; what the channel still holds goes with it.
unsubscribe ==
  /\ pc = "leave"
  /\ subs' = subs \ {Cur}
  /\ ch' = [ch EXCEPT ![Cur] = <<>>]
  /\ IF res[Cur] = "matched"
     THEN pc' = "ready" /\ step' = step + 1
     ELSE pc' = "failed" /\ UNCHANGED step
  /\ UNCHANGED <<pending, mqVars, loopVars, res, judged, invoice, redisErrs,
                 ctxDone>>

\* A flow or a cache call of the journey, or the cleanup of a finished stay,
\* fails; Start's deferred function runs the cleanup (again).
flowFails ==
  /\ pc = "ready"
  /\ pc' = "failed"
  /\ UNCHANGED <<busVars, mqVars, loopVars, step, res, judged, invoice,
                 redisErrs, ctxDone>>

(* cleanupGuestJourney, when the stay is over or the journey has failed.     *)
CloseCommunication ==
  /\ pc = "failed" \/ (pc = "ready" /\ step > Len(Order))
  /\ pc' = "over"
  /\ IF consumer
     THEN /\ mqChannel' = "closed" /\ closed' = TRUE
          /\ consumer' = FALSE
          /\ Reset /\ UNCHANGED ch
     ELSE UNCHANGED <<busVars, consumer, mqChannel, closed>>
  /\ UNCHANGED <<deliveries, sent, loopVars, step, res, judged, invoice,
                 redisErrs, ctxDone>>

\* An earlier call of that cleanup, or CloseChannel, fails: nothing is closed.
cleanupFails ==
  /\ pc = "failed"
  /\ pc' = "over"
  /\ UNCHANGED <<busVars, mqVars, loopVars, step, res, judged, invoice, redisErrs,
                 ctxDone>>
-----------------------------------------------------------------------------
(* The environment: broker, connection and process shutdown.                *)
Send ==
  /\ sent < MaxMsgs /\ consumer /\ ~closed
  /\ sent' = sent + 1
  /\ \E k \in Kinds \cup {"bad"}, mine \in BOOLEAN :
       /\ k = "bad" => ~mine
       /\ deliveries' =
            Append(deliveries, [id |-> sent + 1, kind |-> k, mine |-> mine])
  /\ UNCHANGED <<busVars, mqChannel, consumer, closed, loopVars, waitVars,
                 ctxDone>>

LoseConnection ==
  /\ consumer /\ ~closed
  /\ closed' = TRUE /\ mqChannel' = "closed"
  /\ UNCHANGED <<busVars, consumer, deliveries, sent, loopVars, waitVars,
                 ctxDone>>

Cancel ==
  /\ ~ctxDone
  /\ ctxDone' = TRUE
  /\ UNCHANGED <<busVars, mqVars, loopVars, waitVars>>

Loop == handleDelivery \/ settleDelivery \/ stopLoop
Journey ==
  \/ SetupFails \/ SetupCommunication \/ subscribe \/ takePending \/ receive
  \/ abandon \/ unsubscribe \/ flowFails \/ CloseCommunication \/ cleanupFails
Next == Loop \/ Journey \/ Send \/ LoseConnection \/ Cancel

Spec == Init /\ [][Next]_vars

\* The steps of the journey goroutine inside Wait*Message.
WaitStep == takePending \/ receive \/ abandon \/ unsubscribe

\* The Go scheduler runs every goroutine that can run, so the delivery loop
\* and a wait that has begun go on.  Between the waits the journey is in its
\* flows, its stay or its cleanup, which may hang: nothing is promised of
\* them, nor of the broker, the connection and the operator.
FairSpec == Spec /\ WF_vars(Loop) /\ WF_vars(WaitStep)
-----------------------------------------------------------------------------
(* Properties.                                                              *)

\* Types; a delivery the handler rejected is nacked and never acked.
TypeOK ==
  /\ mqChannel \in {"open", "closed"} /\ consumer \in BOOLEAN
  /\ deliveries \in Seq(Message) /\ closed \in BOOLEAN
  /\ loop \in {"off", "recv", "settle", "stopped"}
  /\ hand \in Message \cup {NoMsg}
  /\ acked \subseteq {m \in Message : m.kind \in Kinds}
  /\ nacked \subseteq {m \in Message : m.kind \notin Kinds}
  /\ pending \in [Kinds -> Seq(Message)]
  /\ subs \subseteq Kinds
  /\ ch \in [Kinds -> Seq(Message)]
  /\ pc \in {"setup", "ready", "take", "select", "leave", "failed", "over"}
  /\ step \in 1..4
  /\ res \in [Kinds -> {"none", "matched", "failed"}]
  /\ judged \subseteq Message
  /\ invoice \in 0..MaxMsgs
  /\ ctxDone \in BOOLEAN
  /\ redisErrs \in 0..MaxRedisErrs
  /\ sent \in 0..MaxMsgs

\* The bus acks a delivery for good before the journey has used it.  As long
\* as the wait of its kind has not ended, an acked message meant for this
\* guest is still held for that wait, in the buffer or in the waiter's
\* channel, whatever the interleaving of publish, subscribe, take and
\* unsubscribe; the exceptions are a cache error inside the matcher and a
\* cancelled context, which fails the cache calls too.
AckedNotLost ==
  \A m \in acked :
    m.mine /\ res[m.kind] = "none" /\ redisErrs = 0 /\ ~ctxDone /\ pc # "over"
      => InSeq(m, pending[m.kind]) \/ InSeq(m, ch[m.kind])

\* A message reaches a matcher at most once: it is never both delivered to
\* a subscriber and buffered, and never in a buffer or channel once judged.
DeliveredOnce ==
  \A k \in Kinds :
    LET held == pending[k] \o ch[k]
    IN  \A i \in 1..Len(held) :
          /\ held[i] \notin judged
          /\ \A j \in 1..Len(held) : held[i] = held[j] => i = j

\* The journey goes past the payment wait only with the invoice number of a
\* payment request for this guest, whatever matchers with failing cache calls
\* left in the cache before.
InvoiceOfMatch ==
  res["payment"] = "matched" =>
    \E m \in judged : m.kind = "payment" /\ m.mine /\ m.id = invoice

\* The journey goroutine is inside the wait for kind k.
Waiting(k) == pc \in {"take", "select"} /\ Cur = k

\* A cancelled context ends the wait the journey is in, and so do deliveries
\* that were closed, through the delivery loop that ends on them: no wait
\* has a timeout of its own.
StopUnblocks ==
  \A k \in Kinds : Waiting(k) /\ (ctxDone \/ closed) ~> res[k] # "none"

\* A message buffered before its wait began, with nothing buffered in front
\* of it, ends that wait (matched, or failed because the journey stops).
FirstBufferedEndsWait ==
  \A k \in Kinds :
    (/\ Waiting(k) /\ pc = "take"
     /\ pending[k] # <<>> /\ Head(pending[k]).mine
     /\ redisErrs = MaxRedisErrs)
      ~> res[k] # "none"

\* What the README says of the buffers: a message that arrived early is held
\* until the step subscribes, so a wait with a matching message buffered ends.
BufferedEndsWait ==
  \A k \in Kinds :
    (/\ Waiting(k)
     /\ \E i \in 1..Len(pending[k]) : pending[k][i].mine
     /\ redisErrs = MaxRedisErrs)
      ~> res[k] # "none"
=============================================================================
