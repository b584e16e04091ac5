----------------------------- MODULE LodgingChat -----------------------------
(***************************************************************************)
(* The websocket Client of the lodging chat: readLoop, a goroutine that    *)
(* acknowledges and sorts what the connection delivers, and the goroutine  *)
(* of the lodging step, which calls SendAction or Reply (sendAndWaitAck),  *)
(* WaitForNextSystemMessage (nextMessage) and at last Close.  The two      *)
(* share three Go channels; the slice pending belongs to the caller.       *)
(***************************************************************************)
EXTENDS Naturals, Sequences

CONSTANTS InCap,     \* capacity of inboundCh (32 in NewClient)
          AckCap,    \* capacity of ackCh (32 in NewClient)
          MaxSends,  \* bound on the messages the caller sends
          MaxSys,    \* bound on the non-ack messages the system sends
          MaxDups,   \* bound on the acks the system repeats
          AckStatus  \* statuses the system uses; the client reads none

ASSUME ChatAssumption ==
  /\ InCap \in Nat \ {0} /\ AckCap \in Nat \ {0}
  /\ MaxSends \in Nat /\ MaxSys \in Nat /\ MaxDups \in Nat
  /\ AckStatus \subseteq {"accepted", "rejected"}

VARIABLES
  conn,       \* the websocket connection: "open" | "closed"
  wire,       \* messages of the system on their way to the client
  written,    \* ids of guest messages written to the connection
  answered,   \* ids the system has acknowledged
  sent, dups, \* numbers of messages and of repeated acks the system has sent
  reader,     \* readLoop: "read" | "sendAck" | "put" | "putAck" | "ended"
  hand,       \* the message readLoop is working on
  sysAcked,   \* ids of system messages whose ack was written
  ackLost,    \* some message was dispatched without an ack
  inboundCh, ackCh,
  errCh,      \* the error channel (capacity 1) holds an error
  pending,    \* Client.pending
  pc,         \* caller: "idle" | "waitAck" | "next" | "failed" | "closed"
  cur,        \* id of the guest message last sent
  confirmed,  \* ids for which sendAndWaitAck returned nil
  taken,      \* messages nextMessage has returned, in order
  ctxDone     \* the caller's context is cancelled

netVars == <<wire, written, answered, sent, dups>>
readVars == <<reader, hand, sysAcked, ackLost>>
callVars == <<pending, pc, cur, confirmed, taken>>
vars == <<conn, netVars, readVars, inboundCh, ackCh, errCh, callVars, ctxDone>>

\* "system" carries a notification or a request, "noise" neither, "garbage"
\* does not decode; an ack is known by its status.
Inbound == [type : {"system", "noise"}, id : 1..MaxSys]
Garbage == [type : {"garbage"}, id : 1..MaxSys]
Ack == [type : AckStatus, id : 1..MaxSends]
NoMsg == [type |-> "none", id |-> 0]

Init ==
  /\ conn = "open" /\ wire = <<>> /\ written = {} /\ answered = {}
  /\ sent = 0 /\ dups = 0
  /\ reader = "read" /\ hand = NoMsg /\ sysAcked = {} /\ ackLost = FALSE
  /\ inboundCh = <<>> /\ ackCh = <<>> /\ errCh = FALSE
  /\ pending = <<>> /\ pc = "idle" /\ cur = 0 /\ confirmed = {} /\ taken = <<>>
  /\ ctxDone = FALSE
-----------------------------------------------------------------------------
(* readLoop.                                                                *)

\* Mutation: acks are not told from other messages.
readMessage_noAckTest ==
  /\ reader = "read" /\ wire # <<>> /\ Head(wire).type # "garbage"
  /\ wire' = Tail(wire)
  /\ hand' = Head(wire)
  /\ reader' = "sendAck"
  /\ UNCHANGED <<conn, written, answered, sent, dups, sysAcked, ackLost, inboundCh,
                 ackCh, errCh, callVars, ctxDone>>

\* ReadMessage returns the next frame; an undecodable one ends the loop.
readMessage ==
  /\ reader = "read" /\ wire # <<>>
  /\ wire' = Tail(wire)
  /\ \/ /\ Head(wire).type = "garbage"
        /\ errCh' = TRUE
        /\ reader' = "ended"
        /\ UNCHANGED hand
     \/ /\ Head(wire).type # "garbage"
        /\ hand' = Head(wire)
        /\ reader' = IF Head(wire).type \in AckStatus THEN "putAck" ELSE "sendAck"
        /\ UNCHANGED errCh
  /\ UNCHANGED <<conn, written, answered, sent, dups, sysAcked,
                 ackLost, inboundCh, ackCh, callVars, ctxDone>>

\* Mutation: errCh has no room, so the error reaches only a call that is
\* waiting when it occurs.
readFails_unbuffered ==
  /\ reader = "read" /\ conn = "closed"
  /\ errCh' = (pc \in {"waitAck", "next"})
  /\ reader' = "ended"
  /\ UNCHANGED <<conn, netVars, hand, sysAcked, ackLost, inboundCh, ackCh,
                 callVars, ctxDone>>

\* ReadMessage fails: the error is offered to errCh and the loop ends.
readFails ==
  /\ reader = "read" /\ conn = "closed"
  /\ errCh' = TRUE
  /\ reader' = "ended"
  /\ UNCHANGED <<conn, netVars, hand, sysAcked, ackLost, inboundCh, ackCh,
                 callVars, ctxDone>>

\* ackCh <- &msg
putAck ==
  /\ reader = "putAck" /\ Len(ackCh) < AckCap
  /\ ackCh' = Append(ackCh, hand)
  /\ reader' = "read" /\ hand' = NoMsg
  /\ UNCHANGED <<conn, netVars, sysAcked, ackLost, inboundCh, errCh, callVars,
                 ctxDone>>

\* Mutation: the ack is left out.
sendAck_omitted ==
  /\ reader = "sendAck"
  /\ reader' = "put"
  /\ UNCHANGED <<conn, netVars, hand, sysAcked, ackLost, inboundCh, ackCh, errCh,
                 callVars, ctxDone>>

\* A message without an id is not acknowledged, and a failing write is only
\* logged: the message is dispatched anyway.
sendAck ==
  /\ reader = "sendAck"
  /\ reader' = "put"
  /\ \/ /\ conn = "open"
        /\ sysAcked' = sysAcked \cup {hand.id}
        /\ UNCHANGED ackLost
     \/ ackLost' = TRUE /\ UNCHANGED sysAcked
  /\ UNCHANGED <<conn, netVars, hand, inboundCh, ackCh, errCh, callVars,
                 ctxDone>>

\* inboundCh <- &msg
putInbound ==
  /\ reader = "put" /\ Len(inboundCh) < InCap
  /\ inboundCh' = Append(inboundCh, hand)
  /\ reader' = "read" /\ hand' = NoMsg
  /\ UNCHANGED <<conn, netVars, sysAcked, ackLost, ackCh, errCh, callVars,
                 ctxDone>>
-----------------------------------------------------------------------------
(* SendAction and Reply: sendAndWaitAck.                                    *)

write ==
  /\ pc = "idle" /\ cur < MaxSends
  /\ cur' = cur + 1
  /\ \/ /\ conn = "open"
        /\ written' = written \cup {cur + 1}
        /\ pc' = "waitAck"
     \/ pc' = "failed" /\ UNCHANGED written
  /\ UNCHANGED <<conn, wire, answered, sent, dups, readVars,
                 inboundCh, ackCh, errCh, pending, confirmed, taken, ctxDone>>

\* case ack := <-c.ackCh: only the acknowledged id is compared.
receiveAck ==
  /\ pc = "waitAck" /\ ackCh # <<>>
  /\ ackCh' = Tail(ackCh)
  /\ IF Head(ackCh).id = cur
     THEN pc' = "idle" /\ confirmed' = confirmed \cup {cur}
     ELSE UNCHANGED <<pc, confirmed>>
  /\ UNCHANGED <<conn, netVars, readVars, inboundCh, errCh, pending, cur, taken,
                 ctxDone>>

\* Mutation: the select of sendAndWaitAck does not receive from inboundCh.
stash_never == FALSE /\ UNCHANGED vars

\* case inbound := <-c.inboundCh: kept for later.
stash ==
  /\ pc = "waitAck" /\ inboundCh # <<>>
  /\ inboundCh' = Tail(inboundCh)
  /\ pending' = Append(pending, Head(inboundCh))
  /\ UNCHANGED <<conn, netVars, readVars, ackCh, errCh, pc, cur, confirmed,
                 taken, ctxDone>>
-----------------------------------------------------------------------------
(* WaitForNextSystemMessage and the rest of the caller.                     *)

waitForNext ==
  /\ pc = "idle"
  /\ pc' = "next"
  /\ UNCHANGED <<conn, netVars, readVars, inboundCh, ackCh, errCh, pending, cur,
                 confirmed, taken, ctxDone>>

\* Mutation: only a message that is neither is returned.
deliver_inverted(m) ==
  /\ taken' = Append(taken, m)
  /\ pc' = IF m.type = "noise" THEN "idle" ELSE "next"

\* A message that is neither a notification nor a request is skipped.
deliver(m) ==
  /\ taken' = Append(taken, m)
  /\ pc' = IF m.type = "system" THEN "idle" ELSE "next"

\* Mutation: the channel is read before the buffered messages.
nextMessage_channelFirst ==
  /\ pc = "next"
  /\ \/ /\ inboundCh = <<>> /\ pending # <<>>
        /\ deliver(Head(pending))
        /\ pending' = Tail(pending)
        /\ UNCHANGED inboundCh
     \/ /\ inboundCh # <<>>
        /\ deliver(Head(inboundCh))
        /\ inboundCh' = Tail(inboundCh)
        /\ UNCHANGED pending
  /\ UNCHANGED <<conn, netVars, readVars, ackCh, errCh, cur, confirmed, ctxDone>>

nextMessage ==
  /\ pc = "next"
  /\ \/ /\ pending # <<>>
        /\ deliver(Head(pending))
        /\ pending' = Tail(pending)
        /\ UNCHANGED inboundCh
     \/ /\ pending = <<>> /\ inboundCh # <<>>
        /\ deliver(Head(inboundCh))
        /\ inboundCh' = Tail(inboundCh)
        /\ UNCHANGED pending
  /\ UNCHANGED <<conn, netVars, readVars, ackCh, errCh, cur, confirmed, ctxDone>>

\* The two selects (nextMessage reaches its own only with nothing pending).
InSelect == pc = "waitAck" \/ (pc = "next" /\ pending = <<>>)

cancelled ==
  /\ InSelect /\ ctxDone
  /\ pc' = "failed"
  /\ UNCHANGED <<conn, netVars, readVars, inboundCh, ackCh, errCh, pending, cur,
                 confirmed, taken, ctxDone>>

receiveErr ==
  /\ InSelect /\ errCh
  /\ errCh' = FALSE
  /\ pc' = "failed"
  /\ UNCHANGED <<conn, netVars, readVars, inboundCh, ackCh, pending, cur,
                 confirmed, taken, ctxDone>>

\* The lodging step ends, with an error or at the end of the stay, and its
\* deferred call closes the connection.
Close ==
  /\ pc \in {"idle", "failed"}
  /\ pc' = "closed"
  /\ conn' = "closed"
  /\ UNCHANGED <<netVars, readVars, inboundCh, ackCh, errCh, pending, cur,
                 confirmed, taken, ctxDone>>
-----------------------------------------------------------------------------
(* The environment: the lodging service, the network, shutdown.             *)
SystemAck ==
  /\ conn = "open"
  /\ \E i \in written, status \in AckStatus :
       /\ i \in answered => dups < MaxDups
       /\ dups' = IF i \in answered THEN dups + 1 ELSE dups
       /\ answered' = answered \cup {i}
       /\ wire' = Append(wire, [type |-> status, id |-> i])
  /\ UNCHANGED <<conn, written, sent, readVars, inboundCh, ackCh, errCh,
                 callVars, ctxDone>>

SystemSend ==
  /\ conn = "open" /\ sent < MaxSys
  /\ sent' = sent + 1
  /\ \E t \in {"system", "noise", "garbage"} :
       wire' = Append(wire, [type |-> t, id |-> sent + 1])
  /\ UNCHANGED <<conn, written, answered, dups, readVars, inboundCh, ackCh,
                 errCh, callVars, ctxDone>>

Disconnect ==
  /\ conn = "open"
  /\ conn' = "closed"
  /\ UNCHANGED <<netVars, readVars, inboundCh, ackCh, errCh, callVars, ctxDone>>

Cancel ==
  /\ ~ctxDone
  /\ ctxDone' = TRUE
  /\ UNCHANGED <<conn, netVars, readVars, inboundCh, ackCh, errCh, callVars>>

ReadLoop == readMessage \/ readFails \/ putAck \/ sendAck \/ putInbound
Waiting == receiveAck \/ stash \/ nextMessage \/ cancelled \/ receiveErr
Next ==
  \/ ReadLoop \/ Waiting \/ write \/ waitForNext \/ Close
  \/ SystemAck \/ SystemSend \/ Disconnect \/ Cancel

Spec == Init /\ [][Next]_vars

\* Go runs every goroutine that can run; the caller decides itself when to
\* call, and the service and the network promise nothing.
FairSpec == Spec /\ WF_vars(ReadLoop) /\ WF_vars(Waiting)
-----------------------------------------------------------------------------
(* Properties.                                                              *)

\* Types; acks and other messages never share a channel, and no channel
\* holds more than its capacity.
TypeOK ==
  /\ conn \in {"open", "closed"}
  /\ wire \in Seq(Inbound \cup Garbage \cup Ack)
  /\ written \subseteq 1..MaxSends /\ answered \subseteq written
  /\ sent \in 0..MaxSys /\ dups \in 0..MaxDups
  /\ reader \in {"read", "sendAck", "put", "putAck", "ended"}
  /\ hand \in CASE reader \in {"sendAck", "put"} -> Inbound
                [] reader = "putAck" -> Ack
                [] OTHER -> {NoMsg}
  /\ sysAcked \subseteq 1..MaxSys /\ ackLost \in BOOLEAN
  /\ inboundCh \in Seq(Inbound) /\ Len(inboundCh) <= InCap
  /\ ackCh \in Seq(Ack) /\ Len(ackCh) <= AckCap
  /\ errCh \in BOOLEAN
  /\ pending \in Seq(Inbound) /\ taken \in Seq(Inbound)
  /\ pc \in {"idle", "waitAck", "next", "failed", "closed"}
  /\ cur \in 0..MaxSends /\ confirmed \subseteq 1..MaxSends
  /\ ctxDone \in BOOLEAN

\* The messages received and not yet handed out, oldest first.
Undelivered ==
  pending \o inboundCh
    \o (IF reader \in {"sendAck", "put"} THEN <<hand>> ELSE <<>>)

\* The client keeps the contract of the chat: messages buffered while an ack
\* is awaited come out first and in order, none is lost, repeated or
\* overtaken on its way through the goroutine, inboundCh and pending, and
\* SendAction and Reply succeed only for a message the system acknowledged.
Contract == INSTANCE ChatContract
              WITH queue <- Undelivered, Ids <- 1..MaxSends
ContractSpec == Contract!Spec

\* A message is acknowledged to the system before the lodging step can see
\* it, unless it has no id or writing the ack fails.
AckedBeforeDispatch ==
  ~ackLost =>
    /\ \A i \in 1..Len(inboundCh) : inboundCh[i].id \in sysAcked
    /\ \A i \in 1..Len(pending) : pending[i].id \in sysAcked
    /\ \A i \in 1..Len(taken) : taken[i].id \in sysAcked

\* The ack of the message being sent reaches the caller, even when the
\* reader is blocked on a full inboundCh in front of it.
AckEndsSend == (pc = "waitAck" /\ cur \in answered) ~> (pc # "waitAck")

\* readLoop is blocked in ackCh <- &msg: acks nobody waited for have filled
\* the channel, which only sendAndWaitAck empties.
AcksStuck == reader = "putAck" /\ Len(ackCh) = AckCap

\* A system message on the wire ends a pending WaitForNextSystemMessage,
\* unless the system repeats more acks than ackCh has room for: nextMessage
\* does not receive from ackCh, and the reader stays in front of it.
MessageEndsWait ==
  (pc = "next" /\ \E i \in 1..Len(wire) : wire[i].type = "system")
    ~> (pc # "next" \/ AcksStuck)

\* When readLoop has ended no call stays blocked: the error it leaves in
\* errCh reaches whichever call comes next.
ErrorEndsCall ==
  (reader = "ended" /\ pc \in {"waitAck", "next"})
    ~> (pc \notin {"waitAck", "next"})

\* What the protocol says of acks: a client branches on the result, so a
\* message acknowledged as rejected is not reported as sent.
RejectedIsReported ==
  [][confirmed' # confirmed => Head(ackCh).type = "accepted"]_vars
=============================================================================
