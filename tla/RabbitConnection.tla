-------------------------- MODULE RabbitConnection --------------------------
(***************************************************************************)
(* The AMQP connection all journeys share (mq.RabbitMqConnection) and the  *)
(* way a channel is opened on it (RabbitMqChannel.openChannel).  A caller  *)
(* is a goroutine that opens channels, one after another; the closer is    *)
(* the cleanup of the process.  A connection is a number: conn points to   *)
(* the latest that was dialled.                                            *)
(***************************************************************************)
EXTENDS Integers, FiniteSets

CONSTANTS Callers,
          NoCaller,
          rabbitDialAttempts,  \* 5 in the code
          MaxDrops             \* bound on the connections the broker drops

ASSUME RabbitAssumption ==
  /\ NoCaller \notin Callers
  /\ rabbitDialAttempts \in Nat \ {0} /\ MaxDrops \in Nat

VARIABLES
  lock,     \* holder of mu
  conn,     \* c.conn
  up,       \* connections that are open
  closed,   \* c.closed
  pc,       \* caller: "idle" | "open" | "dial" | "channel", or the result of
            \* openChannel: "ok" | "err"
  got,      \* the connection openConnection returned to the caller
  retried,  \* the caller is in its second openConnection
  attempt,  \* of the loop that dials; 0: nobody does
  closer,   \* the owner: "dialing" | "failed" in the constructor, "running",
            \* "closing" | "closed" in Close
  drops

callVars == <<pc, got, retried>>
vars == <<lock, conn, up, closed, callVars, attempt, closer, drops>>

Init ==
  /\ lock = NoCaller /\ conn = 0 /\ up = {} /\ closed = FALSE
  /\ pc = [c \in Callers |-> "idle"] /\ got = [c \in Callers |-> 0]
  /\ retried = [c \in Callers |-> FALSE]
  /\ attempt = 1 /\ closer = "dialing" /\ drops = 0

\* The constructor dials before anyone else knows of the connection.
NewRabbitMqConnection ==
  /\ closer = "dialing"
  /\ \/ conn' = 1 /\ up' = {1} /\ closer' = "running" /\ attempt' = 0
     \/ /\ attempt < rabbitDialAttempts /\ attempt' = attempt + 1
        /\ UNCHANGED <<conn, up, closer>>
     \/ /\ attempt = rabbitDialAttempts /\ closer' = "failed" /\ attempt' = 0
        /\ UNCHANGED <<conn, up>>
  /\ UNCHANGED <<lock, closed, callVars, drops>>

openChannel(c) ==
  /\ closer \notin {"dialing", "failed"} /\ pc[c] = "idle"
  /\ pc' = [pc EXCEPT ![c] = "open"]
  /\ UNCHANGED <<lock, conn, up, closed, got, retried, attempt, closer, drops>>

\* Mutation: mu is not taken.
openConnection_noLock(c) ==
  /\ pc[c] = "open"
  /\ \/ closed /\ pc' = [pc EXCEPT ![c] = "err"] /\ UNCHANGED <<got, attempt>>
     \/ /\ ~closed /\ conn \in up
        /\ pc' = [pc EXCEPT ![c] = "channel"] /\ got' = [got EXCEPT ![c] = conn]
        /\ UNCHANGED attempt
     \/ /\ ~closed /\ conn \notin up
        /\ pc' = [pc EXCEPT ![c] = "dial"] /\ attempt' = 1
        /\ UNCHANGED got
  /\ UNCHANGED <<lock, conn, up, closed, retried, closer, drops>>

\* Mutation: closed is not looked at, in openConnection and reconnectLocked.
openConnection_reopens(c) ==
  /\ pc[c] = "open" /\ lock = NoCaller
  /\ \/ /\ conn \in up
        /\ pc' = [pc EXCEPT ![c] = "channel"] /\ got' = [got EXCEPT ![c] = conn]
        /\ UNCHANGED <<lock, attempt>>
     \/ /\ conn \notin up
        /\ pc' = [pc EXCEPT ![c] = "dial"] /\ lock' = c /\ attempt' = 1
        /\ UNCHANGED got
  /\ UNCHANGED <<conn, up, closed, retried, closer, drops>>

\* With mu held: an error when closed, the open connection, or a new one; mu
\* stays held while the caller dials.
openConnection(c) ==
  /\ pc[c] = "open" /\ lock = NoCaller
  /\ \/ /\ closed
        /\ pc' = [pc EXCEPT ![c] = "err"] /\ UNCHANGED <<lock, got, attempt>>
     \/ /\ ~closed /\ conn \in up
        /\ pc' = [pc EXCEPT ![c] = "channel"] /\ got' = [got EXCEPT ![c] = conn]
        /\ UNCHANGED <<lock, attempt>>
     \/ /\ ~closed /\ conn \notin up
        /\ pc' = [pc EXCEPT ![c] = "dial"] /\ lock' = c /\ attempt' = 1
        /\ UNCHANGED got
  /\ UNCHANGED <<conn, up, closed, retried, closer, drops>>

dialSucceeds(c) ==
  /\ pc[c] = "dial"
  /\ conn' = conn + 1 /\ up' = up \cup {conn + 1}
  /\ pc' = [pc EXCEPT ![c] = "channel"] /\ got' = [got EXCEPT ![c] = conn + 1]
  /\ lock' = NoCaller /\ attempt' = 0
  /\ UNCHANGED <<closed, retried, closer, drops>>

\* Mutation: the loop starts again after its last attempt.
dialFails_forever(c) ==
  /\ pc[c] = "dial"
  /\ attempt' = IF attempt < rabbitDialAttempts THEN attempt + 1 ELSE 1
  /\ UNCHANGED <<lock, conn, up, closed, callVars, closer, drops>>

\* After the last attempt the error is returned and mu released.
dialFails(c) ==
  /\ pc[c] = "dial"
  /\ IF attempt < rabbitDialAttempts
     THEN attempt' = attempt + 1 /\ UNCHANGED <<pc, lock>>
     ELSE /\ pc' = [pc EXCEPT ![c] = "err"] /\ lock' = NoCaller
          /\ attempt' = 0
  /\ UNCHANGED <<conn, up, closed, got, retried, closer, drops>>

\* conn.Channel(): on a connection that was lost meanwhile the caller goes
\* through openConnection once more.
channelOpens(c) ==
  /\ pc[c] = "channel" /\ got[c] \in up
  /\ pc' = [pc EXCEPT ![c] = "ok"]
  /\ UNCHANGED <<lock, conn, up, closed, got, retried, attempt, closer, drops>>

\* Mutation: the second attempt is made on the connection that was lost.
channelFails_sameConn(c) ==
  /\ pc[c] = "channel"
  /\ IF got[c] \in up
     THEN pc' = [pc EXCEPT ![c] = "err"]
     ELSE pc' = [pc EXCEPT ![c] = "channel"]
  /\ UNCHANGED <<lock, conn, up, closed, got, retried, attempt, closer, drops>>

channelFails(c) ==
  /\ pc[c] = "channel"
  /\ IF got[c] \in up \/ retried[c]
     THEN pc' = [pc EXCEPT ![c] = "err"] /\ UNCHANGED retried
     ELSE /\ pc' = [pc EXCEPT ![c] = "open"]
          /\ retried' = [retried EXCEPT ![c] = TRUE]
  /\ UNCHANGED <<lock, conn, up, closed, got, attempt, closer, drops>>

\* The caller goes on with the result.
returned(c) ==
  /\ pc[c] \in {"ok", "err"}
  /\ pc' = [pc EXCEPT ![c] = "idle"] /\ got' = [got EXCEPT ![c] = 0]
  /\ retried' = [retried EXCEPT ![c] = FALSE]
  /\ UNCHANGED <<lock, conn, up, closed, attempt, closer, drops>>

\* The process shuts down: runCleanup calls Close, which needs mu.
shutdown ==
  /\ closer = "running"
  /\ closer' = "closing"
  /\ UNCHANGED <<lock, conn, up, closed, callVars, attempt, drops>>

Close ==
  /\ closer = "closing" /\ lock = NoCaller
  /\ closed' = TRUE
  /\ up' = up \ {conn}
  /\ closer' = "closed"
  /\ UNCHANGED <<lock, conn, callVars, attempt, drops>>

\* The broker or the network drops a connection.
Drop ==
  /\ drops < MaxDrops
  /\ \E k \in up : up' = up \ {k}
  /\ drops' = drops + 1
  /\ UNCHANGED <<lock, conn, closed, callVars, attempt, closer>>

Call(c) == dialSucceeds(c) \/ dialFails(c) \/ channelOpens(c) \/ channelFails(c)
Next ==
  \/ \E c \in Callers : openChannel(c) \/ openConnection(c) \/ Call(c) \/ returned(c)
  \/ NewRabbitMqConnection \/ shutdown \/ Close \/ Drop

Spec == Init /\ [][Next]_vars

-----------------------------------------------------------------------------
(* Properties.                                                              *)

\* Types; a call makes at most rabbitDialAttempts dials before it returns.
TypeOK ==
  /\ lock \in Callers \cup {NoCaller}
  /\ conn \in Nat /\ up \in SUBSET Nat /\ closed \in BOOLEAN
  /\ pc \in [Callers -> {"idle", "open", "dial", "channel", "ok", "err"}]
  /\ got \in [Callers -> Nat] /\ retried \in [Callers -> BOOLEAN]
  /\ attempt \in 0..rabbitDialAttempts
  /\ closer \in {"dialing", "failed", "running", "closing", "closed"}
  /\ drops \in 0..MaxDrops

\* No connection is lost sight of: whoever reconnects, in whatever order,
\* only the connection that the struct holds can be open.
OnlyCurrentIsOpen == up \subseteq {conn}

\* Once Close has run, no connection is open and none is opened again, not
\* by a caller that found the connection lost before.
ClosedForGood == closed => up = {}
=============================================================================
