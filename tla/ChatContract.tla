---------------------------- MODULE ChatContract ----------------------------
(***************************************************************************)
(* What the lodging chat client promises to the lodging step, without its  *)
(* goroutines, channels and buffers: messages of the system are handed out *)
(* in the order they came, each at most once, and a guest message counts   *)
(* as acknowledged only when the system has acknowledged that message.     *)
(***************************************************************************)
EXTENDS Naturals, Sequences

CONSTANTS Inbound,   \* the non-ack messages the system may send
          Ids        \* identifiers of guest messages

VARIABLES queue,     \* received messages not yet handed out
          taken,     \* messages handed out, in order
          answered,  \* guest messages the system has acknowledged
          confirmed  \* guest messages reported as acknowledged

cvars == <<queue, taken, answered, confirmed>>

Init == queue = <<>> /\ taken = <<>> /\ answered = {} /\ confirmed = {}

Arrive(m) ==
  /\ queue' = Append(queue, m)
  /\ UNCHANGED <<taken, answered, confirmed>>

Take ==
  /\ queue # <<>>
  /\ taken' = Append(taken, Head(queue))
  /\ queue' = Tail(queue)
  /\ UNCHANGED <<answered, confirmed>>

Answer(i) ==
  /\ answered' = answered \cup {i}
  /\ UNCHANGED <<queue, taken, confirmed>>

Confirm(i) ==
  /\ i \in answered
  /\ confirmed' = confirmed \cup {i}
  /\ UNCHANGED <<queue, taken, answered>>

Next ==
  \/ \E m \in Inbound : Arrive(m)
  \/ Take
  \/ \E i \in Ids : Answer(i) \/ Confirm(i)

Spec == Init /\ [][Next]_cvars
=============================================================================
