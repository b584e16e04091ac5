------------------------- MODULE LodgingChatProofs --------------------------
(***************************************************************************)
(* The chat client keeps its contract for every capacity of its channels   *)
(* and every number of messages.                                           *)
(*                                                                         *)
(* What the client has received and not handed out is one sequence, cut    *)
(* into the buffer, the channel and the hand of the reader; moving a       *)
(* message from one part to the next leaves the sequence alone.  An ack on *)
(* its way belongs to a message the system has answered (Answered).        *)
(***************************************************************************)
EXTENDS LodgingChat, SequenceTheorems, TLAPS

\* Every ack that is on its way was sent by the system.
Answered ==
  /\ \A i \in 1..Len(wire) : wire[i].type \in AckStatus => wire[i].id \in answered
  /\ reader = "putAck" => hand.id \in answered
  /\ \A i \in 1..Len(ackCh) : ackCh[i].id \in answered

\* The reader acknowledges before it dispatches.
HandAcked == ~ackLost /\ reader = "put" => hand.id \in sysAcked

LInv == TypeOK /\ Answered /\ HandAcked /\ AckedBeforeDispatch
-----------------------------------------------------------------------------
USE ChatAssumption DEF vars, netVars, readVars, callVars

(* Sequences.                                                               *)

\* The first element, and the rest, of a sequence with another behind it.
LEMMA HeadTailConcat ==
  ASSUME NEW S, NEW s \in Seq(S), NEW t \in Seq(S), s # <<>>
  PROVE  /\ s \o t # <<>> /\ Head(s \o t) = Head(s) /\ Tail(s \o t) = Tail(s) \o t
<1>1. /\ s \o t \in Seq(S) /\ Len(s \o t) = Len(s) + Len(t)
      /\ \A i \in 1..Len(s) + Len(t) :
           (s \o t)[i] = IF i <= Len(s) THEN s[i] ELSE t[i - Len(s)]
  BY ConcatProperties
<1>2. Len(s) \in Nat \ {0} /\ Len(t) \in Nat
  BY EmptySeq, LenProperties
<1>3. s \o t # <<>>
  BY <1>1, <1>2
<1>4. Head(s \o t) = Head(s)
  BY <1>1, <1>2, <1>3
<1>5. /\ Tail(s) \in Seq(S) /\ Len(Tail(s)) = Len(s) - 1
      /\ \A i \in 1..Len(Tail(s)) : Tail(s)[i] = s[i + 1]
  BY HeadTailProperties
<1>6. /\ Tail(s) \o t \in Seq(S) /\ Len(Tail(s) \o t) = Len(s) - 1 + Len(t)
      /\ \A i \in 1..Len(s) - 1 + Len(t) :
           (Tail(s) \o t)[i] = IF i <= Len(s) - 1 THEN Tail(s)[i] ELSE t[i - (Len(s) - 1)]
  BY <1>5, ConcatProperties
<1>7. /\ Tail(s \o t) \in Seq(S) /\ Len(Tail(s \o t)) = Len(s) + Len(t) - 1
      /\ \A i \in 1..Len(s) + Len(t) - 1 : Tail(s \o t)[i] = (s \o t)[i + 1]
  BY <1>1, <1>3, HeadTailProperties
<1>8. ASSUME NEW i \in 1..Len(Tail(s \o t)) PROVE Tail(s \o t)[i] = (Tail(s) \o t)[i]
  <2>1. i \in 1..Len(s) - 1 + Len(t) /\ i + 1 \in 1..Len(s) + Len(t)
    BY <1>2, <1>7
  <2>2. CASE i <= Len(s) - 1
    <3>1. i \in 1..Len(Tail(s)) /\ i + 1 <= Len(s)
      BY <1>2, <1>5, <2>1, <2>2
    <3> QED
      BY <1>1, <1>5, <1>6, <1>7, <2>1, <2>2, <3>1
  <2>3. CASE ~(i <= Len(s) - 1)
    <3>1. ~(i + 1 <= Len(s)) /\ i + 1 - Len(s) = i - (Len(s) - 1)
      BY <1>2, <2>1, <2>3
    <3> QED
      BY <1>1, <1>6, <1>7, <2>1, <2>3, <3>1
  <2> QED
    BY <2>2, <2>3
<1>9. Tail(s \o t) = Tail(s) \o t
  <2>1. Len(Tail(s \o t)) = Len(Tail(s) \o t)
    BY <1>2, <1>6, <1>7
  <2> QED
    BY <1>6, <1>7, <1>8, <2>1, SeqEqual
<1> QED
  BY <1>3, <1>4, <1>9

\* The front of a sequence moves to the end of the one before it.
LEMMA MoveFront ==
  ASSUME NEW S, NEW s \in Seq(S), NEW t \in Seq(S), t # <<>>
  PROVE  Append(s, Head(t)) \o Tail(t) = s \o t
<1>1. Head(t) \in S /\ Tail(t) \in Seq(S) /\ <<Head(t)>> \in Seq(S)
  BY HeadTailProperties
<1>2. <<Head(t)>> \o Tail(t) = t
  <2>1. /\ <<Head(t)>> \o Tail(t) \in Seq(S)
        /\ Len(<<Head(t)>> \o Tail(t)) = 1 + Len(Tail(t))
        /\ \A i \in 1..1 + Len(Tail(t)) :
             (<<Head(t)>> \o Tail(t))[i] = IF i <= 1 THEN Head(t) ELSE Tail(t)[i - 1]
    BY <1>1, ConcatProperties
  <2>2. /\ Len(t) \in Nat \ {0} /\ Len(Tail(t)) = Len(t) - 1
        /\ \A i \in 1..Len(Tail(t)) : Tail(t)[i] = t[i + 1]
    BY HeadTailProperties, EmptySeq
  <2>3. ASSUME NEW i \in 1..Len(t) PROVE (<<Head(t)>> \o Tail(t))[i] = t[i]
    <3>1. CASE i = 1
      BY <2>1, <2>2, <3>1
    <3>2. CASE i # 1
      <4>1. i - 1 \in 1..Len(Tail(t)) /\ i \in 1..1 + Len(Tail(t)) /\ ~(i <= 1)
        BY <2>2, <3>2
      <4> QED
        BY <2>1, <2>2, <4>1
    <3> QED
      BY <3>1, <3>2
  <2> QED
    BY <2>1, <2>2, <2>3, SeqEqual
<1>3. Append(s, Head(t)) = s \o <<Head(t)>>
  BY <1>1, AppendIsConcat
<1>4. (s \o <<Head(t)>>) \o Tail(t) = s \o (<<Head(t)>> \o Tail(t))
  BY <1>1, ConcatAssociative
<1> QED
  BY <1>2, <1>3, <1>4

\* What holds of all elements holds after Tail and Append.
LEMMA TailKeeps ==
  ASSUME NEW S, NEW s \in Seq(S), s # <<>>
  PROVE  /\ Head(s) \in S /\ Tail(s) \in Seq(S) /\ Len(Tail(s)) = Len(s) - 1
         /\ Head(s) = s[1] /\ 1 \in 1..Len(s)
         /\ \A i \in 1..Len(Tail(s)) : \E j \in 1..Len(s) : Tail(s)[i] = s[j]
<1>1. /\ Head(s) \in S /\ Tail(s) \in Seq(S) /\ Len(Tail(s)) = Len(s) - 1
      /\ \A i \in 1..Len(Tail(s)) : Tail(s)[i] = s[i + 1]
  BY HeadTailProperties
<1>2. Len(s) \in Nat \ {0}
  BY EmptySeq
<1>3. \A i \in 1..Len(Tail(s)) : i + 1 \in 1..Len(s)
  BY <1>1, <1>2
<1> QED
  BY <1>1, <1>2, <1>3

LEMMA AppendKeeps ==
  ASSUME NEW S, NEW s \in Seq(S), NEW m \in S
  PROVE  /\ Append(s, m) \in Seq(S) /\ Len(Append(s, m)) = Len(s) + 1
         /\ \A i \in 1..Len(Append(s, m)) :
              Append(s, m)[i] = m \/ \E j \in 1..Len(s) : Append(s, m)[i] = s[j]
  OBVIOUS
-----------------------------------------------------------------------------
(* The invariant.                                                           *)

\* The reader: what it takes off the wire it acknowledges, then passes on.
LEMMA ReadLoopKeeps == LInv /\ ReadLoop => LInv'
<1> SUFFICES ASSUME LInv, ReadLoop PROVE LInv'
  OBVIOUS
<1> DEFINE M == Inbound \cup Garbage \cup Ack
<1>0. TypeOK /\ Answered /\ HandAcked /\ AckedBeforeDispatch
  BY DEF LInv
<1>1. CASE readMessage
  <2>1. wire \in Seq(M) /\ wire # <<>>
    BY <1>0, <1>1 DEF TypeOK, readMessage
  <2>2. /\ Head(wire) \in M /\ Tail(wire) \in Seq(M)
        /\ Head(wire) = wire[1] /\ 1 \in 1..Len(wire)
        /\ \A i \in 1..Len(Tail(wire)) : \E j \in 1..Len(wire) : Tail(wire)[i] = wire[j]
    BY <2>1, TailKeeps DEF M
  <2>3. Head(wire).type # "garbage" =>
          IF Head(wire).type \in AckStatus THEN Head(wire) \in Ack ELSE Head(wire) \in Inbound
    BY <2>2 DEF M, Inbound, Garbage, Ack
  <2>4. TypeOK'
    BY <1>0, <1>1, <2>2, <2>3, Zenon DEF TypeOK, readMessage
  <2>5. Answered'
    BY <1>0, <1>1, <2>2 DEF Answered, readMessage
  <2>6. HandAcked' /\ AckedBeforeDispatch'
    BY <1>0, <1>1 DEF HandAcked, AckedBeforeDispatch, readMessage
  <2> QED
    BY <2>4, <2>5, <2>6 DEF LInv
<1>2. CASE readFails
  BY <1>0, <1>2, SMTT(60) DEF LInv, TypeOK, Answered, HandAcked, AckedBeforeDispatch, readFails
<1>3. CASE putAck
  <2>1. hand \in Ack /\ ackCh \in Seq(Ack) /\ hand.id \in answered
    BY <1>0, <1>3 DEF TypeOK, Answered, putAck
  <2>2. /\ ackCh' \in Seq(Ack) /\ Len(ackCh') = Len(ackCh) + 1
        /\ \A i \in 1..Len(ackCh') : ackCh'[i] = hand \/ \E j \in 1..Len(ackCh) : ackCh'[i] = ackCh[j]
    BY <1>3, <2>1, AppendKeeps DEF putAck
  <2>3. TypeOK'
    <3>1. Len(ackCh) \in Nat /\ Len(ackCh') <= AckCap
      BY <1>3, <2>1, <2>2 DEF putAck
    <3> QED
      BY <1>0, <1>3, <2>2, <3>1, SMTT(60) DEF TypeOK, putAck
  <2>4. Answered'
    BY <1>0, <1>3, <2>1, <2>2 DEF Answered, putAck
  <2>5. HandAcked' /\ AckedBeforeDispatch'
    BY <1>0, <1>3 DEF HandAcked, AckedBeforeDispatch, putAck
  <2> QED
    BY <2>3, <2>4, <2>5 DEF LInv
<1>4. CASE sendAck
  <2>1. hand \in Inbound /\ hand.id \in 1..MaxSys
    BY <1>0, <1>4 DEF TypeOK, sendAck, Inbound
  <2>2. TypeOK'
    BY <1>0, <1>4, <2>1, Zenon DEF TypeOK, sendAck
  <2>3. Answered'
    BY <1>0, <1>4 DEF Answered, sendAck
  <2>4. HandAcked' /\ AckedBeforeDispatch'
    BY <1>0, <1>4 DEF HandAcked, AckedBeforeDispatch, sendAck
  <2> QED
    BY <2>2, <2>3, <2>4 DEF LInv
<1>5. CASE putInbound
  <2>1. hand \in Inbound /\ inboundCh \in Seq(Inbound)
    BY <1>0, <1>5 DEF TypeOK, putInbound
  <2>2. /\ inboundCh' \in Seq(Inbound) /\ Len(inboundCh') = Len(inboundCh) + 1
        /\ \A i \in 1..Len(inboundCh') :
             inboundCh'[i] = hand \/ \E j \in 1..Len(inboundCh) : inboundCh'[i] = inboundCh[j]
    BY <1>5, <2>1, AppendKeeps DEF putInbound
  <2>3. TypeOK'
    <3>1. Len(inboundCh) \in Nat /\ Len(inboundCh') <= InCap
      BY <1>5, <2>1, <2>2 DEF putInbound
    <3> QED
      BY <1>0, <1>5, <2>2, <3>1, SMTT(60) DEF TypeOK, putInbound
  <2>4. Answered'
    BY <1>0, <1>5 DEF Answered, putInbound
  <2>5. HandAcked' /\ AckedBeforeDispatch'
    BY <1>0, <1>5, <2>2 DEF HandAcked, AckedBeforeDispatch, putInbound
  <2> QED
    BY <2>3, <2>4, <2>5 DEF LInv
<1> QED
  BY <1>1, <1>2, <1>3, <1>4, <1>5 DEF ReadLoop

\* The caller in one of its waits.
LEMMA WaitingKeeps == LInv /\ Waiting => LInv'
<1> SUFFICES ASSUME LInv, Waiting PROVE LInv'
  OBVIOUS
<1>0. TypeOK /\ Answered /\ HandAcked /\ AckedBeforeDispatch
  BY DEF LInv
<1>1. CASE receiveAck
  <2>1. /\ Head(ackCh) \in Ack /\ Tail(ackCh) \in Seq(Ack) /\ Len(Tail(ackCh)) = Len(ackCh) - 1
        /\ \A i \in 1..Len(Tail(ackCh)) : \E j \in 1..Len(ackCh) : Tail(ackCh)[i] = ackCh[j]
    BY <1>0, <1>1, TailKeeps DEF TypeOK, receiveAck
  <2>2. cur' = cur /\ confirmed' \subseteq 1..MaxSends
    BY <1>0, <1>1, <2>1, SMTT(60) DEF TypeOK, receiveAck, Ack
  <2>3. Len(ackCh) \in Nat /\ Len(ackCh') <= AckCap
    BY <1>0, <1>1, <2>1 DEF TypeOK, receiveAck
  <2>4. TypeOK'
    BY <1>0, <1>1, <2>1, <2>2, <2>3, SMTT(60) DEF TypeOK, receiveAck
  <2>5. Answered'
    BY <1>0, <1>1, <2>1 DEF Answered, receiveAck
  <2>6. HandAcked' /\ AckedBeforeDispatch'
    BY <1>0, <1>1 DEF HandAcked, AckedBeforeDispatch, receiveAck
  <2> QED
    BY <2>4, <2>5, <2>6 DEF LInv
<1>2. CASE stash
  <2>1. /\ Head(inboundCh) \in Inbound /\ inboundCh' \in Seq(Inbound)
        /\ Len(inboundCh') = Len(inboundCh) - 1
        /\ Head(inboundCh) = inboundCh[1] /\ 1 \in 1..Len(inboundCh)
        /\ \A i \in 1..Len(inboundCh') : \E j \in 1..Len(inboundCh) : inboundCh'[i] = inboundCh[j]
    BY <1>0, <1>2, TailKeeps DEF TypeOK, stash
  <2>2. /\ pending' \in Seq(Inbound)
        /\ \A i \in 1..Len(pending') :
             \/ pending'[i] = Head(inboundCh)
             \/ \E j \in 1..Len(pending) : pending'[i] = pending[j]
    <3>1. pending \in Seq(Inbound) /\ pending' = Append(pending, Head(inboundCh))
      BY <1>0, <1>2, Zenon DEF TypeOK, stash
    <3>2. Head(inboundCh) \in Inbound
      BY <2>1, Zenon
    <3>3. LET q == Append(pending, Head(inboundCh))
          IN  /\ q \in Seq(Inbound)
              /\ \A i \in 1..Len(q) :
                   q[i] = Head(inboundCh) \/ \E j \in 1..Len(pending) : q[i] = pending[j]
      BY <3>1, <3>2, AppendKeeps
    <3> QED
      BY <3>1, <3>3, Zenon
  <2>3. Len(inboundCh) \in Nat /\ Len(inboundCh') <= InCap
    BY <1>0, <2>1, SMTT(60) DEF TypeOK
  <2>4. TypeOK'
    BY <1>0, <1>2, <2>1, <2>2, <2>3, SMTT(60) DEF TypeOK, stash
  <2>5. Answered' /\ HandAcked'
    BY <1>0, <1>2 DEF Answered, HandAcked, stash
  <2>6. AckedBeforeDispatch'
    BY <1>0, <1>2, <2>1, <2>2 DEF AckedBeforeDispatch, stash
  <2> QED
    BY <2>4, <2>5, <2>6 DEF LInv
<1>3. CASE nextMessage
  <2>1. CASE pending # <<>> /\ deliver(Head(pending)) /\ pending' = Tail(pending) /\ UNCHANGED inboundCh
    <3>1. /\ Head(pending) \in Inbound /\ pending' \in Seq(Inbound)
          /\ Head(pending) = pending[1] /\ 1 \in 1..Len(pending)
          /\ \A i \in 1..Len(pending') : \E j \in 1..Len(pending) : pending'[i] = pending[j]
      BY <1>0, <2>1, TailKeeps DEF TypeOK
    <3>2. /\ taken' \in Seq(Inbound)
          /\ \A i \in 1..Len(taken') :
               taken'[i] = Head(pending) \/ \E j \in 1..Len(taken) : taken'[i] = taken[j]
      BY <1>0, <2>1, <3>1, AppendKeeps, SMTT(60) DEF TypeOK, deliver
    <3>3. TypeOK'
      BY <1>0, <1>3, <2>1, <3>1, <3>2, Zenon DEF TypeOK, nextMessage, deliver
    <3>4. Answered' /\ HandAcked'
      BY <1>0, <1>3 DEF Answered, HandAcked, nextMessage
    <3>5. AckedBeforeDispatch'
      BY <1>0, <1>3, <2>1, <3>1, <3>2, Zenon DEF AckedBeforeDispatch, nextMessage
    <3> QED
      BY <3>3, <3>4, <3>5 DEF LInv
  <2>2. CASE inboundCh # <<>> /\ deliver(Head(inboundCh)) /\ inboundCh' = Tail(inboundCh) /\ UNCHANGED pending
    <3>1. /\ Head(inboundCh) \in Inbound /\ inboundCh' \in Seq(Inbound)
          /\ Len(inboundCh') = Len(inboundCh) - 1
          /\ Head(inboundCh) = inboundCh[1] /\ 1 \in 1..Len(inboundCh)
          /\ \A i \in 1..Len(inboundCh') : \E j \in 1..Len(inboundCh) : inboundCh'[i] = inboundCh[j]
      BY <1>0, <2>2, TailKeeps DEF TypeOK
    <3>2. /\ taken' \in Seq(Inbound)
          /\ \A i \in 1..Len(taken') :
               taken'[i] = Head(inboundCh) \/ \E j \in 1..Len(taken) : taken'[i] = taken[j]
      BY <1>0, <2>2, <3>1, AppendKeeps, SMTT(60) DEF TypeOK, deliver
    <3>3. Len(inboundCh) \in Nat /\ Len(inboundCh') <= InCap
      BY <1>0, <3>1 DEF TypeOK
    <3>4. TypeOK'
      BY <1>0, <1>3, <2>2, <3>1, <3>2, <3>3, ZenonT(60) DEF TypeOK, nextMessage, deliver
    <3>5. Answered' /\ HandAcked'
      BY <1>0, <1>3 DEF Answered, HandAcked, nextMessage
    <3>6. AckedBeforeDispatch'
      BY <1>0, <1>3, <2>2, <3>1, <3>2, Zenon DEF AckedBeforeDispatch, nextMessage
    <3> QED
      BY <3>4, <3>5, <3>6 DEF LInv
  <2> QED
    BY <1>3, <2>1, <2>2 DEF nextMessage
<1>4. CASE cancelled
  BY <1>0, <1>4, SMTT(60) DEF LInv, TypeOK, Answered, HandAcked, AckedBeforeDispatch, cancelled
<1>5. CASE receiveErr
  BY <1>0, <1>5, Zenon DEF LInv, TypeOK, Answered, HandAcked, AckedBeforeDispatch, receiveErr
<1> QED
  BY <1>1, <1>2, <1>3, <1>4, <1>5 DEF Waiting
\* The rest of the caller, and the environment.
LEMMA OthersKeep ==
  LInv /\ (write \/ waitForNext \/ Close \/ SystemAck \/ SystemSend \/ Disconnect \/ Cancel)
    => LInv'
<1> SUFFICES ASSUME LInv,
                    write \/ waitForNext \/ Close \/ SystemAck \/ SystemSend \/ Disconnect \/ Cancel
             PROVE  LInv'
  OBVIOUS
<1> DEFINE M == Inbound \cup Garbage \cup Ack
<1>0. TypeOK /\ Answered /\ HandAcked /\ AckedBeforeDispatch
  BY DEF LInv
<1>1. CASE write
  <2>1. cur' \in 0..MaxSends /\ written' \subseteq 1..MaxSends /\ written \subseteq written'
    BY <1>0, <1>1, SMTT(60) DEF TypeOK, write
  <2> QED
    BY <1>0, <1>1, <2>1, SMTT(60) DEF LInv, TypeOK, Answered, HandAcked, AckedBeforeDispatch, write
<1>2. CASE waitForNext
  BY <1>0, <1>2 DEF LInv, TypeOK, Answered, HandAcked, AckedBeforeDispatch, waitForNext
<1>3. CASE Close
  BY <1>0, <1>3, SMTT(60) DEF LInv, TypeOK, Answered, HandAcked, AckedBeforeDispatch, Close
<1>4. CASE SystemAck
  <2>1. PICK i \in written, status \in AckStatus :
          /\ i \in answered => dups < MaxDups
          /\ dups' = IF i \in answered THEN dups + 1 ELSE dups
          /\ answered' = answered \cup {i}
          /\ wire' = Append(wire, [type |-> status, id |-> i])
    BY <1>4 DEF SystemAck
  <2>2. [type |-> status, id |-> i] \in M
    BY <1>0 DEF TypeOK, M, Ack
  <2>3. /\ wire' \in Seq(M)
        /\ \A k \in 1..Len(wire') :
             \/ wire'[k] = [type |-> status, id |-> i]
             \/ \E j \in 1..Len(wire) : wire'[k] = wire[j]
    <3> DEFINE m == [type |-> status, id |-> i]
    <3>1. wire \in Seq(M) /\ m \in M /\ wire' = Append(wire, m)
      BY <1>0, <2>1, <2>2 DEF TypeOK
    <3> HIDE DEF m, M
    <3>2. /\ wire' \in Seq(M)
          /\ \A k \in 1..Len(wire') : wire'[k] = m \/ \E j \in 1..Len(wire) : wire'[k] = wire[j]
      BY <3>1, AppendKeeps
    <3> QED
      BY <3>2 DEF m
  <2>4. dups' \in 0..MaxDups
    <3>1. dups \in 0..MaxDups /\ MaxDups \in Nat
      BY <1>0 DEF TypeOK
    <3>2. dups' = dups \/ (dups < MaxDups /\ dups' = dups + 1)
      BY <2>1
    <3> QED
      BY <3>1, <3>2
  <2>5. TypeOK'
    BY <1>0, <1>4, <2>1, <2>3, <2>4, SMTT(60) DEF TypeOK, SystemAck
  <2>6. Answered'
    BY <1>0, <1>4, <2>1, <2>3 DEF Answered, SystemAck
  <2>7. HandAcked' /\ AckedBeforeDispatch'
    BY <1>0, <1>4, SMTT(60) DEF HandAcked, AckedBeforeDispatch, SystemAck
  <2> QED
    BY <2>5, <2>6, <2>7 DEF LInv
<1>5. CASE SystemSend
  <2>1. PICK t \in {"system", "noise", "garbage"} :
          wire' = Append(wire, [type |-> t, id |-> sent + 1])
    BY <1>5 DEF SystemSend
  <2>2. sent' \in 0..MaxSys /\ sent + 1 \in 1..MaxSys
    BY <1>0, <1>5, SMTT(60) DEF TypeOK, SystemSend
  <2>3. [type |-> t, id |-> sent + 1] \in M
    BY <2>2 DEF M, Inbound, Garbage
  <2>4. /\ wire' \in Seq(M)
        /\ \A k \in 1..Len(wire') :
             \/ wire'[k] = [type |-> t, id |-> sent + 1]
             \/ \E j \in 1..Len(wire) : wire'[k] = wire[j]
    BY <1>0, <2>1, <2>3, AppendKeeps, SMTT(60) DEF TypeOK
  <2>5. TypeOK'
    BY <1>0, <1>5, <2>2, <2>4, SMTT(60) DEF TypeOK, SystemSend
  <2>6. Answered'
    BY <1>0, <1>5, <2>4 DEF Answered, SystemSend
  <2>7. HandAcked' /\ AckedBeforeDispatch'
    BY <1>0, <1>5 DEF HandAcked, AckedBeforeDispatch, SystemSend
  <2> QED
    BY <2>5, <2>6, <2>7 DEF LInv
<1>6. CASE Disconnect
  BY <1>0, <1>6, SMTT(60) DEF LInv, TypeOK, Answered, HandAcked, AckedBeforeDispatch, Disconnect
<1>7. CASE Cancel
  BY <1>0, <1>7, SMTT(60) DEF LInv, TypeOK, Answered, HandAcked, AckedBeforeDispatch, Cancel
<1> QED
  BY <1>1, <1>2, <1>3, <1>4, <1>5, <1>6, <1>7

\* The invariant holds throughout.
LEMMA ChatInvariant == Spec => []LInv
<1>1. Init => LInv
  <2> SUFFICES ASSUME Init PROVE LInv
    OBVIOUS
  <2>1. TypeOK
    <3>1. /\ wire = <<>> /\ inboundCh = <<>> /\ ackCh = <<>> /\ pending = <<>> /\ taken = <<>>
          /\ \A S : <<>> \in Seq(S)
      BY DEF Init
    <3>2. Len(inboundCh) <= InCap /\ Len(ackCh) <= AckCap
      BY <3>1
    <3>3. hand \in CASE reader \in {"sendAck", "put"} -> Inbound
                     [] reader = "putAck" -> Ack
                     [] OTHER -> {NoMsg}
      BY DEF Init
    <3>4. sent \in 0..MaxSys /\ dups \in 0..MaxDups /\ cur \in 0..MaxSends
      BY DEF Init
    <3>5. /\ conn \in {"open", "closed"} /\ written \subseteq 1..MaxSends /\ answered \subseteq written
          /\ reader \in {"read", "sendAck", "put", "putAck", "ended"}
          /\ sysAcked \subseteq 1..MaxSys /\ ackLost \in BOOLEAN /\ errCh \in BOOLEAN
          /\ pc \in {"idle", "waitAck", "next", "failed", "closed"}
          /\ confirmed \subseteq 1..MaxSends /\ ctxDone \in BOOLEAN
      BY Zenon DEF Init
    <3> QED
      BY <3>1, <3>2, <3>3, <3>4, <3>5 DEF TypeOK
  <2>2. Answered /\ HandAcked /\ AckedBeforeDispatch
    BY DEF Init, Answered, HandAcked, AckedBeforeDispatch
  <2> QED
    BY <2>1, <2>2 DEF LInv
<1>2. LInv /\ [Next]_vars => LInv'
  <2>1. LInv /\ Next => LInv'
    BY ReadLoopKeeps, WaitingKeeps, OthersKeep DEF Next
  <2>2. LInv /\ UNCHANGED vars => LInv'
    BY SMTT(60) DEF LInv, TypeOK, Answered, HandAcked, AckedBeforeDispatch
  <2> QED
    BY <2>1, <2>2
<1> QED
  BY <1>1, <1>2, PTL DEF Spec

\* Acks and other messages never share a channel and no channel of NewClient
\* holds more than its capacity, whatever the capacities.
THEOREM ChatTypes == Spec => []TypeOK
<1>1. LInv => TypeOK
  BY DEF LInv
<1> QED
  BY <1>1, ChatInvariant, PTL

\* readLoop acknowledges a message before the lodging step can see it,
\* unless it has no id or writing the ack fails.
THEOREM AckedFirst == Spec => []AckedBeforeDispatch
<1>1. LInv => AckedBeforeDispatch
  BY DEF LInv
<1> QED
  BY <1>1, ChatInvariant, PTL
-----------------------------------------------------------------------------
(* The contract.                                                            *)

\* The reader adds to the undelivered messages when it reads one.
LEMMA ReadLoopKeepsContract == LInv /\ ReadLoop => [Contract!Next]_(Contract!cvars)
<1> SUFFICES ASSUME LInv, ReadLoop PROVE [Contract!Next]_(Contract!cvars)
  OBVIOUS
<1> DEFINE q == pending \o inboundCh
<1>0. TypeOK /\ pending \in Seq(Inbound) /\ inboundCh \in Seq(Inbound)
  BY SMTT(60) DEF LInv, TypeOK
<1>1. q \in Seq(Inbound)
  BY <1>0, ConcatProperties
<1>2. q \o <<>> = q
  BY <1>1, ConcatEmptySeq
<1> HIDE DEF q
<1>3. Undelivered = q \o (IF reader \in {"sendAck", "put"} THEN <<hand>> ELSE <<>>)
  BY DEF Undelivered, q
<1>4. taken' = taken /\ answered' = answered /\ confirmed' = confirmed
  BY DEF ReadLoop, readMessage, readFails, putAck, sendAck, putInbound
<1>5. CASE readMessage /\ reader' = "sendAck"
  <2>1. Undelivered = q /\ Undelivered' = q \o <<hand'>>
    BY <1>2, <1>3, <1>5 DEF readMessage, Undelivered, q
  <2>2. hand' \in Inbound
    BY <1>5, ReadLoopKeeps, SMTT(60) DEF LInv, TypeOK
  <2>3. Append(q, hand') = q \o <<hand'>>
    BY <1>1, <2>2, AppendIsConcat
  <2>4. Contract!Arrive(hand')
    BY <1>4, <2>1, <2>3 DEF Contract!Arrive
  <2> QED
    BY <2>2, <2>4 DEF Contract!Next
<1>6. CASE putInbound
  <2>1. hand \in Inbound /\ <<hand>> \in Seq(Inbound)
    BY <1>0, <1>6 DEF TypeOK, putInbound
  <2>2. Undelivered = q \o <<hand>>
    BY <1>3, <1>6 DEF putInbound
  <2>3. Undelivered' = (pending \o Append(inboundCh, hand)) \o <<>>
    BY <1>6, SMTT(60) DEF putInbound, Undelivered
  <2>4. Append(inboundCh, hand) = inboundCh \o <<hand>>
    BY <1>0, <2>1, AppendIsConcat
  <2>5. pending \o (inboundCh \o <<hand>>) = q \o <<hand>>
    BY <1>0, <2>1, ConcatAssociative DEF q
  <2>6. q \o <<hand>> \in Seq(Inbound)
    BY <1>1, <2>1, ConcatProperties
  <2>7. (q \o <<hand>>) \o <<>> = q \o <<hand>>
    BY <2>6, ConcatEmptySeq
  <2>8. Undelivered' = Undelivered
    BY <2>2, <2>3, <2>4, <2>5, <2>7
  <2> QED
    BY <1>4, <2>8 DEF Contract!cvars
<1>7. CASE (readMessage /\ reader' # "sendAck") \/ readFails \/ putAck \/ sendAck
  <2>1. Undelivered' = Undelivered
    BY <1>7, SMTT(60) DEF Undelivered, readMessage, readFails, putAck, sendAck
  <2> QED
    BY <1>4, <2>1 DEF Contract!cvars
<1> QED
  BY <1>5, <1>6, <1>7 DEF ReadLoop

\* The caller takes the oldest undelivered message, or moves it to pending;
\* it confirms a message whose ack it has received.
LEMMA WaitingKeepsContract == LInv /\ Waiting => [Contract!Next]_(Contract!cvars)
<1> SUFFICES ASSUME LInv, Waiting PROVE [Contract!Next]_(Contract!cvars)
  OBVIOUS
<1> DEFINE r == IF reader \in {"sendAck", "put"} THEN <<hand>> ELSE <<>>
           q == pending \o inboundCh
<1>0. /\ TypeOK /\ Answered
      /\ pending \in Seq(Inbound) /\ inboundCh \in Seq(Inbound) /\ r \in Seq(Inbound)
  BY SMTT(60) DEF LInv, TypeOK
<1>1. q \in Seq(Inbound)
  BY <1>0, ConcatProperties
<1>2. r' = r /\ answered' = answered
  BY DEF Waiting, receiveAck, stash, nextMessage, cancelled, receiveErr
<1>3. Undelivered = q \o r /\ Undelivered' = q' \o r
  BY <1>2 DEF Undelivered
<1>4. CASE receiveAck
  <2>1. Undelivered' = Undelivered /\ taken' = taken
    BY <1>4 DEF receiveAck, Undelivered
  <2>2. CASE Head(ackCh).id = cur
    <3>1. Head(ackCh) \in Ack /\ Head(ackCh).id \in answered
      BY <1>0, <1>4, TailKeeps, SMTT(60) DEF TypeOK, Answered, receiveAck
    <3>2. cur \in 1..MaxSends /\ cur \in answered
      BY <2>2, <3>1 DEF Ack
    <3>3. Contract!Confirm(cur)
      BY <1>2, <1>4, <2>1, <2>2, <3>2 DEF receiveAck, Contract!Confirm
    <3> QED
      BY <3>2, <3>3 DEF Contract!Next
  <2>3. CASE Head(ackCh).id # cur
    BY <1>2, <1>4, <2>1, <2>3 DEF receiveAck, Contract!cvars
  <2> QED
    BY <2>2, <2>3
<1>5. CASE stash
  <2>1. q' = q
    BY <1>0, <1>5, MoveFront DEF stash
  <2>2. taken' = taken /\ confirmed' = confirmed
    BY <1>5 DEF stash
  <2> QED
    BY <1>2, <1>3, <2>1, <2>2 DEF Contract!cvars
<1>6. CASE nextMessage
  <2>1. q # <<>> /\ q' = Tail(q) /\ taken' = Append(taken, Head(q))
    <3>1. CASE pending # <<>> /\ deliver(Head(pending)) /\ pending' = Tail(pending) /\ UNCHANGED inboundCh
      BY <1>0, <3>1, HeadTailConcat, Zenon DEF deliver
    <3>2. CASE pending = <<>> /\ inboundCh # <<>> /\ deliver(Head(inboundCh))
                 /\ inboundCh' = Tail(inboundCh) /\ UNCHANGED pending
      <4>1. q = inboundCh
        BY <1>0, <3>2, ConcatEmptySeq
      <4>2. Tail(inboundCh) \in Seq(Inbound)
        BY <1>0, <3>2, HeadTailProperties
      <4>3. q' = Tail(inboundCh)
        BY <3>2, <4>2, ConcatEmptySeq
      <4> QED
        BY <3>2, <4>1, <4>3 DEF deliver
    <3> QED
      BY <1>6, <3>1, <3>2, Zenon DEF nextMessage
  <2> HIDE DEF q, r
  <2>2. /\ Undelivered # <<>> /\ Head(Undelivered) = Head(q)
        /\ Undelivered' = Tail(Undelivered)
    BY <1>0, <1>1, <1>3, <2>1, HeadTailConcat, ZenonT(60)
  <2>3. confirmed' = confirmed
    BY <1>6 DEF nextMessage
  <2>4. Contract!Take
    BY <1>2, <2>1, <2>2, <2>3 DEF Contract!Take
  <2> QED
    BY <2>4 DEF Contract!Next
<1>7. CASE cancelled \/ receiveErr
  BY <1>7 DEF cancelled, receiveErr, Undelivered, Contract!cvars
<1> QED
  BY <1>4, <1>5, <1>6, <1>7 DEF Waiting

\* The client implements ChatContract for all capacities and all numbers of
\* messages: through readLoop, inboundCh and pending no message is lost,
\* repeated or overtaken, and sendAndWaitAck succeeds only for a message the
\* system acknowledged.
THEOREM ChatKeepsContract == Spec => ContractSpec
<1>1. Init => Contract!Init
  <2>1. (<<>> \o <<>>) \o <<>> = <<>>
    BY ConcatEmptySeq, EmptySeq
  <2> QED
    BY <2>1 DEF Init, Contract!Init, Undelivered
<1>2. LInv /\ [Next]_vars => [Contract!Next]_(Contract!cvars)
  <2> SUFFICES ASSUME LInv, [Next]_vars PROVE [Contract!Next]_(Contract!cvars)
    OBVIOUS
  <2>1. CASE SystemAck
    <3>1. PICK i \in written : answered' = answered \cup {i}
      BY <2>1 DEF SystemAck
    <3>2. i \in 1..MaxSends
      BY DEF LInv, TypeOK
    <3>3. Contract!Answer(i)
      BY <2>1, <3>1, SMTT(60) DEF SystemAck, Undelivered, Contract!Answer
    <3> QED
      BY <3>2, <3>3 DEF Contract!Next
  <2>2. CASE write \/ waitForNext \/ Close \/ SystemSend \/ Disconnect \/ Cancel \/ UNCHANGED vars
    BY <2>2 DEF write, waitForNext, Close, SystemSend, Disconnect, Cancel, Undelivered,
                Contract!cvars
  <2> QED
    BY <2>1, <2>2, ReadLoopKeepsContract, WaitingKeepsContract DEF Next
<1> QED
  BY <1>1, <1>2, ChatInvariant, PTL DEF Spec, ContractSpec, Contract!Spec
=============================================================================
