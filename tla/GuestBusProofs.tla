--------------------------- MODULE GuestBusProofs ---------------------------
(***************************************************************************)
(* No acked message is lost between the delivery goroutine and the waits,  *)
(* none reaches a matcher twice, and the payment wait leaves the invoice   *)
(* number of a matching request, for every number of messages and of cache *)
(* errors.                                                                 *)
(*                                                                         *)
(* A message is safe before it is acked: from handleDelivery on it is held *)
(* (Held), because only the kind that is waited for is subscribed          *)
(* (Subscribed), a channel is emptied only when its wait has ended, and    *)
(* Reset runs before the first delivery and after the last wait.           *)
(*                                                                         *)
(* No message reaches a matcher twice: it is younger than everything seen  *)
(* before it when it is handled (Fresh), and from then on it is in one     *)
(* place only (Distinct).                                                  *)
(***************************************************************************)
EXTENDS GuestBus, TLAPS

Handled == acked \cup (IF loop = "settle" /\ hand.kind \in Kinds THEN {hand} ELSE {})

Held ==
  \A m \in Handled :
    m.mine /\ res[m.kind] = "none" /\ redisErrs = 0 /\ ~ctxDone /\ pc # "over"
      => InSeq(m, pending[m.kind]) \/ InSeq(m, ch[m.kind])

InWait == pc \in {"take", "select", "leave"}

Subscribed ==
  /\ InWait => step <= 3 /\ subs = {Cur}
  /\ ~InWait => subs = {}
  /\ \A k \in Kinds \ subs : ch[k] = <<>>

\* Buffers and channels hold messages of their kind.
Sorted ==
  \A k \in Kinds :
    /\ \A i \in 1..Len(pending[k]) : pending[k][i].kind = k
    /\ \A i \in 1..Len(ch[k]) : ch[k][i].kind = k

Stages ==
  /\ pc = "setup" => loop = "off" /\ acked = {} /\ step = 1
  /\ loop = "settle" => hand \in Message
  /\ pc = "leave" => res[Cur] # "none"
  /\ step = 1 /\ pc \in {"setup", "ready", "take", "select"} => res["payment"] = "none"

BInv == TypeOK /\ Held /\ Subscribed /\ Sorted /\ Stages /\ InvoiceOfMatch
-----------------------------------------------------------------------------
USE BusAssumption DEF vars, busVars, mqVars, loopVars, waitVars

(* Sequences.                                                               *)

\* What is not the head is in the tail.
LEMMA TailHolds ==
  ASSUME NEW S, NEW s \in Seq(S), s # <<>>, NEW m, InSeq(m, s), m # Head(s)
  PROVE  InSeq(m, Tail(s))
<1>1. PICK i \in 1..Len(s) : s[i] = m
  BY DEF InSeq
<1>2. i # 1
  BY <1>1
<1>3. i - 1 \in 1..Len(Tail(s)) /\ Tail(s)[i - 1] = m
  BY <1>1, <1>2
<1> QED
  BY <1>3 DEF InSeq

\* Append keeps what is there and adds the new element.
LEMMA AppendHolds ==
  ASSUME NEW S, NEW s \in Seq(S), NEW x \in S
  PROVE  /\ InSeq(x, Append(s, x))
         /\ \A m : InSeq(m, s) => InSeq(m, Append(s, x))
<1>1. Len(s) + 1 \in 1..Len(Append(s, x)) /\ Append(s, x)[Len(s) + 1] = x
  OBVIOUS
<1>2. \A i \in 1..Len(s) : i \in 1..Len(Append(s, x)) /\ Append(s, x)[i] = s[i]
  OBVIOUS
<1>3. InSeq(x, Append(s, x))
  BY <1>1 DEF InSeq
<1>4. \A m : InSeq(m, s) => InSeq(m, Append(s, x))
  BY <1>2 DEF InSeq
<1> QED
  BY <1>3, <1>4

\* The kinds are waited for one after the other.
LEMMA Waits ==
  /\ Len(Order) = 3
  /\ \A i \in 1..3 : Order[i] \in Kinds /\ (Order[i] = "payment" <=> i = 1)
  BY DEF Order, Kinds
-----------------------------------------------------------------------------
\* A new bus has handled nothing.
LEMMA BInvInit == Init => BInv
<1> SUFFICES ASSUME Init PROVE BInv
  OBVIOUS
<1>1. 0 \in 0..MaxMsgs /\ 0 \in 0..MaxRedisErrs /\ 1 \in 1..4
  OBVIOUS
<1>2. TypeOK
  <2>1. <<>> \in Seq(Message)
    OBVIOUS
  <2>2. /\ deliveries \in Seq(Message) /\ pending \in [Kinds -> Seq(Message)]
        /\ ch \in [Kinds -> Seq(Message)]
    BY <2>1 DEF Init
  <2>3. /\ acked \subseteq {m \in Message : m.kind \in Kinds}
        /\ nacked \subseteq {m \in Message : m.kind \notin Kinds}
        /\ subs \subseteq Kinds /\ judged \subseteq Message
    BY DEF Init
  <2>4. res \in [Kinds -> {"none", "matched", "failed"}]
    BY DEF Init
  <2> QED
    BY <1>1, <2>2, <2>3, <2>4, Zenon DEF Init, TypeOK
<1>3. Held /\ Stages
  BY DEF Init, Held, Handled, Stages, Kinds
<1>4. Subscribed /\ Sorted
  BY DEF Init, Subscribed, Sorted, InWait, Kinds
<1>5. InvoiceOfMatch
  BY DEF Init, InvoiceOfMatch, Kinds
<1> QED
  BY <1>2, <1>3, <1>4, <1>5 DEF BInv

\* What is published is held, in the channel or in the buffer of its kind,
\* and nothing else is touched.
LEMMA Published ==
  ASSUME TypeOK, Sorted, NEW m \in Message, m.kind \in Kinds, publish(m)
  PROVE  /\ pending' \in [Kinds -> Seq(Message)] /\ ch' \in [Kinds -> Seq(Message)]
         /\ Sorted' /\ subs' = subs
         /\ \A k \in Kinds \ subs : ch'[k] = ch[k]
         /\ InSeq(m, pending'[m.kind]) \/ InSeq(m, ch'[m.kind])
         /\ \A n, k : k \in Kinds =>
              /\ InSeq(n, pending[k]) => InSeq(n, pending'[k])
              /\ InSeq(n, ch[k]) => InSeq(n, ch'[k])
<1> DEFINE k0 == m.kind
<1>1. pending[k0] \in Seq(Message) /\ ch[k0] \in Seq(Message)
  BY DEF TypeOK
<1>2. CASE Notified(k0)
  <2>1. ch' = [ch EXCEPT ![k0] = Append(ch[k0], m)] /\ pending' = pending /\ subs' = subs
    BY <1>2 DEF publish
  <2>2. ch' \in [Kinds -> Seq(Message)]
    BY <1>1, <2>1 DEF TypeOK
  <2>3. \A i \in 1..Len(Append(ch[k0], m)) : Append(ch[k0], m)[i].kind = k0
    BY <1>1 DEF Sorted
  <2>4. Sorted'
    BY <2>1, <2>3, Zenon DEF Sorted, TypeOK
  <2>5. k0 \in subs
    BY <1>2 DEF Notified
  <2> QED
    BY <1>1, <2>1, <2>2, <2>4, <2>5, AppendHolds DEF TypeOK
<1>3. CASE ~Notified(k0)
  <2>1. /\ pending' = [pending EXCEPT ![k0] = Append(pending[k0], m)]
        /\ ch' = ch /\ subs' = subs
    BY <1>3 DEF publish
  <2>2. pending' \in [Kinds -> Seq(Message)]
    BY <1>1, <2>1 DEF TypeOK
  <2>3. \A i \in 1..Len(Append(pending[k0], m)) : Append(pending[k0], m)[i].kind = k0
    BY <1>1 DEF Sorted
  <2>4. Sorted'
    BY <2>1, <2>3, Zenon DEF Sorted, TypeOK
  <2> QED
    BY <1>1, <2>1, <2>2, <2>4, AppendHolds DEF TypeOK
<1> QED
  BY <1>2, <1>3, Zenon

\* The delivery goroutine holds what it handles before it acks.
LEMMA LoopKeeps == BInv /\ Loop => BInv'
<1> SUFFICES ASSUME BInv, Loop PROVE BInv'
  OBVIOUS
<1> USE DEF BInv
<1>1. CASE handleDelivery
  <2> DEFINE m == Head(deliveries)
  <2>1. /\ loop = "recv" /\ deliveries # <<>> /\ deliveries' = Tail(deliveries)
        /\ hand' = m /\ loop' = "settle"
        /\ UNCHANGED <<mqChannel, consumer, closed, sent, acked, nacked, waitVars, ctxDone>>
    BY <1>1 DEF handleDelivery
  <2>2. m \in Message /\ Tail(deliveries) \in Seq(Message)
    BY <2>1 DEF TypeOK
  <2>3. CASE m.kind \in Kinds
    <3>1. publish(m)
      BY <1>1, <2>3 DEF handleDelivery
    <3> HIDE DEF m
    <3>2. /\ pending' \in [Kinds -> Seq(Message)] /\ ch' \in [Kinds -> Seq(Message)]
          /\ Sorted' /\ subs' = subs
          /\ \A k \in Kinds \ subs : ch'[k] = ch[k]
          /\ InSeq(m, pending'[m.kind]) \/ InSeq(m, ch'[m.kind])
          /\ \A n, k : k \in Kinds =>
               /\ InSeq(n, pending[k]) => InSeq(n, pending'[k])
               /\ InSeq(n, ch[k]) => InSeq(n, ch'[k])
      BY <2>2, <2>3, <3>1, Published, Zenon
    <3>3. TypeOK'
      BY <2>1, <2>2, <3>2 DEF TypeOK
    <3>4. Held'
      <4>1. Handled' = acked \cup {m} /\ acked \subseteq Handled
        BY <2>1, <2>3 DEF Handled
      <4>2. \A n \in acked : n.kind \in Kinds
        BY DEF TypeOK
      <4> QED
        BY <2>1, <2>3, <3>2, <4>1, <4>2, Zenon DEF Held
    <3>5. Subscribed'
      BY <2>1, <3>2, Zenon DEF Subscribed, InWait, Cur
    <3>6. Stages' /\ InvoiceOfMatch'
      BY <2>1, <2>2 DEF Stages, InvoiceOfMatch, Cur
    <3> QED
      BY <3>2, <3>3, <3>4, <3>5, <3>6
  <2>4. CASE m.kind \notin Kinds
    <3>1. UNCHANGED busVars
      BY <1>1, <2>4 DEF handleDelivery
    <3> HIDE DEF m
    <3>2. TypeOK'
      BY <2>1, <2>2, <3>1 DEF TypeOK
    <3>3. Handled' = acked /\ acked \subseteq Handled
      BY <2>1, <2>4 DEF Handled
    <3>4. Held' /\ Sorted'
      BY <2>1, <3>1, <3>3 DEF Held, Sorted
    <3>5. Subscribed' /\ Stages' /\ InvoiceOfMatch'
      BY <2>1, <2>2, <3>1 DEF Subscribed, InWait, Stages, InvoiceOfMatch, Cur
    <3> QED
      BY <3>2, <3>4, <3>5
  <2> QED
    BY <2>3, <2>4
<1>2. CASE settleDelivery
  <2>1. /\ loop = "settle" /\ loop' = "recv" /\ hand' = NoMsg
        /\ UNCHANGED <<busVars, mqVars, waitVars, ctxDone>>
    BY <1>2 DEF settleDelivery
  <2>2. hand \in Message
    BY <2>1 DEF Stages
  <2>3. TypeOK'
    BY <1>2, <2>1, <2>2 DEF settleDelivery, TypeOK
  <2>4. Handled' = Handled
    BY <1>2, <2>1 DEF settleDelivery, Handled
  <2>5. Held' /\ Sorted'
    BY <2>1, <2>4 DEF Held, Sorted
  <2>6. Subscribed' /\ Stages' /\ InvoiceOfMatch'
    BY <2>1 DEF Subscribed, InWait, Stages, InvoiceOfMatch, Cur
  <2> QED
    BY <2>3, <2>5, <2>6
<1>3. CASE stopLoop
  <2>1. /\ loop = "recv" /\ loop' = "stopped"
        /\ UNCHANGED <<busVars, mqVars, hand, acked, nacked, waitVars, ctxDone>>
    BY <1>3 DEF stopLoop
  <2>2. TypeOK'
    BY <2>1 DEF TypeOK
  <2>3. Handled' = Handled
    BY <2>1 DEF Handled
  <2>4. Held' /\ Sorted'
    BY <2>1, <2>3 DEF Held, Sorted
  <2>5. Subscribed' /\ Stages' /\ InvoiceOfMatch'
    BY <2>1 DEF Subscribed, InWait, Stages, InvoiceOfMatch, Cur
  <2> QED
    BY <2>2, <2>4, <2>5
<1> QED
  BY <1>1, <1>2, <1>3 DEF Loop

\* A matcher ends the wait, or the message is not for this guest, or a cache
\* call failed; the invoice number changes only while payment is waited for.
LEMMA Judged ==
  ASSUME BInv, pc \in {"take", "select"}, NEW m \in Message, m.kind = Cur,
         NEW next \in {"take", "select"}, match(m, next)
  PROVE  /\ judged' \subseteq Message /\ invoice' \in 0..MaxMsgs
         /\ res' \in [Kinds -> {"none", "matched", "failed"}]
         /\ redisErrs' \in 0..MaxRedisErrs
         /\ redisErrs' = 0 => redisErrs = 0
         /\ \/ pc' = "leave" /\ res' = [res EXCEPT ![Cur] = "matched"]
            \/ pc' = next /\ res' = res
         /\ m.mine => res'[Cur] # "none" \/ redisErrs' # 0 \/ ctxDone
         /\ InvoiceOfMatch'
<1> USE DEF BInv
<1>1. /\ step \in 1..3 /\ Cur \in Kinds /\ m.id \in 1..MaxMsgs
      /\ Cur = "payment" => res["payment"] = "none"
  BY Waits, SMTT(60) DEF Subscribed, InWait, Stages, TypeOK, Cur, Message
<1>2. judged' = judged \cup {m}
  BY DEF match
<1>3. invoice \in 0..MaxMsgs /\ m.id \in 0..MaxMsgs
  BY <1>1 DEF TypeOK
<1>4. CASE /\ m.mine /\ res' = [res EXCEPT ![Cur] = "matched"] /\ pc' = "leave"
           /\ redisErrs' = redisErrs
           /\ Cur = "payment" => invoice' = m.id
           /\ Cur # "payment" => invoice' = invoice
  <2>1. InvoiceOfMatch'
    <3>1. CASE Cur = "payment"
      BY <1>2, <1>4, <3>1 DEF InvoiceOfMatch
    <3>2. CASE Cur # "payment"
      BY <1>1, <1>2, <1>4, <3>2 DEF InvoiceOfMatch, TypeOK, Kinds
    <3> QED
      BY <3>1, <3>2
  <2>2. res'[Cur] = "matched"
    BY <1>1, <1>4 DEF TypeOK
  <2> QED
    BY <1>1, <1>2, <1>3, <1>4, <2>1, <2>2 DEF TypeOK
<1>5. CASE ~m.mine /\ pc' = next /\ UNCHANGED <<res, invoice, redisErrs>>
  <2>1. InvoiceOfMatch'
    BY <1>2, <1>5 DEF InvoiceOfMatch
  <2> QED
    BY <1>2, <1>3, <1>5, <2>1 DEF TypeOK
<1>6. CASE /\ ctxDone \/ redisErrs < MaxRedisErrs
           /\ redisErrs' = IF ctxDone THEN redisErrs ELSE redisErrs + 1
           /\ SaveFails(m) /\ pc' = next /\ UNCHANGED res
  <2>1. redisErrs' \in 0..MaxRedisErrs /\ (redisErrs' # 0 \/ ctxDone)
        /\ (redisErrs' = 0 => redisErrs = 0)
    BY <1>6 DEF TypeOK
  <2>2. invoice' \in {invoice, m.id} /\ (Cur # "payment" => invoice' = invoice)
    BY <1>6 DEF SaveFails
  <2>3. InvoiceOfMatch'
    BY <1>1, <1>2, <1>6, <2>2 DEF InvoiceOfMatch
  <2> QED
    BY <1>2, <1>3, <1>6, <2>1, <2>2, <2>3 DEF TypeOK
<1>7. \/ /\ m.mine /\ res' = [res EXCEPT ![Cur] = "matched"] /\ pc' = "leave"
         /\ redisErrs' = redisErrs
         /\ Cur = "payment" => invoice' = m.id
         /\ Cur # "payment" => invoice' = invoice
      \/ ~m.mine /\ pc' = next /\ UNCHANGED <<res, invoice, redisErrs>>
      \/ /\ ctxDone \/ redisErrs < MaxRedisErrs
         /\ redisErrs' = IF ctxDone THEN redisErrs ELSE redisErrs + 1
         /\ SaveFails(m) /\ pc' = next /\ UNCHANGED res
  BY <1>1, Zenon DEF match, matchPaymentRequest, matchBookingConfirmation,
     matchCheckinToday, Kinds
<1> QED
  BY <1>4, <1>5, <1>6, <1>7

OfKind(f) == \A k \in Kinds : \A i \in 1..Len(f[k]) : f[k][i].kind = k
KeepsBut(m, f, g) ==
  \A n, k : k \in Kinds /\ n # m /\ InSeq(n, f[k]) => InSeq(n, g[k])

\* Taking the first message of one kind leaves the others.
LEMMA Popped ==
  \A f, g, c :
    /\ f \in [Kinds -> Seq(Message)] /\ c \in Kinds /\ f[c] # <<>> /\ OfKind(f)
    /\ g = [f EXCEPT ![c] = Tail(f[c])]
    => /\ Head(f[c]) \in Message /\ Head(f[c]).kind = c
       /\ g \in [Kinds -> Seq(Message)] /\ OfKind(g) /\ KeepsBut(Head(f[c]), f, g)
<1> SUFFICES ASSUME NEW f \in [Kinds -> Seq(Message)], NEW c \in Kinds, f[c] # <<>>,
                    OfKind(f), NEW g, g = [f EXCEPT ![c] = Tail(f[c])]
             PROVE  /\ Head(f[c]) \in Message /\ Head(f[c]).kind = c
                    /\ g \in [Kinds -> Seq(Message)] /\ OfKind(g)
                    /\ KeepsBut(Head(f[c]), f, g)
  BY Zenon
<1> DEFINE s == f[c]
<1>1. s \in Seq(Message) /\ s # <<>>
  OBVIOUS
<1>2. \A i \in 1..Len(s) : s[i].kind = c
  BY DEF OfKind
<1>3. g[c] = Tail(s) /\ \A k \in Kinds : k # c => g[k] = f[k]
  OBVIOUS
<1>4. \A n : n # Head(s) /\ InSeq(n, s) => InSeq(n, Tail(s))
  BY <1>1, TailHolds
<1> HIDE DEF s
<1>5. Head(s) \in Message /\ Head(s).kind = c /\ Tail(s) \in Seq(Message)
  BY <1>1, <1>2
<1>6. \A i \in 1..Len(Tail(s)) : Tail(s)[i].kind = c
  BY <1>1, <1>2
<1>7. OfKind(g)
  BY <1>3, <1>6 DEF OfKind
<1>8. KeepsBut(Head(s), f, g)
  <2> SUFFICES ASSUME NEW n, NEW k \in Kinds, n # Head(s), InSeq(n, f[k])
               PROVE  InSeq(n, g[k])
    BY DEF KeepsBut
  <2>1. CASE k = c
    BY <1>3, <1>4, <2>1 DEF s
  <2>2. CASE k # c
    BY <1>3, <2>2
  <2> QED
    BY <2>1, <2>2
<1>9. g \in [Kinds -> Seq(Message)]
  BY <1>5 DEF s
<1> QED
  BY <1>5, <1>7, <1>8, <1>9 DEF s

\* A message taken from a buffer or a channel is judged; the others stay.
LEMMA TakeKeeps == BInv /\ (takePending \/ receive) => BInv'
<1> SUFFICES ASSUME BInv, takePending \/ receive PROVE BInv'
  OBVIOUS
<1> USE DEF BInv
<1>0. InWait
  BY Zenon DEF takePending, receive, InWait
<1>1. step \in 1..3 /\ Cur \in Kinds /\ subs = {Cur}
  BY <1>0, Waits DEF Subscribed, TypeOK, Cur
<1>2. UNCHANGED <<subs, mqVars, loopVars, step, ctxDone>>
  BY Zenon DEF takePending, receive
<1>3. CASE takePending /\ pending[Cur] = <<>>
  <2>1. pc = "take" /\ pc' = "select" /\ UNCHANGED <<pending, ch, res, judged, invoice, redisErrs>>
    BY <1>3 DEF takePending
  <2>2. TypeOK'
    BY <1>2, <2>1 DEF TypeOK
  <2>3. Held' /\ Sorted'
    BY <1>2, <2>1 DEF Held, Handled, Sorted
  <2>4. Subscribed' /\ Stages' /\ InvoiceOfMatch'
    BY <1>2, <2>1 DEF Subscribed, InWait, Stages, InvoiceOfMatch, Cur
  <2> QED
    BY <2>2, <2>3, <2>4
<1>4. ASSUME NEW m, NEW next \in {"take", "select"}, match(m, next), pc \in {"take", "select"},
             \/ /\ pending[Cur] # <<>> /\ m = Head(pending[Cur]) /\ ch' = ch
                /\ pending' = [pending EXCEPT ![Cur] = Tail(pending[Cur])]
             \/ /\ ch[Cur] # <<>> /\ m = Head(ch[Cur]) /\ pending' = pending
                /\ ch' = [ch EXCEPT ![Cur] = Tail(ch[Cur])]
      PROVE  BInv'
  <2>1. /\ pending' \in [Kinds -> Seq(Message)] /\ ch' \in [Kinds -> Seq(Message)]
        /\ m \in Message /\ m.kind = Cur
        /\ Sorted'
        /\ \A n, k : k \in Kinds /\ n # m =>
              /\ InSeq(n, pending[k]) => InSeq(n, pending'[k])
              /\ InSeq(n, ch[k]) => InSeq(n, ch'[k])
    <3>1. CASE /\ pending[Cur] # <<>> /\ m = Head(pending[Cur]) /\ ch' = ch
               /\ pending' = [pending EXCEPT ![Cur] = Tail(pending[Cur])]
      <4>1. /\ pending \in [Kinds -> Seq(Message)] /\ Cur \in Kinds /\ pending[Cur] # <<>>
            /\ OfKind(pending) /\ pending' = [pending EXCEPT ![Cur] = Tail(pending[Cur])]
        BY <1>1, <3>1 DEF TypeOK, Sorted, OfKind
      <4>2. /\ m \in Message /\ m.kind = Cur /\ pending' \in [Kinds -> Seq(Message)]
            /\ OfKind(pending') /\ KeepsBut(m, pending, pending')
        BY <4>1, <3>1, Popped, Zenon
      <4>3. Sorted'
        BY <3>1, <4>2, SMTT(60) DEF Sorted, OfKind
      <4> QED
        BY <3>1, <4>2, <4>3 DEF TypeOK, KeepsBut
    <3>2. CASE /\ ch[Cur] # <<>> /\ m = Head(ch[Cur]) /\ pending' = pending
               /\ ch' = [ch EXCEPT ![Cur] = Tail(ch[Cur])]
      <4>1. /\ ch \in [Kinds -> Seq(Message)] /\ Cur \in Kinds /\ ch[Cur] # <<>>
            /\ OfKind(ch) /\ ch' = [ch EXCEPT ![Cur] = Tail(ch[Cur])]
        BY <1>1, <3>2 DEF TypeOK, Sorted, OfKind
      <4>2. /\ m \in Message /\ m.kind = Cur /\ ch' \in [Kinds -> Seq(Message)]
            /\ OfKind(ch') /\ KeepsBut(m, ch, ch')
        BY <4>1, <3>2, Popped, Zenon
      <4>3. Sorted'
        BY <3>2, <4>2 DEF Sorted, OfKind
      <4> QED
        BY <3>2, <4>2, <4>3 DEF TypeOK, KeepsBut
    <3> QED
      BY <1>4, <3>1, <3>2, Zenon
  <2>3. /\ judged' \subseteq Message /\ invoice' \in 0..MaxMsgs
        /\ res' \in [Kinds -> {"none", "matched", "failed"}]
        /\ redisErrs' \in 0..MaxRedisErrs
        /\ redisErrs' = 0 => redisErrs = 0
        /\ \/ pc' = "leave" /\ res' = [res EXCEPT ![Cur] = "matched"]
           \/ pc' = next /\ res' = res
        /\ m.mine => res'[Cur] # "none" \/ redisErrs' # 0 \/ ctxDone
        /\ InvoiceOfMatch'
    BY <1>4, <2>1, Judged, Zenon
  <2>4. TypeOK'
    BY <1>2, <2>1, <2>3 DEF TypeOK
  <2>6. Held'
    <3> SUFFICES ASSUME NEW n \in Handled', n.mine, res'[n.kind] = "none",
                        redisErrs' = 0, ~ctxDone', pc' # "over"
                 PROVE  InSeq(n, pending'[n.kind]) \/ InSeq(n, ch'[n.kind])
      BY DEF Held
    <3>1. n \in Handled /\ n.kind \in Kinds
      BY <1>2 DEF Handled, TypeOK
    <3>2. n # m
      BY <1>2, <2>1, <2>3
    <3>3. res[n.kind] = "none" /\ redisErrs = 0 /\ ~ctxDone /\ pc # "over"
      BY <1>1, <1>2, <1>4, <2>3, <3>1 DEF TypeOK
    <3> QED
      BY <2>1, <3>1, <3>2, <3>3, SMTT(60) DEF Held
  <2>8. Subscribed'
    BY <1>1, <1>2, <1>4, <2>3 DEF Subscribed, InWait, Cur, TypeOK
  <2>9. Stages'
    <3>1. Cur' = Cur /\ (step = 1 => Cur = "payment")
      BY <1>2, Waits DEF Cur
    <3>2. pc' = "leave" => res'[Cur'] # "none"
      BY <1>1, <2>3, <3>1 DEF TypeOK
    <3> QED
      BY <1>2, <1>4, <2>3, <3>1, <3>2 DEF Stages
  <2> QED
    BY <2>1, <2>3, <2>4, <2>6, <2>8, <2>9
<1>5. CASE takePending /\ pending[Cur] # <<>>
  BY <1>4, <1>5, Zenon DEF takePending
<1>6. CASE receive
  BY <1>4, <1>6, Zenon DEF receive
<1> QED
  BY <1>3, <1>5, <1>6

\* The other steps of the journey: a channel is emptied only when its wait
\* has ended, the buffers only before the first delivery and at the end.
LEMMA JourneyKeeps == BInv /\ Journey => BInv'
<1> SUFFICES ASSUME BInv, Journey PROVE BInv'
  OBVIOUS
<1> USE DEF BInv
<1>0. <<>> \in Seq(Message)
  OBVIOUS
<1>1. CASE SetupFails \/ flowFails \/ cleanupFails
  <2>1. /\ pc \in {"setup", "ready", "failed"} /\ pc' \in {"failed", "over"}
        /\ mqChannel' \in {"open", "closed"}
        /\ UNCHANGED <<busVars, consumer, deliveries, closed, sent, loopVars,
                       step, res, judged, invoice, redisErrs, ctxDone>>
    BY <1>1 DEF SetupFails, flowFails, cleanupFails, TypeOK
  <2>2. TypeOK'
    BY <2>1 DEF TypeOK
  <2>3. Held' /\ Sorted'
    BY <2>1 DEF Held, Handled, Sorted
  <2>4. Subscribed' /\ Stages' /\ InvoiceOfMatch'
    BY <2>1 DEF Subscribed, InWait, Stages, InvoiceOfMatch, Cur
  <2> QED
    BY <2>2, <2>3, <2>4
<1>2. CASE SetupCommunication
  <2>1. /\ pc = "setup" /\ pc' = "ready" /\ loop = "off" /\ loop' = "recv" /\ acked = {}
        /\ pending' = [k \in Kinds |-> <<>>] /\ subs' = {} /\ subs = {} /\ consumer' = TRUE
        /\ UNCHANGED <<ch, mqChannel, deliveries, closed, sent, hand, acked, nacked,
                       step, res, judged, invoice, redisErrs, ctxDone>>
    BY <1>2 DEF SetupCommunication, Reset, Stages, Subscribed, InWait
  <2>2. pending' \in [Kinds -> Seq(Message)]
    BY <1>0, <2>1
  <2>3. TypeOK'
    BY <2>1, <2>2 DEF TypeOK
  <2>4. Held'
    BY <2>1, SMTT(60) DEF Held, Handled
  <2>5. Sorted'
    BY <2>1 DEF Sorted
  <2>6. Subscribed' /\ Stages' /\ InvoiceOfMatch'
    BY <2>1 DEF Subscribed, InWait, Stages, InvoiceOfMatch, Cur
  <2> QED
    BY <2>3, <2>4, <2>5, <2>6
<1>3. CASE subscribe
  <2>1. /\ pc = "ready" /\ step \in 1..3 /\ Cur \in Kinds /\ subs = {}
        /\ ch[Cur] = <<>> /\ ch' = ch /\ subs' = {Cur} /\ pc' = "take"
        /\ UNCHANGED <<pending, mqVars, loopVars, step, res, judged, invoice,
                       redisErrs, ctxDone>>
    <3>1. /\ pc = "ready" /\ step \in 1..3
      BY <1>3, Waits DEF subscribe, TypeOK
    <3>2. Cur \in Kinds /\ subs = {}
      BY <3>1, Waits DEF Subscribed, InWait, Cur
    <3>3. ch[Cur] = <<>> /\ ch \in [Kinds -> Seq(Message)]
      BY <3>2 DEF Subscribed, TypeOK
    <3>4. ch' = ch
      BY <1>3, <3>2, <3>3 DEF subscribe
    <3> QED
      BY <1>3, <3>1, <3>2, <3>3, <3>4 DEF subscribe
  <2>2. TypeOK'
    BY <2>1 DEF TypeOK
  <2>3. Held' /\ Sorted'
    BY <2>1 DEF Held, Handled, Sorted
  <2>4. Subscribed' /\ Stages' /\ InvoiceOfMatch'
    BY <2>1 DEF Subscribed, InWait, Stages, InvoiceOfMatch, Cur
  <2> QED
    BY <2>2, <2>3, <2>4
<1>4. CASE takePending \/ receive
  BY <1>4, TakeKeeps
<1>5. CASE abandon
  <2>1. /\ pc = "select" /\ step \in 1..3 /\ Cur \in Kinds /\ Cur' = Cur
        /\ pc' = "leave" /\ res' = [res EXCEPT ![Cur] = "failed"]
        /\ UNCHANGED <<busVars, mqVars, loopVars, step, judged, invoice, redisErrs, ctxDone>>
    BY <1>5, Waits DEF abandon, Subscribed, InWait, TypeOK, Cur
  <2>2. TypeOK' /\ res'[Cur] = "failed" /\ \A k \in Kinds : k # Cur => res'[k] = res[k]
    BY <2>1 DEF TypeOK
  <2>3. Held'
    <3>1. \A m \in Handled : m.kind \in Kinds
      BY DEF Handled, TypeOK
    <3> QED
      BY <2>1, <2>2, <3>1 DEF Held, Handled
  <2>4. Sorted' /\ Subscribed'
    BY <2>1 DEF Sorted, Subscribed, InWait, Cur
  <2>5. Stages' /\ InvoiceOfMatch'
    BY <2>1, <2>2 DEF Stages, InvoiceOfMatch, Kinds
  <2> QED
    BY <2>2, <2>3, <2>4, <2>5
<1>6. CASE unsubscribe
  <2>1. /\ pc = "leave" /\ step \in 1..3 /\ Cur \in Kinds /\ subs' = {}
        /\ ch' = [ch EXCEPT ![Cur] = <<>>] /\ res[Cur] # "none"
        /\ pc' \in {"ready", "failed"} /\ step' \in 1..4
        /\ pc' = "ready" => step' # 1
        /\ UNCHANGED <<pending, mqVars, loopVars, res, judged, invoice, redisErrs, ctxDone>>
    <3>1. pc = "leave" /\ step \in 1..3 /\ subs = {Cur} /\ res[Cur] # "none"
      BY <1>6 DEF unsubscribe, Subscribed, InWait, TypeOK, Stages
    <3>2. Cur \in Kinds
      BY <3>1, Waits DEF Cur
    <3> QED
      BY <1>6, <3>1, <3>2 DEF unsubscribe
  <2>2. TypeOK' /\ \A k \in Kinds : ch'[k] = IF k = Cur THEN <<>> ELSE ch[k]
    BY <1>0, <2>1 DEF TypeOK
  <2>3. Held'
    <3>1. \A m \in Handled : m.kind \in Kinds
      BY DEF Handled, TypeOK
    <3> QED
      BY <2>1, <2>2, <3>1, SMTT(60) DEF Held, Handled
  <2>4. Sorted'
    BY <2>1, <2>2 DEF Sorted
  <2>5. Subscribed'
    <3>1. \A k \in Kinds : k # Cur => ch[k] = <<>>
      BY <2>1 DEF Subscribed, InWait
    <3> QED
      BY <2>1, <2>2, <3>1 DEF Subscribed, InWait
  <2>6. Stages' /\ InvoiceOfMatch'
    BY <2>1 DEF Stages, InvoiceOfMatch
  <2> QED
    BY <2>2, <2>3, <2>4, <2>5, <2>6
<1>7. CASE CloseCommunication
  <2>1. /\ pc \in {"failed", "ready"} /\ pc' = "over" /\ subs = {} /\ subs' = {} /\ ch' = ch
        /\ pending' = pending \/ pending' = [k \in Kinds |-> <<>>]
        /\ mqChannel' \in {"open", "closed"} /\ closed' \in BOOLEAN /\ consumer' \in BOOLEAN
        /\ UNCHANGED <<deliveries, sent, loopVars, step, res, judged, invoice,
                       redisErrs, ctxDone>>
    BY <1>7, Zenon DEF CloseCommunication, Reset, Subscribed, InWait, TypeOK
  <2>2. pending' \in [Kinds -> Seq(Message)]
    BY <1>0, <2>1, Zenon DEF TypeOK
  <2>3. TypeOK'
    BY <2>1, <2>2, SMTT(60) DEF TypeOK
  <2>4. Held'
    BY <2>1 DEF Held
  <2>5. Sorted'
    BY <2>1 DEF Sorted
  <2>6. Subscribed' /\ Stages' /\ InvoiceOfMatch'
    BY <2>1 DEF Subscribed, InWait, Stages, InvoiceOfMatch
  <2> QED
    BY <2>3, <2>4, <2>5, <2>6
<1> QED
  BY <1>1, <1>2, <1>3, <1>4, <1>5, <1>6, <1>7 DEF Journey

\* Broker, connection and operator leave the buffers alone.
LEMMA EnvironmentKeeps == BInv /\ (Send \/ LoseConnection \/ Cancel) => BInv'
<1> SUFFICES ASSUME BInv, Send \/ LoseConnection \/ Cancel PROVE BInv'
  OBVIOUS
<1> USE DEF BInv
<1>1. /\ UNCHANGED <<busVars, loopVars, waitVars>> /\ (~ctxDone' => ~ctxDone)
      /\ ctxDone' \in BOOLEAN /\ closed' \in BOOLEAN /\ consumer' = consumer
      /\ mqChannel' \in {"open", "closed"}
  BY Zenon DEF Send, LoseConnection, Cancel, TypeOK
<1>2. deliveries' \in Seq(Message) /\ sent' \in 0..MaxMsgs
  <2>1. CASE Send
    <3>1. sent + 1 \in 1..MaxMsgs /\ sent' = sent + 1
      BY <2>1 DEF Send, TypeOK
    <3>2. \A k \in Kinds \cup {"bad"}, b \in BOOLEAN :
            [id |-> sent + 1, kind |-> k, mine |-> b] \in Message
      BY <3>1 DEF Message
    <3>3. PICK k \in Kinds \cup {"bad"}, b \in BOOLEAN :
            deliveries' = Append(deliveries, [id |-> sent + 1, kind |-> k, mine |-> b])
      BY <2>1 DEF Send
    <3> QED
      BY <3>1, <3>2, <3>3 DEF TypeOK
  <2>2. CASE LoseConnection \/ Cancel
    BY <2>2 DEF LoseConnection, Cancel, TypeOK
  <2> QED
    BY <2>1, <2>2
<1>3. TypeOK'
  BY <1>1, <1>2, SMTT(60) DEF TypeOK
<1>4. Held' /\ Sorted'
  BY <1>1 DEF Held, Handled, Sorted
<1>5. Subscribed' /\ Stages' /\ InvoiceOfMatch'
  BY <1>1 DEF Subscribed, InWait, Stages, InvoiceOfMatch, Cur
<1> QED
  BY <1>3, <1>4, <1>5

LEMMA BInvNext == BInv /\ [Next]_vars => BInv'
<1>1. BInv /\ UNCHANGED vars => BInv'
  <2> SUFFICES ASSUME BInv, UNCHANGED vars PROVE BInv'
    OBVIOUS
  <2>1. TypeOK'
    BY SMTT(60) DEF BInv, TypeOK
  <2>2. Held' /\ Sorted'
    BY DEF BInv, Held, Handled, Sorted
  <2>3. Subscribed' /\ Stages' /\ InvoiceOfMatch'
    BY DEF BInv, Subscribed, InWait, Stages, InvoiceOfMatch, Cur
  <2> QED
    BY <2>1, <2>2, <2>3 DEF BInv
<1> QED
  BY <1>1, LoopKeeps, JourneyKeeps, EnvironmentKeeps DEF Next

LEMMA BusInvariant == Spec => []BInv
  BY BInvInit, BInvNext, PTL DEF Spec
-----------------------------------------------------------------------------
\* Every variable keeps its type, for every number of messages; in
\* particular a rejected delivery is nacked and never acked.
THEOREM BusTypes == Spec => []TypeOK
<1>1. BInv => TypeOK
  BY DEF BInv
<1> QED
  BY <1>1, BusInvariant, PTL

\* However publish, subscribe, take and unsubscribe interleave, an acked
\* message for this guest stays in the buffer or in the waiter's channel
\* until the wait of its kind ends or a cache call fails.
THEOREM AckedAreHeld == Spec => []AckedNotLost
<1>1. BInv => AckedNotLost
  BY DEF BInv, Held, Handled, AckedNotLost
<1> QED
  BY <1>1, BusInvariant, PTL

\* The journey goes past the payment wait only with the invoice number of a
\* payment request for this guest.
THEOREM InvoiceIsMatched == Spec => []InvoiceOfMatch
<1>1. BInv => InvoiceOfMatch
  BY DEF BInv
<1> QED
  BY <1>1, BusInvariant, PTL
-----------------------------------------------------------------------------
(* Every message is judged once.  OInv adds to BInv that ids grow along the   *)
(* deliveries and that whatever was handed over is older than what was not.  *)

\* The buffer p and the channel c hold different messages, none judged (J).
Apart(p, c, J) ==
  /\ \A i, j \in 1..Len(p) : p[i] = p[j] => i = j
  /\ Len(c) <= ChCapacity
  /\ \A m : InSeq(m, p) => m \notin J /\ ~InSeq(m, c)
  /\ \A m : InSeq(m, c) => m \notin J

Distinct == \A k \in Kinds : Apart(pending[k], ch[k], judged)

\* The message was sent before everything that is still to be delivered.
Older(m) ==
  /\ m.id <= sent
  /\ \A i \in 1..Len(deliveries) : m.id < deliveries[i].id

Queued ==
  \A i \in 1..Len(deliveries) :
    /\ deliveries[i].id <= sent
    /\ \A j \in 1..Len(deliveries) : i < j => deliveries[i].id < deliveries[j].id

Fresh ==
  /\ \A m \in judged : Older(m)
  /\ \A k \in Kinds : \A m : InSeq(m, pending[k]) \/ InSeq(m, ch[k]) => Older(m)

OInv == BInv /\ Distinct /\ Queued /\ Fresh

\* A sequence without its head holds no other elements than the sequence.
LEMMA TailWithin ==
  ASSUME NEW S, NEW s \in Seq(S), s # <<>>
  PROVE  /\ InSeq(Head(s), s)
         /\ \A m : InSeq(m, Tail(s)) => InSeq(m, s)
<1>1. 1 \in 1..Len(s) /\ s[1] = Head(s)
  OBVIOUS
<1>2. \A i \in 1..Len(Tail(s)) : i + 1 \in 1..Len(s) /\ Tail(s)[i] = s[i + 1]
  OBVIOUS
<1>3. InSeq(Head(s), s)
  BY <1>1 DEF InSeq
<1>4. \A m : InSeq(m, Tail(s)) => InSeq(m, s)
  BY <1>2 DEF InSeq
<1> QED
  BY <1>3, <1>4

\* Append adds the new element only.
LEMMA AppendWithin ==
  ASSUME NEW S, NEW s \in Seq(S), NEW x \in S
  PROVE  \A m : InSeq(m, Append(s, x)) => m = x \/ InSeq(m, s)
<1> SUFFICES ASSUME NEW m, InSeq(m, Append(s, x)), m # x PROVE InSeq(m, s)
  OBVIOUS
<1>1. PICK i \in 1..Len(Append(s, x)) : Append(s, x)[i] = m
  BY DEF InSeq
<1>2. i \in 1..Len(s) /\ s[i] = m
  BY <1>1
<1> QED
  BY <1>2 DEF InSeq

LEMMA NoneInEmpty == \A m : ~InSeq(m, <<>>)
  BY DEF InSeq

\* Emptying the buffer or the channel keeps the rest apart.
LEMMA EmptyApart ==
  ASSUME NEW p \in Seq(Message), NEW c \in Seq(Message), NEW J, Apart(p, c, J),
         NEW q \in {p, <<>>}, NEW d \in {c, <<>>}
  PROVE  Apart(q, d, J)
  BY NoneInEmpty DEF Apart, ChCapacity

\* A message seen nowhere before can be buffered.
LEMMA BufferApart ==
  ASSUME NEW p \in Seq(Message), NEW c \in Seq(Message), NEW J, Apart(p, c, J),
         NEW x \in Message, ~InSeq(x, p), ~InSeq(x, c), x \notin J
  PROVE  Apart(Append(p, x), c, J)
<1>1. \A m : InSeq(m, Append(p, x)) => m = x \/ InSeq(m, p)
  BY AppendWithin
<1>2. \A i \in 1..Len(p) : p[i] # x
  BY DEF InSeq
<1>3. \A i, j \in 1..Len(Append(p, x)) : Append(p, x)[i] = Append(p, x)[j] => i = j
  <2>1. \A i, j \in 1..Len(p) : p[i] = p[j] => i = j
    BY DEF Apart
  <2> QED
    BY <1>2, <2>1
<1> QED
  BY <1>1, <1>3 DEF Apart

\* ... or sent to a channel with room.
LEMMA NotifyApart ==
  ASSUME NEW p \in Seq(Message), NEW c \in Seq(Message), NEW J, Apart(p, c, J),
         Len(c) < ChCapacity,
         NEW x \in Message, ~InSeq(x, p), ~InSeq(x, c), x \notin J
  PROVE  Apart(p, Append(c, x), J)
<1>1. \A m : InSeq(m, Append(c, x)) => m = x \/ InSeq(m, c)
  BY AppendWithin
<1>2. Len(Append(c, x)) <= ChCapacity
  BY SMTT(60) DEF ChCapacity
<1> QED
  BY <1>1, <1>2 DEF Apart

\* The head of the buffer leaves it when it is judged.
LEMMA TakeApart ==
  ASSUME NEW p \in Seq(Message), NEW c \in Seq(Message), NEW J, Apart(p, c, J),
         p # <<>>
  PROVE  Apart(Tail(p), c, J \cup {Head(p)})
<1>1. InSeq(Head(p), p) /\ \A m : InSeq(m, Tail(p)) => InSeq(m, p)
  BY TailWithin
<1>2. /\ \A i, j \in 1..Len(p) : p[i] = p[j] => i = j
      /\ Len(c) <= ChCapacity
  BY DEF Apart
<1>3. \A i, j \in 1..Len(Tail(p)) : Tail(p)[i] = Tail(p)[j] => i = j
  BY <1>2
<1>4. \A i \in 1..Len(Tail(p)) : Tail(p)[i] # Head(p)
  BY <1>2
<1>5. ~InSeq(Head(p), Tail(p))
  BY <1>4 DEF InSeq
<1> QED
  BY <1>1, <1>2, <1>3, <1>5 DEF Apart

\* So does the message of the channel.
LEMMA ReceiveApart ==
  ASSUME NEW p \in Seq(Message), NEW c \in Seq(Message), NEW J, Apart(p, c, J),
         c # <<>>
  PROVE  Apart(p, Tail(c), J \cup {Head(c)})
<1>1. InSeq(Head(c), c)
  BY TailWithin
<1>2. Len(c) <= 1
  BY DEF Apart, ChCapacity
<1>3. Tail(c) = <<>>
  BY <1>2
<1>4. \A m : InSeq(m, p) => m \notin J \cup {Head(c)}
  BY <1>1 DEF Apart
<1>5. /\ \A i, j \in 1..Len(p) : p[i] = p[j] => i = j
      /\ Len(<<>>) <= ChCapacity
  BY DEF Apart, ChCapacity
<1>6. Apart(p, <<>>, J \cup {Head(c)})
  BY <1>4, <1>5, NoneInEmpty, Zenon DEF Apart
<1> QED
  BY <1>3, <1>6, Zenon

LEMMA OInvInit == Init => OInv
<1> SUFFICES ASSUME Init PROVE OInv
  OBVIOUS
<1>1. Apart(<<>>, <<>>, {})
  BY NoneInEmpty DEF Apart, ChCapacity
<1>2. Distinct
  BY <1>1 DEF Init, Distinct
<1>3. Queued /\ Fresh
  BY NoneInEmpty DEF Init, Queued, Fresh
<1> QED
  BY <1>2, <1>3, BInvInit DEF OInv

\* Steps that hand nothing over: buffers and channels are kept or emptied.
Quiet ==
  /\ UNCHANGED <<deliveries, sent, judged>>
  /\ \A k \in Kinds : pending'[k] \in {pending[k], <<>>} /\ ch'[k] \in {ch[k], <<>>}

LEMMA QuietKeeps ==
  ASSUME OInv, BInv', Quiet
  PROVE  OInv'
<1>1. Distinct'
  <2> SUFFICES ASSUME NEW k \in Kinds PROVE Apart(pending'[k], ch'[k], judged)
    BY DEF Distinct, Quiet
  <2>1. pending[k] \in Seq(Message) /\ ch[k] \in Seq(Message) /\ Apart(pending[k], ch[k], judged)
    BY SMTT(60) DEF OInv, BInv, TypeOK, Distinct
  <2> QED
    BY <2>1, EmptyApart DEF Quiet
<1>2. Queued'
  BY SMTT(60) DEF OInv, Queued, Quiet
<1>3. Fresh'
  <2>1. \A m : Older(m) => Older(m)'
    BY DEF Older, Quiet
  <2>2. ASSUME NEW k \in Kinds, NEW m, InSeq(m, pending'[k]) \/ InSeq(m, ch'[k])
        PROVE  InSeq(m, pending[k]) \/ InSeq(m, ch[k])
    BY <2>2, NoneInEmpty DEF Quiet
  <2> QED
    BY <2>1, <2>2 DEF OInv, Fresh, Quiet
<1> QED
  BY <1>1, <1>2, <1>3 DEF OInv

\* A new message is younger than every other.
LEMMA SendKeeps == OInv /\ BInv' /\ Send => OInv'
<1> SUFFICES ASSUME OInv, BInv', Send PROVE OInv'
  OBVIOUS
<1>1. PICK x : deliveries' = Append(deliveries, x) /\ x.id = sent + 1
  <2>1. PICK k \in Kinds \cup {"bad"}, b \in BOOLEAN :
          deliveries' = Append(deliveries, [id |-> sent + 1, kind |-> k, mine |-> b])
    BY SMTT(60) DEF Send
  <2> QED
    BY <2>1
<1>2. sent \in Nat /\ sent' = sent + 1 /\ UNCHANGED <<busVars, judged>>
  BY SMTT(60) DEF Send, OInv, BInv, TypeOK
<1>3. deliveries \in Seq(Message) /\ \A m \in Message : m.id \in Nat
  BY DEF OInv, BInv, TypeOK, Message
<1>4. /\ Len(deliveries') = Len(deliveries) + 1 /\ Len(deliveries) \in Nat
      /\ deliveries'[Len(deliveries) + 1] = x
      /\ \A i \in 1..Len(deliveries) : deliveries'[i] = deliveries[i] /\ deliveries[i] \in Message
  BY <1>1, <1>3, SMTT(60)
<1>5. Queued'
  BY <1>1, <1>2, <1>3, <1>4, SMTT(60) DEF OInv, Queued
<1>6. \A m : m \in Message /\ Older(m) => Older(m)'
  BY <1>1, <1>2, <1>3, <1>4, SMTT(60) DEF Older
<1>7. \A k \in Kinds : \A m : InSeq(m, pending[k]) \/ InSeq(m, ch[k]) => m \in Message
  BY DEF OInv, BInv, TypeOK, InSeq
<1>8. Fresh'
  BY <1>2, <1>6, <1>7 DEF OInv, BInv, TypeOK, Fresh
<1>9. Distinct'
  BY <1>2 DEF OInv, Distinct
<1> QED
  BY <1>5, <1>8, <1>9 DEF OInv

\* The message handled is younger than every message seen before it.
LEMMA HandleKeeps == OInv /\ BInv' /\ handleDelivery => OInv'
<1> SUFFICES ASSUME OInv, BInv', handleDelivery PROVE OInv'
  OBVIOUS
<1>0. PICK x : x = Head(deliveries)
  OBVIOUS
<1>1. /\ deliveries # <<>> /\ deliveries' = Tail(deliveries)
      /\ UNCHANGED <<sent, judged>>
  BY DEF handleDelivery
<1>2. deliveries \in Seq(Message) /\ \A m \in Message : m.id \in Nat
  BY DEF OInv, BInv, TypeOK, Message
<1>3. /\ 1 \in 1..Len(deliveries) /\ x = deliveries[1] /\ x \in Message
      /\ \A i \in 1..Len(deliveries') :
           i + 1 \in 1..Len(deliveries) /\ deliveries'[i] = deliveries[i + 1]
  BY <1>0, <1>1, <1>2, SMTT(60)
<1>4. IF x.kind \in Kinds THEN publish(x) ELSE UNCHANGED busVars
  BY <1>0 DEF handleDelivery
<1>5. Queued'
  <2>1. \A i, j \in 1..Len(deliveries') : i < j => i + 1 < j + 1
    OBVIOUS
  <2> QED
    BY <1>1, <1>3, <2>1 DEF OInv, Queued
<1>6. Older(x)'
  <2>1. \A i \in 1..Len(deliveries') : 1 < i + 1
    OBVIOUS
  <2> QED
    BY <1>1, <1>3, <2>1 DEF OInv, Queued, Older
<1>7. \A m : Older(m) => Older(m)' /\ m.id < x.id
  BY <1>1, <1>3 DEF Older
<1>8. /\ x \notin judged
      /\ \A k \in Kinds : ~InSeq(x, pending[k]) /\ ~InSeq(x, ch[k])
  <2>1. ~Older(x)
    BY <1>2, <1>3, <1>7
  <2> QED
    BY <2>1 DEF OInv, Fresh
<1>9. \A k \in Kinds : /\ pending[k] \in Seq(Message) /\ ch[k] \in Seq(Message)
                        /\ Apart(pending[k], ch[k], judged)
  BY SMTT(60) DEF OInv, BInv, TypeOK, Distinct
<1>10. \A k \in Kinds :
         \/ pending'[k] = pending[k] /\ ch'[k] = ch[k]
         \/ pending'[k] = Append(pending[k], x) /\ ch'[k] = ch[k]
         \/ /\ pending'[k] = pending[k] /\ ch'[k] = Append(ch[k], x)
            /\ Len(ch[k]) < ChCapacity
  BY <1>4, SMTT(60) DEF OInv, BInv, TypeOK, publish, Notified
<1>11. Distinct'
  <2> SUFFICES ASSUME NEW k \in Kinds PROVE Apart(pending'[k], ch'[k], judged)
    BY <1>1 DEF Distinct
  <2>1. CASE pending'[k] = pending[k] /\ ch'[k] = ch[k]
    BY <1>9, <2>1
  <2>2. CASE pending'[k] = Append(pending[k], x) /\ ch'[k] = ch[k]
    BY <1>3, <1>8, <1>9, <2>2, BufferApart, SMTT(60)
  <2>3. CASE /\ pending'[k] = pending[k] /\ ch'[k] = Append(ch[k], x)
             /\ Len(ch[k]) < ChCapacity
    BY <1>3, <1>8, <1>9, <2>3, NotifyApart, SMTT(60)
  <2> QED
    BY <1>10, <2>1, <2>2, <2>3
<1>12. Fresh'
  <2>1. ASSUME NEW k \in Kinds, NEW m, InSeq(m, pending'[k]) \/ InSeq(m, ch'[k])
        PROVE  m = x \/ InSeq(m, pending[k]) \/ InSeq(m, ch[k])
    <3>1. /\ InSeq(m, Append(pending[k], x)) => m = x \/ InSeq(m, pending[k])
          /\ InSeq(m, Append(ch[k], x)) => m = x \/ InSeq(m, ch[k])
      BY <1>3, <1>9, AppendWithin
    <3>2. /\ pending'[k] \in {pending[k], Append(pending[k], x)}
          /\ ch'[k] \in {ch[k], Append(ch[k], x)}
      BY <1>10
    <3> QED
      BY <2>1, <3>1, <3>2, Zenon
  <2> QED
    BY <1>1, <1>6, <1>7, <2>1, Zenon DEF OInv, Fresh
<1> QED
  BY <1>5, <1>11, <1>12 DEF OInv

\* A message goes from the buffer or the channel to the matcher.
LEMMA MatchKeeps == OInv /\ BInv' /\ (takePending \/ receive) => OInv'
<1> SUFFICES ASSUME OInv, BInv', takePending \/ receive PROVE OInv'
  OBVIOUS
<1>0. Cur \in Kinds
  <2>1. InWait
    BY Zenon DEF takePending, receive, InWait
  <2> QED
    BY <2>1, Waits, SMTT(60) DEF OInv, BInv, Subscribed, TypeOK, Cur
<1>1. UNCHANGED <<deliveries, sent>>
  BY Zenon DEF takePending, receive
<1>2. \A k \in Kinds : /\ pending[k] \in Seq(Message) /\ ch[k] \in Seq(Message)
                        /\ Apart(pending[k], ch[k], judged)
  BY DEF OInv, BInv, TypeOK, Distinct
<1>3. pending \in [Kinds -> Seq(Message)] /\ ch \in [Kinds -> Seq(Message)]
  BY DEF OInv, BInv, TypeOK
<1>4. CASE takePending /\ pending[Cur] = <<>>
  <2>1. Quiet
    BY <1>4 DEF takePending, Quiet
  <2> QED
    BY <2>1, QuietKeeps
<1>5. ASSUME NEW x, judged' = judged \cup {x}, x.kind = Cur,
             InSeq(x, pending[Cur]) \/ InSeq(x, ch[Cur]),
             Apart(pending'[Cur], ch'[Cur], judged'),
             \A k \in Kinds : k # Cur => pending'[k] = pending[k] /\ ch'[k] = ch[k],
             \A m : /\ InSeq(m, pending'[Cur]) => InSeq(m, pending[Cur])
                    /\ InSeq(m, ch'[Cur]) => InSeq(m, ch[Cur])
      PROVE  OInv'
  <2>1. \A k \in Kinds : \A m : InSeq(m, pending'[k]) \/ InSeq(m, ch'[k])
                            => InSeq(m, pending[k]) \/ InSeq(m, ch[k])
    BY <1>5
  <2>2. \A m : Older(m) => Older(m)'
    BY <1>1, SMTT(60) DEF Older
  <2>3. Fresh'
    BY <1>0, <1>5, <2>1, <2>2, Zenon DEF OInv, Fresh
  <2>4. Queued'
    BY <1>1, SMTT(60) DEF OInv, Queued
  <2>5. \A k \in Kinds : k # Cur => ~InSeq(x, pending[k]) /\ ~InSeq(x, ch[k])
    <3>1. Sorted
      BY Zenon DEF OInv, BInv
    <3>2. \A k \in Kinds : \A m : InSeq(m, pending[k]) \/ InSeq(m, ch[k]) => m.kind = k
      BY <3>1, ZenonT(60) DEF Sorted, InSeq
    <3> QED
      BY <1>5, <3>2, Zenon
  <2>6. \A k \in Kinds : k # Cur => Apart(pending[k], ch[k], judged \cup {x})
    BY <1>2, <2>5, Zenon DEF Apart
  <2>7. Distinct'
    BY <1>5, <2>6, Zenon DEF Distinct
  <2> QED
    BY <2>3, <2>4, <2>7, Zenon DEF OInv
<1>6. CASE takePending /\ pending[Cur] # <<>>
  <2> DEFINE p == pending[Cur]
  <2>1. /\ judged' = judged \cup {Head(p)} /\ ch' = ch
        /\ pending' = [pending EXCEPT ![Cur] = Tail(p)]
    BY <1>6 DEF takePending, match
  <2>2. /\ pending'[Cur] = Tail(p) /\ \A k \in Kinds : k # Cur => pending'[k] = pending[k]
    BY <1>0, <1>3, <2>1
  <2>3. p \in Seq(Message) /\ p # <<>> /\ Apart(p, ch[Cur], judged) /\ ch[Cur] \in Seq(Message)
    BY <1>0, <1>2, <1>6, SMTT(60)
  <2>4. InSeq(Head(p), p) /\ \A m : InSeq(m, Tail(p)) => InSeq(m, p)
    BY <2>3, TailWithin
  <2>5. Head(p).kind = Cur
    BY <1>0, <2>4 DEF OInv, BInv, Sorted, InSeq
  <2>6. Apart(Tail(p), ch[Cur], judged \cup {Head(p)})
    BY <2>3, TakeApart, SMTT(60)
  <2> QED
    BY <1>5, <2>1, <2>2, <2>4, <2>5, <2>6
<1>7. CASE receive
  <2> DEFINE c == ch[Cur]
  <2>1. /\ judged' = judged \cup {Head(c)} /\ pending' = pending /\ c # <<>>
        /\ ch' = [ch EXCEPT ![Cur] = Tail(c)]
    BY <1>7 DEF receive, match
  <2>2. /\ ch'[Cur] = Tail(c) /\ \A k \in Kinds : k # Cur => ch'[k] = ch[k]
    BY <1>0, <1>3, <2>1, SMTT(60)
  <2>3. c \in Seq(Message) /\ Apart(pending[Cur], c, judged) /\ pending[Cur] \in Seq(Message)
    BY <1>0, <1>2, SMTT(60)
  <2>4. InSeq(Head(c), c) /\ \A m : InSeq(m, Tail(c)) => InSeq(m, c)
    BY <2>1, <2>3, TailWithin
  <2>5. Head(c).kind = Cur
    BY <1>0, <2>4, SMTT(60) DEF OInv, BInv, Sorted, InSeq
  <2>6. Apart(pending[Cur], Tail(c), judged \cup {Head(c)})
    BY <2>1, <2>3, ReceiveApart, SMTT(60)
  <2> QED
    BY <1>5, <2>1, <2>2, <2>4, <2>5, <2>6
<1> QED
  BY <1>4, <1>6, <1>7

LEMMA OInvNext == OInv /\ [Next]_vars => OInv'
<1> SUFFICES ASSUME OInv, [Next]_vars PROVE OInv'
  OBVIOUS
<1>1. BInv'
  BY BInvNext DEF OInv
<1>2. pending \in [Kinds -> Seq(Message)] /\ ch \in [Kinds -> Seq(Message)]
  BY DEF OInv, BInv, TypeOK
<1>3. CASE handleDelivery \/ takePending \/ receive \/ Send
  BY <1>1, <1>3, HandleKeeps, MatchKeeps, SendKeeps
<1>4. CASE settleDelivery \/ stopLoop \/ LoseConnection \/ Cancel \/ UNCHANGED vars
  <2>1. Quiet
    BY <1>4, SMTT(60) DEF settleDelivery, stopLoop, LoseConnection, Cancel, Quiet
  <2> QED
    BY <1>1, <2>1, QuietKeeps, SMTT(60)
<1>5. CASE \/ SetupFails \/ SetupCommunication \/ subscribe \/ abandon \/ unsubscribe
           \/ flowFails \/ CloseCommunication \/ cleanupFails
  <2>1. Quiet
    BY <1>2, <1>5, SMTT(60) DEF SetupFails, SetupCommunication, subscribe, abandon, unsubscribe,
       flowFails, CloseCommunication, cleanupFails, Reset, Quiet
  <2> QED
    BY <1>1, <2>1, QuietKeeps
<1> QED
  BY <1>3, <1>4, <1>5 DEF Next, Loop, Journey

\* A buffer followed by a channel that is apart from it holds nothing twice.
LEMMA ApartOnce ==
  ASSUME NEW p \in Seq(Message), NEW c \in Seq(Message), NEW J, Apart(p, c, J),
         NEW i \in 1..Len(p \o c)
  PROVE  /\ (p \o c)[i] \notin J
         /\ \A j \in 1..Len(p \o c) : (p \o c)[i] = (p \o c)[j] => i = j
<1>1. /\ Len(p \o c) = Len(p) + Len(c) /\ Len(p) \in Nat /\ Len(c) \in Nat
      /\ \A j \in 1..Len(p \o c) :
           (p \o c)[j] = IF j <= Len(p) THEN p[j] ELSE c[j - Len(p)]
  OBVIOUS
<1>2. Len(c) <= 1
  <2>1. Len(c) <= ChCapacity
    BY Zenon DEF Apart
  <2> QED
    BY <2>1 DEF ChCapacity
<1>3. \A j \in 1..Len(p \o c) :
        \/ j \in 1..Len(p) /\ (p \o c)[j] = p[j] /\ InSeq((p \o c)[j], p)
        \/ j = Len(p) + 1 /\ InSeq((p \o c)[j], c)
  <2> TAKE j \in 1..Len(p \o c)
  <2>1. CASE j <= Len(p)
    BY <1>1, <2>1 DEF InSeq
  <2>2. CASE j > Len(p)
    <3>1. j - Len(p) \in 1..Len(c) /\ j = Len(p) + 1 /\ (p \o c)[j] = c[j - Len(p)]
      BY <1>1, <1>2, <2>2
    <3> QED
      BY <3>1 DEF InSeq
  <2> QED
    BY <1>1, <2>1, <2>2
<1> QED
  BY <1>3 DEF Apart

\* A message reaches a matcher at most once, for every number of messages and
\* every interleaving: publish either notifies or buffers it, a take or a
\* receive removes what it hands to the matcher, and no delivery is repeated.
THEOREM MatchedAtMostOnce == Spec => []DeliveredOnce
<1>1. OInv => DeliveredOnce
  <2> SUFFICES ASSUME OInv, NEW k \in Kinds
               PROVE  \A i \in 1..Len(pending[k] \o ch[k]) :
                        /\ (pending[k] \o ch[k])[i] \notin judged
                        /\ \A j \in 1..Len(pending[k] \o ch[k]) :
                             (pending[k] \o ch[k])[i] = (pending[k] \o ch[k])[j] => i = j
    BY Zenon DEF DeliveredOnce
  <2>1. pending[k] \in Seq(Message) /\ ch[k] \in Seq(Message) /\ Apart(pending[k], ch[k], judged)
    BY DEF OInv, BInv, TypeOK, Distinct
  <2> QED
    BY <2>1, ApartOnce, Zenon
<1> QED
  BY <1>1, OInvInit, OInvNext, PTL DEF Spec
=============================================================================
