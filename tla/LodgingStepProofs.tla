-------------------------- MODULE LodgingStepProofs --------------------------
(***************************************************************************)
(* The guest never acts unprompted, for every length of the stay, every    *)
(* kind and number of stray messages and every pace of the system.         *)
(*                                                                         *)
(* Every message that prompts the guest is in one place: unread, in hand   *)
(* (read, and what it prompts not yet said) or used up (Balanced).  The    *)
(* rest is where the step stands in the dialogue (Dialogue).  Both need    *)
(* what the actions of a plan look like at any index, and the plan of the  *)
(* stay is defined by recursion over its days: StayPlanDef shows that the  *)
(* recursion defines a function, StayPlanShape is an induction over it.    *)
(***************************************************************************)
EXTENDS LodgingStep, FiniteSetTheorems, SequenceTheorems, WellFoundedInduction, TLAPS

USE DEF vars, stepVars
-----------------------------------------------------------------------------
\* A set of numbers that is not empty has a least element.
LEMMA Least ==
  ASSUME NEW T, T \subseteq Nat, T # {}
  PROVE  \E x \in T : \A y \in T : x <= y
<1> DEFINE R == OpToRel(<, Nat)
<1>1. IsWellFoundedOn(R, Nat)
  BY NatLessThanWellFounded, Zenon
<1>2. \A x, y \in Nat : x < y => <<x, y>> \in R
  BY DEF OpToRel
<1> HIDE DEF R
<1>3. PICK x \in T : \A y \in T : ~(<<y, x>> \in R)
  BY <1>1, WFMin, Zenon
<1>4. ASSUME NEW y \in T PROVE x <= y
  <2>1. x \in Nat /\ y \in Nat
    OBVIOUS
  <2>2. ~(y < x)
    BY <1>2, <1>3, <2>1, Zenon
  <2> QED
    BY <2>1, <2>2
<1> QED
  BY <1>4
-----------------------------------------------------------------------------
(* The plans.                                                               *)

StayActs == {FirstDayStay[i] : i \in 1..4} \cup {RecurringStay[i] : i \in 1..7}
Entries(A) == [day : Nat, act : A]

\* How long the lists of the flow configuration are.
LEMMA PlanLengths ==
  /\ Len(ShowUp) = 1 /\ Len(FirstDayStay) = 4 /\ Len(RecurringStay) = 7
  /\ Len(Checkout) = 4
  BY DEF ShowUp, FirstDayStay, RecurringStay, Checkout

\* The entries of stayPlanTo, counted through.
PlanLength(n) == IF n < 2 THEN 4 ELSE 4 + 7 * (n - 1)
PlanEntry(i) ==
  IF i <= 4 THEN [day |-> 0, act |-> FirstDayStay[i]]
  ELSE [day |-> 2 + (i - 5) \div 7, act |-> RecurringStay[1 + ((i - 5) % 7)]]

\* A sequence is the function of its indices.
LEMMA Listed ==
  ASSUME NEW S, NEW q \in Seq(S)
  PROVE  q = [i \in 1..Len(q) |-> q[i]]
  OBVIOUS

\* Index of the day and of the action in it, seven actions a day.
LEMMA Sevenths ==
  \A k \in Nat, r \in 0..6 : (7 * k + r) \div 7 = k /\ (7 * k + r) % 7 = r
  OBVIOUS

\* The recursive definition of the stay plan defines a function.
LEMMA StayPlanDef ==
  \A n \in Nat : stayPlanTo[n] =
    IF n < 2 THEN expandPlan(0, FirstDayStay)
    ELSE stayPlanTo[n - 1] \o expandPlan(n, RecurringStay)
<1> DEFINE Body(f, n) == IF n < 2 THEN expandPlan(0, FirstDayStay)
                         ELSE f[n - 1] \o expandPlan(n, RecurringStay)
           F == [n \in Nat |-> [i \in 1..PlanLength(n) |-> PlanEntry(i)]]
<1>1. ASSUME NEW n \in Nat PROVE F[n] = Body(F, n)
  <2>1. F[n] = [i \in 1..PlanLength(n) |-> PlanEntry(i)]
    OBVIOUS
  <2>2. CASE n < 2
    <3>1. F[n] = [i \in 1..4 |-> [day |-> 0, act |-> FirstDayStay[i]]]
      BY <2>1, <2>2 DEF PlanLength, PlanEntry
    <3> QED
      BY <2>2, <3>1, PlanLengths DEF expandPlan
  <2>3. CASE n >= 2
    <3> DEFINE s == [i \in 1..PlanLength(n - 1) |-> PlanEntry(i)]
               t == [i \in 1..7 |-> [day |-> n, act |-> RecurringStay[i]]]
    <3>1. F[n - 1] = s
      BY <2>3
    <3>2. expandPlan(n, RecurringStay) = t
      BY PlanLengths DEF expandPlan
    <3>3. PlanLength(n - 1) = 4 + 7 * (n - 2) /\ PlanLength(n) = PlanLength(n - 1) + 7
          /\ PlanLength(n - 1) \in Nat
      BY <2>3 DEF PlanLength
    <3>4. Len(s) = PlanLength(n - 1) /\ Len(t) = 7
      BY <3>3
    <3>5. /\ s \o t = [i \in 1..PlanLength(n) |-> (s \o t)[i]]
          /\ \A i \in 1..PlanLength(n) : (s \o t)[i] =
               IF i <= PlanLength(n - 1) THEN s[i] ELSE t[i - PlanLength(n - 1)]
      <4> DEFINE S == {PlanEntry(i) : i \in 1..PlanLength(n - 1)} \cup {t[i] : i \in 1..7}
      <4>1. s \in Seq(S) /\ t \in Seq(S)
        BY <3>3
      <4> HIDE DEF s, t, S
      <4>2. s \o t \in Seq(S) /\ Len(s \o t) = Len(s) + Len(t)
        BY <4>1, ConcatProperties
      <4>3. \A i \in 1..Len(s) + Len(t) : (s \o t)[i] =
               IF i <= Len(s) THEN s[i] ELSE t[i - Len(s)]
        BY <4>1, ConcatProperties
      <4>4. Len(s) + Len(t) = PlanLength(n) /\ Len(s) = PlanLength(n - 1)
        BY <3>3, <3>4
      <4>5. s \o t = [i \in 1..Len(s) + Len(t) |-> (s \o t)[i]]
        <5> DEFINE q == s \o t
        <5>1. q \in Seq(S) /\ Len(q) = Len(s) + Len(t)
          BY <4>2
        <5> HIDE DEF q
        <5>2. q = [i \in 1..Len(q) |-> q[i]]
          BY <5>1, Listed
        <5> QED
          BY <5>1, <5>2 DEF q
      <4> HIDE DEF F
      <4> QED
        BY <4>3, <4>4, <4>5, Zenon
    <3>6. ASSUME NEW i \in 1..PlanLength(n), i > PlanLength(n - 1)
          PROVE  PlanEntry(i) = t[i - PlanLength(n - 1)]
      <4>1. PICK j \in 1..7 : i = PlanLength(n - 1) + j
        BY <3>3, <3>6
      <4>2. i - 5 = 7 * (n - 2) + (j - 1) /\ i > 4
        BY <3>3, <4>1, <2>3
      <4>3. n - 2 \in Nat /\ j - 1 \in 0..6
        BY <2>3
      <4>4. (i - 5) \div 7 = n - 2 /\ (i - 5) % 7 = j - 1
        BY <4>2, <4>3, Sevenths
      <4> QED
        <5>1. PlanEntry(i) = [day |-> n, act |-> RecurringStay[j]]
          BY <4>1, <4>2, <4>4 DEF PlanEntry
        <5>2. i - PlanLength(n - 1) = j
          BY <3>3, <4>1
        <5> QED
          BY <5>1, <5>2
    <3> HIDE DEF s, t
    <3>7. s \o t = [i \in 1..PlanLength(n) |-> PlanEntry(i)]
      <4>1. \A i \in 1..PlanLength(n) : (s \o t)[i] = PlanEntry(i)
        <5> TAKE i \in 1..PlanLength(n)
        <5>1. CASE i <= PlanLength(n - 1)
          <6>1. s[i] = PlanEntry(i)
            BY <3>3, <5>1 DEF s
          <6> QED
            BY <3>5, <5>1, <6>1, Zenon
        <5>2. CASE i > PlanLength(n - 1)
          <6>1. PlanEntry(i) = t[i - PlanLength(n - 1)] /\ ~(i <= PlanLength(n - 1))
            BY <3>3, <3>6, <5>2
          <6> QED
            BY <3>5, <6>1, Zenon
        <5>3. i <= PlanLength(n - 1) \/ i > PlanLength(n - 1)
          BY <3>3
        <5> QED
          BY <5>1, <5>2, <5>3, Zenon
      <4> QED
        BY <3>5, <4>1, Zenon
    <3> QED
      <4> HIDE DEF F
      <4> QED
        BY <2>1, <2>3, <3>1, <3>2, <3>7
  <2> QED
    BY <2>2, <2>3
<1>2. F = [n \in Nat |-> Body(F, n)]
  <2> HIDE DEF F, Body
  <2>1. F = [n \in Nat |-> F[n]]
    BY DEF F
  <2> QED
    BY <1>1, <2>1
<1>3. stayPlanTo = CHOOSE f : f = [n \in Nat |-> Body(f, n)]
  BY DEF stayPlanTo
<1> HIDE DEF F
<1>4. stayPlanTo = [n \in Nat |-> Body(stayPlanTo, n)]
  <2> HIDE DEF Body
  <2> QED
  BY <1>2, <1>3, Zenon
<1> QED
  BY <1>4, Zenon

\* Every stay plan is a list of entries of the two stay lists, not empty.
LEMMA StayPlanShape ==
  \A n \in Nat :
    stayPlanTo[n] \in Seq(Entries(StayActs)) /\ Len(stayPlanTo[n]) >= 1
<1> DEFINE OK(n) == stayPlanTo[n] \in Seq(Entries(StayActs)) /\ Len(stayPlanTo[n]) >= 1
           Bad == {n \in Nat : ~OK(n)}
<1>1. /\ \A i \in 1..4 : FirstDayStay[i] \in StayActs
      /\ \A i \in 1..7 : RecurringStay[i] \in StayActs
  BY DEF StayActs
<1>2. /\ expandPlan(0, FirstDayStay) \in Seq(Entries(StayActs))
      /\ Len(expandPlan(0, FirstDayStay)) = 4
  BY <1>1, PlanLengths DEF expandPlan, Entries
<1>3. \A n \in Nat : /\ expandPlan(n, RecurringStay) \in Seq(Entries(StayActs))
                     /\ Len(expandPlan(n, RecurringStay)) = 7
  BY <1>1, PlanLengths DEF expandPlan, Entries
<1>4. \A n \in Nat : n < 2 => OK(n)
  BY <1>2, StayPlanDef
<1>5. \A n \in Nat : n >= 2 /\ OK(n - 1) => OK(n)
  <2> SUFFICES ASSUME NEW n \in Nat, n >= 2, OK(n - 1) PROVE OK(n)
    OBVIOUS
  <2>0. ~(n < 2)
    OBVIOUS
  <2>1. stayPlanTo[n] = stayPlanTo[n - 1] \o expandPlan(n, RecurringStay)
    BY <2>0, StayPlanDef, Zenon
  <2> DEFINE a == stayPlanTo[n - 1]
             b == expandPlan(n, RecurringStay)
  <2>2. a \in Seq(Entries(StayActs)) /\ Len(a) >= 1
    OBVIOUS
  <2>5. b \in Seq(Entries(StayActs)) /\ Len(b) = 7
    BY <1>3
  <2> HIDE DEF a, b
  <2>3. a \o b \in Seq(Entries(StayActs)) /\ Len(a \o b) = Len(a) + Len(b)
    BY <2>2, <2>5, ConcatProperties, Zenon
  <2>4. Len(a) + Len(b) >= 1
    BY <2>2, <2>5
  <2> QED
    BY <2>1, <2>3, <2>4 DEF a, b
<1> HIDE DEF OK
<1>6. ASSUME Bad # {} PROVE FALSE
  <2>1. PICK n \in Bad : \A m \in Bad : n <= m
    BY <1>6, Least, Zenon
  <2>2. n \in Nat /\ ~OK(n) /\ n >= 2
    BY <1>4
  <2>3. n - 1 \in Nat /\ n - 1 \notin Bad
    BY <2>1, <2>2
  <2> QED
    BY <1>5, <2>2, <2>3
<1>7. \A n \in Nat : OK(n)
  BY <1>6
<1> QED
  BY <1>7 DEF OK

\* What the control flow relies on in an action of the plan of phase p.
Usual(a) ==
  /\ a.action \in Actions
  /\ a.action = "GO_FOR_DINNER" => a.notification = "DINNER_READY"
  /\ a.action = "GO_FOR_BREAKFAST" => a.notification = "BREAKFAST_READY"
  /\ a.action \notin {guestResponse[m] : m \in Requests} \cup {"TAKE_COTTAGE_KEY"}
Plain(a) == a.request = None /\ a.waitFor = None /\ a.action # "RETURN_COTTAGE_KEY"
Leaving(a) == /\ a.request = "REQUEST_COTTAGE_KEY" /\ a.waitFor = "CHECK_OUT_COMPLETE"
              /\ a.notification = None /\ a.action = "RETURN_COTTAGE_KEY"

\* What each of the configured actions is like: only the last action of the
\* check-out waits for a request or for a notification afterwards.
LEMMA ActionFacts ==
  /\ \A a \in StayActs : Usual(a) /\ Plain(a)
  /\ \A i \in 1..1 : Usual(ShowUp[i]) /\ Plain(ShowUp[i]) /\ ShowUp[i].action # "ENTER_COTTAGE"
  /\ \A i \in 1..4 : /\ Usual(Checkout[i]) /\ Checkout[i].action # "ENTER_COTTAGE"
                     /\ IF i = 4 THEN Leaving(Checkout[i]) ELSE Plain(Checkout[i])
<1> USE DEF At, Meal, Planned, None, NoHour
<1>1. {guestResponse[m] : m \in Requests} =
        {"showDocument", "showBookingNumber", "receiveCottageKey", "returnCottageKey"}
  BY DEF guestResponse, Requests
<1>2. /\ \A i \in 1..1 : ShowUp[i].action \in Actions
      /\ \A i \in 1..4 : FirstDayStay[i].action \in Actions
      /\ \A i \in 1..7 : RecurringStay[i].action \in Actions
      /\ \A i \in 1..4 : Checkout[i].action \in Actions
  BY PlanLengths, Zenon DEF Actions, AllPlanned
<1>3. \A i \in 1..4 : Usual(FirstDayStay[i]) /\ Plain(FirstDayStay[i])
  BY <1>1, <1>2, SMTT(60) DEF Usual, Plain, FirstDayStay
<1>4. \A i \in 1..7 : Usual(RecurringStay[i]) /\ Plain(RecurringStay[i])
  <2>1. \A i \in 1..7 : Usual(RecurringStay[i])
    BY <1>1, <1>2, SMTT(60) DEF Usual, RecurringStay
  <2>2. \A i \in 1..7 : Plain(RecurringStay[i])
    BY <1>1, <1>2, SMTT(60) DEF Plain, RecurringStay
  <2> QED
    BY <2>1, <2>2, Zenon
<1>5. \A i \in 1..1 : Usual(ShowUp[i]) /\ Plain(ShowUp[i]) /\ ShowUp[i].action # "ENTER_COTTAGE"
  BY <1>1, <1>2, SMTT(60) DEF Usual, Plain, ShowUp
<1>6. \A i \in 1..4 : /\ Usual(Checkout[i]) /\ Checkout[i].action # "ENTER_COTTAGE"
                     /\ IF i = 4 THEN Leaving(Checkout[i]) ELSE Plain(Checkout[i])
  BY <1>1, <1>2 DEF Usual, Plain, Leaving, Checkout
<1> QED
  BY <1>3, <1>4, <1>5, <1>6 DEF StayActs

Phases == {"showUp", "stay", "checkout"}

\* The same of the plan as a whole.
LEMMA PlanFacts ==
  /\ \A p \in Phases : Len(PlanOf(p)) \in Nat /\ Len(PlanOf(p)) >= 1
  /\ Len(PlanOf("checkout")) = 4
  /\ \A p \in Phases : \A i \in 1..Len(PlanOf(p)) :
       /\ PlanOf(p)[i].day \in Nat /\ Usual(PlanOf(p)[i].act)
       /\ PlanOf(p)[i].act.action = "ENTER_COTTAGE" => p = "stay"
       /\ IF p = "checkout" /\ i = 4 THEN Leaving(PlanOf(p)[i].act)
          ELSE Plain(PlanOf(p)[i].act)
<1>1. fullStayDays \in Nat /\ checkoutDayOffset \in Nat
  BY LodgingAssumption DEF fullStayDays, checkoutDayOffset
<1>2. /\ PlanOf("showUp") = expandPlan(0, ShowUp)
      /\ PlanOf("stay") = stayPlanTo[fullStayDays]
      /\ PlanOf("checkout") = expandPlan(checkoutDayOffset, Checkout)
  BY DEF PlanOf, buildStayActionPlan, buildCheckoutActionPlan
<1>3. /\ Len(PlanOf("showUp")) = 1
      /\ PlanOf("showUp")[1] = [day |-> 0, act |-> ShowUp[1]]
  BY <1>2, PlanLengths DEF expandPlan
<1>4. /\ Len(PlanOf("checkout")) = 4
      /\ \A i \in 1..4 : PlanOf("checkout")[i] = [day |-> checkoutDayOffset, act |-> Checkout[i]]
  BY <1>2, PlanLengths DEF expandPlan
<1>5. /\ PlanOf("stay") \in Seq(Entries(StayActs)) /\ Len(PlanOf("stay")) >= 1
  BY <1>1, <1>2, StayPlanShape
<1>6. /\ Len(PlanOf("stay")) \in Nat
      /\ \A i \in 1..Len(PlanOf("stay")) :
           PlanOf("stay")[i].day \in Nat /\ PlanOf("stay")[i].act \in StayActs
  <2> DEFINE q == PlanOf("stay")
  <2>1. q \in Seq(Entries(StayActs))
    BY <1>5
  <2> HIDE DEF q
  <2>2. Len(q) \in Nat /\ \A i \in 1..Len(q) : q[i] \in Entries(StayActs)
    BY <2>1
  <2> QED
    BY <2>2 DEF Entries, q
<1>7. ASSUME NEW i \in 1..Len(PlanOf("showUp"))
      PROVE  /\ PlanOf("showUp")[i].day \in Nat /\ Usual(PlanOf("showUp")[i].act)
             /\ PlanOf("showUp")[i].act.action # "ENTER_COTTAGE"
             /\ Plain(PlanOf("showUp")[i].act)
  <2>1. i \in 1..1
    BY <1>3, Zenon
  <2>2. i = 1 /\ 1 \in 1..1 /\ 0 \in Nat
    BY <2>1
  <2>3. PlanOf("showUp")[i] = [day |-> 0, act |-> ShowUp[1]]
    BY <1>3, <2>2, Zenon
  <2>4. PlanOf("showUp")[i].act = ShowUp[1] /\ PlanOf("showUp")[i].day = 0
    BY <2>3
  <2> QED
    BY <2>2, <2>4, ActionFacts, Zenon
<1>8. ASSUME NEW i \in 1..Len(PlanOf("checkout"))
      PROVE  /\ PlanOf("checkout")[i].day \in Nat /\ Usual(PlanOf("checkout")[i].act)
             /\ PlanOf("checkout")[i].act.action # "ENTER_COTTAGE"
             /\ IF i = 4 THEN Leaving(PlanOf("checkout")[i].act)
                ELSE Plain(PlanOf("checkout")[i].act)
  <2>1. i \in 1..4
    BY <1>4, Zenon
  <2>2. PlanOf("checkout")[i] = [day |-> checkoutDayOffset, act |-> Checkout[i]]
    BY <1>4, <2>1, Zenon
  <2>3. /\ PlanOf("checkout")[i].act = Checkout[i]
        /\ PlanOf("checkout")[i].day = checkoutDayOffset
    BY <2>2
  <2> QED
    BY <1>1, <2>1, <2>3, ActionFacts, Zenon
<1> QED
  BY <1>3, <1>4, <1>5, <1>6, <1>7, <1>8, ActionFacts, SMTT(60) DEF Phases
-----------------------------------------------------------------------------
(* The invariant.                                                           *)

\* How often a message waits in a sequence.
Count(s, m) == Cardinality({i \in 1..Len(s) : s[i] = m})
\* What the guest does on a message the system prompts them with.
Prompts == {"DINNER_READY", "BREAKFAST_READY"} \cup Requests
Use(m) == CASE m = "DINNER_READY" -> "GO_FOR_DINNER"
            [] m = "BREAKFAST_READY" -> "GO_FOR_BREAKFAST"
            [] OTHER -> guestResponse[m]

\* The message was read and what it prompts is still to be said.
InHand(m) ==
  IF \/ pc \in {"request", "send"} /\ Cur.notification = m
     \/ pc = "reply" /\ msg = m
  THEN 1 ELSE 0

\* Each message is unread, in hand or used up: one of the three, once.
Balanced ==
  \A m \in Prompts : Times(Use(m)) + Count(inbox, m) + InHand(m) <= sent[m]

CheckedIn == sent["CHECK_IN_COMPLETE"] > 0
KeyTaken == CheckedIn /\ Said("receiveCottageKey")

\* Where the step is while it works on an action of a plan.
InPlan == {"gate", "wait", "missed", "notice", "request", "send", "after"}

\* What the system has said when the step is where it is.
Dialogue ==
  /\ \A i \in 1..Len(inbox) : sent[inbox[i]] > 0
  /\ pc = "start" => phase = "showUp"
  /\ pc = "key" => CheckedIn
  /\ pc = "reply" /\ msg = "GIVE_COTTAGE_KEY" => CheckedIn
  /\ pc = "take" => KeyTaken
  /\ phase = "stay" /\ pc \in InPlan => KeyTaken
  /\ Said("ENTER_COTTAGE") => KeyTaken
  /\ pc = "reply" /\ msg = "REQUEST_COTTAGE_KEY" => phase = "checkout" /\ Leaving(Cur)
  /\ pc = "send" /\ Leaving(Cur) => Said("returnCottageKey")
  /\ Said("RETURN_COTTAGE_KEY") => Said("returnCottageKey")
  /\ pc = "done" => sent["CHECK_OUT_COMPLETE"] > 0

SInv == TypeOK /\ Balanced /\ Dialogue
-----------------------------------------------------------------------------
(* Counting.                                                                *)

\* Appending to a sequence adds to one count.
LEMMA CountAppend ==
  ASSUME NEW S, NEW s \in Seq(S), NEW x \in S, NEW m
  PROVE  Count(Append(s, x), m) = Count(s, m) + (IF x = m THEN 1 ELSE 0)
<1> DEFINE P == {i \in 1..Len(s) : s[i] = m}
           Q == {i \in 1..Len(Append(s, x)) : Append(s, x)[i] = m}
<1>1. IsFiniteSet(P) /\ Len(s) \in Nat
  <2>1. IsFiniteSet(1..Len(s))
    BY FS_Interval
  <2> QED
    BY <2>1, FS_Subset
<1>2. Q = IF x = m THEN P \cup {Len(s) + 1} ELSE P
  OBVIOUS
<1>3. Len(s) + 1 \notin P
  BY <1>1
<1> HIDE DEF P, Q
<1>4. Cardinality(Q) = Cardinality(P) + (IF x = m THEN 1 ELSE 0)
  <2>1. Cardinality(P) \in Nat
    BY <1>1, FS_CardinalityType
  <2>2. CASE x = m
    BY <1>1, <1>2, <1>3, <2>2, FS_AddElement, Zenon
  <2>3. CASE x # m
    BY <1>2, <2>1, <2>3
  <2> QED
    BY <2>2, <2>3
<1> QED
  BY <1>4, Zenon DEF P, Q, Count

\* Reading the head takes it from one count.
LEMMA CountTail ==
  ASSUME NEW S, NEW s \in Seq(S), s # <<>>, NEW m
  PROVE  Count(s, m) = Count(Tail(s), m) + (IF Head(s) = m THEN 1 ELSE 0)
<1> DEFINE P == {i \in 1..Len(s) : s[i] = m}
           Q == {i \in 1..Len(Tail(s)) : Tail(s)[i] = m}
           R == P \ {1}
           f == [i \in Q |-> i + 1]
<1>1. Len(s) \in Nat /\ Len(s) >= 1 /\ Len(Tail(s)) = Len(s) - 1
      /\ \A i \in 1..Len(s) - 1 : Tail(s)[i] = s[i + 1]
  OBVIOUS
<1>2. IsFiniteSet(P) /\ IsFiniteSet(Q)
  <2>1. IsFiniteSet(1..Len(s)) /\ IsFiniteSet(1..Len(Tail(s)))
    BY <1>1, FS_Interval
  <2> QED
    BY <2>1, FS_Subset
<1>3. f \in Bijection(Q, R)
  <2>1. \A i \in Q : i + 1 \in R
    BY <1>1
  <2>2. \A j \in R : j - 1 \in Q /\ (j - 1) + 1 = j
    BY <1>1
  <2>3. \A i, j \in Q : i + 1 = j + 1 => i = j
    BY <1>1
  <2> HIDE DEF Q, R
  <2> QED
    BY <2>1, <2>2, <2>3 DEF Bijection, Injection, Surjection, IsInjective
<1>4. 1 \in P <=> Head(s) = m
  BY <1>1
<1> HIDE DEF P, Q, f, R
<1>5. Cardinality(R) = Cardinality(Q)
  BY <1>2, <1>3, FS_Bijection DEF ExistsBijection
<1>6. Cardinality(R) = IF 1 \in P THEN Cardinality(P) - 1 ELSE Cardinality(P)
  BY <1>2, FS_RemoveElement, Zenon DEF R
<1>7. Cardinality(P) \in Nat /\ Cardinality(Q) \in Nat
  BY <1>2, FS_CardinalityType
<1>8. Cardinality(P) = Cardinality(Q) + (IF Head(s) = m THEN 1 ELSE 0)
  BY <1>4, <1>5, <1>6, <1>7
<1> QED
  BY <1>8, Zenon DEF P, Q, Count

\* Counts are numbers.
LEMMA CountType ==
  ASSUME NEW S, NEW s \in Seq(S), NEW m
  PROVE  Count(s, m) \in Nat
<1>1. IsFiniteSet(1..Len(s))
  BY FS_Interval
<1>2. IsFiniteSet({i \in 1..Len(s) : s[i] = m})
  BY <1>1, FS_Subset
<1> QED
  BY <1>2, FS_CardinalityType DEF Count

\* Nothing waits in an empty inbox.
LEMMA CountEmpty == \A m : Count(<<>>, m) = 0
<1> TAKE m
<1>1. {i \in 1..Len(<<>>) : <<>>[i] = m} = {}
  OBVIOUS
<1> QED
  BY <1>1, FS_EmptySet DEF Count

LogEntry == Nat \X (Actions \cup {guestResponse[m] : m \in Requests} \cup {"TAKE_COTTAGE_KEY"})

\* One more thing said.
LEMMA SaidMore ==
  ASSUME log \in Seq(LogEntry), NEW d, NEW w, <<d, w>> \in LogEntry,
         log' = Append(log, <<d, w>>)
  PROVE  /\ \A x : Times(x)' = Times(x) + (IF w = x THEN 1 ELSE 0)
         /\ \A x : Said(x)' <=> Said(x) \/ w = x
         /\ log' \in Seq(LogEntry)
<1>0. /\ Len(log) \in Nat /\ Len(log') = Len(log) + 1
      /\ \A i \in 1..Len(log) : log'[i] = log[i]
      /\ log'[Len(log) + 1] = <<d, w>>
  OBVIOUS
<1>1. ASSUME NEW x PROVE Times(x)' = Times(x) + (IF w = x THEN 1 ELSE 0)
  <2> DEFINE P == {i \in 1..Len(log) : log[i][2] = x}
             Q == {i \in 1..Len(log') : log'[i][2] = x}
  <2>1. IsFiniteSet(P)
    <3>1. IsFiniteSet(1..Len(log))
      BY <1>0, FS_Interval
    <3> QED
      BY <3>1, FS_Subset
  <2>2. Q = IF w = x THEN P \cup {Len(log) + 1} ELSE P
    BY <1>0
  <2>3. Len(log) + 1 \notin P
    BY <1>0
  <2> HIDE DEF P, Q
  <2>4. Cardinality(P) \in Nat
    BY <2>1, FS_CardinalityType
  <2>5. Cardinality(Q) = Cardinality(P) + (IF w = x THEN 1 ELSE 0)
    <3>1. CASE w = x
      BY <2>1, <2>2, <2>3, <3>1, FS_AddElement, Zenon
    <3>2. CASE w # x
      BY <2>2, <2>4, <3>2
    <3> QED
      BY <3>1, <3>2
  <2> QED
    BY <2>5, Zenon DEF P, Q, Times
<1>2. \A x : Said(x)' <=> Said(x) \/ w = x
  BY <1>0 DEF Said
<1>3. log' \in Seq(LogEntry)
  OBVIOUS
<1> QED
  BY <1>1, <1>2, <1>3

\* What was said was said a number of times.
LEMMA TimesType ==
  ASSUME log \in Seq(LogEntry), NEW x PROVE Times(x) \in Nat
<1>1. IsFiniteSet(1..Len(log))
  BY FS_Interval
<1>2. IsFiniteSet({i \in 1..Len(log) : log[i][2] = x})
  BY <1>1, FS_Subset
<1> QED
  BY <1>2, FS_CardinalityType DEF Times

\* Every prompt has a use of its own, which no other action or response is.
LEMMA Uses ==
  /\ Prompts \subseteq Messages /\ None \notin Messages
  /\ \A m \in Prompts : \A a : Usual(a) /\ a.action = Use(m) => a.notification = m
  /\ \A m \in Prompts, n \in Requests : guestResponse[n] = Use(m) => m = n
  /\ \A m \in Prompts : Use(m) # "TAKE_COTTAGE_KEY"
  /\ \A n \in Requests : guestResponse[n] \notin {"ENTER_COTTAGE", "RETURN_COTTAGE_KEY"}
  /\ guestResponse["GIVE_COTTAGE_KEY"] = "receiveCottageKey"
  /\ guestResponse["REQUEST_COTTAGE_KEY"] = "returnCottageKey"
<1>1. Prompts \subseteq Messages /\ None \notin Messages
  BY DEF Prompts, Messages, Notifications, None, Requests
<1>2. /\ Use("DINNER_READY") = "GO_FOR_DINNER"
      /\ Use("BREAKFAST_READY") = "GO_FOR_BREAKFAST"
      /\ Use("REQUEST_DOCUMENT") = "showDocument"
      /\ Use("REQUEST_BOOKING_NUMBER") = "showBookingNumber"
      /\ Use("GIVE_COTTAGE_KEY") = "receiveCottageKey"
      /\ Use("REQUEST_COTTAGE_KEY") = "returnCottageKey"
      /\ \A n \in Requests : guestResponse[n] = Use(n)
  BY DEF Use, guestResponse, Requests
<1>3. Prompts = {"DINNER_READY", "BREAKFAST_READY", "REQUEST_DOCUMENT",
                 "REQUEST_BOOKING_NUMBER", "GIVE_COTTAGE_KEY", "REQUEST_COTTAGE_KEY"}
  BY DEF Prompts, Requests
<1>4. \A m \in Prompts : \A a : Usual(a) /\ a.action = Use(m) => a.notification = m
  <2>1. \A a : Usual(a) => a.action \notin {guestResponse[m] : m \in Requests}
    BY DEF Usual
  <2>2. \A m \in Requests : Use(m) \in {guestResponse[n] : n \in Requests}
    BY <1>2
  <2>3. \A m \in Prompts : m = "DINNER_READY" \/ m = "BREAKFAST_READY" \/ m \in Requests
    BY DEF Prompts
  <2> QED
    BY <1>2, <2>1, <2>2, <2>3 DEF Usual
<1>5. \A m \in Prompts, n \in Requests : guestResponse[n] = Use(m) => m = n
  BY <1>2, <1>3 DEF Requests
<1>6. \A m \in Prompts : Use(m) # "TAKE_COTTAGE_KEY"
  BY <1>2, <1>3
<1>7. \A n \in Requests : guestResponse[n] \notin {"ENTER_COTTAGE", "RETURN_COTTAGE_KEY"}
  BY <1>2 DEF Requests
<1>8. /\ guestResponse["GIVE_COTTAGE_KEY"] = "receiveCottageKey"
      /\ guestResponse["REQUEST_COTTAGE_KEY"] = "returnCottageKey"
  BY DEF guestResponse
<1> QED
  BY <1>1, <1>4, <1>5, <1>6, <1>7, <1>8

\* The action the step is at.
LEMMA CurFacts ==
  ASSUME TypeOK
  PROVE  /\ Day \in Nat /\ Usual(Cur)
         /\ Cur.action = "ENTER_COTTAGE" => phase = "stay"
         /\ phase = "checkout" /\ idx = 4 => Leaving(Cur)
         /\ ~(phase = "checkout" /\ idx = 4) => Plain(Cur)
<1>1. phase \in Phases /\ idx \in 1..Len(PlanOf(phase))
  BY DEF TypeOK, Phases
<1> QED
  BY <1>1, PlanFacts DEF Day, Cur

\* Where a plan goes on.
LEMMA Advances ==
  ASSUME TypeOK, Advance
  PROVE  /\ phase' \in Phases /\ idx' \in 1..Len(PlanOf(phase'))
         /\ pc' \in {"gate", "checkin", "done"}
         /\ phase' = "stay" /\ pc' = "gate" => phase = "stay"
         /\ pc' = "done" => phase = "checkout" /\ idx = 4
<1>1. phase \in Phases /\ idx \in 1..Len(PlanOf(phase)) /\ idx \in Nat
  BY DEF TypeOK, Phases
<1>2. \A p \in Phases : Len(PlanOf(p)) \in Nat /\ 1 \in 1..Len(PlanOf(p))
  BY PlanFacts
<1>3. Len(PlanOf("checkout")) = 4
  BY PlanFacts
<1>4. CASE idx < Len(PlanOf(phase))
  <2>1. idx' = idx + 1 /\ pc' = "gate" /\ phase' = phase
    BY <1>4 DEF Advance
  <2>2. idx + 1 \in 1..Len(PlanOf(phase))
    BY <1>1, <1>2, <1>4
  <2> QED
    BY <1>1, <2>1, <2>2
<1>5. CASE ~(idx < Len(PlanOf(phase)))
  <2>1. /\ idx' = 1
        /\ \/ phase = "showUp" /\ pc' = "checkin" /\ phase' = "stay"
           \/ phase = "stay" /\ pc' = "gate" /\ phase' = "checkout"
           \/ phase = "checkout" /\ pc' = "done" /\ phase' = phase
    BY <1>5 DEF Advance
  <2>2. phase' \in Phases
    BY <2>1 DEF Phases
  <2>3. idx' \in 1..Len(PlanOf(phase'))
    BY <1>2, <2>1, <2>2
  <2>4. idx = Len(PlanOf(phase))
    BY <1>1, <1>2, <1>5
  <2> QED
    BY <1>3, <2>1, <2>2, <2>3, <2>4, Zenon
<1> QED
  BY <1>4, <1>5

\* A message is in hand once or not at all.
LEMMA HandType == \A m : InHand(m) \in {0, 1}
  BY DEF InHand

\* The terms of Balanced are numbers.
LEMMA CountsType ==
  ASSUME TypeOK
  PROVE  \A m \in Prompts : /\ Times(Use(m)) \in Nat /\ Count(inbox, m) \in Nat
                            /\ InHand(m) \in Nat /\ sent[m] \in Nat
<1>1. log \in Seq(LogEntry) /\ inbox \in Seq(Messages)
  BY DEF TypeOK, LogEntry
<1>2. \A m \in Prompts : sent[m] \in Nat
  BY Uses DEF TypeOK
<1>3. \A m : Times(Use(m)) \in Nat
  BY <1>1, TimesType
<1>4. \A m : Count(inbox, m) \in Nat
  BY <1>1, CountType
<1> QED
  BY <1>2, <1>3, <1>4, HandType

\* A step that neither reads nor says anything.
LEMMA QuietBalanced ==
  ASSUME SInv, UNCHANGED <<inbox, log, sent>>,
         \A m \in Prompts : InHand(m)' = InHand(m) \/ InHand(m)' = 0
  PROVE  Balanced'
<1> SUFFICES ASSUME NEW m \in Prompts
             PROVE  Times(Use(m))' + Count(inbox', m) + InHand(m)' <= sent'[m]
  BY DEF Balanced
<1>1. /\ Times(Use(m)) \in Nat /\ Count(inbox, m) \in Nat
      /\ InHand(m) \in Nat /\ sent[m] \in Nat
  BY CountsType DEF SInv
<1>2. Times(Use(m))' = Times(Use(m))
  BY DEF Times
<1>3. Times(Use(m)) + Count(inbox, m) + InHand(m) <= sent[m]
  BY DEF SInv, Balanced
<1> QED
  BY <1>1, <1>2, <1>3

\* A step that reads a message: it may be in hand afterwards.
LEMMA ReadBalanced ==
  ASSUME SInv, inbox # <<>>, inbox' = Tail(inbox), UNCHANGED <<log, sent>>,
         \A m \in Prompts : InHand(m)' = 0 \/ (InHand(m) = 0 /\ Head(inbox) = m)
  PROVE  Balanced'
<1> SUFFICES ASSUME NEW m \in Prompts
             PROVE  Times(Use(m))' + Count(inbox', m) + InHand(m)' <= sent'[m]
  BY DEF Balanced
<1>1. /\ Times(Use(m)) \in Nat /\ Count(inbox, m) \in Nat
      /\ InHand(m) \in Nat /\ sent[m] \in Nat
  BY CountsType DEF SInv
<1>2. Times(Use(m))' = Times(Use(m))
  BY DEF Times
<1>3. Times(Use(m)) + Count(inbox, m) + InHand(m) <= sent[m]
  BY DEF SInv, Balanced
<1>4. inbox \in Seq(Messages)
  BY DEF SInv, TypeOK
<1>5. Count(inbox, m) = Count(inbox', m) + (IF Head(inbox) = m THEN 1 ELSE 0)
  BY <1>4, CountTail
<1>6. Count(inbox', m) \in Nat
  <2>1. inbox' \in Seq(Messages)
    BY <1>4
  <2> QED
    BY <2>1, CountType, Zenon
<1>7. InHand(m)' \in {0, 1}
  BY DEF InHand
<1> QED
  BY <1>1, <1>2, <1>3, <1>5, <1>6, <1>7

\* A step that says something: what prompted it is not in hand any more.
LEMMA SayBalanced ==
  ASSUME SInv, NEW w, <<Day, w>> \in LogEntry, log' = Append(log, <<Day, w>>),
         UNCHANGED <<inbox, sent>>,
         \A m \in Prompts : InHand(m)' = 0 /\ (w = Use(m) => InHand(m) = 1)
  PROVE  Balanced'
<1> SUFFICES ASSUME NEW m \in Prompts
             PROVE  Times(Use(m))' + Count(inbox', m) + InHand(m)' <= sent'[m]
  BY DEF Balanced
<1>1. /\ Times(Use(m)) \in Nat /\ Count(inbox, m) \in Nat
      /\ InHand(m) \in Nat /\ sent[m] \in Nat
  BY CountsType DEF SInv
<1>2. Times(Use(m))' = Times(Use(m)) + (IF w = Use(m) THEN 1 ELSE 0)
  <2>1. log \in Seq(LogEntry)
    BY DEF SInv, TypeOK, LogEntry
  <2> QED
    BY <2>1, SaidMore, SMTT(60)
<1>3. Times(Use(m)) + Count(inbox, m) + InHand(m) <= sent[m]
  BY DEF SInv, Balanced
<1> QED
  BY <1>1, <1>2, <1>3
-----------------------------------------------------------------------------
(* The steps.                                                               *)

\* Before the dial nothing was sent or said.
LEMMA SInvInit == Init => SInv
<1> SUFFICES ASSUME Init PROVE SInv
  OBVIOUS
<1>1. TypeOK
  <2>1. inbox \in Seq(Messages) /\ strays \in Seq(Strays) /\ log \in Seq(LogEntry)
    BY DEF Init
  <2>2. 1 \in 1..Len(PlanOf("showUp"))
    BY PlanFacts DEF Phases
  <2>3. sent \in [Messages -> Nat] /\ Len(strays) <= MaxStrays /\ clock \in Nat
    BY LodgingAssumption DEF Init
  <2> QED
    BY <2>1, <2>2, <2>3 DEF Init, TypeOK, LogEntry
<1>2. Balanced
  <2> SUFFICES ASSUME NEW m \in Prompts
               PROVE  Times(Use(m)) + Count(inbox, m) + InHand(m) <= sent[m]
    BY DEF Balanced
  <2>1. {i \in 1..Len(log) : log[i][2] = Use(m)} = {}
    BY DEF Init
  <2>2. Times(Use(m)) = 0
    BY <2>1, FS_EmptySet DEF Times
  <2>3. Count(inbox, m) = 0 /\ InHand(m) = 0 /\ sent[m] = 0
    BY CountEmpty, Uses DEF Init, InHand
  <2> QED
    BY <2>2, <2>3
<1>3. Dialogue
  <2>1. \A x : ~Said(x)
    BY DEF Init, Said
  <2> QED
    BY <2>1 DEF Init, Dialogue
<1> QED
  BY <1>1, <1>2, <1>3 DEF SInv

\* Steps of the gate that read nothing, and the start.
LEMMA WaitKeeps ==
  ASSUME SInv, UNCHANGED <<phase, idx, msg, inbox, sent, strays, log, clock>>,
         \/ pc = "start" /\ pc' = "gate"
         \/ pc = "gate" /\ pc' \in {"wait", "notice"}
         \/ pc = "wait" /\ pc' \in {"notice", "missed"}
         \/ pc = "notice" /\ pc' = "request" /\ Cur.notification = None
         \/ pc = "request" /\ pc' = "send" /\ Cur.request = None
  PROVE  SInv'
<1>1. TypeOK'
  BY DEF SInv, TypeOK
<1>2. Cur' = Cur /\ \A x : Said(x)' <=> Said(x)
  BY DEF Cur, Said
<1>3. \A m \in Prompts : InHand(m)' = InHand(m) \/ InHand(m)' = 0
  BY <1>2, Uses DEF InHand
<1>4. Balanced'
  BY <1>3, QuietBalanced
<1>5. pc' = "send" => ~Leaving(Cur)'
  BY <1>2 DEF Leaving, None
<1>6. Dialogue'
  BY <1>2, <1>5 DEF SInv, Dialogue, InPlan, CheckedIn, KeyTaken
<1> QED
  BY <1>1, <1>4, <1>6 DEF SInv

\* What is left in the inbox after a read was sent.
LEMMA ReadFacts ==
  ASSUME SInv, inbox # <<>>, inbox' = Tail(inbox), sent' = sent
  PROVE  /\ inbox' \in Seq(Messages) /\ Head(inbox) \in Messages
         /\ sent[Head(inbox)] > 0
         /\ \A i \in 1..Len(inbox') : sent'[inbox'[i]] > 0
<1>1. inbox \in Seq(Messages)
  BY DEF SInv, TypeOK
<1>2. \A i \in 1..Len(inbox) : sent[inbox[i]] > 0
  BY DEF SInv, Dialogue
<1>3. /\ Head(inbox) = inbox[1] /\ 1 \in 1..Len(inbox) /\ Head(inbox) \in Messages
      /\ inbox' \in Seq(Messages)
      /\ \A i \in 1..Len(inbox') : i + 1 \in 1..Len(inbox) /\ inbox'[i] = inbox[i + 1]
  BY <1>1
<1> QED
  BY <1>2, <1>3

\* The gate reads a notification, or drops a message it does not expect.
LEMMA NotificationKeeps ==
  ASSUME SInv, gateNotification PROVE SInv'
<1>1. CASE Cur.notification = None /\ pc' = "request" /\ UNCHANGED inbox
  BY <1>1, WaitKeeps DEF gateNotification
<1>2. CASE Cur.notification # None /\ expect(Cur.notification, "request")
  <2>1. /\ pc = "notice" /\ inbox # <<>> /\ inbox' = Tail(inbox)
        /\ pc' = IF Head(inbox) = Cur.notification THEN "request" ELSE "notice"
        /\ UNCHANGED <<phase, idx, msg, sent, strays, log, clock>>
    BY <1>2 DEF gateNotification, expect
  <2>2. /\ inbox' \in Seq(Messages)
        /\ \A i \in 1..Len(inbox') : sent'[inbox'[i]] > 0
    BY <2>1, ReadFacts
  <2>3. TypeOK'
    BY <2>1, <2>2 DEF SInv, TypeOK
  <2>4. Cur' = Cur /\ \A x : Said(x)' <=> Said(x)
    BY <2>1 DEF Cur, Said
  <2>5. \A m \in Prompts : InHand(m)' = 0 \/ (InHand(m) = 0 /\ Head(inbox) = m)
    BY <2>1, <2>4 DEF InHand
  <2>6. Balanced'
    BY <2>1, <2>5, ReadBalanced
  <2>7. Dialogue'
    BY <2>1, <2>2, <2>4 DEF SInv, Dialogue, InPlan, CheckedIn, KeyTaken
  <2> QED
    BY <2>3, <2>6, <2>7 DEF SInv
<1> QED
  BY <1>1, <1>2 DEF gateNotification

\* Only the return of the key waits for a request, and it replies.
LEMMA RequestKeeps ==
  ASSUME SInv, gateRequest PROVE SInv'
<1>1. CASE Cur.request = None /\ pc' = "send" /\ UNCHANGED <<inbox, msg>>
  BY <1>1, WaitKeeps DEF gateRequest
<1>2. CASE /\ Cur.request # None
           /\ expect(Cur.request,
                     IF phase = "checkout" /\ Cur.request = "REQUEST_COTTAGE_KEY"
                     THEN "reply" ELSE "send")
           /\ msg' = Head(inbox)
  <2>1. phase = "checkout" /\ idx = 4 /\ Leaving(Cur)
    BY <1>2, CurFacts DEF SInv, Plain
  <2>2. Cur.request = "REQUEST_COTTAGE_KEY" /\ Cur.notification = None
    BY <2>1 DEF Leaving
  <2>3. /\ pc = "request" /\ inbox # <<>> /\ inbox' = Tail(inbox) /\ msg' = Head(inbox)
        /\ pc' = IF Head(inbox) = "REQUEST_COTTAGE_KEY" THEN "reply" ELSE "request"
        /\ UNCHANGED <<phase, idx, sent, strays, log, clock>>
    BY <1>2, <2>1, <2>2 DEF gateRequest, expect
  <2>4. /\ inbox' \in Seq(Messages) /\ Head(inbox) \in Messages
        /\ \A i \in 1..Len(inbox') : sent'[inbox'[i]] > 0
    BY <2>3, ReadFacts
  <2>5. TypeOK'
    BY <2>3, <2>4 DEF SInv, TypeOK, Requests
  <2>6. Cur' = Cur /\ \A x : Said(x)' <=> Said(x)
    BY <2>3 DEF Cur, Said
  <2>7. \A m \in Prompts : InHand(m)' = 0 \/ (InHand(m) = 0 /\ Head(inbox) = m)
    BY <2>2, <2>3, <2>6, Uses DEF InHand
  <2>8. Balanced'
    BY <2>3, <2>7, ReadBalanced
  <2>9. Leaving(Cur)'
    BY <2>1, <2>6 DEF Leaving
  <2>10. Dialogue'
    BY <2>1, <2>3, <2>4, <2>6, <2>9, SMTT(60) DEF SInv, Dialogue, InPlan, CheckedIn, KeyTaken
  <2> QED
    BY <2>5, <2>8, <2>10 DEF SInv
<1> QED
  BY <1>1, <1>2 DEF gateRequest

\* The loop of finishCheckin and the wait for the key.
LEMMA CheckinKeeps ==
  ASSUME SInv, finishCheckin \/ expectKey PROVE SInv'
<1>1. /\ pc \in {"checkin", "key"} /\ inbox # <<>> /\ inbox' = Tail(inbox)
      /\ msg' = Head(inbox)
      /\ UNCHANGED <<phase, idx, sent, strays, log, clock>>
      /\ \/ pc' = "checkin"
         \/ pc' = "key" /\ (pc = "key" \/ Head(inbox) = "CHECK_IN_COMPLETE")
         \/ pc' = "reply" /\ Head(inbox) \in {"REQUEST_DOCUMENT", "REQUEST_BOOKING_NUMBER"}
         \/ pc = "key" /\ pc' = "reply" /\ Head(inbox) = "GIVE_COTTAGE_KEY"
  BY DEF finishCheckin, expectKey, expect
<1>2. /\ inbox' \in Seq(Messages) /\ Head(inbox) \in Messages /\ sent[Head(inbox)] > 0
      /\ \A i \in 1..Len(inbox') : sent'[inbox'[i]] > 0
  BY <1>1, ReadFacts
<1>3. TypeOK'
  BY <1>1, <1>2 DEF SInv, TypeOK, Requests
<1>4. \A x : Said(x)' <=> Said(x)
  BY <1>1 DEF Said
<1>5. \A m \in Prompts : InHand(m)' = 0 \/ (InHand(m) = 0 /\ Head(inbox) = m)
  BY <1>1 DEF InHand
<1>6. Balanced'
  BY <1>1, <1>5, ReadBalanced, SMTT(60)
<1>7. Dialogue'
  BY <1>1, <1>2, <1>4, SMTT(60) DEF SInv, Dialogue, InPlan, CheckedIn, KeyTaken
<1> QED
  BY <1>3, <1>6, <1>7 DEF SInv

\* The wait that follows the return of the key.
LEMMA AfterKeeps ==
  ASSUME SInv, waitForNotification PROVE SInv'
<1>1. /\ pc = "after" /\ inbox # <<>> /\ inbox' = Tail(inbox)
      /\ UNCHANGED <<msg, sent, strays, log, clock>>
  BY DEF waitForNotification
<1>2. /\ inbox' \in Seq(Messages) /\ sent[Head(inbox)] > 0
      /\ \A i \in 1..Len(inbox') : sent'[inbox'[i]] > 0
  BY <1>1, ReadFacts
<1>3. \A x : Said(x)' <=> Said(x)
  BY <1>1 DEF Said
<1>4. /\ phase' \in Phases /\ idx' \in 1..Len(PlanOf(phase'))
      /\ pc' \in {"gate", "checkin", "done", "after"}
      /\ phase' = "stay" /\ pc' \in {"gate", "after"} => phase = "stay"
      /\ pc' = "done" => Head(inbox) = "CHECK_OUT_COMPLETE"
  <2>1. CASE Head(inbox) = Cur.waitFor
    <3>1. Advance
      BY <2>1 DEF waitForNotification
    <3>2. phase = "checkout" /\ idx = 4 => Cur.waitFor = "CHECK_OUT_COMPLETE"
      BY CurFacts DEF SInv, Leaving
    <3> QED
      BY <2>1, <3>1, <3>2, Advances DEF SInv
  <2>2. CASE Head(inbox) # Cur.waitFor
    BY <1>1, <2>2 DEF waitForNotification, SInv, TypeOK, Phases
  <2> QED
    BY <2>1, <2>2
<1>5. TypeOK'
  BY <1>1, <1>2, <1>4 DEF SInv, TypeOK, Phases
<1>6. \A m \in Prompts : InHand(m)' = 0
  BY <1>4 DEF InHand
<1>7. Balanced'
  BY <1>1, <1>6, ReadBalanced
<1>8. Dialogue'
  BY <1>1, <1>2, <1>3, <1>4, SMTT(60) DEF SInv, Dialogue, InPlan, CheckedIn, KeyTaken
<1> QED
  BY <1>5, <1>7, <1>8 DEF SInv

\* The guest says the current action of the plan.
LEMMA SendKeeps ==
  ASSUME SInv, SendAction PROVE SInv'
<1> DEFINE w == Cur.action
<1>1. /\ pc = "send" /\ log' = Append(log, <<Day, w>>)
      /\ UNCHANGED <<msg, inbox, sent, strays, clock>>
  BY DEF SendAction, Say
<1>2. /\ Day \in Nat /\ Usual(Cur)
      /\ w = "ENTER_COTTAGE" => phase = "stay"
      /\ phase = "checkout" /\ idx = 4 => Leaving(Cur)
      /\ ~(phase = "checkout" /\ idx = 4) => Plain(Cur)
  BY CurFacts DEF SInv
<1>3. <<Day, w>> \in LogEntry /\ log \in Seq(LogEntry)
  BY <1>2 DEF LogEntry, Usual, SInv, TypeOK
<1>4. \A m \in Prompts : w = Use(m) => InHand(m) = 1
  BY <1>1, <1>2, Uses DEF InHand
<1>5. w = "RETURN_COTTAGE_KEY" => Leaving(Cur)
  BY <1>2 DEF Plain
<1> HIDE DEF w
<1>6. /\ \A x : Said(x)' <=> Said(x) \/ w = x
      /\ log' \in Seq(LogEntry)
  BY <1>1, <1>3, SaidMore
<1>7. /\ phase' \in Phases /\ idx' \in 1..Len(PlanOf(phase'))
      /\ pc' \in {"gate", "checkin", "after"}
      /\ phase' = "stay" /\ pc' \in {"gate", "after"} => phase = "stay"
  <2>1. CASE Cur.waitFor # None
    BY <1>1, <2>1 DEF SendAction, SInv, TypeOK, Phases
  <2>2. CASE Cur.waitFor = None
    <3>1. Advance
      BY <2>2 DEF SendAction
    <3>2. ~(phase = "checkout" /\ idx = 4)
      BY <1>2, <2>2 DEF Leaving, None
    <3> QED
      BY <3>1, <3>2, Advances DEF SInv
  <2> QED
    BY <2>1, <2>2
<1>8. TypeOK'
  BY <1>1, <1>6, <1>7 DEF SInv, TypeOK, Phases, LogEntry
<1>9. Balanced'
  <2>1. \A m \in Prompts : InHand(m)' = 0
    BY <1>7 DEF InHand
  <2> QED
    BY <1>1, <1>3, <1>4, <2>1, SayBalanced
<1>10. Dialogue'
  BY <1>1, <1>2, <1>5, <1>6, <1>7, SMTT(60) DEF SInv, Dialogue, InPlan, CheckedIn, KeyTaken
<1> QED
  BY <1>8, <1>9, <1>10 DEF SInv

\* The guest answers the request in hand.
LEMMA ReplyKeeps ==
  ASSUME SInv, Reply PROVE SInv'
<1> DEFINE w == guestResponse[msg]
<1>1. /\ pc = "reply" /\ log' = Append(log, <<Day, w>>)
      /\ UNCHANGED <<phase, idx, msg, inbox, sent, strays, clock>>
      /\ \/ msg = "GIVE_COTTAGE_KEY" /\ pc' = "take"
         \/ msg = "REQUEST_COTTAGE_KEY" /\ pc' = "send"
         \/ pc' = "checkin"
  BY DEF Reply, Say
<1>2. msg \in Requests
  BY <1>1, SMTT(60) DEF SInv, TypeOK
<1>3. <<Day, w>> \in LogEntry /\ log \in Seq(LogEntry)
  BY <1>2, CurFacts DEF LogEntry, SInv, TypeOK
<1>4. /\ \A m \in Prompts : w = Use(m) => m = msg
      /\ w # "ENTER_COTTAGE" /\ w # "RETURN_COTTAGE_KEY"
      /\ msg = "GIVE_COTTAGE_KEY" => w = "receiveCottageKey"
      /\ msg = "REQUEST_COTTAGE_KEY" => w = "returnCottageKey"
  BY <1>2, Uses
<1> HIDE DEF w
<1>5. /\ \A x : Said(x)' <=> Said(x) \/ w = x
      /\ log' \in Seq(LogEntry)
  BY <1>1, <1>3, SaidMore
<1>6. Cur' = Cur
  BY <1>1 DEF Cur
<1>7. msg = "REQUEST_COTTAGE_KEY" => phase = "checkout" /\ Leaving(Cur)
  BY <1>1 DEF SInv, Dialogue
<1>8. TypeOK'
  BY <1>1, <1>5 DEF SInv, TypeOK, LogEntry
<1>9. Balanced'
  <2>1. pc' = "send" => Cur.notification = None
    BY <1>1, <1>7 DEF Leaving
  <2>2. \A m \in Prompts : InHand(m)' = 0
    BY <1>1, <1>6, <2>1, Uses DEF InHand
  <2>3. \A m \in Prompts : w = Use(m) => InHand(m) = 1
    BY <1>1, <1>4, SMTT(60) DEF InHand
  <2> QED
    BY <1>1, <1>3, <2>2, <2>3, SayBalanced, SMTT(60)
<1>10. Dialogue'
  BY <1>1, <1>4, <1>5, <1>7, SMTT(60) DEF SInv, Dialogue, InPlan, CheckedIn, KeyTaken
<1> QED
  BY <1>8, <1>9, <1>10 DEF SInv

\* The guest takes the key.
LEMMA TakeKeeps ==
  ASSUME SInv, takeCottageKey PROVE SInv'
<1> DEFINE w == "TAKE_COTTAGE_KEY"
<1>1. /\ pc = "take" /\ pc' = "gate" /\ log' = Append(log, <<Day, w>>)
      /\ UNCHANGED <<phase, idx, msg, inbox, sent, strays, clock>>
  BY SMTT(60) DEF takeCottageKey, Say
<1>2. <<Day, w>> \in LogEntry /\ log \in Seq(LogEntry)
  BY CurFacts DEF LogEntry, SInv, TypeOK
<1>3. /\ \A x : Said(x)' <=> Said(x) \/ w = x
      /\ log' \in Seq(LogEntry)
  BY <1>1, <1>2, SaidMore
<1>4. TypeOK'
  BY <1>1, <1>3 DEF SInv, TypeOK, LogEntry
<1>5. Balanced'
  <2>1. \A m \in Prompts : InHand(m)' = 0 /\ w # Use(m)
    BY <1>1, Uses DEF InHand
  <2> QED
    BY <1>1, <1>2, <2>1, SayBalanced
<1>6. Dialogue'
  BY <1>1, <1>3, SMTT(60) DEF SInv, Dialogue, InPlan, CheckedIn, KeyTaken
<1> QED
  BY <1>4, <1>5, <1>6 DEF SInv

\* A failing call ends the step and drops what was not read.
LEMMA FailKeeps ==
  ASSUME SInv, callFails PROVE SInv'
<1>1. /\ pc' = "failed" /\ inbox' = <<>>
      /\ UNCHANGED <<phase, idx, msg, sent, strays, log, clock>>
  BY DEF callFails
<1>2. TypeOK'
  <2>1. inbox' \in Seq(Messages)
    BY <1>1
  <2> QED
    BY <1>1, <2>1 DEF SInv, TypeOK
<1>3. Balanced'
  <2> SUFFICES ASSUME NEW m \in Prompts
               PROVE  Times(Use(m))' + Count(inbox', m) + InHand(m)' <= sent'[m]
    BY DEF Balanced
  <2>1. /\ Times(Use(m)) \in Nat /\ Count(inbox, m) \in Nat
        /\ InHand(m) \in Nat /\ sent[m] \in Nat
    BY CountsType, SMTT(60) DEF SInv
  <2>2. Times(Use(m))' = Times(Use(m)) /\ Count(inbox', m) = 0 /\ InHand(m)' = 0
    BY <1>1, CountEmpty DEF Times, InHand
  <2>3. Times(Use(m)) + Count(inbox, m) + InHand(m) <= sent[m]
    BY DEF SInv, Balanced
  <2> QED
    BY <1>1, <2>1, <2>2, <2>3
<1>4. Dialogue'
  <2>1. \A x : Said(x)' <=> Said(x)
    BY <1>1 DEF Said
  <2> QED
    BY <1>1, <2>1 DEF SInv, Dialogue, InPlan, CheckedIn, KeyTaken
<1> QED
  BY <1>2, <1>3, <1>4 DEF SInv

\* There is a next hour: the next midnight, if no hour of a plan is before it.
LEMMA NextHourType == \A t \in Nat : NextHour(t) \in Nat
<1> TAKE t \in Nat
<1> DEFINE H == PlanHours \cup {0}
           T == {u \in t + 1..t + 24 : u % 24 \in H}
<1>1. T \subseteq Nat /\ T # {}
  <2>1. PICK k \in Nat, r \in 0..23 : t = 24 * k + r
    <3>1. t = 24 * (t \div 24) + (t % 24) /\ t \div 24 \in Nat /\ t % 24 \in 0..23
      OBVIOUS
    <3> QED
      BY <3>1
  <2>2. 24 * (k + 1) \in t + 1..t + 24
    BY <2>1
  <2>3. (24 * (k + 1)) % 24 = 0
    OBVIOUS
  <2>4. 24 * (k + 1) \in T
    BY <2>2, <2>3
  <2>5. T \subseteq Nat
    OBVIOUS
  <2> QED
    BY <2>4, <2>5, Zenon
<1>2. PICK u \in T : \A v \in T : u <= v
  BY <1>1, Least, Zenon
<1>3. u \in t + 1..t + 24 /\ u % 24 \in H
  OBVIOUS
<1>4. \A v \in t + 1..u - 1 : v % 24 \notin H
  BY <1>2, <1>3
<1> HIDE DEF H, T
<1>5. \E x \in t + 1..t + 24 : x % 24 \in H /\ \A v \in t + 1..x - 1 : v % 24 \notin H
  BY <1>3, <1>4
<1>6. NextHour(t) = CHOOSE x \in t + 1..t + 24 :
                      x % 24 \in H /\ \A v \in t + 1..x - 1 : v % 24 \notin H
  BY DEF NextHour, HoursPerDay, H
<1>7. NextHour(t) \in t + 1..t + 24
  BY <1>5, <1>6, Zenon
<1> QED
  BY <1>7

\* An hour goes by.
LEMMA TickKeeps ==
  ASSUME SInv, Tick PROVE SInv'
<1>1. UNCHANGED <<stepVars, inbox, sent, strays, log>> /\ clock' \in Nat
  BY NextHourType DEF Tick, SInv, TypeOK
<1>2. TypeOK'
  BY <1>1, SMTT(60) DEF SInv, TypeOK
<1>3. Cur' = Cur /\ \A x : Said(x)' <=> Said(x)
  BY <1>1 DEF Cur, Said
<1>4. \A m \in Prompts : InHand(m)' = InHand(m)
  BY <1>1, <1>3 DEF InHand
<1>5. Balanced'
  BY <1>1, <1>4, QuietBalanced
<1>6. Leaving(Cur)' <=> Leaving(Cur)
  BY <1>3 DEF Leaving
<1>7. Dialogue'
  BY <1>1, <1>3, <1>6 DEF SInv, Dialogue, InPlan, CheckedIn, KeyTaken
<1> QED
  BY <1>2, <1>5, <1>7 DEF SInv

\* The system says something, prompted or not.
LEMMA SystemKeeps ==
  ASSUME SInv, NEW m \in Messages, SystemSpeaks(m) \/ SystemStrays(m) PROVE SInv'
<1>1. /\ inbox' = Append(inbox, m) /\ sent' = [sent EXCEPT ![m] = sent[m] + 1]
      /\ UNCHANGED <<stepVars, log, clock>> /\ pc # "done"
  BY DEF SystemSpeaks, SystemStrays, SystemSends, Ended
<1>2. strays' \in Seq(Strays) /\ Len(strays') <= MaxStrays
  <2>1. strays \in Seq(Strays) /\ Len(strays) <= MaxStrays /\ MaxStrays \in Nat
    BY LodgingAssumption DEF SInv, TypeOK
  <2>2. CASE strays' = strays
    BY <2>1, <2>2
  <2>3. CASE m \in Strays /\ Len(strays) < MaxStrays /\ strays' = Append(strays, m)
    BY <2>1, <2>3
  <2> QED
    BY <2>2, <2>3 DEF SystemSpeaks, SystemStrays
<1>3. inbox \in Seq(Messages) /\ sent \in [Messages -> Nat]
  BY DEF SInv, TypeOK
<1>4. /\ inbox' \in Seq(Messages) /\ sent' \in [Messages -> Nat] /\ sent'[m] = sent[m] + 1
      /\ \A n \in Messages : sent'[n] >= sent[n] /\ (n # m => sent'[n] = sent[n])
  BY <1>1, <1>3
<1>5. TypeOK'
  BY <1>1, <1>2, <1>4 DEF SInv, TypeOK
<1>6. Cur' = Cur /\ \A x : Said(x)' <=> Said(x)
  BY <1>1, SMTT(60) DEF Cur, Said
<1>7. Balanced'
  <2> SUFFICES ASSUME NEW n \in Prompts
               PROVE  Times(Use(n))' + Count(inbox', n) + InHand(n)' <= sent'[n]
    BY DEF Balanced
  <2>1. /\ Times(Use(n)) \in Nat /\ Count(inbox, n) \in Nat
        /\ InHand(n) \in Nat /\ sent[n] \in Nat
    BY CountsType, SMTT(60) DEF SInv
  <2>2. Times(Use(n))' = Times(Use(n)) /\ InHand(n)' = InHand(n)
    BY <1>1, <1>6 DEF Times, InHand
  <2>3. Count(inbox', n) = Count(inbox, n) + (IF m = n THEN 1 ELSE 0)
    BY <1>1, <1>3, CountAppend
  <2>4. Times(Use(n)) + Count(inbox, n) + InHand(n) <= sent[n]
    BY DEF SInv, Balanced
  <2>5. sent'[n] = sent[n] + (IF m = n THEN 1 ELSE 0)
    BY <1>3, <1>4, <2>1, Uses, SMTT(60)
  <2> QED
    BY <2>1, <2>2, <2>3, <2>4, <2>5, SMTT(60)
<1>8. \A i \in 1..Len(inbox') : sent'[inbox'[i]] > 0
  <2>0. \A i \in 1..Len(inbox) : inbox[i] \in Messages /\ inbox'[i] = inbox[i]
    BY <1>1, <1>3
  <2>1. \A i \in 1..Len(inbox) : sent[inbox[i]] > 0
    BY DEF SInv, Dialogue
  <2>2. Len(inbox') = Len(inbox) + 1 /\ inbox'[Len(inbox) + 1] = m /\ Len(inbox) \in Nat
    BY <1>1, <1>3
  <2>3. sent'[m] > 0
    BY <1>3, <1>4
  <2>4. \A i \in 1..Len(inbox) : sent'[inbox'[i]] > 0
    <3> TAKE i \in 1..Len(inbox)
    <3>1. /\ inbox'[i] \in Messages /\ sent[inbox'[i]] > 0
      BY <2>0, <2>1
    <3>2. \A n \in Messages : sent[n] \in Nat /\ sent'[n] \in Nat
      BY <1>3, <1>4
    <3> QED
      BY <1>4, <3>1, <3>2, SMTT(60)
  <2>5. \A i \in 1..Len(inbox') : i \in 1..Len(inbox) \/ i = Len(inbox) + 1
    BY <2>2
  <2> QED
    BY <2>2, <2>3, <2>4, <2>5, SMTT(60)
<1>9. Leaving(Cur)' <=> Leaving(Cur)
  BY <1>6 DEF Leaving
<1>10. CheckedIn => CheckedIn'
  BY <1>3, <1>4, SMTT(60) DEF CheckedIn, Messages, Notifications
<1>11. Dialogue'
  BY <1>1, <1>6, <1>8, <1>9, <1>10, SMTT(60) DEF SInv, Dialogue, InPlan, KeyTaken
<1> QED
  BY <1>5, <1>7, <1>11 DEF SInv

\* Every step of the guest, of the clock and of the system keeps SInv.
LEMMA SInvNext == SInv /\ [Next]_vars => SInv'
<1> SUFFICES ASSUME SInv, [Next]_vars PROVE SInv'
  OBVIOUS
<1>1. CASE NewClient \/ waitUntil \/ hourReached \/ hourMissed
  BY <1>1, WaitKeeps DEF NewClient, waitUntil, hourReached, hourMissed
<1>2. CASE gateNotification \/ gateRequest
  BY <1>2, NotificationKeeps, RequestKeeps
<1>3. CASE SendAction \/ waitForNotification
  BY <1>3, SendKeeps, AfterKeeps
<1>4. CASE finishCheckin \/ expectKey
  BY <1>4, CheckinKeeps, SMTT(60)
<1>5. CASE Reply \/ takeCottageKey
  BY <1>5, ReplyKeeps, TakeKeeps
<1>6. CASE callFails \/ Tick
  BY <1>6, FailKeeps, TickKeeps
<1>7. CASE \E m \in Messages : SystemSpeaks(m) \/ SystemStrays(m)
  BY <1>7, SystemKeeps
<1>8. CASE UNCHANGED vars
  <2>1. TypeOK' /\ Cur' = Cur /\ \A x : Said(x)' <=> Said(x)
    BY <1>8 DEF SInv, TypeOK, Cur, Said
  <2>2. \A m \in Prompts : InHand(m)' = InHand(m)
    BY <1>8, <2>1 DEF InHand
  <2>3. Balanced'
    BY <1>8, <2>2, QuietBalanced
  <2>4. Leaving(Cur)' <=> Leaving(Cur)
    BY <2>1, SMTT(60) DEF Leaving
  <2>5. Dialogue'
    BY <1>8, <2>1, <2>4 DEF SInv, Dialogue, InPlan, CheckedIn, KeyTaken
  <2> QED
    BY <2>1, <2>3, <2>5, SMTT(60) DEF SInv
<1> QED
  BY <1>1, <1>2, <1>3, <1>4, <1>5, <1>6, <1>7, <1>8, SMTT(60) DEF Next, Execute

\* SInv is an invariant of the step.
LEMMA StepInvariant == Spec => []SInv
  BY SInvInit, SInvNext, PTL DEF Spec
-----------------------------------------------------------------------------
\* For every number of nights, every set of stray messages and every number of
\* them, the step stays inside its plans and Reply only meets requests that
\* have a response.
THEOREM StepTypes == Spec => []TypeOK
<1>1. SInv => TypeOK
  BY SMTT(60) DEF SInv
<1> QED
  BY <1>1, StepInvariant, PTL

\* Whatever the system sends and when, the guest uses each of its messages at
\* most once, enters the cottage with the key only, and the step succeeds only
\* on the system's word that the check-out is complete.
THEOREM GuestIsPrompted == Spec => []NothingUnprompted
<1>1. SInv => NothingUnprompted
  <2> SUFFICES ASSUME SInv PROVE NothingUnprompted
    OBVIOUS
  <2>1. \A m \in Prompts : Times(Use(m)) <= sent[m]
    <3> TAKE m \in Prompts
    <3>1. /\ Times(Use(m)) \in Nat /\ Count(inbox, m) \in Nat
          /\ InHand(m) \in Nat /\ sent[m] \in Nat
      BY CountsType DEF SInv
    <3>2. Times(Use(m)) + Count(inbox, m) + InHand(m) <= sent[m]
      BY DEF SInv, Balanced
    <3> QED
      BY <3>1, <3>2
  <2>2. /\ Use("DINNER_READY") = "GO_FOR_DINNER" /\ "DINNER_READY" \in Prompts
        /\ Use("BREAKFAST_READY") = "GO_FOR_BREAKFAST" /\ "BREAKFAST_READY" \in Prompts
        /\ \A m \in Requests : Use(m) = guestResponse[m] /\ m \in Prompts
    BY DEF Use, Prompts, Requests
  <2>3. /\ Times("GO_FOR_DINNER") <= sent["DINNER_READY"]
        /\ Times("GO_FOR_BREAKFAST") <= sent["BREAKFAST_READY"]
        /\ \A m \in Requests : Times(guestResponse[m]) <= sent[m]
    BY <2>1, <2>2
  <2> QED
    BY <2>3 DEF NothingUnprompted, SInv, Dialogue, KeyTaken, CheckedIn
<1> QED
  BY <1>1, StepInvariant, PTL
==============================================================================
