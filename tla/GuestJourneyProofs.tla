------------------------- MODULE GuestJourneyProofs -------------------------
(***************************************************************************)
(* The safety properties of GuestJourney hold for every set of cottages.   *)
(*                                                                         *)
(* None of them is inductive: a step relies on what the earlier stages of  *)
(* Start have established.  Progress says what that is, stage by stage;    *)
(* the interesting entries are those after a flow, which a cancelled       *)
(* context lets through without its effect.                                *)
(***************************************************************************)
EXTENDS GuestJourney, TLAPS

SetUp == BookingFlow \cup
  {"validate", "syncBooking", "waitPayment", "PayInvoice", "syncInvoice",
   "waitConfirmation", "waitCheckin", "RunLodging", "finish"}
Booked == {"syncBooking", "waitPayment", "PayInvoice", "syncInvoice",
           "waitConfirmation", "waitCheckin", "RunLodging"}
AfterPayment == {"waitConfirmation", "waitCheckin", "RunLodging"}

\* What the stages of Start have established.
Progress ==
  /\ pc \in {"create", "RegisterGuest"} => registered = 0
  /\ pc \in {"create", "RegisterGuest", "RetrieveGuest", "setup"} \cup BookingFlow
       => bookings = <<>>
  /\ pc \notin AfterPayment \cup {"syncInvoice", "finish", "cleanup", "over"}
       => paid = 0
  /\ guestId => registered = 1
  /\ pc \in SetUp => guestId /\ consumer
  /\ pc \in Booked => Len(bookings) = 1
  /\ pc = "BookCottage" => cache.cottage = cache.period
  /\ pc = "syncInvoice" => ctxDone \/ paid = 1
  /\ pc \in AfterPayment => paid = 1
  /\ pc = "finish" => ctxDone \/ (stayed /\ paid = 1)
  /\ result = "ok" => pc = "over"
  /\ bookings = <<>> \/ consumer \/ channel = "closed"

JInv ==
  /\ TypeOK /\ Progress
  /\ PostedOnce /\ PeriodOfCottage /\ CacheNotAhead /\ SuccessIsReal
-----------------------------------------------------------------------------
\* The names the step proofs unfold.
USE DEF vars, guestVars, mqVars, postVars, endVars, Stages, Steps, BookingFlow,
        SetUp, Booked, AfterPayment

\* An absent and a fresh cache value claim nothing.
LEMMA Values ==
  /\ NoValue \in Value /\ ~NoValue.key
  /\ ~NoValue.guestId /\ ~NoValue.bookingId /\ ~NoValue.receipt
  /\ NewValue \in Value
  /\ ~NewValue.guestId /\ ~NewValue.bookingId /\ ~NewValue.receipt
  BY Zenon DEF NoValue, NewValue, Value

\* The updates the steps make keep a cache value a cache value.
LEMMA Updates ==
  ASSUME NEW v \in Value
  PROVE  /\ [v EXCEPT !.guestId = TRUE] \in Value
         /\ [v EXCEPT !.bookingId = TRUE] \in Value
         /\ [v EXCEPT !.receipt = TRUE] \in Value
  BY Zenon DEF Value

\* The journey main builds satisfies the invariant.
LEMMA JInvInit == Init => JInv
<1> SUFFICES ASSUME Init PROVE JInv
  OBVIOUS
<1>1. TypeOK
  <2>1. bookings \in Seq(Booking)
    BY DEF Init
  <2>2. cache \in Value
    BY Values DEF Init
  <2> QED
    BY <2>1, <2>2, Zenon DEF Init, TypeOK
<1>2. Progress
  BY DEF Init, Progress
<1>3. PostedOnce /\ PeriodOfCottage /\ CacheNotAhead /\ SuccessIsReal
  BY Values DEF Init, PostedOnce, PeriodOfCottage, CacheNotAhead, SuccessIsReal
<1> QED
  BY <1>1, <1>2, <1>3 DEF JInv

\* Every step of the journey and of its environment preserves it.
LEMMA JInvNext == JInv /\ [Next]_vars => JInv'
<1> SUFFICES ASSUME JInv, [Next]_vars PROVE JInv'
  OBVIOUS
<1> USE DEF JInv, TypeOK, Progress, PostedOnce, PeriodOfCottage, CacheNotAhead,
            SuccessIsReal, Value
<1>1. CASE createGuest
  <2>1. TypeOK'
    BY <1>1, Values DEF createGuest, Save, Fail
  <2>2. Progress'
    BY <1>1, Values DEF createGuest, Save, Fail
  <2>3. PostedOnce' /\ PeriodOfCottage'
    BY <1>1, Values DEF createGuest, Save, Fail
  <2>4. CacheNotAhead' /\ SuccessIsReal'
    BY <1>1, Values DEF createGuest, Save, Fail
  <2> QED
    BY <2>1, <2>2, <2>3, <2>4
<1>2. CASE RegisterGuest
  <2>1. TypeOK'
    <3> HIDE DEF Value, Booking, Progress, PostedOnce, PeriodOfCottage,
                 CacheNotAhead, SuccessIsReal
    <3>1. cache' \in Value
      BY <1>2, Updates, Zenon DEF RegisterGuest, Loaded, Save, Fail
    <3>2. bookings' \in Seq(Booking)
      BY <1>2 DEF RegisterGuest
    <3>3. pc' \in Stages \cup Steps /\ result' \in {"none", "ok", "err"}
      BY <1>2 DEF RegisterGuest, Save, Fail, GuestRegisterTransitions, AfterFlow
    <3>4. registered' \in Nat
      BY <1>2 DEF RegisterGuest
    <3>5. guestId' \in BOOLEAN
      BY <1>2, Zenon DEF RegisterGuest
    <3> QED
      BY <1>2, <3>1, <3>2, <3>3, <3>4, <3>5 DEF RegisterGuest
  <2>2. Progress'
    BY <1>2 DEF RegisterGuest, Loaded, Save, Fail, GuestRegisterTransitions, AfterFlow
  <2>3. PostedOnce' /\ PeriodOfCottage'
    BY <1>2 DEF RegisterGuest, Loaded, Save, Fail, GuestRegisterTransitions, AfterFlow
  <2>4. CacheNotAhead' /\ SuccessIsReal'
    BY <1>2 DEF RegisterGuest, Loaded, Save, Fail, GuestRegisterTransitions, AfterFlow
  <2> QED
    BY <2>1, <2>2, <2>3, <2>4
<1>3. CASE RetrieveGuest
  BY <1>3 DEF RetrieveGuest, GuestRegisterTransitions, AfterFlow
<1>4. CASE setupCommunication
  <2>1. TypeOK'
    <3> HIDE DEF Value, Booking, Progress, PostedOnce, PeriodOfCottage,
                 CacheNotAhead, SuccessIsReal
    <3> QED
      BY <1>4, Zenon DEF setupCommunication, Fail
  <2>2. Progress'
    BY <1>4 DEF setupCommunication, Fail
  <2>3. PostedOnce' /\ PeriodOfCottage'
    BY <1>4 DEF setupCommunication, Fail
  <2>4. CacheNotAhead' /\ SuccessIsReal'
    BY <1>4 DEF setupCommunication, Fail
  <2> QED
    BY <2>1, <2>2, <2>3, <2>4
<1>5. CASE ListCottages
  BY <1>5 DEF ListCottages, BookingTransitions, AfterFlow
<1>6. CASE SelectCottage
  <2>1. TypeOK'
    BY <1>6 DEF SelectCottage, Loaded, Save, Fail, BookingTransitions, AfterFlow
  <2>2. Progress'
    BY <1>6 DEF SelectCottage, Loaded, Save, Fail, BookingTransitions, AfterFlow
  <2>3. PostedOnce' /\ PeriodOfCottage'
    BY <1>6 DEF SelectCottage, Loaded, Save, Fail, BookingTransitions, AfterFlow
  <2>4. CacheNotAhead' /\ SuccessIsReal'
    BY <1>6 DEF SelectCottage, Loaded, Save, Fail, BookingTransitions, AfterFlow
  <2> QED
    BY <2>1, <2>2, <2>3, <2>4
<1>7. CASE SelectPeriod
  <2>1. TypeOK'
    BY <1>7, ZenonT(60) DEF SelectPeriod, Loaded, Save, Fail, BookingTransitions, AfterFlow
  <2>2. Progress'
    BY <1>7, Zenon DEF SelectPeriod, Loaded, Save, Fail, BookingTransitions, AfterFlow
  <2>3. PostedOnce' /\ PeriodOfCottage'
    BY <1>7 DEF SelectPeriod, Loaded, Save, Fail, BookingTransitions, AfterFlow
  <2>4. CacheNotAhead' /\ SuccessIsReal'
    BY <1>7, ZenonT(60) DEF SelectPeriod, Loaded, Save, Fail, BookingTransitions, AfterFlow
  <2> QED
    BY <2>1, <2>2, <2>3, <2>4
<1>8. CASE BookCottage
  <2>1. TypeOK'
    <3> HIDE DEF Value, Booking, Progress, PostedOnce, PeriodOfCottage,
                 CacheNotAhead, SuccessIsReal
    <3>1. cache' \in Value
      BY <1>8, Updates, Zenon DEF BookCottage, Loaded, Bookable, Save, Fail
    <3>2. bookings' \in Seq(Booking)
      BY <1>8 DEF BookCottage, Bookable, Booking, Value
    <3> QED
      BY <1>8, <3>1, <3>2 DEF BookCottage, Loaded, Bookable, Save, Fail, BookingTransitions, AfterFlow
  <2>2. Progress'
    BY <1>8 DEF BookCottage, Loaded, Bookable, Save, Fail, BookingTransitions, AfterFlow
  <2>3. PostedOnce' /\ PeriodOfCottage'
    BY <1>8 DEF BookCottage, Loaded, Bookable, Save, Fail, BookingTransitions, AfterFlow
  <2>4. CacheNotAhead' /\ SuccessIsReal'
    BY <1>8 DEF BookCottage, Loaded, Bookable, Save, Fail, BookingTransitions, AfterFlow
  <2> QED
    BY <2>1, <2>2, <2>3, <2>4
<1>9. CASE validateBooking
  BY <1>9 DEF validateBooking, Loaded
<1>10. CASE SyncStateCache
  BY <1>10, ZenonT(60) DEF SyncStateCache, Loaded, Save, Fail
<1>11. CASE waitPaymentRequest
  BY <1>11, Zenon DEF waitPaymentRequest, Loaded
<1>12. CASE waitMessage
  BY <1>12 DEF waitMessage, Loaded
<1>13. CASE waitFails
  BY <1>13, ZenonT(60) DEF waitFails, Fail
<1>14. CASE PayInvoice
  <2>1. TypeOK'
    <3> HIDE DEF Value, Booking, Progress, PostedOnce, PeriodOfCottage,
                 CacheNotAhead, SuccessIsReal
    <3>1. cache' \in Value
      BY <1>14, Updates, Zenon DEF PayInvoice, Loaded, Payable, Save, Fail
    <3>2. bookings' \in Seq(Booking)
      BY <1>14 DEF PayInvoice
    <3> QED
      BY <1>14, <3>1, <3>2 DEF PayInvoice, Loaded, Payable, Save, Fail, PaymentTransitions, AfterFlow
  <2>2. Progress'
    BY <1>14 DEF PayInvoice, Loaded, Payable, Save, Fail, PaymentTransitions, AfterFlow
  <2>3. PostedOnce' /\ PeriodOfCottage'
    BY <1>14 DEF PayInvoice, Loaded, Payable, Save, Fail, PaymentTransitions, AfterFlow
  <2>4. CacheNotAhead' /\ SuccessIsReal'
    BY <1>14 DEF PayInvoice, Loaded, Payable, Save, Fail, PaymentTransitions, AfterFlow
  <2> QED
    BY <2>1, <2>2, <2>3, <2>4
<1>15. CASE RunLodging
  BY <1>15 DEF RunLodging, Loaded, LodgingTransitions, AfterFlow
<1>16. CASE flowCancelled
  BY <1>16 DEF flowCancelled, AfterFlow
<1>17. CASE callFails
  BY <1>17 DEF callFails, Fail
<1>18. CASE finish
  <2>1. TypeOK'
    BY <1>18, Values, Zenon DEF finish, Fail, CleanupSucceeds, CleanupFails, CloseCommunication, Loaded
  <2>2. Progress'
    BY <1>18, Values, Zenon DEF finish, Fail, CleanupSucceeds, CleanupFails, CloseCommunication, Loaded
  <2>3. PostedOnce' /\ PeriodOfCottage'
    BY <1>18, Values DEF finish, Fail, CleanupSucceeds, CleanupFails, CloseCommunication, Loaded
  <2>4. CacheNotAhead' /\ SuccessIsReal'
    BY <1>18, Values, Zenon DEF finish, Fail, CleanupSucceeds, CleanupFails, CloseCommunication, Loaded
  <2> QED
    BY <2>1, <2>2, <2>3, <2>4
<1>19. CASE deferredCleanup
  <2>1. TypeOK'
    BY <1>19, Values, ZenonT(60) DEF deferredCleanup, CleanupSucceeds, CleanupFails, CloseCommunication, Loaded
  <2>2. Progress'
    BY <1>19, Values DEF deferredCleanup, CleanupSucceeds, CleanupFails, CloseCommunication, Loaded
  <2>3. PostedOnce' /\ PeriodOfCottage'
    BY <1>19, Values DEF deferredCleanup, CleanupSucceeds, CleanupFails, CloseCommunication, Loaded
  <2>4. CacheNotAhead' /\ SuccessIsReal'
    BY <1>19, Values DEF deferredCleanup, CleanupSucceeds, CleanupFails, CloseCommunication, Loaded
  <2> QED
    BY <2>1, <2>2, <2>3, <2>4
<1>20. CASE Cancel
  BY <1>20 DEF Cancel
<1>21. CASE LoseConnection
  BY <1>21 DEF LoseConnection
<1>22. CASE UNCHANGED vars
  BY <1>22
<1> QED
  BY <1>1, <1>2, <1>3, <1>4, <1>5, <1>6, <1>7, <1>8, <1>9, <1>10, <1>11, <1>12, <1>13, <1>14, <1>15, <1>16, <1>17, <1>18, <1>19, <1>20, <1>21, <1>22, Zenon DEF Next, Journey

\* JInv is an invariant of the journey.
LEMMA Invariance == Spec => []JInv
  BY JInvInit, JInvNext, PTL DEF Spec
-----------------------------------------------------------------------------
\* Type correctness of GuestJourney.
THEOREM TypeCorrect == Spec => []TypeOK
<1>1. JInv => TypeOK
  BY DEF JInv
<1> QED
  BY <1>1, Invariance, PTL

\* However calls fail and whatever way the booking flow takes, each of the
\* POST requests of RegisterGuest, BookCottage and PayInvoice is made at most
\* once in a journey.
THEOREM PostsAreMadeOnce == Spec => []PostedOnce
<1>1. JInv => PostedOnce
  BY DEF JInv
<1> QED
  BY <1>1, Invariance, PTL

\* BookCottage books a cottage for a period found free for that cottage.
THEOREM BookedPeriodFits == Spec => []PeriodOfCottage
<1>1. JInv => PeriodOfCottage
  BY DEF JInv
<1> QED
  BY <1>1, Invariance, PTL

\* The cached context claims no registration, booking or payment that the
\* services have not made.
THEOREM CacheFollowsServices == Spec => []CacheNotAhead
<1>1. JInv => CacheNotAhead
  BY DEF JInv
<1> QED
  BY <1>1, Invariance, PTL

\* RunLodging runs only after registration, booking and payment, although a
\* cancelled flow returns nil.
THEOREM StayNeedsPayment == Spec => []StayIsPaid
<1>1. JInv => StayIsPaid
  BY DEF JInv, Progress, StayIsPaid
<1> QED
  BY <1>1, Invariance, PTL

\* Start returns nil only for a journey whose guest stayed, whose Redis key
\* is deleted and whose channel is closed.
THEOREM SuccessMeansDone == Spec => []SuccessIsReal
<1>1. JInv => SuccessIsReal
  BY DEF JInv
<1> QED
  BY <1>1, Invariance, PTL

\* A channel left open after the cleanup is still the bus's consumer or was
\* never set up.
THEOREM OpenChannelsAreKnown == Spec => []OpenChannelIsHeld
<1>1. JInv => OpenChannelIsHeld
  BY DEF JInv, Progress, OpenChannelIsHeld
<1> QED
  BY <1>1, Invariance, PTL
=============================================================================
