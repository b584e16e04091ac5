------------------------- MODULE JourneyPoolProofs --------------------------
(***************************************************************************)
(* The journey pool keeps to its level and never blocks a goroutine, for   *)
(* every concurrencyLevel.                                                 *)
(*                                                                         *)
(* WithinLevel is not inductive.  The invariant behind it is that every    *)
(* start of the first loop is, ever after, one goroutine or one            *)
(* notification.                                                           *)
(***************************************************************************)
EXTENDS JourneyPool, TLAPS

Conserved == building + running + finishing + tokens = spawned

PInv ==
  /\ TypeOK /\ Conserved /\ ShutdownReleases
  /\ main = "startup" => ~started
-----------------------------------------------------------------------------
USE PoolAssumption DEF vars, poolVars

\* The list of resources has five entries.
LEMMA FiveResources == Len(Resources) = 5
  BY DEF Resources

\* A process that starts has no goroutine and no notification.
LEMMA PInvInit == Init => PInv
<1> SUFFICES ASSUME Init PROVE PInv
  OBVIOUS
<1>1. TypeOK
  <2>1. 0 \in 0..Len(Resources) /\ 0 \in 0..concurrencyLevel
    BY FiveResources
  <2> QED
    BY <2>1, Zenon DEF Init, TypeOK
<1> QED
  BY <1>1 DEF Init, PInv, Conserved, ShutdownReleases

\* No step creates a second goroutine or notification for a start, or loses
\* one.
LEMMA PInvNext == PInv /\ [Next]_vars => PInv'
<1> SUFFICES ASSUME PInv, [Next]_vars PROVE PInv'
  OBVIOUS
<1> USE FiveResources DEF PInv, TypeOK, Conserved, ShutdownReleases
<1>1. CASE Startup
  <2>1. CASE acquire
    BY <1>1, <2>1 DEF acquire
  <2>2. CASE exitOnError
    BY <1>1, <2>2 DEF exitOnError
  <2>3. CASE startService
    BY <1>1, <2>3 DEF startService
  <2> QED
    BY <1>1, <2>1, <2>2, <2>3 DEF Startup
<1>2. CASE startFirst \/ allStarted
  BY <1>2 DEF startFirst, allStarted
<1>3. CASE startNext
  BY <1>3 DEF startNext
<1>4. CASE stopPool \/ runCleanup
  BY <1>4 DEF stopPool, runCleanup
<1>5. CASE Factory
  BY <1>5 DEF Factory, factorySucceeds, factoryFails
<1>6. CASE journeyEnds
  BY <1>6 DEF journeyEnds
<1>7. CASE finishNotification
  BY <1>7 DEF finishNotification
<1>8. CASE Signal
  BY <1>8 DEF Signal
<1>9. CASE UNCHANGED vars
  BY <1>9
<1> QED
  BY <1>1, <1>2, <1>3, <1>4, <1>5, <1>6, <1>7, <1>8, <1>9 DEF Next, Main

\* PInv is an invariant of the process.
LEMMA Invariance == Spec => []PInv
  BY PInvInit, PInvNext, PTL DEF Spec
-----------------------------------------------------------------------------
\* Type correctness of JourneyPool.
THEOREM TypeCorrect == Spec => []TypeOK
<1>1. PInv => TypeOK
  BY DEF PInv
<1> QED
  BY <1>1, Invariance, PTL

\* At every concurrencyLevel the pool keeps to it, and the send to
\* finishNotification never blocks.
THEOREM PoolKeepsItsLevel == Spec => []WithinLevel
<1>1. PInv => WithinLevel
  BY DEF PInv, TypeOK, Conserved, WithinLevel
<1> QED
  BY <1>1, Invariance, PTL

\* A process that got through its startup exits with its cleanup list done.
THEOREM ShutdownIsComplete == Spec => []ShutdownReleases
<1>1. PInv => ShutdownReleases
  BY DEF PInv
<1> QED
  BY <1>1, Invariance, PTL
=============================================================================
