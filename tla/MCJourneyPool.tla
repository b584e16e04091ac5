--------------------------- MODULE MCJourneyPool ----------------------------
(***************************************************************************)
(* JourneyPool as TLC checks it: concurrencyLevel is the only parameter.   *)
(***************************************************************************)
EXTENDS JourneyPool
=============================================================================
