--------------------------- MODULE MCLodgingStep ----------------------------
(***************************************************************************)
(* Instances of LodgingStep for TLC: a stay of three nights, the shortest  *)
(* that SelectPeriod chooses.                                              *)
(***************************************************************************)
EXTENDS LodgingStep

\* A message no wait expects, one that moves the check-in on and one that is
\* to be answered.
MCStrays == {"CHECK_OUT_TOMORROW", "CHECK_IN_COMPLETE", "REQUEST_COTTAGE_KEY"}
NoStrays == {}
=============================================================================
