--------------------------- MODULE MCGuestJourney ---------------------------
(***************************************************************************)
(* Instances of GuestJourney for TLC.                                      *)
(***************************************************************************)
EXTENDS GuestJourney
=============================================================================
