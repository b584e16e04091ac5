----------------------------- MODULE MCGuestBus -----------------------------
(***************************************************************************)
(* Instances of GuestBus for TLC.                                          *)
(***************************************************************************)
EXTENDS GuestBus
=============================================================================
