---------------------------- MODULE MCLodgingChat ----------------------------
(***************************************************************************)
(* Instances of LodgingChat for TLC.                                       *)
(***************************************************************************)
EXTENDS LodgingChat
=============================================================================
