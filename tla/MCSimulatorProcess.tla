------------------------- MODULE MCSimulatorProcess -------------------------
(***************************************************************************)
(* SimulatorProcess for TLC: one slot for journeys and the time event      *)
(* service.                                                                *)
(***************************************************************************)
EXTENDS SimulatorProcess
=============================================================================
