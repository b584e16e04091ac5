---------------------------- MODULE MCHourEvents ----------------------------
(***************************************************************************)
(* Instances of HourEvents for TLC: days of three hours, a wait late on    *)
(* the first day and one at the same hour of the second, so that events of *)
(* the right hour and the wrong day occur.                                 *)
(***************************************************************************)
EXTENDS HourEvents

MCTargets == <<1, 4>>
MCOneTarget == <<1>>
=============================================================================
