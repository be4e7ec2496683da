------------------------------ MODULE MCAlerts ------------------------------
(***************************************************************************)
(* TLC instance of Alerts: percentages up to 3, a ladder of two            *)
(* thresholds, and an off switch that changes the ladder as well.          *)
(***************************************************************************)
EXTENDS Alerts

Ladder == [enabled |-> TRUE, thresholds |-> {2, 0}, resets |-> TRUE, predictive |-> TRUE, cooldown |-> 2]
Off    == [Ladder EXCEPT !.enabled = FALSE, !.thresholds = {3}]

Switch == {Ladder, Off}
=============================================================================
