---------------------------- MODULE MCEvaluation ----------------------------
(* An instance of Evaluation for TLC: two scenarios of one strategy and the *)
(* first of the next, whose cutoff lies before the clock.                   *)
EXTENDS Evaluation

MCDecisionAt == <<1, 2, 1>>
MCOutcomeAt  == <<3, 4, 3>>
=============================================================================
