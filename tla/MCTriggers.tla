------------------------------- MODULE MCTriggers -------------------------------
(* Two triggers that compete for one claim, one of them with a blackout.         *)
EXTENDS Triggers, TLC

MCKind == 1 :> "workflow" @@ 2 :> "workflow"
MCEvery == 1 :> 1 @@ 2 :> 2
MCBlackout == 1 :> {} @@ 2 :> {2}
===============================================================================
