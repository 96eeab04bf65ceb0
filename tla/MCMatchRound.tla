----------------------------- MODULE MCMatchRound -----------------------------
(* Two allies and an adversary.                                              *)
EXTENDS MatchRound, TLC

MCTeamOf == 1 :> 0 @@ 2 :> 0 @@ 3 :> 1
=============================================================================
