----------------------------- MODULE MCLoadGen -----------------------------
(* A ladder of two steps of two requests.                                   *)
EXTENDS LoadGen

MCLadderSteps == <<1, 1, 2, 2>>
MCLadderLimits == <<1, 2>>
=============================================================================
