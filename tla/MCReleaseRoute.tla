--------------------------- MODULE MCReleaseRoute ---------------------------
(* Windows of one and two cells; a second attempt may fall before or after  *)
(* the other cell's first.                                                  *)
EXTENDS ReleaseRoute, TLC

MCStart1 == <<1, 1>> :> 1
MCStart2 == <<1, 1>> :> 1 @@ <<2, 1>> :> 2 @@ <<1, 2>> :> 3
MCStart3 == <<1, 1>> :> 1 @@ <<1, 2>> :> 2 @@ <<2, 1>> :> 3 @@ <<2, 2>> :> 4
=============================================================================
