----------------------------- MODULE MCSettings -----------------------------
(* Settings for TLC: the strategy and the tick, with the values 1 and 2.   *)
(* The tick's texts are one that parseInt cuts (1.5) and 3, which is        *)
(* out of range; the other client sets the tick to 2.                      *)
EXTENDS Settings, TLC

CONSTANTS strategy, tick

MCOrder == <<strategy, tick>>
MCHi == strategy :> 2 @@ tick :> 2
MCDefault == strategy :> 1 @@ tick :> 1
MCTexts == strategy :> {20} @@ tick :> {15, 30}
MCPuts == strategy :> {} @@ tick :> {2}

=============================================================================
