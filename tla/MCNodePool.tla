----------------------------- MODULE MCNodePool -----------------------------
(***************************************************************************)
(* Two nodes for TLC: the big one has one or two slots.  The small one is  *)
(* sometimes taken out of the configuration, or configured without slots.  *)
(***************************************************************************)
EXTENDS NodePool, TLC

CONSTANTS big, small, t1, t2

MCConfigs == {big :> 2 @@ small :> 1, big :> 1, big :> 1 @@ small :> 0}
=============================================================================
