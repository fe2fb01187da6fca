------------------------- MODULE MCRegionRefinement -------------------------
(***************************************************************************)
(* RegionRefinement for the bodies that loop until the queue is drained,   *)
(* as all of charr's do.                                                   *)
(***************************************************************************)
EXTENDS MCParallelRegion, RegionRefinement

LoopingBodies == {b \in MCBodies : b.forgetful = {}}
=============================================================================
