-------------------------- MODULE RegionRefinement --------------------------
(***************************************************************************)
(* ParallelRegion implements RegionContract: threads, chunks and reports   *)
(* are hidden, and what is parked is where the workers stopped early.      *)
(***************************************************************************)
EXTENDS ParallelRegion

Parked == {at[w] : w \in stopped_early}

Contract == INSTANCE RegionContract WITH tasks <- Tasks, parked <- Parked

\* run_parallel() keeps its contract (parallel.h): whatever the workers and the
\* operating system do, the region ends as a serial run would have ended.
ImplementsContract == Contract!Spec
=============================================================================
