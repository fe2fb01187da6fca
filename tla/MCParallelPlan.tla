--------------------------- MODULE MCParallelPlan ---------------------------
(***************************************************************************)
(* ParallelPlan with limits small enough that every one of them is met:    *)
(* counts beyond count_maximum, answers beyond INT_MAX, more threads asked *)
(* for than worker_maximum, and every task count up to twice the largest   *)
(* number of chunks the settings can ask for per worker.                   *)
(***************************************************************************)
EXTENDS ParallelPlan

MCHalves == {-2, 0, 1, 2, 3, 4, 6, 8, 9, 10, 12, 14}
=============================================================================
