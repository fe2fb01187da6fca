--------------------------- MODULE RegionContract ---------------------------
(***************************************************************************)
(* What run_parallel() of src/shared/parallel.h promises the operation     *)
(* that calls it, without threads, chunks or reports: tasks are written in *)
(* any order, each at most once, and the region ends as a serial run over  *)
(* the same tasks would have.  ParallelRegion implements it; the modules   *)
(* of the operations are built on it.                                      *)
(***************************************************************************)
EXTENDS Integers

CONSTANT Bodies     \* what a body may do: see Body in ParallelRegion

VARIABLES
    tasks,      \* the length of the task range
    body,       \* the tasks at which the body throws or refuses
    writes,     \* how often each task's output was written
    parked,     \* the indices the body's workers have parked
    outcome     \* what the call did

vars == <<tasks, body, writes, parked, outcome>>

Running   == [kind |-> "running", message |-> -1]
Returned  == [kind |-> "returned", message |-> -1]
Raised(m) == [kind |-> "raised", message |-> m]

Task == 0..(tasks - 1)
Stops == body.throws \cup body.refuses
FirstStop(t) == t \in Stops /\ \A s \in Stops : t <= s

Init ==
    /\ tasks \in Nat /\ body \in Bodies
    /\ writes = [t \in Task |-> 0]
    /\ parked = {}
    /\ outcome = Running

Write(t) ==
    /\ outcome = Running
    /\ t \notin Stops /\ writes[t] = 0
    /\ writes' = [writes EXCEPT ![t] = 1]
    /\ UNCHANGED <<tasks, body, parked, outcome>>

\* A body that meets a task it cannot handle parks its index and stops.
Park(k) ==
    /\ outcome = Running
    /\ k \in body.refuses
    /\ parked' = parked \cup {k}
    /\ UNCHANGED <<tasks, body, writes, outcome>>

\* The lowest parked index is the lowest refused one, and everything below it
\* is written; with no refusal everything is, and nothing threw.
Return ==
    /\ outcome = Running
    /\ body.setupThrows = {}
    /\ \A r \in Stops : \E k \in parked : k <= r
    /\ \A t \in Task : (\A k \in parked : t < k) => writes[t] = 1
    /\ outcome' = Returned
    /\ UNCHANGED <<tasks, body, writes, parked>>

\* The failure is the one a serial run reaches first.
Raise(m) ==
    /\ outcome = Running
    /\ IF body.setupThrows # {} THEN m = -1 ELSE m \in body.throws
    /\ \A t \in body.throws : body.setupThrows = {} /\ FirstStop(t) => m = t
    /\ outcome' = Raised(m)
    /\ UNCHANGED <<tasks, body, writes, parked>>

Next ==
    \/ \E t \in Task : Write(t) \/ Park(t)
    \/ Return
    \/ \E m \in {-1} \cup Task : Raise(m)

Spec == Init /\ [][Next]_vars

=============================================================================
