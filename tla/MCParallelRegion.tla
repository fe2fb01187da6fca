-------------------------- MODULE MCParallelRegion --------------------------
(***************************************************************************)
(* ParallelRegion for the kinds of body the altrep backend has.            *)
(***************************************************************************)
EXTENDS ParallelRegion

CONSTANT MaxThrows   \* how many tasks of one body may throw

Plain == [setupWarns |-> {}, setupThrows |-> {}, lazy |-> {}, warns |-> {},
          throws |-> {}, refuses |-> {}, forgetful |-> {}]

Throws == {T \in SUBSET Task : Cardinality(T) <= MaxThrows}

\* Elementwise maps that warn (regex_locate), with a failing task.
Elementwise == {[Plain EXCEPT !.warns = A, !.throws = T] : A \in SUBSET Task, T \in Throws}

\* The direct byte kernels (fixed_count, fixed_detect).
Direct == {[Plain EXCEPT !.refuses = A, !.throws = T] : A \in SUBSET Task, T \in Throws}

\* A collator per worker (coll_split).
WithSetup == {[Plain EXCEPT !.setupWarns = W, !.setupThrows = S, !.throws = T] :
                  W \in {{}, Worker}, S \in SUBSET Worker, T \in Throws}

\* A break iterator opened on first need (boundaries_locate).
WithLazy == {[Plain EXCEPT !.lazy = A, !.throws = T] : A \in SUBSET Task, T \in Throws}

\* A body that forgets to loop, which the driver's own check is for.
Forgetful == {[Plain EXCEPT !.forgetful = S, !.throws = T] :
                  S \in SUBSET Worker, T \in Throws}

MCBodies == Elementwise \cup Direct \cup WithSetup \cup WithLazy \cup Forgetful

\* A collator or a break iterator whose locale falls back, and nothing else.
FallbackBodies == {[Plain EXCEPT !.setupWarns = Worker]}
                  \cup {[Plain EXCEPT !.lazy = A] : A \in SUBSET Task}
=============================================================================
