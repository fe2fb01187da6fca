---------------------------- MODULE ParallelPlan ----------------------------
(***************************************************************************)
(* The three threading settings of src/shared/parallel.cpp, the R          *)
(* accessors of R/aaa-backend-core.R that write them, and parallel_plan(), *)
(* which turns them into a worker count and a chunk size.                  *)
(*                                                                         *)
(* All of it runs on the R thread, one call at a time.  The limits of the  *)
(* code (256 workers, 2^52 counts, INT_MAX, a 64-bit R_xlen_t) are         *)
(* constants, so that small instances meet every one of them.              *)
(***************************************************************************)
EXTENDS Integers

CONSTANTS
    WorkerMaximum,      \* worker_maximum: 256
    CountMaximum,       \* count_maximum: 2^52
    IntMax,             \* INT_MAX
    XlenMax,            \* largest R_xlen_t: 2^63 - 1
    MaxTasks,           \* the longest vector: R_XLEN_T_MAX, 2^52
    ChunksPerWorker,    \* chunks_per_worker: 128
    MinimumChunkTasks,  \* minimum_chunk_tasks: 256
    Halves              \* the numbers R may pass, in halves, so that 3 is 1.5

ASSUME LimitsAssumption ==
    /\ WorkerMaximum \in Nat /\ WorkerMaximum >= 2
    /\ CountMaximum \in Nat /\ CountMaximum >= WorkerMaximum
    /\ IntMax \in Nat /\ IntMax >= WorkerMaximum
    /\ XlenMax \in Nat /\ WorkerMaximum * CountMaximum <= XlenMax
    /\ MaxTasks \in Nat
    /\ ChunksPerWorker \in 1..CountMaximum
    /\ MinimumChunkTasks \in 1..CountMaximum
    /\ Halves \subseteq Int

VARIABLES
    threads_setting,
    chunks_per_worker_setting,
    minimum_chunk_setting,
    answer,             \* what the last accessor call returned to R
    plan                \* the last ParallelPlan and the call that asked for it

vars == <<threads_setting, chunks_per_worker_setting, minimum_chunk_setting,
          answer, plan>>

-----------------------------------------------------------------------------
(* R values.  Only what the validation tells apart is kept: the type, the  *)
(* length, whether the element is missing (NA or NaN), infinite or a       *)
(* number, and that number.                                                *)

IntegerScalar(n) == [type |-> "INTSXP", length |-> 1, kind |-> "finite", halves |-> 2*n]
RealScalar(n)    == [type |-> "REALSXP", length |-> 1, kind |-> "finite", halves |-> 2*n]

RValue == [type : {"INTSXP", "REALSXP", "other"}, length : 0..2,
           kind : {"missing", "infinite", "finite"}, halves : Halves]

IsWhole(value) == value.halves % 2 = 0

\* An INTSXP holds whole numbers of int range only.
Sexp == {value \in RValue :
            value.type = "INTSXP" => /\ value.kind # "infinite"
                                     /\ IsWhole(value)
                                     /\ value.halves <= 2 * IntMax}

NULL == [type |-> "NILSXP", length |-> 0, kind |-> "finite", halves |-> 0]
Condition == [type |-> "condition", length |-> 0, kind |-> "finite", halves |-> 0]

-----------------------------------------------------------------------------
(* setting_value(): the tests on a value that reaches native code, and the *)
(* truncating, saturating conversion to R_xlen_t.                          *)

IsNumericScalar(value) == value.length = 1 /\ value.type \in {"INTSXP", "REALSXP"}

HasSettingValue(value) ==
    /\ IsNumericScalar(value)
    /\ \/ value.kind = "infinite"
       \/ value.kind = "finite" /\ value.halves >= 2

\* Mutant: no saturation at count_maximum.
SettingValueUnsaturated(value) ==
    IF value.kind = "infinite" THEN CountMaximum ELSE value.halves \div 2

SettingValue(value) ==
    IF value.kind = "infinite" \/ value.halves > 2 * CountMaximum
    THEN CountMaximum ELSE value.halves \div 2

\* Mutant: the cast to int of a count that does not fit one.
SettingScalarAlwaysInt(n) == IntegerScalar(IF n > IntMax THEN n - 2 * (IntMax + 1) ELSE n)

\* setting_scalar(): an integer while one fits, otherwise a double.
SettingScalar(n) == IF n > IntMax THEN RealScalar(n) ELSE IntegerScalar(n)

\* exchange_setting(): the value the setting takes.
Exchange(setting, value) ==
    IF value # NULL /\ HasSettingValue(value) THEN SettingValue(value) ELSE setting

\* .charr_threads_value() and .charr_chunking_value(): what the R accessors
\* let through, as an integer when one fits.
AccessorAccepts(value) ==
    /\ IsNumericScalar(value)
    /\ value.kind = "finite"
    /\ value.halves >= 2
    /\ IsWhole(value)

AccessorValue(value) ==
    IF value.halves <= 2 * IntMax THEN IntegerScalar(value.halves \div 2) ELSE value

-----------------------------------------------------------------------------
(* clamp_workers(), chunk_tasks() and parallel_plan().                     *)

Smaller(a, b) == IF a <= b THEN a ELSE b
Larger(a, b) == IF a >= b THEN a ELSE b

CeilDiv(a, b) == a \div b + (IF a % b # 0 THEN 1 ELSE 0)

clamp_workers(tasks, requested) ==
    IF requested < 2 \/ tasks < 2 THEN 1
    ELSE Smaller(Smaller(tasks, requested), WorkerMaximum)

\* Mutant: the floor may take the cut below one chunk per worker.
ChunkTasksFloorOnly(tasks, workers, per_worker, floor_tasks) ==
    Larger(1, Larger(CeilDiv(tasks, workers * per_worker), floor_tasks))

chunk_tasks(tasks, workers, per_worker, floor_tasks) ==
    LET even   == CeilDiv(tasks, workers * per_worker)
        widest == CeilDiv(tasks, workers)
    IN  Larger(1, Smaller(Larger(even, floor_tasks), widest))

SerialPlan(tasks) == [workers |-> 1, chunk |-> Larger(1, tasks)]

\* Mutant: the worker count is not capped by the number of chunks.
PlanWithIdleWorkers(eligible, tasks, threads, per_worker, floor_tasks) ==
    LET workers == clamp_workers(tasks, threads)
    IN  IF ~eligible \/ workers < 2 THEN SerialPlan(tasks)
        ELSE [workers |-> workers,
              chunk |-> chunk_tasks(tasks, workers, per_worker, floor_tasks)]

parallel_plan(eligible, tasks, threads, per_worker, floor_tasks) ==
    LET workers == clamp_workers(tasks, threads)
        chunk   == chunk_tasks(tasks, workers, per_worker, floor_tasks)
    IN  IF ~eligible \/ workers < 2 THEN SerialPlan(tasks)
        ELSE [workers |-> Smaller(workers, CeilDiv(tasks, chunk)), chunk |-> chunk]

NoPlan == [eligible |-> FALSE, tasks |-> 0, workers |-> 1, chunk |-> 1]

-----------------------------------------------------------------------------
Init ==
    /\ threads_setting = 1
    /\ chunks_per_worker_setting = ChunksPerWorker
    /\ minimum_chunk_setting = MinimumChunkTasks
    /\ answer = NULL
    /\ plan = NoPlan

\* Mutant: the request is stored without the cap at worker_maximum.
ThreadsUncapped(value) ==
    /\ answer' = IntegerScalar(threads_setting)
    /\ threads_setting' = Exchange(threads_setting, value)
    /\ plan' = NoPlan
    /\ UNCHANGED <<chunks_per_worker_setting, minimum_chunk_setting>>

\* The entry points behind the accessors, as a direct .Call reaches them.
C_charr_threads(value) ==
    /\ answer' = IntegerScalar(threads_setting)
    /\ threads_setting' = Smaller(WorkerMaximum, Exchange(threads_setting, value))
    /\ plan' = NoPlan
    /\ UNCHANGED <<chunks_per_worker_setting, minimum_chunk_setting>>

C_charr_chunks_per_worker(value) ==
    /\ answer' = SettingScalar(chunks_per_worker_setting)
    /\ chunks_per_worker_setting' = Exchange(chunks_per_worker_setting, value)
    /\ plan' = NoPlan
    /\ UNCHANGED <<threads_setting, minimum_chunk_setting>>

C_charr_min_chunk(value) ==
    /\ answer' = SettingScalar(minimum_chunk_setting)
    /\ minimum_chunk_setting' = Exchange(minimum_chunk_setting, value)
    /\ plan' = NoPlan
    /\ UNCHANGED <<threads_setting, chunks_per_worker_setting>>

\* An accessor that refuses its argument signals an error and stores nothing.
AccessorAborts(value) ==
    /\ value # NULL /\ ~AccessorAccepts(value)
    /\ answer' = Condition
    /\ plan' = NoPlan
    /\ UNCHANGED <<threads_setting, chunks_per_worker_setting, minimum_chunk_setting>>

\* The allocation of the answer fails.  Every entry point allocates it before
\* it stores, so R unwinds with the settings as they were.
AllocationFails ==
    /\ answer' = Condition
    /\ plan' = NoPlan
    /\ UNCHANGED <<threads_setting, chunks_per_worker_setting, minimum_chunk_setting>>

charr_threads(value) ==
    /\ value # NULL => AccessorAccepts(value)
    /\ C_charr_threads(IF value = NULL THEN NULL ELSE AccessorValue(value))

charr_chunks_per_worker(value) ==
    /\ value # NULL => AccessorAccepts(value)
    /\ C_charr_chunks_per_worker(IF value = NULL THEN NULL ELSE AccessorValue(value))

charr_min_chunk(value) ==
    /\ value # NULL => AccessorAccepts(value)
    /\ C_charr_min_chunk(IF value = NULL THEN NULL ELSE AccessorValue(value))

\* An operation asks for its plan.
Plan(eligible, tasks) ==
    /\ LET p == parallel_plan(eligible, tasks, threads_setting,
                              chunks_per_worker_setting, minimum_chunk_setting)
       IN  plan' = [eligible |-> eligible, tasks |-> tasks,
                    workers |-> p.workers, chunk |-> p.chunk]
    /\ answer' = NULL
    /\ UNCHANGED <<threads_setting, chunks_per_worker_setting, minimum_chunk_setting>>

Accessor(value) ==
    \/ charr_threads(value)
    \/ charr_chunks_per_worker(value)
    \/ charr_min_chunk(value)
    \/ AccessorAborts(value)

DirectCall(value) ==
    \/ C_charr_threads(value)
    \/ C_charr_chunks_per_worker(value)
    \/ C_charr_min_chunk(value)

Next ==
    \/ \E value \in Sexp \cup {NULL} : Accessor(value) \/ DirectCall(value)
    \/ AllocationFails
    \/ \E eligible \in BOOLEAN, tasks \in 0..MaxTasks : Plan(eligible, tasks)

Spec == Init /\ [][Next]_vars

-----------------------------------------------------------------------------
\* What each variable may hold.
TypeOK ==
    /\ threads_setting \in 1..WorkerMaximum
    /\ chunks_per_worker_setting \in 1..CountMaximum
    /\ minimum_chunk_setting \in 1..CountMaximum
    /\ answer.length \in 0..1
    /\ plan.eligible \in BOOLEAN
    /\ plan.tasks \in 0..MaxTasks
    /\ plan.workers \in 1..WorkerMaximum
    /\ plan.chunk \in Nat \ {0}

\* The worker count "is capped by the number of chunks the cut actually
\* produces" (parallel_plan): with one chunk each, every worker of a plan can
\* still draw one, whatever the settings; and a serial plan is one chunk.
EveryWorkerCanDrawAChunk ==
    IF plan.workers = 1 THEN plan.tasks <= plan.chunk
    ELSE (plan.workers - 1) * plan.chunk < plan.tasks

\* parallel.h: "Neither chunking setting decides whether threads are used".  An
\* eligible operation on two tasks or more is threaded exactly when two
\* threads or more are allowed, however coarse a cut the settings ask for.
ChunkingNeverDecidesThreading ==
    plan.workers >= 2 <=> plan.eligible /\ plan.tasks >= 2 /\ threads_setting >= 2

\* chunk_tasks() multiplies the worker count by chunks_per_worker_setting in
\* R_xlen_t.  The saturation in setting_value() and C_charr_threads() keeps
\* the product representable for every plan that can be asked for.
TargetsFit == threads_setting * chunks_per_worker_setting <= XlenMax

\* The idiom old <- charr_threads(n); charr_threads(old), which the accessors'
\* documentation shows and the tests rely on: whenever a call changes a
\* setting, what it returned, passed back through the accessor, restores it.
RestoresTo(previous, limit) ==
    /\ AccessorAccepts(answer')
    /\ Smaller(limit, SettingValue(AccessorValue(answer'))) = previous

AnswerRestoresSetting ==
    [][/\ threads_setting' # threads_setting =>
             RestoresTo(threads_setting, WorkerMaximum)
       /\ chunks_per_worker_setting' # chunks_per_worker_setting =>
             RestoresTo(chunks_per_worker_setting, CountMaximum)
       /\ minimum_chunk_setting' # minimum_chunk_setting =>
             RestoresTo(minimum_chunk_setting, CountMaximum)]_vars

\* R/aaa-backend-core.R documents the chunk size as "lowered if needed so that
\* there are never fewer chunks than threads. A short vector therefore still
\* spreads across every thread."
NeverFewerChunksThanThreads ==
    plan.eligible /\ plan.tasks > 0 =>
        CeilDiv(plan.tasks, plan.chunk) >= clamp_workers(plan.tasks, threads_setting)

=============================================================================
