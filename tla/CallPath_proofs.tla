-------------------------- MODULE CallPath_proofs ---------------------------
(***************************************************************************)
(* What a call goes by, for every value of the limits: the settings of     *)
(* ParallelPlan and the plans made from them (the arithmetic of            *)
(* chunk_tasks() and parallel_plan() first, then the invariants); the      *)
(* protections, owners and warnings of its entry point (EntryInv is        *)
(* inductive); the data of ICU from one load of the package to the next    *)
(* (LoadInv is); and the backend the operation was started with            *)
(* (DispatchInv is).                                                       *)
(***************************************************************************)
EXTENDS ParallelPlan, EntryPoint, IcuInit, BackendDispatch, TLAPS

\* A leaf that names no prover is tried with these, in this order.
USE SMTT(20), ZenonT(20), SMTT(60), Z3T(60)

-----------------------------------------------------------------------------
(* Settings and plans.                                                     *)

\* What R_xlen_t division and remainder give for the operands of the plan.
LEMMA DivMod ==
    ASSUME NEW a \in Nat, NEW b \in Nat \ {0}
    PROVE  /\ a \div b \in Nat
           /\ a % b \in 0..(b - 1)
           /\ a = b * (a \div b) + (a % b)
  OBVIOUS

\* CeilDiv, the rounded-up division of chunk_tasks() and parallel_plan().
LEMMA CeilDivBounds ==
    ASSUME NEW a \in Nat, NEW b \in Nat \ {0}
    PROVE  /\ CeilDiv(a, b) \in Nat
           /\ (CeilDiv(a, b) - 1) * b < a
           /\ a <= CeilDiv(a, b) * b
           /\ a > 0 => CeilDiv(a, b) >= 1
  <1> DEFINE q == a \div b
             r == a % b
  <1>1. q \in Nat /\ r \in 0..(b - 1) /\ a = b * q + r
    BY Zenon, DivMod
  <1>2. CeilDiv(a, b) = q + (IF r # 0 THEN 1 ELSE 0)
    BY DEF CeilDiv
  <1> HIDE DEF q, r
  <1> QED
    BY <1>1, <1>2

\* Multiplication by a chunk size keeps the order of worker and chunk counts.
LEMMA ProductMonotone ==
    ASSUME NEW a \in Nat, NEW b \in Nat, NEW c \in Nat, a <= b
    PROVE  a * c <= b * c
  OBVIOUS

\* chunk_tasks() returns at least one task, and with two workers or more and
\* two tasks or more never the whole range: the cut leaves a second chunk.
LEMMA ChunkLeavesASecond ==
    ASSUME NEW tasks \in Nat, tasks >= 2,
           NEW workers \in Nat, workers >= 2, workers <= tasks,
           NEW per_worker \in Nat \ {0}, NEW floor_tasks \in Nat \ {0}
    PROVE  /\ chunk_tasks(tasks, workers, per_worker, floor_tasks) \in Nat \ {0}
           /\ chunk_tasks(tasks, workers, per_worker, floor_tasks) < tasks
  <1> DEFINE even   == CeilDiv(tasks, workers * per_worker)
             widest == CeilDiv(tasks, workers)
  <1>1. workers * per_worker \in Nat \ {0}
    OBVIOUS
  <1>2. even \in Nat
    BY <1>1, CeilDivBounds
  <1>3. widest \in Nat /\ (widest - 1) * workers < tasks /\ widest >= 1
    BY CeilDivBounds
  <1>4. widest < tasks
    <2>1. (widest - 1) * 2 <= (widest - 1) * workers
      <3> HIDE DEF widest
      <3> QED BY <1>3
    <2> HIDE DEF widest
    <2> QED BY <1>3, <2>1
  <1>5. chunk_tasks(tasks, workers, per_worker, floor_tasks)
          = Larger(1, Smaller(Larger(even, floor_tasks), widest))
    BY DEF chunk_tasks
  <1> HIDE DEF even, widest
  <1> QED
    BY <1>2, <1>3, <1>4, <1>5 DEF Larger, Smaller

\* The plan parallel_plan() returns for any settings the accessors can store.
LEMMA PlanBounds ==
    ASSUME NEW eligible \in BOOLEAN, NEW tasks \in Nat,
           NEW threads \in 1..WorkerMaximum,
           NEW per_worker \in Nat \ {0}, NEW floor_tasks \in Nat \ {0},
           NEW p, p = parallel_plan(eligible, tasks, threads, per_worker, floor_tasks)
    PROVE  /\ p.workers \in 1..WorkerMaximum
           /\ p.chunk \in Nat \ {0}
           /\ p.workers = 1 => tasks <= p.chunk
           /\ p.workers # 1 => (p.workers - 1) * p.chunk < tasks
           /\ p.workers >= 2 <=> eligible /\ tasks >= 2 /\ threads >= 2
  <1> DEFINE w == clamp_workers(tasks, threads)
             c == chunk_tasks(tasks, w, per_worker, floor_tasks)
             n == CeilDiv(tasks, c)
  <1>1. /\ w \in 1..WorkerMaximum
        /\ w >= 2 <=> tasks >= 2 /\ threads >= 2
        /\ w >= 2 => w <= tasks
    BY LimitsAssumption DEF clamp_workers, Smaller
  <1>2. CASE ~eligible \/ w < 2
    <2>1. p = SerialPlan(tasks)
      BY <1>2 DEF parallel_plan
    <2>2. p.workers = 1 /\ p.chunk \in Nat \ {0} /\ tasks <= p.chunk
      BY <2>1 DEF SerialPlan, Larger
    <2> HIDE DEF w
    <2> QED
      BY <1>1, <1>2, <2>2, LimitsAssumption
  <1>3. CASE eligible /\ w >= 2
    <2>1. p = [workers |-> Smaller(w, n), chunk |-> c]
      <3>1. ~(~eligible \/ w < 2)
        <4> HIDE DEF w
        <4> QED BY <1>1, <1>3
      <3> QED BY <3>1 DEF parallel_plan
    <2>2. c \in Nat \ {0} /\ c < tasks
      <3> HIDE DEF w
      <3> QED BY <1>1, <1>3, ChunkLeavesASecond
    <2>3. n \in Nat /\ (n - 1) * c < tasks /\ tasks <= n * c
      <3> HIDE DEF c
      <3> QED BY Zenon, <2>2, CeilDivBounds
    <2> HIDE DEF w, c, n
    <2>0. w \in 2..WorkerMaximum
      BY <1>1, <1>3, LimitsAssumption
    <2>4. n >= 2
      <3>1. CASE n = 0
        BY <2>2, <2>3, <3>1
      <3>2. CASE n = 1
        BY <2>2, <2>3, <3>2
      <3> QED BY <2>3, <3>1, <3>2
    <2>5. p.workers = Smaller(w, n) /\ p.chunk = c
      BY <2>1
    <2>6. p.workers \in 2..WorkerMaximum /\ p.workers <= n
      BY <2>3, <2>4, <2>5, <2>0, LimitsAssumption DEF Smaller
    <2>7. (p.workers - 1) * p.chunk <= (n - 1) * c
      <3>1. p.workers - 1 \in Nat /\ n - 1 \in Nat /\ p.workers - 1 <= n - 1
        BY <2>3, <2>4, <2>6, LimitsAssumption
      <3> QED BY <2>2, <2>5, <3>1, ProductMonotone
    <2>8. (p.workers - 1) * p.chunk < tasks
      <3>1. (p.workers - 1) * p.chunk \in Int /\ (n - 1) * c \in Int
        BY <2>2, <2>3, <2>5, <2>6, LimitsAssumption
      <3> QED BY <2>3, <2>7, <3>1
    <2>9. p.workers \in 1..WorkerMaximum /\ p.workers >= 2 /\ p.workers # 1
      BY <2>6, LimitsAssumption
    <2>10. tasks >= 2 /\ threads >= 2
      BY <1>1, <1>3
    <2>11. p.chunk \in Nat \ {0}
      BY <2>2, <2>5
    <2> QED
      BY <1>3, <2>8, <2>9, <2>10, <2>11, Zenon
  <1> QED
    BY <1>1, <1>2, <1>3

-----------------------------------------------------------------------------
\* Every setting stays in its range: setting_value() saturates at
\* count_maximum and refuses what is below one, and C_charr_threads() caps at
\* worker_maximum.
LEMMA ExchangeInRange ==
    ASSUME NEW setting \in 1..CountMaximum, NEW value,
           value.halves \in Int
    PROVE  Exchange(setting, value) \in 1..CountMaximum
  <1>1. CASE value # NULL /\ HasSettingValue(value)
    <2>1. Exchange(setting, value) = SettingValue(value)
      BY <1>1 DEF Exchange
    <2>2. CASE value.kind = "infinite" \/ value.halves > 2 * CountMaximum
      BY <2>1, <2>2, LimitsAssumption DEF SettingValue
    <2>3. CASE ~(value.kind = "infinite" \/ value.halves > 2 * CountMaximum)
      <3>1. value.halves >= 2 /\ value.halves <= 2 * CountMaximum
        BY <1>1, <2>3, LimitsAssumption DEF HasSettingValue
      <3>2. value.halves \div 2 \in 1..CountMaximum
        BY <3>1, LimitsAssumption
      <3> QED BY <2>1, <2>3, <3>2 DEF SettingValue
    <2> QED BY <2>2, <2>3
  <1>2. CASE ~(value # NULL /\ HasSettingValue(value))
    BY <1>2 DEF Exchange
  <1> QED BY <1>1, <1>2

\* Type correctness of the settings and of every plan, for all limits.
THEOREM TypeInvariant == Spec => []TypeOK
  <1>1. Init => TypeOK
    BY LimitsAssumption DEF Init, TypeOK, NULL, NoPlan
  <1>2. TypeOK /\ [Next]_vars => TypeOK'
    <2> SUFFICES ASSUME TypeOK, [Next]_vars PROVE TypeOK'
      OBVIOUS
    <2> USE DEF TypeOK
    <2>1. ASSUME NEW value \in Sexp \cup {NULL} PROVE value.halves \in Int
      <3>1. CASE value \in Sexp
        <4>1. value \in RValue
          BY <3>1, Zenon DEF Sexp
        <4> QED BY Zenon, <4>1, LimitsAssumption DEF RValue
      <3>2. CASE value = NULL
        BY <3>2 DEF NULL
      <3> QED BY <3>1, <3>2
    <2>2. ASSUME NEW value, value.halves \in Int, C_charr_threads(value)
          PROVE  TypeOK'
      <3>1. Smaller(WorkerMaximum, Exchange(threads_setting, value)) \in 1..WorkerMaximum
        <4>1. CASE value # NULL /\ HasSettingValue(value)
          <5>1. Exchange(1, value) \in 1..CountMaximum
            BY <2>2, ExchangeInRange, LimitsAssumption
          <5>2. Exchange(threads_setting, value) = Exchange(1, value)
            BY <4>1 DEF Exchange
          <5> QED BY <5>1, <5>2, LimitsAssumption DEF Smaller
        <4>2. CASE ~(value # NULL /\ HasSettingValue(value))
          BY <4>2, LimitsAssumption DEF Exchange, Smaller
        <4> QED BY <4>1, <4>2
      <3> QED BY <2>2, <3>1, LimitsAssumption DEF C_charr_threads, IntegerScalar, NoPlan
    <2>3. ASSUME NEW value, value.halves \in Int, C_charr_chunks_per_worker(value)
          PROVE  TypeOK'
      BY <2>3, ExchangeInRange, LimitsAssumption
         DEF C_charr_chunks_per_worker, SettingScalar, IntegerScalar, RealScalar, NoPlan
    <2>4. ASSUME NEW value, value.halves \in Int, C_charr_min_chunk(value)
          PROVE  TypeOK'
      BY <2>4, ExchangeInRange, LimitsAssumption
         DEF C_charr_min_chunk, SettingScalar, IntegerScalar, RealScalar, NoPlan
    <2>5. ASSUME NEW value \in Sexp \cup {NULL}
          PROVE  (IF value = NULL THEN NULL ELSE AccessorValue(value)).halves \in Int
      BY <2>1, LimitsAssumption DEF AccessorValue, IntegerScalar, NULL
    <2>6. ASSUME NEW value \in Sexp \cup {NULL}, Accessor(value) PROVE TypeOK'
      <3>1. CASE charr_threads(value)
        BY <2>2, <2>5, <3>1 DEF charr_threads
      <3>2. CASE charr_chunks_per_worker(value)
        BY <2>3, <2>5, <3>2 DEF charr_chunks_per_worker
      <3>3. CASE charr_min_chunk(value)
        BY <2>4, <2>5, <3>3 DEF charr_min_chunk
      <3>4. CASE AccessorAborts(value)
        BY <3>4, LimitsAssumption DEF AccessorAborts, Condition, NoPlan
      <3> QED BY <2>6, <3>1, <3>2, <3>3, <3>4 DEF Accessor
    <2>7. ASSUME NEW value \in Sexp \cup {NULL}, DirectCall(value) PROVE TypeOK'
      BY <2>1, <2>2, <2>3, <2>4, <2>7 DEF DirectCall
    <2>8. CASE AllocationFails
      BY <2>8, LimitsAssumption DEF AllocationFails, Condition, NoPlan
    <2>9. ASSUME NEW eligible \in BOOLEAN, NEW tasks \in 0..MaxTasks, Plan(eligible, tasks)
          PROVE  TypeOK'
      <3> DEFINE p == parallel_plan(eligible, tasks, threads_setting,
                                    chunks_per_worker_setting, minimum_chunk_setting)
      <3>1. p.workers \in 1..WorkerMaximum /\ p.chunk \in Nat \ {0}
        <4>1. tasks \in Nat /\ chunks_per_worker_setting \in Nat \ {0}
                /\ minimum_chunk_setting \in Nat \ {0}
          BY LimitsAssumption
        <4> QED BY <4>1, PlanBounds
      <3> HIDE DEF p
      <3>2. /\ plan' = [eligible |-> eligible, tasks |-> tasks,
                        workers |-> p.workers, chunk |-> p.chunk]
            /\ answer' = NULL
            /\ UNCHANGED <<threads_setting, chunks_per_worker_setting, minimum_chunk_setting>>
        BY <2>9 DEF Plan, p
      <3> QED BY <3>1, <3>2 DEF NULL
    <2>10. CASE UNCHANGED vars
      BY <2>10 DEF vars
    <2> QED BY <2>6, <2>7, <2>8, <2>9, <2>10 DEF Next
  <1> QED BY <1>1, <1>2, PTL DEF Spec

\* A plan is sound when it is made, and stays so until a setting is changed,
\* which forgets it.
LEMMA PlanInvariant ==
    Spec => [](EveryWorkerCanDrawAChunk /\ ChunkingNeverDecidesThreading)
  <1> DEFINE PlanOK == EveryWorkerCanDrawAChunk /\ ChunkingNeverDecidesThreading
  <1>1. Init => PlanOK
    BY DEF Init, NoPlan, EveryWorkerCanDrawAChunk, ChunkingNeverDecidesThreading
  <1>2. TypeOK /\ TypeOK' /\ PlanOK /\ [Next]_vars => PlanOK'
    <2> SUFFICES ASSUME TypeOK, TypeOK', PlanOK, [Next]_vars PROVE PlanOK'
      OBVIOUS
    <2>1. CASE plan' = NoPlan
      BY <2>1 DEF NoPlan, EveryWorkerCanDrawAChunk, ChunkingNeverDecidesThreading
    <2>2. ASSUME NEW eligible \in BOOLEAN, NEW tasks \in 0..MaxTasks, Plan(eligible, tasks)
          PROVE  PlanOK'
      <3> DEFINE p == parallel_plan(eligible, tasks, threads_setting,
                                    chunks_per_worker_setting, minimum_chunk_setting)
      <3>1. /\ p.workers = 1 => tasks <= p.chunk
            /\ p.workers # 1 => (p.workers - 1) * p.chunk < tasks
            /\ p.workers >= 2 <=> eligible /\ tasks >= 2 /\ threads_setting >= 2
        <4>1. tasks \in Nat /\ threads_setting \in 1..WorkerMaximum
                /\ chunks_per_worker_setting \in Nat \ {0}
                /\ minimum_chunk_setting \in Nat \ {0}
          BY LimitsAssumption DEF TypeOK
        <4>2. /\ p.workers = 1 => tasks <= p.chunk
              /\ p.workers # 1 => (p.workers - 1) * p.chunk < tasks
          BY <4>1, PlanBounds
        <4>3. p.workers >= 2 <=> eligible /\ tasks >= 2 /\ threads_setting >= 2
          BY <4>1, PlanBounds
        <4> QED BY <4>2, <4>3
      <3> HIDE DEF p
      <3>2. /\ plan' = [eligible |-> eligible, tasks |-> tasks,
                        workers |-> p.workers, chunk |-> p.chunk]
            /\ threads_setting' = threads_setting
        BY <2>2 DEF Plan, p
      <3>3. /\ plan'.eligible = eligible /\ plan'.tasks = tasks
            /\ plan'.workers = p.workers /\ plan'.chunk = p.chunk
        BY <3>2
      <3>4. EveryWorkerCanDrawAChunk'
        BY <3>1, <3>3 DEF EveryWorkerCanDrawAChunk
      <3>5. ChunkingNeverDecidesThreading'
        BY <3>1, <3>2, <3>3, Zenon DEF ChunkingNeverDecidesThreading
      <3> QED BY <3>4, <3>5
    <2>3. CASE UNCHANGED vars
      BY <2>3 DEF vars, EveryWorkerCanDrawAChunk, ChunkingNeverDecidesThreading
    <2> QED
      BY <2>1, <2>2, <2>3
         DEF Next, Accessor, DirectCall, charr_threads, charr_chunks_per_worker,
             charr_min_chunk, C_charr_threads, C_charr_chunks_per_worker,
             C_charr_min_chunk, AccessorAborts, AllocationFails
  <1> QED
    BY <1>1, <1>2, TypeInvariant, PTL DEF Spec

\* Every worker of a plan that parallel_plan() returns can draw a chunk, for all
\* limits, settings and task counts.
THEOREM WorkersDrawChunks == Spec => []EveryWorkerCanDrawAChunk
  BY PlanInvariant, PTL

\* An operation is threaded exactly when threads are allowed, it is eligible and
\* there is work for two, however coarse or fine the chunking settings are.
THEOREM ThreadsDecideThreading == Spec => []ChunkingNeverDecidesThreading
  BY PlanInvariant, PTL

\* The product chunk_tasks() computes never overflows R_xlen_t, whatever counts
\* R passed to the setters.
THEOREM TargetsAreRepresentable == Spec => []TargetsFit
  <1>1. TypeOK => TargetsFit
    <2> SUFFICES ASSUME TypeOK PROVE TargetsFit
      OBVIOUS
    <2>1. /\ threads_setting \in Nat /\ chunks_per_worker_setting \in Nat
          /\ threads_setting <= WorkerMaximum
          /\ chunks_per_worker_setting <= CountMaximum
      BY LimitsAssumption DEF TypeOK
    <2>2. threads_setting * chunks_per_worker_setting
            <= WorkerMaximum * chunks_per_worker_setting
      BY <2>1, LimitsAssumption, ProductMonotone
    <2>3. chunks_per_worker_setting * WorkerMaximum <= CountMaximum * WorkerMaximum
      BY <2>1, LimitsAssumption, ProductMonotone
    <2> QED
      BY <2>1, <2>2, <2>3, LimitsAssumption DEF TargetsFit
  <1> QED
    BY <1>1, TypeInvariant, PTL

-----------------------------------------------------------------------------
\* A setting that was stored comes back from the answer it gave: as an integer
\* or, beyond INT_MAX, as a double, the accessor takes it and setting_value()
\* gives the same count.
LEMMA AnswerReadsBack ==
    ASSUME NEW n \in 1..CountMaximum, NEW limit \in Nat, n <= limit,
           NEW value, value = IntegerScalar(n) \/ value = RealScalar(n)
    PROVE  /\ AccessorAccepts(value)
           /\ Smaller(limit, SettingValue(AccessorValue(value))) = n
  <1>1. /\ value.type \in {"INTSXP", "REALSXP"} /\ value.length = 1
        /\ value.kind = "finite" /\ value.halves = 2 * n
    BY DEF IntegerScalar, RealScalar
  <1>2. n \in Nat /\ n >= 1 /\ n <= CountMaximum
    BY LimitsAssumption
  <1>3. (2 * n) % 2 = 0 /\ (2 * n) \div 2 = n
    BY <1>2
  <1>4. AccessorAccepts(value)
    BY <1>1, <1>2, <1>3 DEF AccessorAccepts, IsNumericScalar, IsWhole
  <1>5. AccessorValue(value).kind = "finite" /\ AccessorValue(value).halves = 2 * n
    BY <1>1, <1>3 DEF AccessorValue, IntegerScalar
  <1>6. SettingValue(AccessorValue(value)) = n
    BY <1>2, <1>3, <1>5, LimitsAssumption DEF SettingValue
  <1> QED
    BY <1>2, <1>4, <1>6 DEF Smaller

\* old <- charr_threads(n); charr_threads(old), and the same for the chunking
\* settings, restores what was there before, for all limits and all values R
\* can pass: every step that changes a setting answers with a value that the
\* accessor turns back into the old setting.
THEOREM SettingsAreRestored == Spec => AnswerRestoresSetting
  <1> DEFINE Restores ==
        /\ threads_setting' # threads_setting =>
             RestoresTo(threads_setting, WorkerMaximum)
        /\ chunks_per_worker_setting' # chunks_per_worker_setting =>
             RestoresTo(chunks_per_worker_setting, CountMaximum)
        /\ minimum_chunk_setting' # minimum_chunk_setting =>
             RestoresTo(minimum_chunk_setting, CountMaximum)
  <1>1. TypeOK /\ [Next]_vars => [Restores]_vars
    <2> SUFFICES ASSUME TypeOK, [Next]_vars PROVE Restores
      OBVIOUS
    <2>1. /\ threads_setting \in 1..CountMaximum /\ threads_setting <= WorkerMaximum
          /\ chunks_per_worker_setting \in 1..CountMaximum
          /\ minimum_chunk_setting \in 1..CountMaximum
          /\ WorkerMaximum \in Nat /\ CountMaximum \in Nat
      BY LimitsAssumption DEF TypeOK
    <2>2. ASSUME NEW value, C_charr_threads(value) PROVE Restores
      <3>1. /\ answer' = IntegerScalar(threads_setting)
            /\ UNCHANGED <<chunks_per_worker_setting, minimum_chunk_setting>>
        BY <2>2, Zenon DEF C_charr_threads
      <3>2. RestoresTo(threads_setting, WorkerMaximum)
        BY <2>1, <3>1, AnswerReadsBack DEF RestoresTo
      <3> QED BY <3>1, <3>2
    <2>3. ASSUME NEW value, C_charr_chunks_per_worker(value) PROVE Restores
      <3>1. /\ answer' = SettingScalar(chunks_per_worker_setting)
            /\ UNCHANGED <<threads_setting, minimum_chunk_setting>>
        BY <2>3, Zenon DEF C_charr_chunks_per_worker
      <3>2. RestoresTo(chunks_per_worker_setting, CountMaximum)
        BY <2>1, <3>1, AnswerReadsBack DEF RestoresTo, SettingScalar
      <3> QED BY <3>1, <3>2
    <2>4. ASSUME NEW value, C_charr_min_chunk(value) PROVE Restores
      <3>1. /\ answer' = SettingScalar(minimum_chunk_setting)
            /\ UNCHANGED <<threads_setting, chunks_per_worker_setting>>
        BY <2>4, Zenon DEF C_charr_min_chunk
      <3>2. RestoresTo(minimum_chunk_setting, CountMaximum)
        BY <2>1, <3>1, AnswerReadsBack DEF RestoresTo, SettingScalar
      <3> QED BY <3>1, <3>2
    <2>5. CASE UNCHANGED <<threads_setting, chunks_per_worker_setting,
                           minimum_chunk_setting>>
      BY <2>5
    <2> HIDE DEF Restores
    <2> QED
      BY <2>2, <2>3, <2>4, <2>5
         DEF Next, Accessor, DirectCall, charr_threads, charr_chunks_per_worker,
             charr_min_chunk, AccessorAborts, AllocationFails, Plan, vars
  <1> QED
    BY <1>1, TypeInvariant, PTL DEF Spec, AnswerRestoresSetting

-----------------------------------------------------------------------------
(* The entry point.                                                        *)

\* EntryInv holds at every step of an entry point.
THEOREM EntryInvariant == EntrySpec => []EntryInv
  <1>1. EntryInit => EntryInv
    BY DEF EntryInit, EntryInv, EntryTypeOK, NoError
  <1>2. EntryInv /\ [EntryNext]_entry_vars => EntryInv'
    <2> SUFFICES ASSUME EntryInv, [EntryNext]_entry_vars PROVE EntryInv'
      OBVIOUS
    <2> USE DEF EntryInv, EntryTypeOK, NoError, counters, errors
    <2>1. CASE Begin
      BY <2>1 DEF Begin
    <2>2. CASE PrepareArgument
      BY <2>2 DEF PrepareArgument
    <2>3. CASE PreludeRError
      BY <2>3 DEF PreludeRError, LeaveByJump
    <2>4. CASE ConstructOwners
      BY <2>4 DEF ConstructOwners
    <2>5. CASE Protect
      BY <2>5 DEF Protect
    <2>6. CASE Release
      BY <2>6 DEF Release
    <2>7. CASE AllocateResult
      BY <2>7 DEF AllocateResult
    <2>8. CASE OweWarning
      BY <2>8 DEF OweWarning
    <2>9. CASE EnterRegion
      BY <2>9 DEF EnterRegion
    <2>10. CASE RegionReturns
      BY <2>10 DEF RegionReturns
    <2>11. CASE RCallFails
      BY <2>11 DEF RCallFails, RError
    <2>12. CASE OperationThrows
      BY <2>12 DEF OperationThrows, Throw
    <2>13. CASE IcuFails
      <3>1. CASE region = "running"
        BY <2>13, <3>1 DEF IcuFails, icu_invariant_failure, Throw
      <3>2. CASE region # "running"
        BY <2>13, <3>2 DEF IcuFails, icu_invariant_failure, RError
      <3> QED BY ZenonT(60), <3>1, <3>2
    <2>14. CASE UnwindReturn
      BY <2>14 DEF UnwindReturn, ReleaseCallback
    <2>15. CASE AfterUnwindProtect
      <3>1. CASE captured = "none"
        BY <2>15, <3>1 DEF AfterUnwindProtect
      <3>2. CASE captured = "failure"
        BY <2>15, <3>2 DEF AfterUnwindProtect
      <3> QED BY ZenonT(60), <3>1, <3>2
    <2>16. CASE DestroyOwners
      <3>1. CASE thrown = "none"
        BY <2>16, <3>1 DEF DestroyOwners
      <3>2. CASE thrown = "failure"
        BY <2>16, <3>2 DEF DestroyOwners
      <3>3. CASE thrown = "RUnwind"
        BY <2>16, <3>3 DEF DestroyOwners
      <3> QED BY Zenon, <3>1, <3>2, <3>3
    <2>17. CASE ContinueUnwind
      BY <2>17 DEF ContinueUnwind, LeaveByJump
    <2>18. CASE NativeEnd
      BY <2>18 DEF NativeEnd, ReleaseCallback
    <2>19. CASE EmitWarning
      BY <2>19 DEF EmitWarning, LeaveByJump
    <2>20. CASE Finish
      BY <2>20 DEF Finish, ReleaseEntry
    <2>21. CASE Left \/ UNCHANGED entry_vars
      BY <2>21 DEF Left, entry_vars
    <2> HIDE DEF EntryInv, EntryTypeOK, NoError
    <2> QED
      BY ZenonT(60), <2>1, <2>2, <2>3, <2>4, <2>5, <2>6, <2>7, <2>8, <2>9, <2>10, <2>11,
         <2>12, <2>13, <2>14, <2>15, <2>16, <2>17, <2>18, <2>19, <2>20, <2>21 DEF EntryNext, Callback
  <1> QED
    BY <1>1, <1>2, PTL DEF EntrySpec

\* Whatever way an entry point is left, no C++ owner is left behind: a jump
\* of R never passes over one.
THEOREM OwnersAreDestroyed == EntrySpec => []NoOwnerLeftBehind
  <1>1. EntryInv => NoOwnerLeftBehind
    BY DEF EntryInv, NoOwnerLeftBehind
  <1> QED
    BY <1>1, EntryInvariant, PTL

\* No owner is destroyed, and the entry point is not left, while the workers of
\* a region may still read what its frame owns.
THEOREM FrameIsHeld == EntrySpec => []FrameOutlivesRegion
  <1>1. EntryInv => FrameOutlivesRegion
    BY DEF EntryInv, FrameOutlivesRegion
  <1> QED
    BY <1>1, EntryInvariant, PTL

\* An entry point releases exactly the protections it took, and the result is
\* protected from the end of the callback to the end of the postlude.
THEOREM ProtectionsAreBalanced == EntrySpec => []ProtectionsBalance
  <1>1. EntryInv => ProtectionsBalance
    BY DEF EntryInv, EntryTypeOK, NoError, ProtectionsBalance
  <1> QED
    BY <1>1, EntryInvariant, PTL

\* Every recorded warning precedes the return or the C++ error, and R's own
\* error precedes every warning.
THEOREM WarningsAreFirst == EntrySpec => []WarningsComeFirst
  <1>1. EntryInv => WarningsComeFirst
    BY DEF EntryInv, WarningsComeFirst
  <1> QED
    BY <1>1, EntryInvariant, PTL

-----------------------------------------------------------------------------
(* Loading.                                                                *)

\* What is kept from one load to the next: ICU has the buffer the library keeps,
\* nothing else is alive but the buffer being filled, and ICU is started once.
LoadInv ==
    /\ bundled \in BOOLEAN /\ icu_initialized \in BOOLEAN /\ loaded \in BOOLEAN /\ file \in BOOLEAN
    /\ loads \in 0..MaxLoads /\ common \in 0..loads /\ data \in 0..loads
    /\ load_pc \in {"R", "open", "size", "read", "set", "init", "done"}
    /\ icu_data = common
    /\ live = {common, data} \ {0}
    /\ started = IF icu_initialized THEN 1 ELSE 0
    /\ file => load_pc \in {"size", "read"}
    /\ data # 0 <=> load_pc \in {"read", "set"}
    /\ load_pc # "R" => loads # 0
    /\ load_pc \in {"open", "size", "read", "set"} => bundled /\ common = 0 /\ ~icu_initialized
    /\ load_pc = "init" => ~icu_initialized /\ (bundled => common # 0)
    /\ load_pc = "done" => icu_initialized
    /\ icu_initialized => (bundled => common # 0)
    /\ loaded => icu_initialized /\ load_pc = "R"

\* Every step of a load, whatever fails in it, keeps LoadInv.
LEMMA LoadInvNext ==
    ASSUME MaxLoadsAssumption, LoadInv, [LoadNext]_load_vars
    PROVE  LoadInv'
  <1> USE DEF LoadInv
  <1>0. MaxLoads \in Nat
    BY DEF MaxLoadsAssumption
  <1>1. CASE OnLoad
    BY <1>0, <1>1 DEF OnLoad, Fails, library, already_initialized
  <1>2. CASE OpenData
    <2>1. /\ load_pc = "open" /\ file' \in BOOLEAN
          /\ \/ load_pc' = "R" /\ file' = file
             \/ load_pc' = "size" /\ file'
          /\ UNCHANGED <<bundled, loads, icu_data, icu_initialized, data, live, common, started, loaded>>
      BY <1>2, Zenon DEF OpenData, Fails
    <2> QED BY <1>0, <2>1
  <1>3. CASE SizeData
    <2>1. /\ load_pc = "size" /\ file' \in BOOLEAN
          /\ \/ load_pc' = "R" /\ ~file' /\ data' = data /\ live' = live
             \/ load_pc' = "read" /\ file' = file /\ data' = loads /\ live' = live \cup {loads}
          /\ UNCHANGED <<bundled, loads, icu_data, icu_initialized, common, started, loaded>>
      BY <1>3, Zenon DEF SizeData, Fails, closed
    <2> QED BY <1>0, <2>1
  <1>4. CASE ReadData
    <2>1. /\ load_pc = "read" /\ file' \in BOOLEAN /\ ~file'
          /\ \/ load_pc' = "R" /\ data' = 0 /\ live' = live \ {data}
             \/ load_pc' = "set" /\ data' = data /\ live' = live
          /\ UNCHANGED <<bundled, loads, icu_data, icu_initialized, common, started, loaded>>
      BY <1>4, Zenon DEF ReadData, Fails, closed
    <2> QED BY <1>0, <2>1
  <1>5. CASE SetCommonData
    BY <1>0, <1>5 DEF SetCommonData, keep, Fails
  <1>6. CASE StartIcu
    <2>1. /\ load_pc = "init" /\ live' = live /\ icu_initialized' \in BOOLEAN
          /\ \/ load_pc' = "R" /\ icu_initialized' = icu_initialized /\ started' = started
             \/ load_pc' = "done" /\ icu_initialized' /\ started' = started + 1
          /\ UNCHANGED <<bundled, loads, icu_data, file, data, common, loaded>>
      BY <1>6, Zenon DEF StartIcu, Fails, released
    <2> QED BY <1>0, <2>1
  <1>7. CASE FinishLoad
    BY <1>0, <1>7 DEF FinishLoad, library
  <1>8. CASE Unload
    BY Zenon, <1>0, <1>8 DEF Unload, library
  <1>9. CASE UNCHANGED load_vars
    BY <1>9 DEF load_vars
  <1> QED
    BY Zenon, <1>1, <1>2, <1>3, <1>4, <1>5, <1>6, <1>7, <1>8, <1>9 DEF LoadNext

\* However often charr is loaded, unloaded and loaded again, and whatever fails
\* on the way (load_icu): the data ICU reads is never freed, no other buffer is
\* left, and a loaded package has ICU started once, with its data in place.
THEOREM LoadsAreSafe ==
    ASSUME MaxLoadsAssumption
    PROVE  LoadSpec => []LoadsKeepIcu
  <1>1. LoadInit => LoadInv
    <2> SUFFICES ASSUME LoadInit PROVE LoadInv
      OBVIOUS
    <2>1. /\ bundled \in BOOLEAN /\ icu_initialized \in BOOLEAN /\ loaded \in BOOLEAN /\ file \in BOOLEAN
          /\ ~icu_initialized /\ ~loaded /\ ~file
      BY Zenon DEF LoadInit
    <2>2. /\ loads = 0 /\ load_pc = "R" /\ icu_data = 0 /\ data = 0 /\ live = {} /\ common = 0
          /\ started = 0
      BY Zenon DEF LoadInit
    <2> QED BY <2>1, <2>2 DEF LoadInv, MaxLoadsAssumption
  <1>2. LoadInv /\ [LoadNext]_load_vars => LoadInv'
    BY LoadInvNext
  <1>3. LoadInv => LoadsKeepIcu
    <2> SUFFICES ASSUME LoadInv PROVE LoadsKeepIcu
      OBVIOUS
    <2>1. LoadTypeOK
      BY DEF LoadInv, LoadTypeOK, MaxLoadsAssumption
    <2>2. IcuDataOutlivesCalls /\ LoadsLeakNothing /\ LoadedMeansStarted
      BY DEF LoadInv, IcuDataOutlivesCalls, LoadsLeakNothing, LoadedMeansStarted
    <2> QED BY <2>1, <2>2 DEF LoadsKeepIcu
  <1> QED
    BY <1>1, <1>2, <1>3, PTL DEF LoadSpec

-----------------------------------------------------------------------------
(* Dispatch.                                                               *)

Cloned == backend_roots \cup backend_helpers
StepNames == Cloned \cup {"user", "leaf", "ask"}

Frames == [env : Backends, rest : Seq(StepNames),
           operation : Backends, level : 1..Len(Called)]

\* Every frame runs in the environment of its operation's backend, and what it
\* still has to do names only functions that have been cloned into it.
FramesAreRight(frames) ==
    frames \in Seq(Frames) /\ \A k \in 1..Len(frames) : frames[k].env = frames[k].operation

\* The last leaf was one of its operation's backend.
SeenIsRight(s) ==
    /\ s \in [by : {"none", "leaf", "ask"}, backend : Backends \cup {"none"},
              operation : Backends \cup {"none"}]
    /\ s.by = "leaf" => s.backend = s.operation

DispatchInv == option \in Options /\ FramesAreRight(stack) /\ SeenIsRight(seen)

\* Tuples of up to four elements are sequences.
LEMMA ShortSequences ==
    ASSUME NEW S
    PROVE  /\ <<>> \in Seq(S)
           /\ \A a \in S : <<a>> \in Seq(S)
           /\ \A a, b \in S : <<a, b>> \in Seq(S)
           /\ \A a, b, c \in S : <<a, b, c>> \in Seq(S)
           /\ \A a, b, c, d \in S : <<a, b, c, d>> \in Seq(S)
  OBVIOUS

\* The functions and helpers that are cloned call only one another, the leaves,
\* charr_backend() and code of the caller.
LEMMA TemplatesAreClosed ==
    ASSUME NEW name \in Cloned, NEW rest \in template(name)
    PROVE  rest \in Seq(StepNames)
  <1>0. /\ {"user", "leaf", "ask"} \subseteq StepNames
        /\ Cloned = {"str_replace_all", "str_split", "str_locate_all", "str_sub_all", "str_detect",
                         "str_view", "str_write_lines", "fix_replacement", "str_transform_all",
                         "str_view_filter", "str_view_special"}
        /\ Cloned \subseteq StepNames
    BY DEF StepNames, Cloned, backend_roots, backend_helpers
  <1>1. CASE name \in {"str_split", "str_locate_all", "str_sub_all", "str_detect"}
    <2>1. rest = <<"user", "leaf">>
      BY <1>1 DEF template
    <2> QED BY <1>0, <2>1, ShortSequences
  <1>2. CASE name = "str_replace_all"
    <2>1. \/ rest = <<"user", "leaf">> \/ rest = <<"user", "fix_replacement", "leaf">>
          \/ rest = <<"user", "str_transform_all">>
      BY <1>2 DEF template
    <2>2. <<"user", "leaf">> \in Seq(StepNames) /\ <<"user", "str_transform_all">> \in Seq(StepNames)
      BY <1>0, ShortSequences
    <2>3. <<"user", "fix_replacement", "leaf">> \in Seq(StepNames)
      BY <1>0, ShortSequences
    <2> QED BY Zenon, <2>1, <2>2, <2>3
  <1>3. CASE name = "fix_replacement"
    <2>1. rest = <<>> \/ rest = <<"str_split">>
      BY <1>3 DEF template
    <2> QED BY Zenon, <1>0, <2>1, ShortSequences
  <1>4. CASE name = "str_transform_all"
    <2>1. rest = <<"str_locate_all", "str_sub_all", "user", "leaf">>
      BY <1>4 DEF template
    <2> QED BY <1>0, <2>1, ShortSequences
  <1>5. CASE name = "str_view"
    <2>1. PICK highlight \in {<<>>, <<"str_replace_all">>},
               escape \in {<<"leaf", "str_replace_all">>, <<"str_view_special">>} :
               rest = <<"user", "str_view_filter">> \o highlight \o escape
      BY <1>5 DEF template
    <2>2. <<"user", "str_view_filter">> \in Seq(StepNames)
      BY <1>0, ShortSequences
    <2>3. <<>> \in Seq(StepNames) /\ <<"str_replace_all">> \in Seq(StepNames)
      BY <1>0, ShortSequences
    <2>4. <<"leaf", "str_replace_all">> \in Seq(StepNames)
      BY <1>0, ShortSequences
    <2>5. <<"str_view_special">> \in Seq(StepNames)
      BY <1>0, ShortSequences
    <2>6. highlight \in Seq(StepNames) /\ escape \in Seq(StepNames)
      BY Zenon, <2>3, <2>4, <2>5
    <2> QED BY <2>1, <2>2, <2>6
  <1>6. CASE name = "str_view_filter"
    <2>1. rest = <<>> \/ rest = <<"str_detect">>
      BY <1>6 DEF template
    <2> QED BY Zenon, <1>0, <2>1, ShortSequences
  <1>7. CASE name = "str_view_special"
    <2>1. rest = <<"str_replace_all">>
      BY <1>7 DEF template
    <2> QED BY <1>0, <2>1, ShortSequences
  <1>8. CASE name = "str_write_lines"
    <2>1. rest = <<"user", "ask", "leaf">>
      BY <1>8 DEF template
    <2> QED BY <1>0, <2>1, ShortSequences
  <1> QED
    BY <1>0, <1>1, <1>2, <1>3, <1>4, <1>5, <1>6, <1>7, <1>8

\* What a step does to the frames: nothing, the running one moves on, one is
\* left or entered, or an error cuts the stack at code of the caller.
\* The frame that runs moves on.
LEMMA AdvancedIsRight ==
    ASSUME FramesAreRight(stack), stack # <<>>, Top.rest # <<>>
    PROVE  FramesAreRight(Advanced)
  <1> DEFINE n == Len(stack)
             moved == [stack[n] EXCEPT !.rest = Tail(@)]
  <1>1. n \in Nat \ {0} /\ stack \in [1..n -> Frames] /\ n \in 1..n
    BY DEF FramesAreRight
  <1>2. stack[n] \in Frames /\ stack[n].env = stack[n].operation /\ stack[n].rest # <<>>
    BY <1>1 DEF FramesAreRight, Top
  <1>3. stack[n].rest \in Seq(StepNames)
    BY <1>2 DEF Frames
  <1>4. Tail(stack[n].rest) \in Seq(StepNames)
    BY <1>2, <1>3
  <1>5. moved \in Frames /\ moved.env = moved.operation
    BY <1>2, <1>4 DEF Frames
  <1>6. Advanced = [stack EXCEPT ![n] = moved]
    BY DEF Advanced
  <1> HIDE DEF n, moved
  <1>7. Advanced \in [1..n -> Frames]
    BY <1>1, <1>5, <1>6
  <1>8. Advanced \in Seq(Frames) /\ Len(Advanced) = n
    BY <1>1, <1>7
  <1>9. \A k \in 1..n : Advanced[k].env = Advanced[k].operation
    BY Zenon, <1>1, <1>5, <1>6 DEF FramesAreRight, n
  <1> QED
    BY <1>8, <1>9 DEF FramesAreRight

\* An error leaves the frames below the code that catches it as they were.
LEMMA UnwoundIsRight ==
    ASSUME FramesAreRight(stack), NEW frames \in Unwound
    PROVE  FramesAreRight(frames)
  <1>1. CASE frames = <<>>
    BY <1>1 DEF FramesAreRight
  <1>2. CASE frames # <<>>
    <2>1. PICK k \in DOMAIN stack : frames = SubSeq(stack, 1, k)
      BY <1>2 DEF Unwound
    <2>2. k \in 1..Len(stack) /\ Len(stack) \in Nat /\ stack \in Seq(Frames)
      BY DEF FramesAreRight
    <2>3. frames \in Seq(Frames) /\ Len(frames) = k /\ \A j \in 1..k : frames[j] = stack[j]
      BY <2>1, <2>2
    <2> QED BY <2>2, <2>3 DEF FramesAreRight
  <1> QED
    BY <1>1, <1>2

\* A function is entered in the environment of its operation's backend.
LEMMA EnterIsRight ==
    ASSUME FramesAreRight(stack), NEW frames, FramesAreRight(frames), NEW name \in Cloned,
           NEW env \in Backends \cup {"error"}, NEW level \in 1..Len(Called),
           Enter(frames, name, env, env, level)
    PROVE  FramesAreRight(stack')
  <1>1. CASE env = "error"
    BY <1>1, UnwoundIsRight DEF Enter
  <1>2. CASE env # "error"
    <2>1. PICK rest \in template(name) :
             stack' = Append(frames, [env |-> env, rest |-> rest, operation |-> env, level |-> level])
      BY <1>2 DEF Enter
    <2> DEFINE entered == [env |-> env, rest |-> rest, operation |-> env, level |-> level]
    <2>2. entered \in Frames /\ entered.env = entered.operation
      BY <1>2, TemplatesAreClosed DEF Frames
    <2> HIDE DEF entered
    <2>3. stack' = Append(frames, entered)
      BY <2>1 DEF entered
    <2>4. frames \in Seq(Frames) /\ Len(frames) \in Nat
      BY DEF FramesAreRight
    <2>5. /\ stack' \in Seq(Frames) /\ Len(stack') = Len(frames) + 1
          /\ stack'[Len(frames) + 1] = entered /\ \A k \in 1..Len(frames) : stack'[k] = frames[k]
      BY <2>2, <2>3, <2>4
    <2>6. ASSUME NEW k \in 1..Len(stack') PROVE stack'[k].env = stack'[k].operation
      <3>1. CASE k = Len(frames) + 1
        BY <2>2, <2>5, <3>1
      <3>2. CASE k \in 1..Len(frames)
        <4>1. frames[k].env = frames[k].operation
          BY <3>2 DEF FramesAreRight
        <4> QED BY <2>5, <3>2, <4>1
      <3> QED BY <2>4, <2>5, <3>1, <3>2
    <2> QED BY <2>5, <2>6 DEF FramesAreRight
  <1> QED
    BY <1>1, <1>2

\* The backend of an option, or the error.
LEMMA ValueIsBackend ==
    ASSUME NEW value \in Options
    PROVE  charr_backend_value(value) \in Backends \cup {"error"}
  BY DEF Options, Backends, charr_backend_value

\* Every step of an operation, of the functions it calls and of the caller's
\* code keeps DispatchInv.
LEMMA DispatchInvNext ==
    ASSUME DispatchAssumption, DispatchInv,
           [DispatchNext]_dispatch_vars
    PROVE  DispatchInv'
  <1>1. /\ option \in Options /\ FramesAreRight(stack) /\ stack \in Seq(Frames)
        /\ SeenIsRight(seen)
    BY DEF DispatchInv, FramesAreRight
  <1>2. Len(Called) \in Nat
    BY DEF DispatchAssumption
  <1>3. stack # <<>> =>
          /\ Top \in Frames /\ Top.env = Top.operation
          /\ Top.env \in Backends /\ Top.rest \in Seq(StepNames)
          /\ Top.level \in 1..Len(Called)
    <2> SUFFICES ASSUME stack # <<>> PROVE
          /\ Top \in Frames /\ Top.env = Top.operation
          /\ Top.env \in Backends /\ Top.rest \in Seq(StepNames)
          /\ Top.level \in 1..Len(Called)
      OBVIOUS
    <2>1. Len(stack) \in 1..Len(stack)
      BY <1>1
    <2>2. Top \in Frames /\ Top.env = Top.operation
      BY <1>1, <2>1 DEF Top, FramesAreRight
    <2> QED BY <2>2 DEF Frames
  <1>4. ASSUME Step \notin {"user", "return"}
        PROVE  stack # <<>> /\ Top.rest # <<>> /\ Step = Top.rest[1]
    BY <1>4 DEF Step
  <1>5. ASSUME UNCHANGED <<option, seen>>, FramesAreRight(stack') PROVE DispatchInv'
    BY <1>1, <1>5 DEF DispatchInv
  <1>6. CASE \E value \in Options : SetOption(value)
    BY <1>1, <1>6 DEF SetOption, DispatchInv
  <1>7. CASE \E name \in backend_roots : CallPublic(name)
    <2> DEFINE env == charr_backend_value(option)
    <2>1. PICK name \in backend_roots :
             /\ Level < Len(Called)
             /\ Enter(stack, name, env, env, Level + 1)
             /\ UNCHANGED <<option, seen>>
      BY <1>7 DEF CallPublic
    <2>2. env \in Backends \cup {"error"}
      BY <1>1, ValueIsBackend
    <2>3. Level + 1 \in 1..Len(Called)
      BY <1>2, <1>3, <2>1 DEF Level
    <2>4. name \in Cloned
      BY DEF Cloned
    <2> HIDE DEF env
    <2>5. FramesAreRight(stack')
      BY <1>1, <2>1, <2>2, <2>3, <2>4, EnterIsRight
    <2> QED BY <1>5, <2>1, <2>5
  <1>8. CASE UserReturns
    <2>1. stack # <<>> /\ stack' = Advanced /\ UNCHANGED <<option, seen>>
      BY <1>8 DEF UserReturns
    <2>2. Top.rest # <<>>
      BY <1>8, <2>1 DEF UserReturns, Step
    <2> QED BY <1>1, <1>5, <2>1, <2>2, AdvancedIsRight
  <1>9. CASE CallNested
    <2> DEFINE name == Step
               env == Top.env
    <2>1. /\ Step \notin {"user", "leaf", "ask", "return"}
          /\ Enter(Advanced, name, Resolve(name, env),
                           Top.operation, Level)
          /\ UNCHANGED <<option, seen>>
      BY <1>9 DEF CallNested
    <2>2. stack # <<>> /\ Top.rest # <<>> /\ name = Top.rest[1]
      BY <1>4, <2>1
    <2>3. name \in StepNames
      <3>1. Top.rest \in Seq(StepNames)
        BY <1>3, <2>2
      <3> QED BY <2>2, <3>1
    <2>4. name \in Cloned
      BY <2>1, <2>3 DEF StepNames
    <2>5. env \in Backends /\ env = Top.operation /\ env # "namespace"
      BY <1>3, <2>2 DEF Backends
    <2>6. Resolve(name, env) = env
      BY <2>4, <2>5 DEF Resolve, Cloned
    <2>7. FramesAreRight(Advanced)
      BY <1>1, <2>2, AdvancedIsRight
    <2>8. Level \in 1..Len(Called)
      BY <1>3, <2>2 DEF Level
    <2> HIDE DEF name, env
    <2>9. Enter(Advanced, name, env, env, Level)
      BY <2>1, <2>5, <2>6
    <2>10. FramesAreRight(stack')
      BY <1>1, <2>4, <2>5, <2>7, <2>8, <2>9, EnterIsRight
    <2> QED BY <1>5, <2>1, <2>10
  <1>10. CASE CallLeaf
    <2>1. /\ Step = "leaf" /\ stack' = Advanced /\ option' = option
          /\ seen' = [by |-> "leaf", backend |-> LeafOf(Top.env),
                      operation |-> Top.operation]
      BY <1>10 DEF CallLeaf
    <2>2. stack # <<>> /\ Top.rest # <<>>
      BY <1>4, <2>1
    <2>3. FramesAreRight(stack')
      BY <1>1, <2>1, <2>2, AdvancedIsRight
    <2>4. /\ LeafOf(Top.env) = Top.operation
          /\ Top.operation \in Backends
      BY <1>3, <2>2 DEF LeafOf, Backends
    <2>5. SeenIsRight(seen')
      BY <2>1, <2>4 DEF SeenIsRight
    <2> QED BY <1>1, <2>1, <2>3, <2>5 DEF DispatchInv
  <1>11. CASE Ask
    <2> DEFINE reply == charr_backend_value(option)
    <2>1. /\ Step = "ask" /\ option' = option
          /\ \/ stack' \in Unwound /\ seen' = seen
             \/ /\ reply # "error"
                /\ seen' = [by |-> "ask", backend |-> reply, operation |-> Top.operation]
                /\ stack' = Advanced \/ stack' \in Unwound
      BY <1>11 DEF Ask
    <2>2. stack # <<>> /\ Top.rest # <<>>
      BY ZenonT(60), <1>4, <2>1
    <2>3. FramesAreRight(stack')
      BY <1>1, <2>1, <2>2, AdvancedIsRight, UnwoundIsRight
    <2>4. reply \in Backends \cup {"error"} /\ Top.operation \in Backends
      BY <1>1, <1>3, <2>2, ValueIsBackend
    <2> HIDE DEF reply
    <2>5. SeenIsRight(seen')
      <3>1. CASE seen' = seen
        BY <1>1, <3>1
      <3>2. CASE reply # "error" /\ seen' = [by |-> "ask", backend |-> reply,
                                            operation |-> Top.operation]
        BY Zenon, <2>4, <3>2 DEF SeenIsRight
      <3> QED BY <2>1, <3>1, <3>2
    <2> QED BY <1>1, <2>1, <2>3, <2>5 DEF DispatchInv
  <1>12. CASE Return
    <2>1. /\ stack' = SubSeq(stack, 1, Len(stack) - 1) /\ UNCHANGED <<option, seen>>
          /\ Step = "return"
      BY <1>12 DEF Return
    <2>2. stack # <<>>
      BY <2>1 DEF Step
    <2>3. /\ stack' \in Seq(Frames) /\ Len(stack') = Len(stack) - 1
          /\ \A k \in 1..(Len(stack) - 1) : stack'[k] = stack[k]
      <3> DEFINE m == Len(stack) - 1
      <3>1. m \in Nat /\ m <= Len(stack) /\ Len(stack) \in Nat /\ stack \in Seq(Frames)
        BY <1>1, <2>2
      <3>2. stack' = SubSeq(stack, 1, m)
        BY <2>1
      <3> HIDE DEF m
      <3>3. stack' = [k \in 1..m |-> stack[k]]
        BY <3>1, <3>2
      <3>4. stack' \in Seq(Frames) /\ Len(stack') = m
        BY <3>1, <3>3
      <3> QED BY Zenon, <3>3, <3>4 DEF m
    <2>4. FramesAreRight(stack')
      BY <1>1, <2>3 DEF FramesAreRight
    <2> QED BY <1>5, <2>1, <2>4
  <1>13. CASE UNCHANGED dispatch_vars
    BY <1>1, <1>5, <1>13 DEF dispatch_vars
  <1> QED
    BY <1>6, <1>7, <1>8, <1>9, <1>10, <1>11, <1>12, <1>13 DEF DispatchNext

\* An operation's leaves are those of the backend it was dispatched to, however
\* deep public functions and code of the caller call one another and whatever
\* that code does to the option (charr_dispatch).
THEOREM DispatchIsKept ==
    ASSUME DispatchAssumption
    PROVE  DispatchSpec => []OperationKeepsBackend
  <1>1. DispatchInit => DispatchInv
    BY DEF DispatchInit, DispatchInv, FramesAreRight, SeenIsRight
  <1>2. DispatchInv /\ [DispatchNext]_dispatch_vars => DispatchInv'
    BY DispatchInvNext
  <1>3. DispatchInv => OperationKeepsBackend
    <2> SUFFICES ASSUME DispatchInv PROVE OperationKeepsBackend
      OBVIOUS
    <2>1. DOMAIN stack = 1..Len(stack) /\ DOMAIN Called = 1..Len(Called)
      BY DEF DispatchInv, FramesAreRight, DispatchAssumption
    <2>2. \A k \in DOMAIN stack : stack[k] \in Frames
      BY DEF DispatchInv, FramesAreRight
    <2> QED BY <2>1, <2>2 DEF DispatchInv, FramesAreRight, SeenIsRight, Frames, DispatchTypeOK,
                              OperationKeepsBackend
  <1> QED
    BY <1>1, <1>2, <1>3, PTL DEF DispatchSpec

=============================================================================
