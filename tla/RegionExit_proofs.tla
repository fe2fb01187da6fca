------------------------- MODULE RegionExit_proofs -------------------------
(***************************************************************************)
(* What run_region() has decided when it is over: the failure it raises is *)
(* the serial one, a return leaves nothing unwritten, and the chunks kept  *)
(* by the cut hold the tasks a serial run reaches.  At the end,            *)
(* ParallelRegion implements RegionContract for every number of tasks and  *)
(* workers, every chunk size and every body that loops.                    *)
(***************************************************************************)
EXTENDS ParallelRegion_proofs, RegionRefinement

\* A leaf that names no prover is tried with these, in this order.
USE SMTT(20), ZenonT(20), SMTT(60), Z3T(60)

(* What run_region() has decided once it is over.                          *)

ExitInv ==
    main = "exit" =>
        \/ \E w \in Worker : FirstFailure(w) /\ outcome = Raised(message[w])
        \/ /\ failed = {} /\ outcome \in {Returned, Undrained}
           /\ outcome = Returned => Workers = 1 \/ stopped_early # {} \/ next >= Tasks

AllDone == \A w \in Worker : pc[w] = "done"

\* Every region keeps the invariant of its exits.
LEMMA ExitInvariant == Spec => []ExitInv
  <1>1. Init => ExitInv
    BY DEF Init, ExitInv
  <1>2. RegionInv /\ ExitInv /\ [Next]_vars => ExitInv'
    <2> SUFFICES ASSUME RegionInv, ExitInv, [Next]_vars, main' = "exit" PROVE ExitInv'
      BY DEF ExitInv
    <2>1. CASE RaiseFailure
      BY <2>1 DEF RaiseFailure, ExitInv, FirstFailure, reports
    <2>2. CASE ReturnOrComplain
      BY <2>2, PlanAssumption DEF ReturnOrComplain, ExitInv, reports, drained, RegionInv, TypeOK,
                  Returned, Undrained
    <2>3. ASSUME NEW w \in Worker, WorkerStep(w) PROVE FALSE
      <3>1. main = "exit"
        BY Zenon, <2>3 DEF WorkerStep, Setup, SetupThrows, Claim, ClaimNothing, TaskThrows,
                    TaskRefused, TaskWritten, driver
      <3>2. pc[w] = "done"
        BY <3>1 DEF RegionInv, DriverInv
      <3> QED
        BY Zenon, <2>3, <3>2 DEF WorkerStep, Setup, SetupThrows, Claim, ClaimNothing,
                                 TaskThrows, TaskRefused, TaskWritten
    <2>4. CASE UNCHANGED vars
      BY <2>4 DEF ExitInv, vars, driver, reports, FirstFailure
    <2>5. ~(SpawnWorker \/ EnterOwnLane \/ RunInline \/ JoinAll)
      BY DEF SpawnWorker, EnterOwnLane, RunInline, JoinAll
    <2> QED
      BY <2>1, <2>2, <2>3, <2>4, <2>5 DEF Next, MainStep, Exited
  <1> QED
    BY <1>1, <1>2, RegionInvariant, PTL DEF Spec

\* After the join, the tasks up to the first one at which the body stops have
\* all been claimed: a worker ends only because the queue is empty or because
\* the body stopped it, and then at no lower task.
LEMMA ClaimedUpToFirstStop ==
    ASSUME RegionInv, AllDone, body.setupThrows = {}, body.forgetful = {},
           NEW t \in Task, \A s \in Stops : t <= s
    PROVE  t < next
  <1>1. 0 \in Worker /\ pc[0] = "done"
    BY WorkerFacts DEF AllDone
  <1>2. t \in Int /\ t < Tasks /\ next \in Int /\ at[0] \in Int /\ end[0] \in Int
    BY <1>1, PlanAssumption DEF RegionInv, TypeOK, Task
  <1>3. CASE 0 \in failed \/ 0 \in stopped_early
    <2>1. at[0] \in Stops /\ at[0] < end[0] /\ end[0] <= next
      BY <1>1, <1>3 DEF RegionInv, ReportInv, ReportIsTrue, ChunkInv, Stops
    <2> QED
      BY <1>2, <2>1
  <1>4. CASE ~(0 \in failed \/ 0 \in stopped_early)
    <2>1. next >= Tasks
      BY <1>1, <1>4 DEF RegionInv, ReportInv, ReportIsTrue
    <2> QED
      BY <1>2, <2>1, PlanAssumption
  <1> QED
    BY <1>3, <1>4

\* The worker that has a task pending after the join stopped at or below it.
LEMMA PendingAfterJoin ==
    ASSUME RegionInv, AllDone, NEW t \in Task, NEW w \in Worker, Pending(w, t)
    PROVE  /\ w \in failed \/ w \in stopped_early
           /\ w \in holding /\ begin[w] <= at[w] /\ at[w] <= t /\ t < end[w]
           /\ at[w] \in Stops
  <1>1. pc[w] = "done"
    BY DEF AllDone
  <1>2. w \in holding /\ begin[w] <= at[w] /\ at[w] <= t /\ t < end[w]
    BY DEF Pending, RegionInv, ChunkInv
  <1>3. t \in Int /\ at[w] \in Int /\ end[w] \in Int
    BY DEF RegionInv, TypeOK, Task
  <1>4. at[w] # end[w]
    BY <1>2, <1>3
  <1>5. w \in failed \/ w \in stopped_early
    BY ZenonT(60), <1>1, <1>2, <1>4 DEF RegionInv, ReportInv, ReportIsTrue
  <1> QED
    BY <1>2, <1>5 DEF RegionInv, ReportInv, ReportIsTrue, Stops

\* With no failing setup, a failed worker failed at a task: the one its
\* report names, in the chunk it still holds.
LEMMA FailedAtTask ==
    ASSUME RegionInv, body.setupThrows = {}, NEW w \in Worker, w \in failed
    PROVE  /\ w \in holding /\ failed_at[w] = begin[w] /\ message[w] = at[w]
           /\ at[w] \in body.throws /\ at[w] < end[w]
  <1>1. ReportInv /\ w \notin body.setupThrows
    BY DEF RegionInv
  <1> QED
    BY Zenon, <1>1 DEF ReportInv, ReportIsTrue

\* The worker that ran the first stopping task, if the body throws there, has
\* the lowest failure: every other failing worker held a higher chunk.
LEMMA FirstThrowIsFirstFailure ==
    ASSUME RegionInv, AllDone, body.setupThrows = {}, body.forgetful = {},
           NEW t \in Task, FirstStop(t), t \in body.throws
    PROVE  /\ failed # {}
           /\ \A u \in Worker : FirstFailure(u) => message[u] = t
  <1>1. t < next
    BY ClaimedUpToFirstStop DEF FirstStop
  <1>2. PICK w \in Worker : Pending(w, t)
    <2>1. writes[t] # 1
      BY Zenon DEF RegionInv, TaskInv, FirstStop
    <2> QED
      BY Zenon, <1>1, <2>1 DEF RegionInv, TaskInv
  <1>3. /\ w \in holding /\ begin[w] <= at[w] /\ at[w] <= t /\ t < end[w]
        /\ at[w] \in Stops /\ (w \in failed \/ w \in stopped_early)
    BY Zenon, <1>2, PendingAfterJoin
  <1>4. t \in Int /\ \A v \in Worker : at[v] \in Int /\ begin[v] \in Int /\ end[v] \in Int
    BY DEF RegionInv, TypeOK, Task
  <1>5. at[w] = t
    <2>1. t <= at[w]
      BY <1>3 DEF FirstStop
    <2> QED BY <1>3, <1>4, <2>1
  <1>6. w \in failed /\ failed_at[w] = begin[w] /\ message[w] = t
    BY <1>3, <1>5 DEF RegionInv, ReportInv, ReportIsTrue
  <1>7. ASSUME NEW u \in Worker, FirstFailure(u) PROVE message[u] = t
    <2>1. /\ u \in failed /\ u \in holding /\ failed_at[u] = begin[u]
          /\ at[u] \in Stops /\ at[u] < end[u]
      BY Zenon, <1>7, FailedAtTask DEF FirstFailure, Stops
    <2>2. begin[u] <= begin[w]
      BY <1>4, <1>6, <1>7, <2>1 DEF FirstFailure
    <2>3. u = w
      <3> SUFFICES ASSUME u # w PROVE FALSE
        OBVIOUS
      <3>1. end[u] <= begin[w] \/ end[w] <= begin[u]
        BY <1>3, <2>1 DEF RegionInv, ChunkInv
      <3>2. t <= at[u]
        BY <2>1 DEF FirstStop
      <3> QED
        BY <1>3, <1>4, <2>1, <2>2, <3>1, <3>2
    <2> QED
      BY <1>6, <2>3
  <1> QED
    BY <1>6, <1>7

\* A failing setup fails before every task, so it is the lowest failure.
LEMMA SetupFailureIsFirst ==
    ASSUME RegionInv, AllDone, body.setupThrows # {}
    PROVE  /\ failed # {}
           /\ \A w \in Worker : FirstFailure(w) => message[w] = -1
  <1>1. PICK v \in body.setupThrows : v \in Worker
    BY DEF RegionInv, TypeOK, Body
  <1>2. v \in failed /\ v \notin holding /\ failed_at[v] = -1
    BY <1>1 DEF AllDone, RegionInv, ReportInv, ReportIsTrue
  <1>3. ASSUME NEW w \in Worker, FirstFailure(w) PROVE message[w] = -1
    <2>1. w \in failed /\ failed_at[w] <= -1
      BY <1>1, <1>2, <1>3 DEF FirstFailure, RegionInv, TypeOK
    <2>2. w \notin holding
      BY <2>1 DEF RegionInv, TypeOK, ReportInv, ReportIsTrue
    <2> QED
      BY <2>1, <2>2 DEF RegionInv, ReportInv, ReportIsTrue
  <1> QED
    BY <1>2, <1>3

\* run_region() raises the failure a serial run would have reached first, for
\* every body, every cut and every interleaving of the workers.
THEOREM RaisesSerialFailure == Spec => []RaisesTheSerialFailure
  <1>1. RegionInv /\ ExitInv => RaisesTheSerialFailure
    <2> SUFFICES ASSUME RegionInv, ExitInv, main = "exit"
                 PROVE  RaisesTheSerialFailure
      BY DEF RaisesTheSerialFailure
    <2>0. AllDone /\ (failed # {} =>
             \E w \in Worker : FirstFailure(w) /\ outcome = Raised(message[w]))
      BY DEF RegionInv, DriverInv, AllDone, ExitInv
    <2>1. ASSUME body.setupThrows # {} PROVE outcome = Raised(-1)
      BY <2>0, <2>1, SetupFailureIsFirst
    <2>3. ASSUME NEW t \in Task, body.setupThrows = {}, body.forgetful = {}, FirstStop(t),
                 t \in body.throws
          PROVE  outcome = Raised(t)
      BY <2>0, <2>3, FirstThrowIsFirstFailure
    <2>2. ASSUME outcome.kind = "raised", body.setupThrows = {}
          PROVE  outcome.message \in body.throws
      <3>0. outcome # Returned /\ outcome # Undrained
        BY <2>2 DEF Returned, Undrained
      <3>1. PICK w \in Worker : FirstFailure(w) /\ outcome = Raised(message[w])
        BY Zenon, <3>0 DEF ExitInv
      <3>2. message[w] \in body.throws
        BY ZenonT(60), <2>2, <3>1, FailedAtTask DEF FirstFailure
      <3> QED
        BY <3>1, <3>2 DEF Raised
    <2> QED
      BY <2>1, <2>2, <2>3 DEF RaisesTheSerialFailure
  <1> QED
    BY <1>1, RegionInvariant, ExitInvariant, PTL

\* A threaded region that returns without a worker having stopped early has
\* written every element exactly once.
THEOREM ReturnMeansComplete == Spec => []NothingLeftUnwritten
  <1>1. RegionInv /\ ExitInv => NothingLeftUnwritten
    <2> SUFFICES ASSUME RegionInv, ExitInv, outcome = Returned, stopped_early = {},
                        Workers > 1 \/ body.forgetful = {}, NEW t \in Task
                 PROVE  writes[t] = 1
      BY DEF NothingLeftUnwritten
    <2>1. main = "exit" /\ failed = {}
      BY ZenonT(60) DEF RegionInv, DriverInv, ExitInv, Returned, Running, Raised
    <2>0. AllDone
      BY <2>1 DEF RegionInv, DriverInv, AllDone
    <2>2. next >= Tasks
      <3>1. CASE Workers = 1
        <4>1. body.forgetful = {} /\ 0 \in Worker /\ pc[0] = "done"
          BY <2>1, <3>1, WorkerFacts DEF RegionInv, DriverInv
        <4> QED
          BY ZenonT(60), <2>1, <4>1 DEF RegionInv, ReportInv, ReportIsTrue
      <3>2. CASE Workers # 1
        BY Zenon, <2>1, <3>2 DEF ExitInv, Returned, Raised
      <3> QED BY <3>1, <3>2
    <2>3. t < next
      BY <2>2, PlanAssumption DEF Task, RegionInv, TypeOK
    <2>4. ASSUME NEW w \in Worker, Pending(w, t) PROVE FALSE
      BY <2>0, <2>1, <2>4, PendingAfterJoin
    <2> QED
      BY <2>3, <2>4 DEF RegionInv, TaskInv
  <1> QED
    BY <1>1, RegionInvariant, ExitInvariant, PTL

\* The direct byte kernels resume where a serial scan would have stopped, with
\* everything below already written.
THEOREM DirectPrefix == Spec => []DirectPrefixIsSerial
  <1>1. RegionInv /\ ExitInv => DirectPrefixIsSerial
    <2> SUFFICES ASSUME RegionInv, ExitInv, outcome = Returned, body.forgetful = {},
                        NEW k \in 0..Tasks, lowest_ineligible(k)
                 PROVE  /\ k = Tasks \/ k \in body.refuses
                        /\ \A t \in body.refuses : k <= t
                        /\ \A t \in Task : t < k => writes[t] = 1
      BY DEF DirectPrefixIsSerial
    <2>1. main = "exit" /\ failed = {}
      BY Zenon DEF RegionInv, DriverInv, ExitInv, Returned, Running, Raised
    <2>0. AllDone
      BY <2>1 DEF RegionInv, DriverInv, AllDone
    <2>2. k = Tasks \/ k \in body.refuses
      BY DEF lowest_ineligible, RegionInv, ReportInv, ReportIsTrue
    <2>3. ASSUME NEW t \in Task, t < k PROVE writes[t] = 1
      <3>1. t \in Int /\ t < Tasks /\ k \in Int /\ next \in Int
              /\ \A w \in Worker : at[w] \in Int /\ end[w] \in Int
        BY PlanAssumption DEF RegionInv, TypeOK, Task
      <3>2. t < next
        <4>1. 0 \in Worker /\ pc[0] = "done"
          BY <2>1, WorkerFacts DEF RegionInv, DriverInv
        <4>2. CASE 0 \in stopped_early
          <5>1. k <= at[0] /\ at[0] < end[0] /\ end[0] <= next
            BY ZenonT(60), <4>1, <4>2 DEF lowest_ineligible, RegionInv, ReportInv, ReportIsTrue, ChunkInv
          <5> QED BY <2>3, <3>1, <4>1, <5>1
        <4>3. CASE 0 \notin stopped_early
          <5>1. next >= Tasks
            BY <2>1, <4>1, <4>3 DEF RegionInv, ReportInv, ReportIsTrue
          <5> QED BY <3>1, <5>1, PlanAssumption
        <4> QED BY <4>2, <4>3
      <3>3. ASSUME NEW w \in Worker, Pending(w, t) PROVE FALSE
        <4>1. w \in stopped_early /\ at[w] <= t
          BY <2>0, <2>1, <3>3, PendingAfterJoin
        <4>2. k <= at[w]
          BY <4>1 DEF lowest_ineligible, RegionInv, ReportInv, ReportIsTrue
        <4> QED BY <2>3, <3>1, <4>1, <4>2
      <3> QED
        BY <3>2, <3>3 DEF RegionInv, TaskInv
    <2>4. ASSUME NEW t \in body.refuses PROVE k <= t
      <3>1. t \in Task /\ t \in Int /\ k \in Int
        BY PlanAssumption DEF RegionInv, TypeOK, Body, Task
      <3>2. ~(writes[t] = 1)
        BY <2>4, <3>1 DEF RegionInv, TaskInv, Stops
      <3> QED
        BY <2>3, <3>1, <3>2
    <2> QED
      BY <2>2, <2>3, <2>4
  <1> QED
    BY <1>1, RegionInvariant, ExitInvariant, PTL

-----------------------------------------------------------------------------
(* The cut.                                                                *)

\* A failing setup is before every task: nothing is counted.
LEMMA SetupCut ==
    ASSUME RegionInv, CursorInv, CutInv, main = "exit", body.setupThrows # {},
           NEW t \in Task, Ran(t)
    PROVE  ~(t \div Chunk < counted)
  <1>0. AllDone
    BY DEF RegionInv, DriverInv, AllDone
  <1>1. failed # {} /\ \A w \in Worker : FirstFailure(w) => message[w] = -1
    BY <1>0, SetupFailureIsFirst
  <1>2. CASE counted = ChunkCount /\ Workers = 1
    <2>1. \A v \in Worker : v = 0
      BY <1>2 DEF Worker
    <2>2. body.setupThrows \subseteq Worker
      BY DEF RegionInv, TypeOK, Body
    <2>3. 0 \in body.setupThrows /\ 0 \in Worker
      BY <2>1, <2>2, ZenonT(60)
    <2>4. 0 \notin holding
      BY <2>3, ZenonT(60) DEF RegionInv, ReportInv, ReportIsTrue
    <2>5. holding = {}
      BY <2>1, <2>4, WorkerTypes
    <2>6. ~(t < next)
      BY <2>5 DEF CursorInv
    <2>7. writes[t] # 1
      BY <2>6 DEF RegionInv, TaskInv
    <2> QED BY <2>5, <2>7 DEF Ran
  <1>3. ASSUME NEW w \in Worker, FirstFailure(w), counted = fail_at(failed_at[w])
        PROVE  ~(t \div Chunk < counted)
    <2>1. w \in failed /\ message[w] = -1
      BY <1>1, <1>3 DEF FirstFailure
    <2>2. w \notin holding
      <3>1. at[w] \in Nat
        BY WorkerTypes
      <3> QED BY <2>1, <3>1 DEF RegionInv, ReportInv, ReportIsTrue
    <2>3. failed_at[w] = -1
      BY <2>1, <2>2 DEF RegionInv, ReportInv, ReportIsTrue
    <2>4. counted = 0
      BY <1>3, <2>3 DEF fail_at
    <2>5. t \div Chunk \in Nat
      BY TaskChunk, EnoughChunks DEF ChunkIndex
    <2> QED BY <2>4, <2>5
  <1> QED
    BY <1>1, <1>2, <1>3 DEF CutInv

\* Without a failing setup and without a failure everything has run.
LEMMA EverythingRan ==
    ASSUME RegionInv, CutInv, main = "exit", body.setupThrows = {}, body.forgetful = {},
           body.refuses = {}, failed = {}, NEW t \in Task
    PROVE  Ran(t) /\ t \div Chunk < counted /\ SerialReaches(t)
  <1>0. AllDone
    BY DEF RegionInv, DriverInv, AllDone
  <1>1. stopped_early = {}
    <2> SUFFICES ASSUME NEW w \in stopped_early PROVE FALSE
      OBVIOUS
    <2>1. w \in Worker
      BY WorkerTypes
    <2> QED BY <2>1, ZenonT(60) DEF RegionInv, ReportInv, ReportIsTrue
  <1>2. next >= Tasks
    BY <1>0, <1>1, WorkerFacts DEF AllDone, RegionInv, ReportInv, ReportIsTrue
  <1>3. ASSUME NEW s \in Task PROVE writes[s] = 1
    <2>1. s < next
      BY <1>2, WorkerTypes DEF Task
    <2>2. ASSUME NEW w \in Worker, Pending(w, s) PROVE FALSE
      BY <1>0, <1>1, <2>2, PendingAfterJoin
    <2> QED BY <2>1, <2>2, Zenon DEF RegionInv, TaskInv
  <1>4. Stops = {}
    <2>1. Stops \subseteq Task
      BY DEF RegionInv, TypeOK, Body, Stops
    <2>2. \A s \in Task : s \notin Stops
      BY <1>3, Zenon DEF RegionInv, TaskInv
    <2> QED BY <2>1, <2>2
  <1>5. counted = ChunkCount
    BY DEF CutInv, FirstFailure
  <1>6. t \div Chunk < counted
    BY <1>5, TaskChunk, EnoughChunks DEF ChunkIndex
  <1> QED
    BY <1>3, <1>4, <1>6 DEF Ran, SerialReaches

\* The first failure, with the task it happened at.
LEMMA FirstFailureAt ==
    ASSUME RegionInv, CutInv, main = "exit", body.setupThrows = {}, body.forgetful = {},
           body.refuses = {}, failed # {}
    PROVE  \E u \in Worker :
               /\ u \in failed /\ u \in holding
               /\ at[u] \in Task /\ FirstStop(at[u]) /\ begin[u] <= at[u] /\ at[u] < end[u]
               /\ \/ Workers = 1 /\ counted = ChunkCount
                  \/ counted = begin[u] \div Chunk + 1
  <1>0. AllDone
    BY DEF RegionInv, DriverInv, AllDone
  <1>1. PICK u \in Worker :
            /\ FirstFailure(u)
            /\ \/ Workers = 1 /\ counted = ChunkCount
               \/ counted = fail_at(failed_at[u])
    <2>1. CASE counted = ChunkCount /\ Workers = 1
      <3>1. \A v \in Worker : v = 0
        BY <2>1 DEF Worker
      <3>2. 0 \in failed /\ 0 \in Worker
        BY <3>1, WorkerTypes, Zenon
      <3>3. \A v \in failed : v = 0
        BY <3>1, WorkerTypes
      <3>4. FirstFailure(0)
        BY <3>2, <3>3 DEF FirstFailure
      <3> QED BY <2>1, <3>2, <3>4, Zenon
    <2>2. CASE ~(counted = ChunkCount /\ Workers = 1)
      BY <2>2, Zenon DEF CutInv
    <2> QED BY <2>1, <2>2
  <1>2. /\ u \in failed /\ u \in holding /\ failed_at[u] = begin[u] /\ message[u] = at[u]
        /\ at[u] \in body.throws /\ at[u] < end[u]
    BY <1>1, FailedAtTask, ZenonT(60) DEF FirstFailure
  <1>3. begin[u] <= at[u] /\ begin[u] \in Nat
    BY <1>2, WorkerTypes DEF RegionInv, ChunkInv
  <1>4. Stops \subseteq Task /\ Stops = body.throws /\ Task \subseteq Nat
    <2>1. Stops = body.throws
      BY DEF Stops
    <2> QED BY <2>1, StopTypes
  <1>5. PICK t \in Stops : \A s \in Stops : t <= s
    <2>1. Stops # {} /\ Stops \subseteq Nat
      BY Zenon, <1>2, <1>4
    <2> QED BY Zenon, <2>1, LeastNatural
  <1>6. t \in Task /\ t \in body.throws /\ FirstStop(t)
    BY <1>4, <1>5, ZenonT(60) DEF FirstStop
  <1>7. message[u] = t
    BY <1>0, <1>1, <1>6, FirstThrowIsFirstFailure
  <1>8. counted = fail_at(failed_at[u]) => counted = begin[u] \div Chunk + 1
    BY <1>2, <1>3 DEF fail_at
  <1> QED
    BY ZenonT(60), <1>1, <1>2, <1>3, <1>6, <1>7, <1>8

\* What the cut leaves is what a serial run reaches: the tasks that ran in the
\* chunks up to the first failure's are the tasks up to the one that threw.
LEMMA CutIsSerial ==
    ASSUME RegionInv, CursorInv, CutInv, main = "exit", body.forgetful = {},
           body.setupThrows # {} \/ body.refuses = {}, NEW t \in Task
    PROVE  Ran(t) /\ t \div Chunk < counted <=> SerialReaches(t)
  <1>0. AllDone
    BY DEF RegionInv, DriverInv, AllDone
  <1>1. CASE body.setupThrows # {}
    BY <1>1, SetupCut DEF SerialReaches
  <1>2. CASE body.setupThrows = {} /\ failed = {}
    BY <1>2, EverythingRan
  <1>3. CASE body.setupThrows = {} /\ failed # {}
    <2>1. PICK u \in Worker :
              /\ u \in failed /\ u \in holding
              /\ at[u] \in Task /\ FirstStop(at[u]) /\ begin[u] <= at[u] /\ at[u] < end[u]
              /\ \/ Workers = 1 /\ counted = ChunkCount
                 \/ counted = begin[u] \div Chunk + 1
      BY <1>3, FirstFailureAt
    <2> DEFINE f == at[u]
    <2>2. /\ f \in Nat /\ t \in Nat /\ \A v \in Worker : at[v] \in Nat /\ begin[v] \in Nat
                                                        /\ end[v] \in Nat
      BY <2>1, WorkerTypes DEF Task
    <2>3. f \in Task /\ f \in Stops /\ \A s \in Stops : f <= s
      BY <2>1 DEF FirstStop
    <2>4. SerialReaches(t) <=> t <= f
      <3>1. Stops \subseteq Nat
        BY StopTypes
      <3> QED BY <1>3, <2>2, <2>3, <3>1 DEF SerialReaches
    <2>5. /\ t \div Chunk \in ChunkIndex /\ f \div Chunk = begin[u] \div Chunk
          /\ t \div Chunk \in Nat /\ f \div Chunk \in Nat
          /\ t \div Chunk < ChunkCount
      <3>1. t \div Chunk \in ChunkIndex /\ f \div Chunk \in ChunkIndex
        BY <2>3, TaskChunk
      <3>2. f \div Chunk = begin[u] \div Chunk
        BY <2>1, <2>3, HeldChunk
      <3> QED BY <3>1, <3>2, EnoughChunks DEF ChunkIndex
    <2> HIDE DEF f
    <2>6. ASSUME t <= f PROVE Ran(t) /\ t \div Chunk < counted
      <3>1. t \div Chunk <= f \div Chunk
        BY <2>2, <2>6, ChunksAscend
      <3>2. t \div Chunk < counted
        BY <2>1, <2>5, <3>1
      <3>3. CASE t = f
        BY <2>1, <3>2, <3>3, Zenon DEF Ran, f
      <3>4. CASE t # f
        <4>1. \A s \in Stops : t <= s
          <5>1. Stops \subseteq Nat
            BY StopTypes
          <5> QED BY <2>2, <2>3, <2>6, <5>1
        <4>2. t < next
          BY <1>0, <1>3, <4>1, ClaimedUpToFirstStop
        <4>3. ASSUME NEW w \in Worker, Pending(w, t) PROVE FALSE
          <5>1. at[w] <= t /\ at[w] \in Stops
            BY <1>0, <4>3, PendingAfterJoin
          <5>2. f <= at[w]
            BY <2>3, <5>1
          <5> QED BY <2>2, <2>6, <3>4, <5>1, <5>2
        <4>4. writes[t] = 1
          BY <4>2, <4>3, ZenonT(60) DEF RegionInv, TaskInv
        <4> QED BY <3>2, <4>4 DEF Ran
      <3> QED BY <3>3, <3>4
    <2>7. ASSUME Ran(t), t \div Chunk < counted, f < t PROVE FALSE
      <3>1. t < end[u]
        <4>1. CASE Workers = 1
          <5>1. \A v \in Worker : v = u
            BY <4>1 DEF Worker
          <5>2. t < next
            <6>1. CASE writes[t] = 1
              BY <6>1, Zenon DEF RegionInv, TaskInv
            <6>2. CASE \E v \in failed \cup stopped_early : v \in holding /\ at[v] = t
              <7>1. at[u] = t
                BY <5>1, <6>2, WorkerTypes
              <7> QED BY <2>2, <2>7, <7>1 DEF f
            <6> QED BY <2>7, <6>1, <6>2 DEF Ran
          <5>3. PICK v \in holding : t < end[v]
            BY <5>2 DEF CursorInv
          <5> QED BY <5>1, <5>3, WorkerTypes
        <4>2. CASE Workers # 1
          <5>1. counted = f \div Chunk + 1
            BY <2>1, <2>5, <4>2
          <5>2. f \div Chunk <= t \div Chunk
            BY <2>2, <2>7, ChunksAscend
          <5>3. t \div Chunk = begin[u] \div Chunk
            BY <2>5, <2>7, <5>1, <5>2
          <5>4. begin[u] <= t
            BY <2>1, <2>2, <2>7 DEF f
          <5> QED BY <2>1, <5>3, <5>4, HeldChunk
        <4> QED BY <4>1, <4>2
      <3>2. Pending(u, t)
        BY <2>1, <2>2, <2>7, <3>1 DEF Pending, f
      <3>3. writes[t] = 0
        BY <3>2, Zenon DEF RegionInv, TaskInv
      <3>4. PICK v \in failed \cup stopped_early : v \in holding /\ at[v] = t
        BY <2>7, <3>3 DEF Ran
      <3>5. v \in Worker /\ v # u
        BY <2>2, <2>7, <3>4, WorkerTypes DEF f
      <3>6. begin[v] <= at[v] /\ at[v] < end[v]
        BY <3>4, <3>5 DEF RegionInv, ReportInv, ReportIsTrue, ChunkInv
      <3>7. end[u] <= begin[v] \/ end[v] <= begin[u]
        BY <2>1, <3>4, <3>5 DEF RegionInv, ChunkInv
      <3>8. begin[u] <= t
        BY <2>1, <2>2, <2>7 DEF f
      <3> QED BY <2>2, <3>1, <3>4, <3>5, <3>6, <3>7, <3>8
    <2> QED BY <2>2, <2>4, <2>6, <2>7
  <1> QED
    BY <1>1, <1>2, <1>3

-----------------------------------------------------------------------------
(* The contract.                                                           *)

\* Every body considered draws chunks until next_chunk() refuses.
Looping == body.forgetful = {}

\* No step changes what the tasks of a region do.
LEMMA BodyIsFixed ==
    ASSUME \A b \in Bodies : b.forgetful = {}
    PROVE  Spec => []Looping
  <1>1. Init => Looping
    BY DEF Init, Looping
  <1>2. Looping /\ [Next]_vars => Looping'
    <2> SUFFICES ASSUME Looping, [Next]_vars PROVE body' = body
      BY DEF Looping
    <2>1. ASSUME NEW w \in Worker, WorkerStep(w) PROVE body' = body
      BY ZenonT(60), <2>1 DEF WorkerStep, Setup, SetupThrows, Claim, ClaimNothing, TaskThrows,
                         TaskRefused, TaskWritten
    <2>2. CASE MainStep
      BY Zenon, <2>2 DEF MainStep, SpawnWorker, EnterOwnLane, RunInline, JoinAll,
                         RaiseFailure, ReturnOrComplain
    <2> QED
      BY <2>1, <2>2 DEF Next, Exited, vars
  <1> QED
    BY <1>1, <1>2, PTL DEF Spec

\* When nothing failed, a task left unwritten lies at or above a parked index.
LEMMA UnwrittenIsAboveParked ==
    ASSUME RegionInv, AllDone, Looping, failed = {},
           NEW t \in Task, writes[t] # 1
    PROVE  \E k \in Parked : k <= t
  <1>1. /\ t \in Int /\ t < Tasks /\ next \in Int /\ Tasks \in Int
        /\ \A w \in Worker : at[w] \in Int /\ end[w] \in Int
    BY PlanAssumption DEF RegionInv, TypeOK, Task
  <1>2. SUFFICES \E w \in stopped_early : at[w] <= t
    BY DEF Parked
  <1>3. CASE t < next
    <2>1. PICK w \in Worker : Pending(w, t)
      BY Zenon, <1>3 DEF RegionInv, TaskInv
    <2> QED
      BY <2>1, PendingAfterJoin
  <1>4. CASE ~(t < next)
    <2>1. 0 \in Worker /\ pc[0] = "done"
      BY WorkerFacts DEF AllDone
    <2>2. 0 \in stopped_early
      <3> SUFFICES ASSUME 0 \notin stopped_early PROVE FALSE
        OBVIOUS
      <3>1. next >= Tasks
        BY ZenonT(60), <2>1 DEF RegionInv, ReportInv, ReportIsTrue, Looping
      <3> QED
        BY <1>1, <1>4, <3>1
    <2>3. at[0] < end[0] /\ end[0] <= next
      BY ZenonT(60), <2>1, <2>2 DEF RegionInv, ReportInv, ReportIsTrue, ChunkInv
    <2> QED
      BY <1>1, <1>4, <2>1, <2>2, <2>3
  <1> QED
    BY <1>3, <1>4

\* A step of a worker is a write, a parked index, or nothing the contract sees.
LEMMA WorkerStepRefines ==
    ASSUME RegionInv, NEW w \in Worker, WorkerStep(w)
    PROVE  [Contract!Next]_(Contract!vars)
  <1>1. pc[w] # "done"
    BY ZenonT(60) DEF WorkerStep, Setup, SetupThrows, Claim, ClaimNothing, TaskThrows,
                 TaskRefused, TaskWritten
  <1>2. outcome = Running /\ w \notin stopped_early
    BY ZenonT(60), <1>1 DEF RegionInv, TypeOK, DriverInv, ReportInv, ReportIsTrue
  <1>3. /\ stopped_early \subseteq Worker /\ at \in [Worker -> 0..Tasks]
        /\ pc[w] = "run" => at[w] \in Task /\ Pending(w, at[w])
    <2>1. /\ stopped_early \subseteq Worker /\ at \in [Worker -> 0..Tasks]
          /\ end \in [Worker -> 0..Tasks]
      BY DEF RegionInv, TypeOK
    <2>2. pc[w] = "run" => w \in holding /\ at[w] < end[w]
      BY DEF RegionInv, ChunkInv
    <2> QED
      BY <2>1, <2>2, PlanAssumption DEF Pending, Task
  <1>4. ASSUME stopped_early' = stopped_early, \A v \in Worker : v # w => at'[v] = at[v]
        PROVE  Parked' = Parked
    BY <1>2, <1>3, <1>4 DEF Parked
  <1>5. CASE Setup(w) \/ SetupThrows(w) \/ ClaimNothing(w) \/ TaskThrows(w)
    <2>1. /\ body' = body /\ writes' = writes /\ outcome' = outcome
          /\ stopped_early' = stopped_early /\ at' = at
      BY ZenonT(60), <1>5 DEF Setup, SetupThrows, ClaimNothing, TaskThrows, Report, contexts,
                         reports, output
    <2> QED
      BY <1>4, <2>1 DEF Contract!vars
  <1>6. CASE Claim(w)
    <2>1. /\ body' = body /\ writes' = writes /\ outcome' = outcome
          /\ stopped_early' = stopped_early /\ at' = [at EXCEPT ![w] = next]
      BY ZenonT(60), <1>6 DEF Claim, reports, output
    <2> QED
      BY <1>3, <1>4, <2>1 DEF Contract!vars
  <1>7. CASE TaskRefused(w)
    <2>1. /\ pc[w] = "run" /\ at[w] \in body.refuses
          /\ body' = body /\ writes' = writes /\ outcome' = outcome /\ at' = at
          /\ stopped_early' = stopped_early \cup {w}
      BY ZenonT(60), <1>7 DEF TaskRefused
    <2>2. Parked' = Parked \cup {at[w]}
      BY <2>1 DEF Parked
    <2>3. Contract!Park(at[w])
      BY <1>2, <2>1, <2>2 DEF Contract!Park, Contract!Running, Running
    <2> QED
      BY <1>3, <2>1, <2>3 DEF Contract!Next, Contract!Task, Task
  <1>8. CASE TaskWritten(w)
    <2>1. /\ pc[w] = "run" /\ at[w] \notin body.throws \cup body.refuses
          /\ body' = body /\ outcome' = outcome /\ stopped_early' = stopped_early
          /\ writes' = [writes EXCEPT ![at[w]] = @ + 1] /\ at' = [at EXCEPT ![w] = @ + 1]
      BY ZenonT(60), <1>8 DEF TaskWritten, reports
    <2>2. Parked' = Parked
      BY <1>3, <1>4, <2>1
    <2>3. writes[at[w]] = 0
      BY <1>3, <2>1 DEF RegionInv, TaskInv
    <2>4. writes' = [writes EXCEPT ![at[w]] = 1]
      BY <2>1, <2>3
    <2>5. Contract!Write(at[w])
      BY <1>2, <2>1, <2>2, <2>3, <2>4
         DEF Contract!Write, Contract!Running, Running, Contract!Stops
    <2> QED
      BY <1>3, <2>1, <2>5 DEF Contract!Next, Contract!Task, Task
  <1> QED
    BY <1>5, <1>6, <1>7, <1>8 DEF WorkerStep

\* The failure run_region() raises is one the contract allows.
LEMMA RaiseFailureRefines ==
    ASSUME RegionInv, Looping, RaiseFailure
    PROVE  Contract!Next
  <1>1. /\ main = "reduce"
        /\ body' = body /\ writes' = writes /\ stopped_early' = stopped_early /\ at' = at
    BY ZenonT(60) DEF RaiseFailure, reports, output, contexts
  <1>2. AllDone /\ outcome = Running /\ Parked' = Parked
    BY <1>1 DEF RegionInv, DriverInv, AllDone, Parked
  <1>3. PICK w \in Worker : FirstFailure(w) /\ outcome' = Raised(message[w])
    BY ZenonT(60) DEF RaiseFailure
  <1> DEFINE m == message[w]
  <1>4. body.throws \subseteq Task
    BY DEF RegionInv, TypeOK, Body
  <1>5. IF body.setupThrows # {} THEN m = -1 ELSE m \in body.throws
    <2>1. CASE body.setupThrows # {}
      BY <1>2, <1>3, <2>1, SetupFailureIsFirst
    <2>2. CASE body.setupThrows = {}
      BY ZenonT(60), <1>3, <2>2, FailedAtTask DEF FirstFailure
    <2> QED BY <2>1, <2>2
  <1>6. ASSUME NEW t \in body.throws, body.setupThrows = {}, FirstStop(t) PROVE m = t
    BY <1>2, <1>3, <1>4, <1>6, FirstThrowIsFirstFailure DEF Looping
  <1>7. \A t \in body.throws : body.setupThrows = {} /\ Contract!FirstStop(t) => m = t
    BY <1>6 DEF Contract!FirstStop, FirstStop, Contract!Stops, Stops
  <1>8. m \in {-1} \cup Task
    BY <1>4, <1>5
  <1>9. outcome = Contract!Running /\ outcome' = Contract!Raised(m)
    BY <1>2, <1>3 DEF Contract!Running, Running, Contract!Raised, Raised
  <1> HIDE DEF m
  <1>10. Contract!Raise(m)
    BY <1>1, <1>2, <1>5, <1>7, <1>9 DEF Contract!Raise
  <1> QED
    BY <1>8, <1>10 DEF Contract!Next, Contract!Task, Task

\* A region that returns has kept its side: everything below the lowest parked
\* index is written; and no looping body makes it raise the logic error.
LEMMA ReturnRefines ==
    ASSUME RegionInv, Looping, ReturnOrComplain
    PROVE  Contract!Next
  <1>1. /\ main = "reduce" /\ failed = {}
        /\ body' = body /\ writes' = writes /\ stopped_early' = stopped_early /\ at' = at
    BY ZenonT(60) DEF ReturnOrComplain, reports, output, contexts
  <1>2. AllDone /\ outcome = Running /\ Parked' = Parked
    BY <1>1 DEF RegionInv, DriverInv, AllDone, Parked
  <1>3. body.setupThrows = {}
    BY <1>1, <1>2, SetupFailureIsFirst
  <1>4. outcome' = Returned
    <2>1. stopped_early # {} \/ drained
      <3>1. 0 \in Worker /\ pc[0] = "done"
        BY <1>2, WorkerFacts DEF AllDone
      <3> QED
        BY ZenonT(60), <1>1, <3>1 DEF RegionInv, ReportInv, ReportIsTrue, Looping, drained
    <2> QED
      BY ZenonT(60), <2>1 DEF ReturnOrComplain
  <1>5. ASSUME NEW r \in Stops PROVE \E k \in Parked : k <= r
    <2>1. r \in Task
      BY DEF RegionInv, TypeOK, Body, Stops
    <2>2. writes[r] # 1
      BY Zenon, <2>1 DEF RegionInv, TaskInv
    <2> QED
      BY <1>1, <1>2, <2>1, <2>2, UnwrittenIsAboveParked
  <1>6. ASSUME NEW t \in Task, \A k \in Parked : t < k PROVE writes[t] = 1
    <2>1. t \in Int /\ Parked \subseteq Int
      BY PlanAssumption DEF Task, Parked, RegionInv, TypeOK
    <2> SUFFICES ASSUME writes[t] # 1 PROVE FALSE
      OBVIOUS
    <2>2. PICK k \in Parked : k <= t
      BY <1>1, <1>2, UnwrittenIsAboveParked
    <2> QED
      BY <1>6, <2>1, <2>2
  <1>7. outcome = Contract!Running /\ outcome' = Contract!Returned
    BY <1>2, <1>4 DEF Contract!Running, Running, Contract!Returned, Returned
  <1>8. Contract!Return
    BY <1>1, <1>2, <1>3, <1>5, <1>6, <1>7
       DEF Contract!Return, Contract!Stops, Stops, Contract!Task, Task
  <1> QED
    BY <1>8 DEF Contract!Next

\* run_region() implements the contract of run_parallel(): whichever workers
\* draw which chunks, and however many threads could be started, the caller
\* sees tasks written at most once and the ending of a serial run.
THEOREM Implements ==
    ASSUME \A b \in Bodies : b.forgetful = {}
    PROVE  Spec => ImplementsContract
  <1>1. Init => Contract!Init
    BY PlanAssumption DEF Init, Parked, Running, Task, Contract!Init, Contract!Running, Contract!Task
  <1>2. RegionInv /\ Looping /\ [Next]_vars => [Contract!Next]_(Contract!vars)
    <2> SUFFICES ASSUME RegionInv, Looping, [Next]_vars
                 PROVE  [Contract!Next]_(Contract!vars)
      OBVIOUS
    <2>1. CASE SpawnWorker \/ EnterOwnLane \/ RunInline \/ JoinAll \/ UNCHANGED vars
      <3>1. /\ body' = body /\ writes' = writes /\ outcome' = outcome
            /\ stopped_early' = stopped_early /\ at' = at
        BY Zenon, <2>1 DEF SpawnWorker, EnterOwnLane, RunInline, JoinAll, vars, contexts,
                           reports, output
      <3> QED
        BY <3>1 DEF Contract!vars, Parked
    <2> QED
      BY <2>1, WorkerStepRefines, RaiseFailureRefines, ReturnRefines
         DEF Next, MainStep, Exited
  <1> QED
    BY <1>1, <1>2, RegionInvariant, BodyIsFixed, PTL DEF Spec, ImplementsContract, Contract!Spec

=============================================================================
