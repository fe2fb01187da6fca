----------------------- MODULE RegionWarnings_proofs -----------------------
(***************************************************************************)
(* What SerialWarnings counts.  Every task is counted at its own chunk; the*)
(* counters hold the warnings of the tasks that ran; and what is left of   *)
(* them after the cut is what a serial run would have warned of.           *)
(***************************************************************************)
EXTENDS RegionExit_proofs

\* A leaf that names no prover is tried with these, in this order.
USE SMTT(20), ZenonT(20), SMTT(60), Z3T(60)

(* The counters.                                                           *)

\* A step that runs no task leaves what the counters are made of alone.
LEMMA CountKept ==
    ASSUME CountInv, UNCHANGED <<body, chunk_warnings>>, SetupCounted', OpenedCounted',
           \A t : Ran(t)' <=> Ran(t)
    PROVE  CountInv'
  <1>1. CountedRan' /\ RanCounted'
    BY Zenon DEF CountInv, CountedRan, RanCounted
  <1>2. \A c : RanIn(c)' = RanIn(c)
    BY Zenon DEF RanIn
  <1>3. ChunkCounted'
    BY <1>2, Zenon DEF CountInv, ChunkCounted
  <1> QED
    BY <1>1, <1>3 DEF CountInv

\* Building a context, whether it throws or not, keeps the counts.
LEMMA SetupCount ==
    ASSUME RegionInv, CountInv, NEW w \in Worker, Setup(w) \/ SetupThrows(w)
    PROVE  CountInv'
  <1>1. /\ pc[w] = "setup"
        /\ SetupWarns(w)
        /\ UNCHANGED <<body, chunk_warnings, opened, holding, begin, at, writes,
                       stopped_early>>
        /\ \/ failed' = failed /\ pc' = [pc EXCEPT ![w] = "claim"]
           \/ failed' = failed \cup {w} /\ pc' = [pc EXCEPT ![w] = "done"]
    BY Zenon DEF Setup, SetupThrows, Report, contexts, reports, output
  <1>2. w \notin holding
    BY <1>1, Zenon DEF RegionInv, ChunkInv
  <1>3. \A t : Ran(t)' <=> Ran(t)
    BY <1>1, <1>2, Zenon DEF Ran
  <1>4. OpenedCounted'
    BY <1>1, Zenon DEF CountInv, OpenedCounted
  <1>5. SetupCounted'
    <2> SUFFICES ASSUME NEW v \in Worker
                 PROVE  setup_warnings'[v] > 0
                          <=> v \in body.setupWarns /\ pc'[v] \notin {"unstarted", "setup"}
      BY <1>1 DEF SetupCounted
    <2>1. setup_warnings[v] \in Nat
          /\ (setup_warnings[v] > 0
               <=> v \in body.setupWarns /\ pc[v] \notin {"unstarted", "setup"})
      BY WorkerTypes DEF CountInv, SetupCounted
    <2>2. CASE v = w
      <3>1. pc'[w] \notin {"unstarted", "setup"} /\ ~(setup_warnings[w] > 0)
        BY <1>1, <2>1, <2>2, WorkerTypes
      <3>2. CASE w \in body.setupWarns
        BY <1>1, <2>1, <2>2, <3>1, <3>2, WorkerTypes DEF SetupWarns
      <3>3. CASE w \notin body.setupWarns
        BY <1>1, <2>1, <2>2, <3>1, <3>3, WorkerTypes DEF SetupWarns
      <3> QED BY <3>2, <3>3
    <2>3. CASE v # w
      <3>1. pc'[v] = pc[v] /\ setup_warnings'[v] = setup_warnings[v]
        BY <1>1, <2>3, WorkerTypes DEF SetupWarns
      <3> QED BY <2>1, <3>1, Zenon
    <2> QED BY <2>2, <2>3
  <1> QED
    BY <1>1, <1>3, <1>4, <1>5, CountKept

\* A claim counts no warning.
LEMMA ClaimCount ==
    ASSUME RegionInv, CountInv, NEW w \in Worker, Claim(w)
    PROVE  CountInv'
  <1>1. /\ pc[w] = "claim"
        /\ begin' = [begin EXCEPT ![w] = next]
        /\ holding' = holding \cup {w}
        /\ at' = [at EXCEPT ![w] = next]
        /\ pc' = [pc EXCEPT ![w] = "run"]
        /\ UNCHANGED <<body, opened, failed, stopped_early, setup_warnings, chunk_warnings,
                       writes>>
    BY Zenon DEF Claim, reports, warnings, output
  <1>2. w \notin failed /\ w \notin stopped_early
    BY <1>1, ZenonT(60) DEF RegionInv, ReportInv, ReportIsTrue
  <1>3. \A v \in failed \cup stopped_early :
            v # w /\ at'[v] = at[v] /\ (v \in holding' <=> v \in holding)
    BY <1>1, <1>2, WorkerTypes
  <1>4. \A t : Ran(t)' <=> Ran(t)
    BY <1>1, <1>3, Zenon DEF Ran
  <1>5. SetupCounted'
    BY <1>1, WorkerTypes DEF CountInv, SetupCounted
  <1>6. ASSUME NEW v \in opened'
        PROVE  v \in holding'
               /\ \E c \in ChunkIndex : c <= begin'[v] \div Chunk /\ chunk_warnings'[c] > 0
    <2>1. v \in holding /\ v \in Worker
      BY <1>1, <1>6, WorkerTypes DEF CountInv, OpenedCounted
    <2>2. PICK c \in ChunkIndex : c <= begin[v] \div Chunk /\ chunk_warnings[c] > 0
      BY <1>1, <1>6 DEF CountInv, OpenedCounted
    <2>3. begin[v] <= begin'[v] /\ begin[v] \in Nat /\ begin'[v] \in Nat
      <3>1. begin[v] < end[v] /\ end[v] <= next
        BY <2>1 DEF RegionInv, ChunkInv
      <3> QED BY <1>1, <2>1, <3>1, WorkerTypes
    <2>4. /\ begin[v] \div Chunk <= begin'[v] \div Chunk
          /\ begin[v] \div Chunk \in Nat /\ begin'[v] \div Chunk \in Nat
      BY <2>3, ChunksAscend
    <2>5. c \in Int
      BY DEF ChunkIndex
    <2>6. c <= begin'[v] \div Chunk
      BY <2>2, <2>4, <2>5
    <2> QED BY <1>1, <2>1, <2>2, <2>6
  <1>7. OpenedCounted'
    BY <1>6, Zenon DEF OpenedCounted
  <1> QED
    BY <1>1, <1>4, <1>5, <1>7, CountKept

\* SerialWarnings::add() is given the worker's chunk, which is the chunk of the
\* task it is at.
LEMMA RunningChunk ==
    ASSUME RegionInv, CursorInv, NEW w \in Worker, pc[w] = "run"
    PROVE  /\ w \in holding /\ at[w] \in Task
           /\ begin[w] \div Chunk \in ChunkIndex
           /\ at[w] \div Chunk = begin[w] \div Chunk
  <1>1. /\ w \in holding /\ at[w] < end[w] /\ begin[w] <= at[w]
    BY DEF RegionInv, ChunkInv
  <1>2. /\ Chunk \in Nat \ {0} /\ Tasks \in Nat
        /\ begin[w] \in 0..Tasks /\ end[w] \in 0..Tasks /\ at[w] \in 0..Tasks
    BY WorkerTypes
  <1>3. PICK k \in ChunkIndex : begin[w] = k * Chunk /\ end[w] <= k * Chunk + Chunk
    BY <1>1 DEF CursorInv
  <1>4. k \in Nat /\ k * Chunk \in Nat
    BY <1>2, EnoughChunks DEF ChunkIndex
  <1>5. at[w] \div Chunk = k
    <2>1. at[w] \in Nat /\ k * Chunk <= at[w] /\ at[w] < k * Chunk + Chunk
      BY <1>1, <1>2, <1>3, <1>4
    <2> QED BY <1>4, <2>1, ChunkOf
  <1>6. begin[w] \div Chunk = k
    <2>1. begin[w] \in Nat /\ k * Chunk <= begin[w] /\ begin[w] < k * Chunk + Chunk
      BY <1>2, <1>3, <1>4
    <2> QED BY <1>4, <2>1, ChunkOf
  <1>7. at[w] \in Task
    BY <1>1, <1>2 DEF Task
  <1> QED
    BY <1>1, <1>3, <1>5, <1>6, <1>7

\* A worker that runs a task has not run it before, and no other worker has.
LEMMA NotYetRun ==
    ASSUME RegionInv, NEW w \in Worker, pc[w] = "run"
    PROVE  ~Ran(at[w])
  <1>1. /\ w \in holding /\ at[w] < end[w] /\ begin[w] <= at[w]
        /\ w \notin failed /\ w \notin stopped_early
    BY DEF RegionInv, ChunkInv, ReportInv, ReportIsTrue
  <1>2. at[w] \in Task
    BY <1>1, WorkerTypes DEF Task
  <1>3. Pending(w, at[w])
    BY <1>1, <1>2 DEF Pending, Task
  <1>4. writes[at[w]] = 0
    BY <1>2, <1>3 DEF RegionInv, TaskInv
  <1>5. ASSUME NEW v \in failed \cup stopped_early, v \in holding, at[v] = at[w] PROVE FALSE
    <2>1. v \in Worker /\ v # w
      BY <1>1, <1>5, WorkerTypes
    <2>2. at[v] < end[v] /\ begin[v] <= at[v]
      BY <1>5, <2>1 DEF RegionInv, ReportInv, ReportIsTrue, ChunkInv
    <2>3. end[v] <= begin[w] \/ end[w] <= begin[v]
      BY <1>1, <1>5, <2>1 DEF RegionInv, ChunkInv
    <2>4. /\ at[v] \in Int /\ end[v] \in Int /\ begin[v] \in Int
          /\ at[w] \in Int /\ end[w] \in Int /\ begin[w] \in Int
      BY <2>1, WorkerTypes
    <2> QED BY <1>1, <1>5, <2>2, <2>3, <2>4
  <1> QED
    BY <1>4, <1>5 DEF Ran

\* Running a task adds its warnings to its own chunk, once.
LEMMA TaskCount ==
    ASSUME RegionInv, CursorInv, CountInv, NEW w \in Worker, pc[w] = "run", AddWarnings(w),
           UNCHANGED <<body, holding, begin>>,
           \A v \in Worker : pc'[v] \in {"unstarted", "setup"} <=> pc[v] \in {"unstarted", "setup"},
           \A t \in Task : Ran(t)' <=> Ran(t) \/ t = at[w]
    PROVE  CountInv'
  <1> DEFINE a == at[w]
             d == begin[w] \div Chunk
             n == TaskWarnings(w)
  <1>1. w \in holding /\ a \in Task /\ d \in ChunkIndex /\ a \div Chunk = d
    BY RunningChunk
  <1>2. ~Ran(a)
    BY NotYetRun
  <1>3. /\ opened' = IF a \in body.lazy THEN opened \cup {w} ELSE opened
        /\ chunk_warnings' = [chunk_warnings EXCEPT ![d] = @ + n]
        /\ setup_warnings' = setup_warnings
    BY <1>1 DEF AddWarnings, serial_position
  <1>4. /\ n \in Nat
        /\ n > 0 <=> (a \in body.lazy /\ w \notin opened) \/ a \in body.warns
        /\ body.lazy = {} => n = IF a \in body.warns THEN 1 ELSE 0
    BY DEF TaskWarnings, OpensLazily
  <1>5. chunk_warnings \in [ChunkIndex -> Nat] /\ body.warns \subseteq Task
        /\ body.lazy \subseteq Task /\ d \in Int
    BY <1>1, WorkerTypes DEF ChunkIndex
  <1> HIDE DEF a, d, n
  <1>6. /\ chunk_warnings'[d] = chunk_warnings[d] + n
        /\ \A c \in ChunkIndex : c # d => chunk_warnings'[c] = chunk_warnings[c]
    BY <1>1, <1>3, <1>5
  <1>7. \A c \in ChunkIndex : chunk_warnings[c] > 0 => chunk_warnings'[c] > 0
    BY <1>4, <1>5, <1>6
  <1>8. n > 0 => chunk_warnings'[d] > 0
    BY <1>1, <1>4, <1>5, <1>6
  <1>9. \A t \in body.warns \cup body.lazy : Ran(t)' <=> Ran(t) \/ t = a
    BY <1>5 DEF a
  <1>10. SetupCounted'
    BY <1>3, Zenon DEF CountInv, SetupCounted
  <1>11. CountedRan'
    <2> SUFFICES ASSUME NEW c \in ChunkIndex, chunk_warnings'[c] > 0
                 PROVE  \E t \in body.warns \cup body.lazy : t \div Chunk = c /\ Ran(t)'
      BY DEF CountedRan
    <2>1. CASE chunk_warnings[c] > 0
      <3>1. PICK t \in body.warns \cup body.lazy : t \div Chunk = c /\ Ran(t)
        BY <2>1 DEF CountInv, CountedRan
      <3> QED BY <1>9, <3>1, Zenon
    <2>2. CASE ~(chunk_warnings[c] > 0)
      <3>1. c = d /\ n > 0
        BY <1>4, <1>5, <1>6, <2>2
      <3>2. a \in body.warns \cup body.lazy
        BY <1>4, <3>1
      <3> QED BY <1>1, <1>9, <3>1, <3>2
    <2> QED BY <2>1, <2>2
  <1>12. RanCounted'
    <2> SUFFICES ASSUME NEW t \in body.warns \cup body.lazy, Ran(t)'
                 PROVE  \E c \in ChunkIndex : c <= t \div Chunk /\ chunk_warnings'[c] > 0
      BY DEF RanCounted
    <2>1. CASE Ran(t)
      BY <1>7, <2>1, ZenonT(60) DEF CountInv, RanCounted
    <2>2. CASE t = a /\ n > 0
      BY <1>1, <1>5, <1>8, <2>2
    <2>3. CASE t = a /\ ~(n > 0)
      <3>1. w \in opened
        BY <1>4, <2>3
      <3>2. PICK c \in ChunkIndex : c <= d /\ chunk_warnings[c] > 0
        BY <3>1 DEF CountInv, OpenedCounted, d
      <3> QED BY <1>1, <1>7, <2>3, <3>2
    <2> QED BY <1>9, <2>1, <2>2, <2>3
  <1>13. OpenedCounted'
    <2> SUFFICES ASSUME NEW v \in opened'
                 PROVE  v \in holding
                        /\ \E c \in ChunkIndex : c <= begin[v] \div Chunk /\ chunk_warnings'[c] > 0
      BY DEF OpenedCounted
    <2>1. CASE v \in opened
      BY <1>7, <2>1, ZenonT(60) DEF CountInv, OpenedCounted
    <2>2. CASE v \notin opened
      <3>1. v = w /\ n > 0
        BY <1>3, <1>4, <2>2
      <3>2. d <= begin[v] \div Chunk
        BY <1>5, <3>1 DEF d
      <3> QED BY <1>1, <1>8, <3>1, <3>2
    <2> QED BY <2>1, <2>2
  <1>14. ChunkCounted'
    <2> SUFFICES ASSUME body.lazy = {}, NEW c \in ChunkIndex
                 PROVE  chunk_warnings'[c] = Cardinality(RanIn(c)')
      BY DEF ChunkCounted
    <2>1. chunk_warnings[c] = Cardinality(RanIn(c)) /\ chunk_warnings[c] \in Nat
      BY <1>5 DEF CountInv, ChunkCounted
    <2>2. CASE c = d /\ a \in body.warns
      <3>1. RanIn(c)' = RanIn(c) \cup {a} /\ a \notin RanIn(c)
        BY <1>1, <1>2, <1>9, <2>2, ZenonT(60) DEF RanIn
      <3>2. IsFiniteSet(RanIn(c))
        <4>1. IsFiniteSet(Task)
          BY WorkerTypes, FS_Interval DEF Task
        <4>2. RanIn(c) \in SUBSET Task
          BY <1>5 DEF RanIn
        <4> QED BY <4>1, <4>2, FS_Subset
      <3>3. Cardinality(RanIn(c)') = Cardinality(RanIn(c)) + 1
        BY ZenonT(60), <3>1, <3>2, FS_AddElement
      <3>4. n = 1
        BY <1>4, <2>2
      <3> QED BY <1>6, <2>1, <2>2, <3>3, <3>4
    <2>3. CASE ~(c = d /\ a \in body.warns)
      <3>1. RanIn(c)' = RanIn(c)
        BY <1>1, <1>9, <2>3, ZenonT(60) DEF RanIn
      <3>2. chunk_warnings'[c] = chunk_warnings[c]
        BY <1>4, <1>6, <2>1, <2>3
      <3> QED BY <2>1, <3>1, <3>2
    <2> QED BY <2>2, <2>3
  <1> QED
    BY <1>10, <1>11, <1>12, <1>13, <1>14 DEF CountInv

\* A task that throws or is refused has its warnings counted in its own chunk.
LEMMA StopCount ==
    ASSUME RegionInv, CursorInv, CountInv, NEW w \in Worker, TaskThrows(w) \/ TaskRefused(w)
    PROVE  CountInv'
  <1>1. /\ pc[w] = "run" /\ AddWarnings(w)
        /\ UNCHANGED <<body, holding, begin, at, writes>>
        /\ \/ failed' = failed \cup {w} /\ stopped_early' = stopped_early
           \/ failed' = failed /\ stopped_early' = stopped_early \cup {w}
        /\ pc' = [pc EXCEPT ![w] = "done"]
    <2>1. CASE TaskThrows(w)
      BY <2>1, Zenon DEF TaskThrows, Report, output
    <2>2. CASE TaskRefused(w)
      BY <2>2, Zenon DEF TaskRefused
    <2> QED BY <2>1, <2>2
  <1>2. w \in holding
    BY <1>1, RunningChunk
  <1>3. \A t \in Task : Ran(t)' <=> Ran(t) \/ t = at[w]
    BY <1>1, <1>2, Zenon DEF Ran
  <1>4. \A v \in Worker : pc'[v] \in {"unstarted", "setup"} <=> pc[v] \in {"unstarted", "setup"}
    BY <1>1, WorkerTypes
  <1> QED
    BY <1>1, <1>3, <1>4, TaskCount

\* A task that returns adds its warnings to its own chunk and no other.
LEMMA WrittenCount ==
    ASSUME RegionInv, CursorInv, CountInv, NEW w \in Worker, TaskWritten(w)
    PROVE  CountInv'
  <1>1. /\ pc[w] = "run" /\ AddWarnings(w)
        /\ UNCHANGED <<body, holding, begin, failed, stopped_early>>
        /\ writes' = [writes EXCEPT ![at[w]] = @ + 1]
        /\ at' = [at EXCEPT ![w] = @ + 1]
        /\ pc' = [pc EXCEPT ![w] = IF at[w] + 1 < end[w] THEN "run"
                                   ELSE IF w \notin body.forgetful THEN "claim" ELSE "done"]
    BY ZenonT(60) DEF TaskWritten, reports
  <1>2. at[w] \in Task /\ ~Ran(at[w]) /\ w \notin failed \cup stopped_early
    BY <1>1, RunningChunk, NotYetRun DEF RegionInv, ReportInv, ReportIsTrue
  <1>3. writes \in [Task -> Nat] /\ writes[at[w]] = 0
    <2>1. writes \in [Task -> Nat] /\ writes[at[w]] \in {0, 1} /\ writes[at[w]] # 1
      BY <1>2 DEF RegionInv, TypeOK, TaskInv, Ran
    <2> QED BY <2>1
  <1>4. writes'[at[w]] = 1 /\ \A t \in Task : t # at[w] => writes'[t] = writes[t]
    BY <1>1, <1>2, <1>3
  <1>5. \A v \in failed \cup stopped_early : at'[v] = at[v]
    BY <1>1, <1>2, WorkerTypes
  <1>6. \A t \in Task : Ran(t)' <=> Ran(t) \/ t = at[w]
    BY <1>1, <1>2, <1>4, <1>5, ZenonT(60) DEF Ran
  <1>7. \A v \in Worker : pc'[v] \in {"unstarted", "setup"} <=> pc[v] \in {"unstarted", "setup"}
    BY <1>1, WorkerTypes
  <1> QED
    BY <1>1, <1>6, <1>7, TaskCount

\* The counters hold the warnings of the tasks that ran, whoever ran them.
LEMMA CountInvariant == Spec => []CountInv
  <1>1. Init => CountInv
    <2> SUFFICES ASSUME Init PROVE CountInv
      OBVIOUS
    <2>1. /\ pc = [w \in Worker |-> "unstarted"] /\ holding = {} /\ opened = {}
          /\ failed = {} /\ stopped_early = {} /\ body \in Body
          /\ setup_warnings = [w \in Worker |-> 0]
          /\ chunk_warnings = [c \in ChunkIndex |-> 0] /\ writes = [t \in Task |-> 0]
      BY PlanAssumption DEF Init
    <2>2. \A t \in body.warns \cup body.lazy : ~Ran(t)
      BY <2>1 DEF Ran, Body
    <2>3. \A c : RanIn(c) = {}
      BY <2>2, ZenonT(60) DEF RanIn
    <2>4. ChunkCounted
      BY <2>1, <2>3, FS_EmptySet DEF ChunkCounted
    <2>5. SetupCounted /\ CountedRan /\ OpenedCounted
      BY <2>1 DEF SetupCounted, CountedRan, OpenedCounted
    <2>6. RanCounted
      BY <2>2, Zenon DEF RanCounted
    <2> QED BY <2>4, <2>5, <2>6 DEF CountInv
  <1>2. RegionInv /\ CursorInv /\ CountInv /\ [Next]_vars => CountInv'
    <2> SUFFICES ASSUME RegionInv, CursorInv, CountInv, [Next]_vars PROVE CountInv'
      OBVIOUS
    <2>1. ASSUME UNCHANGED <<body, setup_warnings, chunk_warnings, opened, holding, begin, at,
                             failed, stopped_early, writes>>,
                 \A v \in Worker : pc'[v] \in {"unstarted", "setup"}
                                     <=> pc[v] \in {"unstarted", "setup"}
          PROVE  CountInv'
      <3>1. \A t : Ran(t)' <=> Ran(t)
        BY <2>1, Zenon DEF Ran
      <3>2. SetupCounted' /\ OpenedCounted'
        BY <2>1, Zenon DEF CountInv, SetupCounted, OpenedCounted
      <3> QED BY <2>1, <3>1, <3>2, CountKept
    <2>2. ASSUME NEW w \in Worker, WorkerStep(w) PROVE CountInv'
      <3>1. CASE ClaimNothing(w)
        <4>1. /\ UNCHANGED <<body, setup_warnings, chunk_warnings, opened, holding, begin, at,
                             failed, stopped_early, writes>>
              /\ pc[w] = "claim" /\ pc' = [pc EXCEPT ![w] = "done"]
          BY <3>1, Zenon DEF ClaimNothing, contexts, reports, warnings, output
        <4>2. \A v \in Worker : pc'[v] \in {"unstarted", "setup"}
                                  <=> pc[v] \in {"unstarted", "setup"}
          BY <4>1, WorkerTypes
        <4> QED BY <2>1, <4>1, <4>2
      <3>2. CASE ~ClaimNothing(w)
        BY <2>2, <3>2, SetupCount, ClaimCount, StopCount, WrittenCount DEF WorkerStep
      <3> QED BY <3>1, <3>2
    <2>3. ASSUME NEW w \in Worker, pc[w] = "unstarted", pc' = [pc EXCEPT ![w] = "setup"],
                 UNCHANGED <<body, contexts, reports, warnings, output>>
          PROVE  CountInv'
      <3>1. \A v \in Worker : pc'[v] \in {"unstarted", "setup"}
                                <=> pc[v] \in {"unstarted", "setup"}
        BY <2>3, WorkerTypes
      <3> QED BY <2>1, <2>3, <3>1 DEF contexts, reports, warnings, output
    <2>4. CASE SpawnWorker
      <3>1. started \in Worker /\ pc[started] = "unstarted"
        BY <2>4, PlanAssumption DEF SpawnWorker, RegionInv, TypeOK, DriverInv, Worker
      <3> QED BY ZenonT(60), <2>3, <2>4, <3>1 DEF SpawnWorker
    <2>5. CASE EnterOwnLane
      <3>1. 0 \in Worker /\ pc[0] = "unstarted"
        BY <2>5, WorkerFacts DEF EnterOwnLane, RegionInv, DriverInv
      <3> QED BY ZenonT(60), <2>3, <2>5, <3>1 DEF EnterOwnLane
    <2>6. CASE RunInline
      <3>1. NextLane \in Worker /\ pc[NextLane] = "unstarted"
        BY <2>6, WorkerFacts, PlanAssumption
           DEF RunInline, RegionInv, TypeOK, DriverInv, NextLane
      <3> QED BY ZenonT(60), <2>3, <2>6, <3>1 DEF RunInline
    <2>7. CASE JoinAll \/ RaiseFailure \/ ReturnOrComplain \/ Exited \/ UNCHANGED vars
      <3>1. UNCHANGED <<body, setup_warnings, chunk_warnings, opened, holding, begin, at,
                        failed, stopped_early, writes, pc>>
        BY <2>7, Zenon DEF JoinAll, RaiseFailure, ReturnOrComplain, Exited, vars, contexts,
                           reports, warnings, output
      <3> QED BY <2>1, <3>1
    <2> QED
      BY <2>2, <2>4, <2>5, <2>6, <2>7 DEF Next, MainStep
  <1> QED
    BY <1>1, <1>2, RegionInvariant, CursorInvariant, PTL DEF Spec

\* The body of a region is fixed, and the counters are cut only when a threaded
\* region raises: at the chunk of the first failure.
LEMMA CutInvariant == Spec => [](body \in Bodies /\ CutInv)
  <1>1. Init => body \in Bodies /\ CutInv
    BY DEF Init, CutInv
  <1>2. RegionInv /\ body \in Bodies /\ CutInv /\ [Next]_vars => (body \in Bodies /\ CutInv)'
    <2> SUFFICES ASSUME RegionInv, body \in Bodies, CutInv, [Next]_vars
                 PROVE  (body \in Bodies /\ CutInv)'
      OBVIOUS
    <2>1. CASE RaiseFailure
      <3>1. /\ main = "reduce" /\ main' = "exit"
            /\ UNCHANGED <<body, failed, failed_at>>
        BY <2>1, Zenon DEF RaiseFailure, reports
      <3>2. PICK w \in Worker :
               FirstFailure(w)
               /\ counted' = IF Workers = 1 THEN counted ELSE fail_at(failed_at[w])
        BY <2>1, Zenon DEF RaiseFailure
      <3>3. counted = ChunkCount
        BY <3>1, Zenon DEF CutInv
      <3>4. FirstFailure(w)' /\ fail_at(failed_at[w])' = fail_at(failed_at[w])
        BY <3>1, <3>2, Zenon DEF FirstFailure, fail_at
      <3> QED BY <3>1, <3>2, <3>3, <3>4, Zenon DEF CutInv
    <2>2. CASE ReturnOrComplain
      <3>1. /\ main = "reduce" /\ failed = {}
            /\ UNCHANGED <<body, failed, counted>>
        BY <2>2, Zenon DEF ReturnOrComplain, reports, warnings
      <3> QED BY <3>1, Zenon DEF CutInv
    <2>3. CASE SpawnWorker \/ EnterOwnLane \/ RunInline \/ JoinAll
      <3>1. main # "exit" /\ main' # "exit" /\ UNCHANGED <<body, counted>>
        BY <2>3 DEF SpawnWorker, EnterOwnLane, RunInline, JoinAll, warnings
      <3> QED BY <3>1, Zenon DEF CutInv
    <2>4. ASSUME NEW w \in Worker, WorkerStep(w) PROVE (body \in Bodies /\ CutInv)'
      <3>1. UNCHANGED <<body, main, counted>> /\ pc[w] # "done"
        BY <2>4, Zenon DEF WorkerStep, Setup, SetupThrows, Claim, ClaimNothing, TaskThrows,
                           TaskRefused, TaskWritten, AddWarnings, driver, warnings
      <3>2. main # "exit"
        BY <2>4, <3>1, ZenonT(60) DEF RegionInv, DriverInv
      <3> QED BY <3>1, <3>2, Zenon DEF CutInv
    <2>5. CASE Exited \/ UNCHANGED vars
      <3>1. UNCHANGED <<body, main, failed, failed_at, counted>>
        BY <2>5, Zenon DEF Exited, vars, driver, reports, warnings
      <3>2. \A w : FirstFailure(w)' <=> FirstFailure(w)
        BY <3>1, Zenon DEF FirstFailure
      <3>3. \A w : fail_at(failed_at[w])' = fail_at(failed_at[w])
        BY <3>1, Zenon DEF fail_at
      <3> QED BY <3>1, <3>2, <3>3, Zenon DEF CutInv
    <2> QED
      BY <2>1, <2>2, <2>3, <2>4, <2>5 DEF Next, MainStep
  <1> QED
    BY <1>1, <1>2, RegionInvariant, PTL DEF Spec

-----------------------------------------------------------------------------

\* A region asks whether its workers warned from setup exactly if a setup warns.
LEMMA SetupTotal ==
    ASSUME RegionInv, CountInv, main = "exit"
    PROVE  /\ Total(setup_warnings, Workers) \in Nat
           /\ Total(setup_warnings, Workers) > 0 <=> body.setupWarns # {}
  <1>1. \A i \in 0..(Workers - 1) : setup_warnings[i] \in Nat
    BY WorkerTypes DEF Worker
  <1>2. /\ Total(setup_warnings, Workers) \in Nat
        /\ Total(setup_warnings, Workers) > 0 <=> \E i \in 0..(Workers - 1) : setup_warnings[i] > 0
    BY <1>1, TotalPositive, PlanAssumption
  <1>3. \A w \in Worker : setup_warnings[w] > 0 <=> w \in body.setupWarns
    <2>1. \A w \in Worker : pc[w] \notin {"unstarted", "setup"}
      BY DEF RegionInv, DriverInv
    <2> QED BY <2>1, ZenonT(60) DEF CountInv, SetupCounted
  <1>4. body.setupWarns \subseteq Worker
    BY DEF RegionInv, TypeOK, Body
  <1>5. (\E w \in Worker : setup_warnings[w] > 0) <=> body.setupWarns # {}
    BY <1>3, <1>4, Zenon
  <1> QED
    BY <1>2, <1>5 DEF Worker

\* A body that refuses tasks counts nothing.
LEMMA RefusingIsSilent ==
    ASSUME body \in Bodies, ~(body.setupThrows # {} \/ body.refuses = {})
    PROVE  body.warns = {} /\ body.lazy = {}
  BY SilentAssumption

\* SerialWarnings::count() after a region is the count of a serial run, on return
\* and on failure, for every body whose warnings are those of its tasks, every
\* cut and every interleaving.
THEOREM CountIsSerial == Spec => []TaskWarningsAreSerial
  <1>1. RegionInv /\ CursorInv /\ CountInv /\ body \in Bodies /\ CutInv => TaskWarningsAreSerial
    <2> SUFFICES ASSUME RegionInv, CursorInv, CountInv, body \in Bodies, CutInv, main = "exit",
                        body.forgetful = {}, body.setupWarns = {}, body.lazy = {}
                 PROVE  count = SerialCount
      BY DEF TaskWarningsAreSerial
    <2> DEFINE S == {t \in body.warns : Ran(t)}
               key == [t \in S |-> t \div Chunk]
               Kept == {t \in S : key[t] < counted}
               Reached == {t \in body.warns : SerialReaches(t)}
    <2>1. /\ body.warns \subseteq Task /\ counted \in Nat /\ counted <= ChunkCount
          /\ IsFiniteSet(S)
      <3>1. IsFiniteSet(Task)
        BY WorkerTypes, FS_Interval DEF Task
      <3>2. S \in SUBSET Task
        BY WorkerTypes
      <3> QED BY <3>1, <3>2, WorkerTypes, FS_Subset DEF RegionInv, TypeOK
    <2>2. key \in [S -> Nat]
      BY <2>1, TaskChunk, EnoughChunks DEF ChunkIndex
    <2>3. ASSUME NEW i \in 0..(counted - 1)
          PROVE  chunk_warnings[i] = Cardinality({t \in S : key[t] = i})
      <3>1. i \in ChunkIndex
        BY <2>1, EnoughChunks DEF ChunkIndex
      <3>2. RanIn(i) = {t \in S : key[t] = i}
        BY DEF RanIn
      <3> QED BY Zenon, <3>1, <3>2 DEF CountInv, ChunkCounted
    <2>4. Total(chunk_warnings, counted) = Cardinality(Kept)
      <3> HIDE DEF S, key
      <3> QED BY <2>1, <2>2, <2>3, TotalCounts
    <2>5. Kept = Reached
      <3>1. Kept = {t \in body.warns : Ran(t) /\ t \div Chunk < counted}
        OBVIOUS
      <3>2. CASE body.setupThrows # {} \/ body.refuses = {}
        <4>1. \A t \in body.warns : Ran(t) /\ t \div Chunk < counted <=> SerialReaches(t)
          BY <2>1, <3>2, CutIsSerial
        <4> HIDE DEF Kept
        <4> QED BY <3>1, <4>1, ZenonT(60)
      <3>3. CASE ~(body.setupThrows # {} \/ body.refuses = {})
        BY <3>3, RefusingIsSilent
      <3> QED BY Zenon, <3>2, <3>3
    <2>6. Total(setup_warnings, Workers) = 0
      BY SetupTotal
    <2>7. Cardinality(Reached) \in Nat
      <3>1. Reached \in SUBSET S \/ IsFiniteSet(Reached)
        <4> HIDE DEF Reached
        <4> QED BY Zenon, <2>5
      <3> QED BY <2>1, <3>1, FS_Subset, FS_CardinalityType
    <2>8. SerialCount = Cardinality(Reached)
      <3> HIDE DEF Reached
      <3>1. SerialCount = 0 + 0 + Cardinality(Reached)
        BY ZenonT(60) DEF SerialCount, Reached
      <3> QED BY <2>7, <3>1
    <2> HIDE DEF Kept, Reached
    <2> QED BY <2>4, <2>5, <2>6, <2>7, <2>8 DEF count
  <1> QED
    BY <1>1, RegionInvariant, CursorInvariant, CountInvariant, CutInvariant, PTL

\* Whether a region warned at all is what a serial run would answer, for every
\* body, although every worker sets up and opens resources of its own.
THEOREM WarnedIsSerial == Spec => []WarnedIffSerialWarned
  <1>1. RegionInv /\ CursorInv /\ CountInv /\ body \in Bodies /\ CutInv => WarnedIffSerialWarned
    <2> SUFFICES ASSUME RegionInv, CursorInv, CountInv, body \in Bodies, CutInv, main = "exit",
                        body.forgetful = {}
                 PROVE  count > 0 <=> SerialCount > 0
      BY DEF WarnedIffSerialWarned
    <2> DEFINE Warning == body.warns \cup body.lazy
               Reached == {t \in body.warns : SerialReaches(t)}
               Some == \E t \in Warning : SerialReaches(t)
    <2>1. /\ Warning \subseteq Task /\ counted \in Nat /\ counted <= ChunkCount
          /\ chunk_warnings \in [ChunkIndex -> Nat]
      BY WorkerTypes DEF RegionInv, TypeOK
    <2>2. \A i \in 0..(counted - 1) : i \in ChunkIndex
      BY <2>1, EnoughChunks DEF ChunkIndex
    <2>3. /\ Total(chunk_warnings, counted) \in Nat
          /\ Total(chunk_warnings, counted) > 0
               <=> \E i \in 0..(counted - 1) : chunk_warnings[i] > 0
      BY <2>1, <2>2, TotalPositive
    <2>4. \A t \in Warning : Ran(t) /\ t \div Chunk < counted <=> SerialReaches(t)
      <3>1. CASE body.setupThrows # {} \/ body.refuses = {}
        BY <2>1, <3>1, CutIsSerial
      <3>2. CASE ~(body.setupThrows # {} \/ body.refuses = {})
        BY <3>2, RefusingIsSilent
      <3> QED BY <3>1, <3>2
    <2>5. ASSUME NEW i \in 0..(counted - 1), chunk_warnings[i] > 0 PROVE Some
      <3>1. PICK t \in Warning : t \div Chunk = i /\ Ran(t)
        BY <2>2, <2>5, Zenon DEF CountInv, CountedRan
      <3>2. t \div Chunk < counted
        BY <2>1, <3>1
      <3> QED BY <2>4, <3>1, <3>2
    <2>6. ASSUME Some PROVE \E i \in 0..(counted - 1) : chunk_warnings[i] > 0
      <3>1. PICK t \in Warning : SerialReaches(t)
        BY <2>6
      <3>2. Ran(t) /\ t \div Chunk < counted /\ t \div Chunk \in Nat
        BY <2>1, <2>4, <3>1, TaskChunk, EnoughChunks DEF ChunkIndex
      <3>3. PICK c \in ChunkIndex : c <= t \div Chunk /\ chunk_warnings[c] > 0
        BY <3>1, <3>2, ZenonT(60) DEF CountInv, RanCounted
      <3>4. c \in 0..(counted - 1)
        BY <2>1, <3>2, <3>3, EnoughChunks DEF ChunkIndex
      <3> QED BY <3>3, <3>4
    <2>7. count > 0 <=> body.setupWarns # {} \/ Some
      <3>1. /\ Total(setup_warnings, Workers) \in Nat
            /\ Total(setup_warnings, Workers) > 0 <=> body.setupWarns # {}
        BY SetupTotal
      <3>2. Total(chunk_warnings, counted) > 0 <=> Some
        BY <2>3, <2>5, <2>6
      <3> HIDE DEF Some
      <3> QED BY <2>3, <3>1, <3>2 DEF count
    <2>8. SerialCount > 0 <=> body.setupWarns # {} \/ Some
      <3>1. Cardinality(Reached) \in Nat /\ (Cardinality(Reached) > 0 <=> Reached # {})
        <4>1. IsFiniteSet(Task)
          BY WorkerTypes, FS_Interval DEF Task
        <4>2. Reached \in SUBSET Task
          BY <2>1
        <4>3. IsFiniteSet(Reached)
          BY <4>1, <4>2, FS_Subset
        <4> HIDE DEF Reached
        <4>4. Cardinality(Reached) \in Nat /\ (Cardinality(Reached) = 0 <=> Reached = {})
          BY <4>3, FS_CardinalityType, FS_EmptySet
        <4> QED BY <4>4
      <3> DEFINE x == IF body.setupWarns # {} THEN 1 ELSE 0
                 y == IF \E t \in body.lazy : SerialReaches(t) THEN 1 ELSE 0
                 z == Cardinality(Reached)
      <3>2. SerialCount = x + y + z
        BY Zenon DEF SerialCount
      <3>3. /\ x \in Nat /\ (x > 0 <=> body.setupWarns # {})
            /\ y \in Nat /\ (y > 0 <=> \E t \in body.lazy : SerialReaches(t))
            /\ z \in Nat /\ (z > 0 <=> \E t \in body.warns : SerialReaches(t))
        BY <3>1
      <3>4. Some <=> (\E t \in body.lazy : SerialReaches(t))
                      \/ (\E t \in body.warns : SerialReaches(t))
        BY Zenon
      <3> HIDE DEF x, y, z, Some
      <3> QED BY <3>2, <3>3, <3>4
    <2> HIDE DEF Some
    <2> QED BY <2>7, <2>8
  <1> QED
    BY <1>1, RegionInvariant, CursorInvariant, CountInvariant, CutInvariant, PTL

=============================================================================
