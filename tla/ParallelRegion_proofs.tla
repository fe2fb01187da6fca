----------------------- MODULE ParallelRegion_proofs -----------------------
(***************************************************************************)
(* ParallelRegion for every number of tasks and workers, every chunk size  *)
(* and every body: RegionInv is inductive, and what run_region() promises  *)
(* about exclusive writes, the join and the failure it raises follows.     *)
(* After that, the cursor of ChunkQueue moves by whole chunks and stays    *)
(* near the end of the tasks; on the way, induction from a least           *)
(* counterexample, what it gives about Total, the loop of                  *)
(* SerialWarnings::count(), and which chunk a task is counted at.          *)
(***************************************************************************)
EXTENDS ParallelRegion, FiniteSetTheorems, TLAPS

\* A leaf that names no prover is tried with these, in this order.
USE SMTT(20), ZenonT(20), SMTT(60), Z3T(60)

\* The rounded-up number of chunks is a natural number.
LEMMA ChunkCountNat == ChunkCount \in Nat
  <1>1. Tasks \div Chunk \in Nat
    BY PlanAssumption
  <1> QED
    BY <1>1 DEF ChunkCount

\* A region begins with every worker and every chunk untouched.
LEMMA InitInv == Init => RegionInv
  <1> SUFFICES ASSUME Init PROVE RegionInv
    OBVIOUS
  <1> USE PlanAssumption DEF Init
  <1>1. TypeOK
    <2>1. body \in Body
      OBVIOUS
    <2>2. 0 \in Worker
      BY DEF Worker
    <2>3. counted \in 0..ChunkCount
      BY ChunkCountNat
    <2> QED
      BY <2>1, <2>2, <2>3 DEF TypeOK, Running
  <1>2. DriverInv
    BY DEF DriverInv
  <1>3. ChunkInv
    BY DEF ChunkInv
  <1>4. TaskInv
    BY DEF TaskInv, Pending, Task
  <1>5. ReportInv
    BY DEF ReportInv, ReportIsTrue
  <1> QED
    BY <1>1, <1>2, <1>3, <1>4, <1>5 DEF RegionInv

-----------------------------------------------------------------------------
(* The workers' steps.                                                     *)

\* A worker whose context is built keeps the invariant.
LEMMA SetupInv ==
    ASSUME RegionInv, NEW w \in Worker, Setup(w)
    PROVE  RegionInv'
  <1> USE PlanAssumption DEF Setup, SetupWarns, driver, contexts, reports, output
  <1>1. TypeOK'
    BY DEF RegionInv, TypeOK
  <1>2. DriverInv'
    BY DEF RegionInv, TypeOK, DriverInv
  <1>3. ChunkInv'
    BY DEF RegionInv, TypeOK, ChunkInv
  <1>4. TaskInv'
    BY DEF RegionInv, TypeOK, TaskInv, Pending, Stops
  <1>5. ReportInv'
    BY DEF RegionInv, TypeOK, ReportInv, ReportIsTrue
  <1> QED
    BY <1>1, <1>2, <1>3, <1>4, <1>5 DEF RegionInv

\* A context that throws ends its worker with the failure recorded.
LEMMA SetupThrowsInv ==
    ASSUME RegionInv, NEW w \in Worker, SetupThrows(w)
    PROVE  RegionInv'
  <1> USE PlanAssumption DEF SetupThrows, SetupWarns, Report, serial_position,
                             driver, contexts, output
  <1>1. TypeOK'
    BY DEF RegionInv, TypeOK
  <1>2. DriverInv'
    BY DEF RegionInv, TypeOK, DriverInv
  <1>3. ChunkInv'
    BY DEF RegionInv, TypeOK, ChunkInv
  <1>4. TaskInv'
    BY DEF RegionInv, TypeOK, TaskInv, Pending, Stops
  <1>5. ReportInv'
    BY DEF RegionInv, TypeOK, ChunkInv, ReportInv, ReportIsTrue
  <1> QED
    BY <1>1, <1>2, <1>3, <1>4, <1>5 DEF RegionInv

\* A claim takes a chunk that begins at the cursor, above every chunk claimed
\* before it, and makes exactly its tasks pending.
LEMMA ClaimInv ==
    ASSUME RegionInv, NEW w \in Worker, Claim(w)
    PROVE  RegionInv'
  <1> USE PlanAssumption DEF Claim, driver, reports, warnings, output
  <1>1. TypeOK'
    BY DEF RegionInv, TypeOK
  <1>2. DriverInv'
    BY DEF RegionInv, TypeOK, DriverInv
  <1>3. ChunkInv'
    BY DEF RegionInv, TypeOK, ChunkInv
  <1>4. TaskInv'
    <2> SUFFICES ASSUME NEW t \in Task
                 PROVE  /\ writes'[t] \in {0, 1}
                        /\ writes'[t] = 1 => t < next' /\ t \notin Stops'
                        /\ t < next' => writes'[t] = 1 \/ \E v \in Worker : Pending(v, t)'
                        /\ \A v \in Worker : Pending(v, t)' => writes'[t] = 0
      BY DEF TaskInv
    <2>0. Stops' = Stops
      BY DEF Stops
    <2>1. /\ writes' = writes /\ next' = next + Chunk
          /\ holding' = holding \cup {w}
          /\ at' = [at EXCEPT ![w] = next]
          /\ end' = [end EXCEPT ![w] = IF Tasks - next < Chunk THEN Tasks ELSE next + Chunk]
          /\ next \in Nat
          /\ at \in [Worker -> 0..Tasks] /\ end \in [Worker -> 0..Tasks]
      BY DEF RegionInv, TypeOK
    <2>6. t \in Nat /\ t < Tasks
      BY DEF Task
    <2>2. \A v \in Worker : v # w => (Pending(v, t)' <=> Pending(v, t))
      BY <2>1 DEF Pending
    <2>3. Pending(w, t)' <=> next <= t /\ t < next'
      BY <2>1, <2>6 DEF Pending
    <2>4. ~Pending(w, t)
      BY <2>1, <2>6 DEF RegionInv, ChunkInv, Pending
    <2>5. /\ writes[t] \in {0, 1}
          /\ writes[t] = 1 => t < next /\ t \notin Stops
          /\ t < next => writes[t] = 1 \/ \E v \in Worker : Pending(v, t)
          /\ \A v \in Worker : Pending(v, t) => writes[t] = 0
      BY DEF RegionInv, TaskInv
    <2> QED
      BY <2>0, <2>1, <2>2, <2>3, <2>4, <2>5, <2>6
  <1>5. ReportInv'
    BY DEF RegionInv, TypeOK, ReportInv, ReportIsTrue
  <1> QED
    BY <1>1, <1>2, <1>3, <1>4, <1>5 DEF RegionInv

\* A worker that finds no chunk left ends and holds none.
LEMMA ClaimNothingInv ==
    ASSUME RegionInv, NEW w \in Worker, ClaimNothing(w)
    PROVE  RegionInv'
  <1> USE PlanAssumption DEF ClaimNothing, driver, contexts, reports, warnings, output
  <1>1. TypeOK'
    BY DEF RegionInv, TypeOK
  <1>2. DriverInv'
    BY DEF RegionInv, TypeOK, DriverInv
  <1>3. ChunkInv'
    BY DEF RegionInv, TypeOK, ChunkInv
  <1>4. TaskInv'
    <2>1. /\ Stops' = Stops /\ writes' = writes
          /\ \A v \in Worker, t \in Task : Pending(v, t)' <=> Pending(v, t)
          /\ next' = next + Chunk /\ next \in Nat /\ next >= Tasks
          /\ \A t \in Task : t < next /\ t < next'
      BY DEF RegionInv, TypeOK, Stops, Pending, Task
    <2> QED
      BY <2>1 DEF RegionInv, TaskInv
  <1>5. ReportInv'
    BY DEF RegionInv, TypeOK, ChunkInv, ReportInv, ReportIsTrue
  <1> QED
    BY <1>1, <1>2, <1>3, <1>4, <1>5 DEF RegionInv

\* What AddWarnings does to the types of the variables it assigns.
LEMMA AddWarningsType ==
    ASSUME TypeOK, NEW w \in Worker, AddWarnings(w)
    PROVE  /\ opened' \subseteq Worker
           /\ chunk_warnings' \in [ChunkIndex -> Nat]
           /\ setup_warnings' = setup_warnings /\ counted' = counted
  <1>1. TaskWarnings(w) \in Nat
    BY DEF TaskWarnings
  <1>2. opened' \subseteq Worker
    BY DEF TypeOK, AddWarnings
  <1>3. chunk_warnings' \in [ChunkIndex -> Nat]
    <2> DEFINE i == serial_position(w) \div Chunk
               n == TaskWarnings(w)
    <2>1. chunk_warnings' = [chunk_warnings EXCEPT ![i] = @ + n]
      BY DEF AddWarnings
    <2>2. n \in Nat /\ chunk_warnings \in [ChunkIndex -> Nat]
      BY <1>1 DEF TypeOK
    <2> HIDE DEF i, n
    <2>3. CASE i \in ChunkIndex
      BY <2>1, <2>2, <2>3
    <2>4. CASE i \notin ChunkIndex
      <3>1. chunk_warnings' = chunk_warnings
        BY <2>1, <2>2, <2>4
      <3> QED BY <2>2, <3>1
    <2> QED
      BY <2>3, <2>4
  <1> QED
    BY <1>2, <1>3 DEF AddWarnings

\* A worker whose task throws records the failure and stops.
LEMMA TaskThrowsInv ==
    ASSUME RegionInv, NEW w \in Worker, TaskThrows(w)
    PROVE  RegionInv'
  <1>1. /\ pc[w] = "run" /\ at[w] \in body.throws
        /\ UNCHANGED <<body, main, started, lane, next, begin, end, holding, at,
                       stopped_early, first_ineligible, writes, outcome>>
        /\ failed' = failed \cup {w}
        /\ failed_at' = [failed_at EXCEPT ![w] = serial_position(w)]
        /\ message' = [message EXCEPT ![w] = at[w]]
        /\ pc' = [pc EXCEPT ![w] = "done"]
        /\ AddWarnings(w)
    BY Zenon DEF TaskThrows, Report, driver, output
  <1>2. TypeOK /\ DriverInv /\ ChunkInv /\ TaskInv /\ ReportInv
    BY Zenon DEF RegionInv
  <1>3. /\ at \in [Worker -> 0..Tasks] /\ begin \in [Worker -> 0..Tasks]
        /\ failed_at \in [Worker -> -1..Tasks] /\ message \in [Worker -> -1..Tasks]
        /\ pc \in [Worker -> {"unstarted", "setup", "claim", "run", "done"}]
    BY Zenon, <1>2 DEF TypeOK
  <1>4. w \in holding /\ at[w] < end[w] /\ serial_position(w) = begin[w]
    BY <1>1, <1>2 DEF ChunkInv, serial_position
  <1>5. /\ pc'[w] = "done" /\ failed_at'[w] = begin[w] /\ message'[w] = at[w]
        /\ \A v \in Worker : v # w => /\ pc'[v] = pc[v] /\ failed_at'[v] = failed_at[v]
                                      /\ message'[v] = message[v]
    BY ZenonT(60), <1>1, <1>3, <1>4
  <1>6. TypeOK'
    <2>1. /\ failed_at' \in [Worker -> -1..Tasks] /\ message' \in [Worker -> -1..Tasks]
          /\ failed' \subseteq Worker
          /\ pc' \in [Worker -> {"unstarted", "setup", "claim", "run", "done"}]
      BY <1>1, <1>2, <1>3, <1>4, PlanAssumption DEF TypeOK
    <2> QED
      BY <1>1, <1>2, <2>1, AddWarningsType DEF TypeOK
  <1>7. DriverInv'
    <2>1. pc[w] # "unstarted" /\ main \in {"spawn", "lane", "reduce", "exit"}
      BY <1>1, <1>2 DEF TypeOK
    <2> QED
      BY <1>1, <1>2, <1>5, <2>1 DEF DriverInv
  <1>8. ChunkInv'
    BY <1>1, <1>2, <1>4, <1>5 DEF ChunkInv
  <1>9. TaskInv'
    BY <1>1, <1>2 DEF TaskInv, Pending, Stops
  <1>10. ReportInv'
    <2>1. w \notin stopped_early /\ w \notin body.setupThrows
      BY <1>1, <1>2 DEF ReportInv, ReportIsTrue
    <2> QED
      BY <1>1, <1>2, <1>4, <1>5, <2>1 DEF ReportInv, ReportIsTrue
  <1> QED
    BY <1>6, <1>7, <1>8, <1>9, <1>10 DEF RegionInv

\* A worker whose task is refused records its position and stops.
LEMMA TaskRefusedInv ==
    ASSUME RegionInv, NEW w \in Worker, TaskRefused(w)
    PROVE  RegionInv'
  <1> USE PlanAssumption DEF TaskRefused, driver
  <1>1. TypeOK'
    BY AddWarningsType DEF RegionInv, TypeOK
  <1>2. DriverInv'
    BY DEF RegionInv, TypeOK, DriverInv
  <1>3. ChunkInv'
    BY DEF RegionInv, TypeOK, ChunkInv
  <1>4. TaskInv'
    BY DEF RegionInv, TypeOK, TaskInv, Pending, Stops
  <1>5. ReportInv'
    BY DEF RegionInv, TypeOK, ChunkInv, ReportInv, ReportIsTrue
  <1> QED
    BY ZenonT(60), <1>1, <1>2, <1>3, <1>4, <1>5 DEF RegionInv

\* Writing an element takes one task out of the worker's pending ones; no
\* other worker had it, because chunks do not overlap.
LEMMA TaskWrittenInv ==
    ASSUME RegionInv, NEW w \in Worker, TaskWritten(w)
    PROVE  RegionInv'
  <1>1. /\ pc[w] = "run" /\ at[w] \notin Stops
        /\ UNCHANGED <<body, main, started, lane, next, begin, end, holding, failed,
                       stopped_early, failed_at, message, first_ineligible, outcome>>
        /\ writes' = [writes EXCEPT ![at[w]] = @ + 1]
        /\ at' = [at EXCEPT ![w] = @ + 1]
        /\ pc' = [pc EXCEPT ![w] = IF at[w] + 1 < end[w] THEN "run"
                                   ELSE IF w \notin body.forgetful THEN "claim" ELSE "done"]
        /\ AddWarnings(w)
    BY Zenon DEF TaskWritten, driver, reports, Stops
  <1>2. /\ at \in [Worker -> 0..Tasks] /\ end \in [Worker -> 0..Tasks]
        /\ begin \in [Worker -> 0..Tasks] /\ next \in Nat /\ writes \in [Task -> Nat]
        /\ pc \in [Worker -> {"unstarted", "setup", "claim", "run", "done"}]
    BY Zenon DEF RegionInv, TypeOK
  <1>3. TypeOK /\ DriverInv /\ ChunkInv /\ TaskInv /\ ReportInv
    BY Zenon DEF RegionInv
  <1>4. at[w] \in Task /\ at[w] < end[w] /\ w \in holding /\ at[w] \in Nat
    <2>1. w \in holding /\ at[w] < end[w]
      BY Zenon, <1>1, <1>3 DEF ChunkInv
    <2>2. at[w] \in 0..Tasks /\ end[w] \in 0..Tasks
      BY <1>2
    <2> QED
      BY <2>1, <2>2, PlanAssumption DEF Task
  <1>5. /\ at'[w] = at[w] + 1 /\ pc'[w] \in {"run", "claim", "done"}
        /\ pc'[w] = "run" => at[w] + 1 < end[w]
        /\ pc'[w] # "run" => at[w] + 1 = end[w]
        /\ pc'[w] = "done" => w \in body.forgetful
    <2>1. at'[w] = at[w] + 1
      BY <1>1, <1>2
    <2>2. pc'[w] = IF at[w] + 1 < end[w] THEN "run"
                   ELSE IF w \notin body.forgetful THEN "claim" ELSE "done"
      BY <1>1, <1>2
    <2>3. at[w] \in Int /\ end[w] \in Int /\ at[w] < end[w]
      BY <1>2, <1>4
    <2>4. CASE at[w] + 1 < end[w]
      BY <2>1, <2>2, <2>4
    <2>5. CASE ~(at[w] + 1 < end[w])
      <3>1. at[w] + 1 = end[w]
        BY <2>3, <2>5
      <3>2. pc'[w] = IF w \notin body.forgetful THEN "claim" ELSE "done"
        BY <2>2, <2>5
      <3> QED BY <2>1, <3>1, <3>2
    <2> QED BY <2>4, <2>5
  <1>6. \A v \in Worker : v # w => at'[v] = at[v] /\ pc'[v] = pc[v]
    BY <1>1, <1>2
  <1>7. TypeOK'
    <2>1. at' \in [Worker -> 0..Tasks]
      BY <1>1, <1>2, <1>4, PlanAssumption
    <2>2. writes' \in [Task -> Nat]
      BY <1>1, <1>2, <1>4
    <2>3. pc' \in [Worker -> {"unstarted", "setup", "claim", "run", "done"}]
      BY <1>1, <1>2
    <2> QED
      BY <1>1, <1>3, <2>1, <2>2, <2>3, AddWarningsType DEF TypeOK
  <1>8. DriverInv'
    <2>1. main \in {"spawn", "lane", "reduce", "exit"}
      BY Zenon, <1>3 DEF TypeOK
    <2>2. pc[w] # "unstarted" /\ pc[w] # "done"
      BY <1>1
    <2> QED
      BY <1>1, <1>3, <1>6, <2>1, <2>2 DEF DriverInv
  <1>9. ChunkInv'
    BY <1>1, <1>2, <1>3, <1>4, <1>5, <1>6 DEF ChunkInv
  <1>10. TaskInv'
    <2> SUFFICES ASSUME NEW t \in Task
                 PROVE  /\ writes'[t] \in {0, 1}
                        /\ writes'[t] = 1 => t < next' /\ t \notin Stops'
                        /\ t < next' => writes'[t] = 1 \/ \E v \in Worker : Pending(v, t)'
                        /\ \A v \in Worker : Pending(v, t)' => writes'[t] = 0
      BY DEF TaskInv
    <2>1. Stops' = Stops /\ next' = next /\ t \in Nat
      BY <1>1, PlanAssumption DEF Stops, Task
    <2>2. /\ writes[t] \in {0, 1}
          /\ writes[t] = 1 => t < next /\ t \notin Stops
          /\ t < next => writes[t] = 1 \/ \E v \in Worker : Pending(v, t)
          /\ \A v \in Worker : Pending(v, t) => writes[t] = 0
      BY Zenon, <1>3 DEF TaskInv
    <2>3. \A v \in Worker : v # w => (Pending(v, t)' <=> Pending(v, t))
      BY <1>1, <1>6 DEF Pending
    <2>4. Pending(w, t)' <=> Pending(w, t) /\ t # at[w]
      BY <1>1, <1>2, <1>5, <2>1 DEF Pending
    <2>5. CASE t = at[w]
      <3>1. Pending(w, t)
        BY <1>2, <1>4, <2>5 DEF Pending
      <3>2. writes[t] = 0 /\ writes'[t] = 1
        BY <1>1, <1>2, <1>4, <2>2, <2>5, <3>1
      <3>3. t < next
        BY <1>2, <1>3, <1>4, <2>5 DEF ChunkInv
      <3>4. \A v \in Worker : v # w => ~Pending(v, t)
        BY <1>2, <1>3, <1>4, <2>5 DEF ChunkInv, Pending
      <3> QED
        BY <1>1, <2>1, <2>3, <2>4, <2>5, <3>2, <3>3, <3>4
    <2>6. CASE t # at[w]
      <3>1. writes'[t] = writes[t]
        BY <1>1, <1>2, <1>4, <2>6
      <3> QED
        BY <2>1, <2>2, <2>3, <2>4, <2>6, <3>1
    <2> QED
      BY <2>5, <2>6
  <1>11. ReportInv'
    <2>1. w \notin failed /\ w \notin stopped_early /\ w \notin body.setupThrows
      BY <1>1, <1>3 DEF ReportInv, ReportIsTrue
    <2>2. \A v \in Worker : ReportIsTrue(v)
      BY <1>3 DEF ReportInv
    <2>3. ReportIsTrue(w)'
      BY ZenonT(60), <1>1, <1>2, <1>4, <1>5, <2>1, <2>2 DEF ReportIsTrue
    <2>4. ASSUME NEW v \in Worker, v # w PROVE ReportIsTrue(v)'
      BY Zenon, <1>1, <1>6, <2>2, <2>4 DEF ReportIsTrue
    <2> QED
      BY <2>3, <2>4 DEF ReportInv
  <1> QED
    BY <1>7, <1>8, <1>9, <1>10, <1>11 DEF RegionInv

-----------------------------------------------------------------------------
(* The calling thread's steps.                                             *)

\* The workers are numbered from 0.
LEMMA WorkerFacts ==
    /\ 0 \in Worker
    /\ \A n \in Nat : n < Workers <=> n \in Worker
    /\ \A w \in Worker : w \in Nat /\ w < Workers
  BY PlanAssumption DEF Worker

\* A worker is only ever started from "unstarted", so starting one changes
\* nothing that a chunk, a task or a report is known for.
LEMMA StartInv ==
    ASSUME RegionInv, NEW w \in Worker, pc[w] = "unstarted",
           pc' = [pc EXCEPT ![w] = "setup"],
           UNCHANGED <<body, next, contexts, reports, warnings, output>>
    PROVE  ChunkInv' /\ TaskInv' /\ ReportInv'
  <1> USE DEF contexts, reports, warnings, output
  <1>1. ChunkInv'
    BY DEF RegionInv, TypeOK, ChunkInv
  <1>2. TaskInv'
    BY DEF RegionInv, TypeOK, TaskInv, Pending, Stops
  <1>3. ReportInv'
    BY DEF RegionInv, TypeOK, ReportInv, ReportIsTrue
  <1> QED
    BY <1>1, <1>2, <1>3

\* A thread that is started begins with its worker's setup.
LEMMA SpawnWorkerInv ==
    ASSUME RegionInv, SpawnWorker
    PROVE  RegionInv'
  <1> USE WorkerFacts, PlanAssumption DEF SpawnWorker, contexts, reports, warnings, output
  <1>0. started \in Worker /\ started # 0 /\ pc[started] = "unstarted"
    BY DEF RegionInv, TypeOK, DriverInv
  <1>1. TypeOK'
    BY <1>0 DEF RegionInv, TypeOK
  <1>2. DriverInv'
    BY <1>0 DEF RegionInv, TypeOK, DriverInv
  <1>3. ChunkInv' /\ TaskInv' /\ ReportInv'
    BY Zenon, <1>0, StartInv
  <1> QED
    BY <1>1, <1>2, <1>3 DEF RegionInv

\* The caller begins with lane 0, its own.
LEMMA EnterOwnLaneInv ==
    ASSUME RegionInv, EnterOwnLane
    PROVE  RegionInv'
  <1> USE WorkerFacts, PlanAssumption DEF EnterOwnLane, contexts, reports, warnings, output
  <1>0. pc[0] = "unstarted"
    BY DEF RegionInv, DriverInv
  <1>1. TypeOK'
    BY <1>0 DEF RegionInv, TypeOK
  <1>2. DriverInv'
    BY <1>0 DEF RegionInv, TypeOK, DriverInv
  <1>3. ChunkInv' /\ TaskInv' /\ ReportInv'
    BY Zenon, <1>0, StartInv
  <1> QED
    BY <1>1, <1>2, <1>3 DEF RegionInv

\* A lane that no thread was started for is run by the caller.
LEMMA RunInlineInv ==
    ASSUME RegionInv, RunInline
    PROVE  RegionInv'
  <1> USE WorkerFacts, PlanAssumption DEF RunInline, contexts, reports, warnings, output
  <1>0. /\ NextLane \in Worker /\ NextLane >= started /\ NextLane > lane
        /\ pc[NextLane] = "unstarted"
    BY DEF RegionInv, TypeOK, DriverInv, NextLane
  <1>1. TypeOK'
    BY <1>0 DEF RegionInv, TypeOK
  <1>2. DriverInv'
    <2>1. /\ main' = "lane" /\ lane' = NextLane /\ started' = started /\ outcome' = Running
          /\ pc' = [pc EXCEPT ![NextLane] = "setup"]
      BY DEF RegionInv, TypeOK, DriverInv
    <2>2. /\ started \in Nat /\ lane \in Nat /\ started >= 1
          /\ pc \in [Worker -> {"unstarted", "setup", "claim", "run", "done"}]
      BY DEF RegionInv, TypeOK
    <2>3. started <= lane' /\ pc'[0] = "done"
      BY <1>0, <2>1, <2>2 DEF RegionInv, DriverInv, NextLane
    <2>4. ASSUME NEW w \in Worker, started <= w, w < lane' PROVE pc'[w] = "done"
      BY <2>1, <2>2, <2>4 DEF RegionInv, DriverInv, NextLane
    <2>5. ASSUME NEW w \in Worker, started <= w, w > lane' PROVE pc'[w] = "unstarted"
      BY <1>0, <2>1, <2>2, <2>5 DEF RegionInv, DriverInv
    <2> QED
      BY <2>1, <2>3, <2>4, <2>5 DEF DriverInv
  <1>3. ChunkInv' /\ TaskInv' /\ ReportInv'
    BY Zenon, <1>0, StartInv
  <1> QED
    BY <1>1, <1>2, <1>3 DEF RegionInv

\* A step of the driver alone leaves what is known of the workers alone.
LEMMA DriverOnlyInv ==
    ASSUME RegionInv, UNCHANGED <<body, pc, next, contexts, reports, output>>
    PROVE  ChunkInv' /\ TaskInv' /\ ReportInv'
  <1> USE DEF contexts, reports, output
  <1>1. ChunkInv'
    BY DEF RegionInv, ChunkInv
  <1>2. TaskInv'
    BY DEF RegionInv, TaskInv, Pending, Stops
  <1>3. ReportInv'
    BY DEF RegionInv, ReportInv, ReportIsTrue
  <1> QED
    BY <1>1, <1>2, <1>3

\* The join waits for every worker and changes no record.
LEMMA JoinAllInv ==
    ASSUME RegionInv, JoinAll
    PROVE  RegionInv'
  <1> USE WorkerFacts, PlanAssumption DEF JoinAll, contexts, reports, warnings, output
  <1>0. \A w \in Worker : pc[w] = "done"
    <2> SUFFICES ASSUME NEW w \in Worker PROVE pc[w] = "done"
      OBVIOUS
    <2>1. w \in Nat /\ w < Workers /\ started \in Nat /\ lane \in Nat
      BY DEF RegionInv, TypeOK
    <2> QED
      BY <2>1 DEF RegionInv, DriverInv, NextLane
  <1>1. TypeOK'
    BY DEF RegionInv, TypeOK
  <1>2. DriverInv'
    BY <1>0 DEF RegionInv, DriverInv
  <1>3. ChunkInv' /\ TaskInv' /\ ReportInv'
    BY DriverOnlyInv
  <1> QED
    BY <1>1, <1>2, <1>3 DEF RegionInv

\* SerialWarnings::fail_at() never counts more chunks than there are.
LEMMA FailAtInRange ==
    ASSUME NEW position \in -1..Tasks, position < Tasks
    PROVE  fail_at(position) \in 0..ChunkCount
  <1>1. CASE position < 0
    BY <1>1, ChunkCountNat DEF fail_at
  <1>2. CASE position >= 0
    <2> DEFINE q == position \div Chunk
               r == position % Chunk
               Q == Tasks \div Chunk
               R == Tasks % Chunk
    <2>1. /\ q \in Nat /\ r \in 0..(Chunk - 1) /\ position = Chunk * q + r
          /\ Q \in Nat /\ R \in 0..(Chunk - 1) /\ Tasks = Chunk * Q + R
      BY <1>2, PlanAssumption
    <2>2. ChunkCount = Q + (IF R # 0 THEN 1 ELSE 0)
      BY DEF ChunkCount
    <2>3. fail_at(position) = q + 1
      BY <1>2 DEF fail_at
    <2> HIDE DEF q, r, Q, R
    <2>4. q <= Q
      <3>1. CASE q > Q
        <4>1. Chunk * q >= Chunk * (Q + 1)
          BY <2>1, <3>1, PlanAssumption
        <4> QED
          BY <2>1, <4>1, PlanAssumption
      <3> QED BY <2>1, <3>1
    <2>5. q = Q => R # 0
      <3> SUFFICES ASSUME q = Q PROVE R # 0
        OBVIOUS
      <3>1. Chunk * q = Chunk * Q /\ Chunk * q \in Int
        BY <2>1, PlanAssumption
      <3> QED
        BY <2>1, <3>1, PlanAssumption
    <2> QED
      BY <2>1, <2>2, <2>3, <2>4, <2>5
  <1> QED
    BY <1>1, <1>2

\* A failure is recorded at the start of a chunk, or before the first one.
LEMMA FailedInRange ==
    ASSUME RegionInv, NEW w \in failed
    PROVE  failed_at[w] \in -1..Tasks /\ failed_at[w] < Tasks
  <1>1. w \in Worker /\ begin[w] \in 0..Tasks /\ end[w] \in 0..Tasks
    BY DEF RegionInv, TypeOK
  <1>2. /\ w \in holding => failed_at[w] = begin[w]
        /\ w \notin holding => failed_at[w] = -1
    BY Zenon, <1>1 DEF RegionInv, ReportInv, ReportIsTrue
  <1>3. w \in holding => begin[w] < end[w]
    BY ZenonT(60), <1>1 DEF RegionInv, ChunkInv
  <1> QED
    BY <1>1, <1>2, <1>3, PlanAssumption

\* The failure that is raised is one that a worker has recorded.
LEMMA RaiseFailureInv ==
    ASSUME RegionInv, RaiseFailure
    PROVE  RegionInv'
  <1> USE WorkerFacts, PlanAssumption DEF RaiseFailure, contexts, reports, output
  <1>0. PICK w \in Worker :
            /\ FirstFailure(w) /\ outcome' = Raised(message[w])
            /\ counted' = IF Workers = 1 THEN counted ELSE fail_at(failed_at[w])
    OBVIOUS
  <1>1. TypeOK'
    <2>1. failed_at[w] \in -1..Tasks /\ failed_at[w] < Tasks
      BY <1>0, FailedInRange DEF FirstFailure
    <2>2. counted' \in 0..ChunkCount
      BY <1>0, <2>1, FailAtInRange DEF RegionInv, TypeOK
    <2>3. outcome' \in [kind : {"running", "returned", "raised", "logic_error"},
                        message : -1..Tasks]
      BY <1>0 DEF RegionInv, TypeOK, Raised
    <2> QED
      BY <2>2, <2>3 DEF RegionInv, TypeOK
  <1>2. DriverInv'
    BY DEF RegionInv, DriverInv
  <1>3. ChunkInv' /\ TaskInv' /\ ReportInv'
    BY DriverOnlyInv
  <1> QED
    BY <1>1, <1>2, <1>3 DEF RegionInv

\* A region without a failure returns, or complains of a task left out.
LEMMA ReturnOrComplainInv ==
    ASSUME RegionInv, ReturnOrComplain
    PROVE  RegionInv'
  <1> USE WorkerFacts, PlanAssumption DEF ReturnOrComplain, contexts, reports, warnings, output
  <1>1. TypeOK'
    <2>1. outcome' \in [kind : {"running", "returned", "raised", "logic_error"},
                        message : -1..Tasks]
      BY DEF Returned, Undrained
    <2> QED
      BY <2>1 DEF RegionInv, TypeOK
  <1>2. DriverInv'
    BY DEF RegionInv, DriverInv
  <1>3. ChunkInv' /\ TaskInv' /\ ReportInv'
    BY DriverOnlyInv
  <1> QED
    BY <1>1, <1>2, <1>3 DEF RegionInv

\* A step that changes nothing keeps the invariant.
LEMMA StutterInv ==
    ASSUME RegionInv, UNCHANGED vars
    PROVE  RegionInv'
  <1> USE DEF vars, driver, contexts, reports, warnings, output
  <1>1. TypeOK'
    BY DEF RegionInv, TypeOK
  <1>2. DriverInv'
    BY DEF RegionInv, DriverInv
  <1>3. ChunkInv' /\ TaskInv' /\ ReportInv'
    BY DriverOnlyInv
  <1> QED
    BY <1>1, <1>2, <1>3 DEF RegionInv

-----------------------------------------------------------------------------
\* RegionInv holds throughout every region: each task below the cursor of
\* ChunkQueue is accounted for by one worker, and each report points at the
\* task that stopped its worker.
THEOREM RegionInvariant == Spec => []RegionInv
  <1>1. RegionInv /\ [Next]_vars => RegionInv'
    <2> SUFFICES ASSUME RegionInv, [Next]_vars PROVE RegionInv'
      OBVIOUS
    <2>1. CASE MainStep
      BY <2>1, SpawnWorkerInv, EnterOwnLaneInv, RunInlineInv, JoinAllInv,
         RaiseFailureInv, ReturnOrComplainInv DEF MainStep
    <2>2. ASSUME NEW w \in Worker, WorkerStep(w) PROVE RegionInv'
      BY <2>2, SetupInv, SetupThrowsInv, ClaimInv, ClaimNothingInv,
         TaskThrowsInv, TaskRefusedInv, TaskWrittenInv DEF WorkerStep
    <2>3. CASE Exited \/ UNCHANGED vars
      BY <2>3, StutterInv DEF Exited
    <2> QED
      BY <2>1, <2>2, <2>3 DEF Next
  <1> QED
    BY <1>1, InitInv, PTL DEF Spec

\* The type invariant of ParallelRegion.
THEOREM TypeInvariant == Spec => []TypeOK
  <1>1. RegionInv => TypeOK
    BY DEF RegionInv
  <1> QED
    BY <1>1, RegionInvariant, PTL

\* run_region() has joined every worker before it returns or throws.
THEOREM RegionJoins == Spec => []JoinedBeforeExit
  <1>1. RegionInv => JoinedBeforeExit
    BY DEF RegionInv, DriverInv, JoinedBeforeExit
  <1> QED
    BY <1>1, RegionInvariant, PTL

\* Workers never share a task, and no output element is written twice.
THEOREM WritesAreExclusive == Spec => []OneWorkerPerTask
  <1>1. RegionInv => OneWorkerPerTask
    <2> SUFFICES ASSUME RegionInv, NEW t \in Task
                 PROVE  /\ writes[t] <= 1
                        /\ \A v, w \in Worker : Holds(v, t) /\ Holds(w, t) => v = w
      BY DEF OneWorkerPerTask
    <2>1. writes[t] <= 1
      BY DEF RegionInv, TaskInv
    <2>2. ASSUME NEW v \in Worker, NEW w \in Worker, Holds(v, t), Holds(w, t), v # w
          PROVE  FALSE
      <3>1. end[v] <= begin[w] \/ end[w] <= begin[v]
        BY ZenonT(60), <2>2 DEF RegionInv, ChunkInv, Holds
      <3>2. t \in Int /\ begin[v] \in Int /\ begin[w] \in Int /\ end[v] \in Int /\ end[w] \in Int
        BY DEF RegionInv, TypeOK, Task
      <3> QED
        BY <2>2, <3>1, <3>2 DEF Holds
    <2> QED
      BY <2>1, <2>2
  <1> QED
    BY <1>1, RegionInvariant, PTL

-----------------------------------------------------------------------------
(* Induction, from a least counterexample.                                 *)

\* A set of naturals that is not empty has a least element.
LEMMA LeastNatural ==
    ASSUME NEW T, T \subseteq Nat, T # {}
    PROVE  \E x \in T : \A y \in T : x <= y
  <1> DEFINE R == {ss \in Nat \X Nat : ss[1] < ss[2]}
  <1>1. IsWellFoundedOn(R, Nat)
    BY Zenon, NatLessThanWellFounded DEF OpToRel
  <1>2. ASSUME NEW x \in Nat, NEW y \in Nat, y < x PROVE <<y, x>> \in R
    BY <1>2
  <1> HIDE DEF R
  <1>3. PICK x \in T : \A y \in T : ~(<<y, x>> \in R)
    BY <1>1, WFMin, Zenon
  <1>4. ASSUME NEW y \in T PROVE x <= y
    <2>1. x \in Nat /\ y \in Nat /\ ~(y < x)
      BY Zenon, <1>2, <1>3
    <2> QED BY <2>1
  <1> QED
    BY <1>4

\* A set that holds 0, and with k also k + 1, holds all of 0..n.
LEMMA UpTo ==
    ASSUME NEW n \in Nat, NEW S, 0 \in S, \A k \in 0..(n - 1) : k \in S => k + 1 \in S
    PROVE  \A k \in 0..n : k \in S
  <1> DEFINE T == {k \in 0..n : k \notin S}
  <1> SUFFICES ASSUME T # {} PROVE FALSE
    OBVIOUS
  <1>1. T \subseteq Nat
    OBVIOUS
  <1>2. PICK x \in T : \A y \in T : x <= y
    BY Zenon, <1>1, LeastNatural
  <1> QED
    BY <1>2

-----------------------------------------------------------------------------
(* Total, the loop of SerialWarnings::count().                             *)

Sums(s, f, n) ==
    \A i \in 0..n : s[i] = IF i = 0 THEN 0 ELSE s[i - 1] + f[i - 1]

\* The running sums that Total is defined by exist, and Total is the last.
LEMMA TotalSums ==
    ASSUME NEW n \in Nat, NEW f, \A i \in 0..(n - 1) : f[i] \in Nat
    PROVE  \E s \in [0..n -> Nat] : Sums(s, f, n) /\ Total(f, n) = s[n]
  <1> DEFINE S == {k \in Nat : \E s \in [0..k -> Nat] : Sums(s, f, k)}
  <1>1. 0 \in S
    <2> DEFINE z == [k \in 0..0 |-> 0]
    <2>1. z \in [0..0 -> Nat] /\ z[0] = 0
      OBVIOUS
    <2> HIDE DEF z
    <2>2. Sums(z, f, 0)
      BY <2>1 DEF Sums
    <2> QED BY <2>1, <2>2, Zenon
  <1>2. ASSUME NEW k \in 0..(n - 1), k \in S PROVE k + 1 \in S
    <2>1. PICK s \in [0..k -> Nat] : Sums(s, f, k)
      BY <1>2, Zenon
    <2> DEFINE t == [i \in 0..(k + 1) |-> IF i = k + 1 THEN s[k] + f[k] ELSE s[i]]
    <2>2. t \in [0..(k + 1) -> Nat]
      BY <2>1
    <2>3. t[k + 1] = s[k] + f[k] /\ \A i \in 0..k : t[i] = s[i]
      OBVIOUS
    <2> HIDE DEF t
    <2>4. ASSUME NEW i \in 0..(k + 1) PROVE t[i] = IF i = 0 THEN 0 ELSE t[i - 1] + f[i - 1]
      <3>1. CASE i = 0
        BY <2>1, <2>3, <3>1 DEF Sums
      <3>2. CASE i = k + 1
        <4>1. t[i] = s[k] + f[k] /\ t[k] = s[k] /\ i # 0 /\ i - 1 = k
          BY <2>3, <3>2
        <4> QED BY <4>1
      <3>3. CASE i # 0 /\ i # k + 1
        <4>1. i \in 0..k /\ i - 1 \in 0..k
          BY <3>3
        <4> QED BY <2>1, <2>3, <3>3, <4>1 DEF Sums
      <3> QED BY <3>1, <3>2, <3>3
    <2>5. Sums(t, f, k + 1)
      BY <2>4 DEF Sums
    <2>6. k + 1 \in Nat
      OBVIOUS
    <2> QED BY <2>2, <2>5, <2>6, Zenon
  <1> HIDE DEF S
  <1>3. n \in S
    <2>1. n \in 0..n
      OBVIOUS
    <2> QED BY <1>1, <1>2, <2>1, UpTo
  <1>4. PICK s \in [0..n -> Nat] : Sums(s, f, n)
    BY <1>3, Zenon DEF S
  <1> DEFINE Defines(u) == u = [k \in 0..n |-> IF k = 0 THEN 0 ELSE u[k - 1] + f[k - 1]]
             sum == CHOOSE u : Defines(u)
  <1>5. Defines(s)
    BY <1>4 DEF Sums
  <1>6. Defines(sum)
    BY <1>5, Zenon
  <1>7. Total(f, n) = sum[n]
    BY DEF Total
  <1> HIDE DEF sum
  <1>8. \A k \in 0..n : sum[k] = IF k = 0 THEN 0 ELSE sum[k - 1] + f[k - 1]
    BY <1>6
  <1> DEFINE E == {k \in 0..n : sum[k] = s[k]}
  <1>9. \A k \in 0..n : k \in E
    <2>1. 0 \in E
      BY <1>4, <1>8 DEF Sums
    <2>2. ASSUME NEW k \in 0..(n - 1), k \in E PROVE k + 1 \in E
      <3>1. k + 1 \in 0..n /\ k + 1 # 0 /\ (k + 1) - 1 = k
        OBVIOUS
      <3>2. sum[k + 1] = sum[k] + f[k]
        BY <1>8, <3>1
      <3>3. s[k + 1] = s[k] + f[k]
        BY <1>4, <3>1 DEF Sums
      <3> QED BY <2>2, <3>1, <3>2, <3>3
    <2> HIDE DEF E
    <2> QED BY Zenon, <2>1, <2>2, UpTo
  <1>10. sum[n] = s[n]
    <2>1. n \in 0..n
      OBVIOUS
    <2> QED BY <1>9, <2>1
  <1> QED
    BY <1>4, <1>7, <1>10

\* Total is whatever starts at 0 and grows by each counter.
LEMMA TotalIs ==
    ASSUME NEW n \in Nat, NEW f, \A i \in 0..(n - 1) : f[i] \in Nat,
           NEW g, g[0] = 0, \A i \in 0..(n - 1) : g[i + 1] = g[i] + f[i]
    PROVE  Total(f, n) = g[n]
  <1>1. PICK s \in [0..n -> Nat] : Sums(s, f, n) /\ Total(f, n) = s[n]
    BY Zenon, TotalSums
  <1> DEFINE E == {k \in 0..n : s[k] = g[k]}
  <1>2. 0 \in E
    BY <1>1 DEF Sums
  <1>3. ASSUME NEW k \in 0..(n - 1), k \in E PROVE k + 1 \in E
    <2>1. k + 1 \in 0..n /\ k + 1 # 0 /\ (k + 1) - 1 = k
      OBVIOUS
    <2>2. s[k + 1] = s[k] + f[k]
      BY <1>1, <2>1 DEF Sums
    <2> QED BY <1>3, <2>1, <2>2
  <1> HIDE DEF E
  <1>4. n \in E
    <2>1. n \in 0..n
      OBVIOUS
    <2> QED BY Zenon, <1>2, <1>3, <2>1, UpTo
  <1> QED
    BY <1>1, <1>4 DEF E

\* Total is a natural number, and positive exactly if some counter is.
LEMMA TotalPositive ==
    ASSUME NEW n \in Nat, NEW f, \A i \in 0..(n - 1) : f[i] \in Nat
    PROVE  /\ Total(f, n) \in Nat
           /\ Total(f, n) > 0 <=> \E i \in 0..(n - 1) : f[i] > 0
  <1>1. PICK s \in [0..n -> Nat] : Sums(s, f, n) /\ Total(f, n) = s[n]
    BY Zenon, TotalSums
  <1> DEFINE Some(k) == \E i \in 0..(k - 1) : f[i] > 0
             E == {k \in 0..n : s[k] > 0 <=> Some(k)}
  <1>2. 0 \in E
    BY <1>1 DEF Sums
  <1>3. ASSUME NEW k \in 0..(n - 1), k \in E PROVE k + 1 \in E
    <2>1. k + 1 \in 0..n /\ k + 1 # 0 /\ (k + 1) - 1 = k /\ k \in 0..n
      OBVIOUS
    <2>2. s[k + 1] = s[k] + f[k] /\ s[k] \in Nat /\ f[k] \in Nat
      BY <1>1, <2>1 DEF Sums
    <2>3. Some(k + 1) <=> Some(k) \/ f[k] > 0
      <3>1. 0..((k + 1) - 1) = 0..(k - 1) \cup {k}
        OBVIOUS
      <3> QED BY <3>1, Zenon
    <2>4. s[k + 1] > 0 <=> s[k] > 0 \/ f[k] > 0
      BY <2>2
    <2>5. s[k] > 0 <=> Some(k)
      BY <1>3, Zenon
    <2> QED BY <2>1, <2>3, <2>4, <2>5, Zenon
  <1> HIDE DEF E
  <1>4. n \in E
    <2>1. n \in 0..n
      OBVIOUS
    <2> QED BY Zenon, <1>2, <1>3, <2>1, UpTo
  <1>5. s[n] > 0 <=> Some(n)
    BY <1>4, Zenon DEF E
  <1>6. s[n] \in Nat
    BY <1>1
  <1> QED
    BY <1>1, <1>5, <1>6, Zenon

\* Counters that each count the members of a set with their own key add up to
\* the number of members with a key below the cut.
LEMMA TotalCounts ==
    ASSUME NEW n \in Nat, NEW f, NEW S, IsFiniteSet(S), NEW key \in [S -> Nat],
           \A i \in 0..(n - 1) : f[i] = Cardinality({x \in S : key[x] = i})
    PROVE  Total(f, n) = Cardinality({x \in S : key[x] < n})
  <1> DEFINE Below(k) == {x \in S : key[x] < k}
             At(k) == {x \in S : key[x] = k}
             g == [k \in 0..n |-> Cardinality(Below(k))]
  <1>1. \A k : IsFiniteSet(Below(k)) /\ IsFiniteSet(At(k))
    BY FS_Subset
  <1>2. g[0] = 0
    <2>1. Below(0) = {}
      OBVIOUS
    <2>2. g[0] = Cardinality(Below(0))
      OBVIOUS
    <2> QED BY <2>1, <2>2, FS_EmptySet
  <1>3. ASSUME NEW i \in 0..(n - 1) PROVE g[i + 1] = g[i] + f[i] /\ f[i] \in Nat
    <2>1. Below(i + 1) = Below(i) \cup At(i) /\ Below(i) \cap At(i) = {}
      OBVIOUS
    <2>2. /\ Cardinality(Below(i) \cup At(i))
              = Cardinality(Below(i)) + Cardinality(At(i)) - Cardinality(Below(i) \cap At(i))
          /\ Cardinality(Below(i)) \in Nat /\ Cardinality(At(i)) \in Nat
      BY Zenon, <1>1, FS_Union, FS_CardinalityType
    <2>3. Cardinality({}) = 0
      BY FS_EmptySet
    <2>4. g[i + 1] = Cardinality(Below(i + 1)) /\ g[i] = Cardinality(Below(i))
      OBVIOUS
    <2>5. f[i] = Cardinality(At(i))
      OBVIOUS
    <2> HIDE DEF Below, At, g
    <2> QED BY <2>1, <2>2, <2>3, <2>4, <2>5
  <1>4. g[n] = Cardinality(Below(n))
    OBVIOUS
  <1> HIDE DEF g
  <1> QED
    BY <1>2, <1>3, <1>4, TotalIs

-----------------------------------------------------------------------------
(* The cursor.                                                             *)

\* The chunk a task belongs to, as SerialWarnings::add() computes it.
LEMMA ChunkOf ==
    ASSUME NEW t \in Nat, NEW k \in Nat, k * Chunk <= t, t < k * Chunk + Chunk
    PROVE  t \div Chunk = k
  <1> DEFINE q == t \div Chunk
             r == t % Chunk
  <1>1. Chunk \in Nat \ {0}
    BY PlanAssumption
  <1>2. q \in Nat /\ r \in 0..(Chunk - 1) /\ t = Chunk * q + r
    BY <1>1
  <1> HIDE DEF q, r
  <1>3. ~(q < k)
    <2> SUFFICES ASSUME q + 1 <= k PROVE FALSE
      BY <1>2
    <2>1. (q + 1) * Chunk <= k * Chunk
      BY <1>1, <1>2
    <2> QED BY <1>1, <1>2, <2>1
  <1>4. ~(k < q)
    <2> SUFFICES ASSUME k + 1 <= q PROVE FALSE
      BY <1>2
    <2>1. (k + 1) * Chunk <= q * Chunk
      BY <1>1, <1>2
    <2> QED BY <1>1, <1>2, <2>1
  <1>5. q = k
    BY <1>2, <1>3, <1>4
  <1> QED
    BY <1>5 DEF q

\* There are just enough chunks for the tasks.
LEMMA EnoughChunks ==
    /\ ChunkCount \in Nat
    /\ Tasks <= ChunkCount * Chunk
    /\ \A k \in Nat : k * Chunk < Tasks => k < ChunkCount
  <1> DEFINE q == Tasks \div Chunk
             r == Tasks % Chunk
  <1>1. Chunk \in Nat \ {0} /\ Tasks \in Nat
    BY PlanAssumption
  <1>2. q \in Nat /\ r \in 0..(Chunk - 1) /\ Tasks = Chunk * q + r
    BY <1>1
  <1>3. ChunkCount = q + (IF r # 0 THEN 1 ELSE 0)
    BY DEF ChunkCount
  <1> HIDE DEF q, r
  <1>4. Tasks <= ChunkCount * Chunk
    BY <1>1, <1>2, <1>3
  <1>5. ASSUME NEW k \in Nat, k * Chunk < Tasks PROVE k < ChunkCount
    <2> SUFFICES ASSUME ChunkCount <= k PROVE FALSE
      BY <1>2, <1>3
    <2>1. ChunkCount * Chunk <= k * Chunk
      BY <1>1, <1>2, <1>3
    <2>2. ChunkCount * Chunk \in Nat /\ k * Chunk \in Nat
      BY <1>1, <1>2, <1>3
    <2> QED BY <1>1, <1>4, <1>5, <2>1, <2>2
  <1> QED
    BY <1>2, <1>3, <1>4, <1>5

\* The finished workers of a crew are finitely many, and so countable.
LEMMA FinishedIsFinite ==
    /\ IsFiniteSet(Finished) /\ Cardinality(Finished) \in Nat
    /\ Cardinality(Finished) <= Workers
  <1>1. IsFiniteSet(Worker) /\ Cardinality(Worker) = Workers
    BY PlanAssumption, FS_Interval DEF Worker
  <1>2. Finished \in SUBSET Worker
    BY DEF Finished
  <1> QED
    BY <1>1, <1>2, FS_Subset, FS_CardinalityType

\* A step that claims nothing and restarts no worker.
LEMMA CursorKept ==
    ASSUME CursorInv, UNCHANGED <<next, begin, end, holding>>, Finished \subseteq Finished'
    PROVE  CursorInv'
  <1>1. /\ IsFiniteSet(Finished) /\ Cardinality(Finished) \in Nat
        /\ IsFiniteSet(Finished') /\ Cardinality(Finished') \in Nat
    <2>1. IsFiniteSet(Worker)
      BY PlanAssumption, FS_Interval DEF Worker
    <2>2. Finished' \in SUBSET Worker
      BY DEF Finished
    <2> QED BY <2>1, <2>2, FinishedIsFinite, FS_Subset, FS_CardinalityType
  <1>2. Cardinality(Finished) <= Cardinality(Finished')
    BY <1>1, FS_Subset
  <1>3. PICK k \in 0..(ChunkCount + Cardinality(Finished)) : next = k * Chunk
    BY DEF CursorInv
  <1>4. k \in 0..(ChunkCount + Cardinality(Finished'))
    BY <1>1, <1>2, <1>3, EnoughChunks
  <1>5. \E j \in 0..(ChunkCount + Cardinality(Finished')) : next' = j * Chunk
    BY <1>3, <1>4
  <1> QED
    BY <1>5, Zenon DEF CursorInv

\* A claim takes the chunk at the cursor and moves the cursor by one.
LEMMA ClaimCursor ==
    ASSUME RegionInv, CursorInv, NEW w \in Worker, Claim(w)
    PROVE  CursorInv'
  <1>1. /\ pc[w] = "claim" /\ next < Tasks /\ next' = next + Chunk
        /\ begin' = [begin EXCEPT ![w] = next]
        /\ end' = [end EXCEPT ![w] = IF Tasks - next < Chunk THEN Tasks ELSE next + Chunk]
        /\ holding' = holding \cup {w}
        /\ pc' = [pc EXCEPT ![w] = "run"]
    BY ZenonT(60) DEF Claim
  <1>2. /\ Chunk \in Nat \ {0} /\ Tasks \in Nat /\ next \in Nat
        /\ pc \in [Worker -> {"unstarted", "setup", "claim", "run", "done"}]
        /\ begin \in [Worker -> 0..Tasks] /\ end \in [Worker -> 0..Tasks]
        /\ holding \subseteq Worker
    BY PlanAssumption DEF RegionInv, TypeOK
  <1>3. Finished' = Finished
    BY <1>1, <1>2 DEF Finished
  <1>4. PICK k \in 0..(ChunkCount + Cardinality(Finished)) : next = k * Chunk
    BY ZenonT(60) DEF CursorInv
  <1>5. k \in Nat /\ k < ChunkCount
    BY <1>1, <1>4, EnoughChunks, FinishedIsFinite
  <1>6. \E j \in 0..(ChunkCount + Cardinality(Finished')) : next' = j * Chunk
    <2>1. k + 1 \in 0..(ChunkCount + Cardinality(Finished')) /\ next' = (k + 1) * Chunk
      BY <1>1, <1>2, <1>3, <1>4, <1>5, EnoughChunks, FinishedIsFinite
    <2> QED BY <2>1
  <1>7. ASSUME NEW v \in holding'
        PROVE  \E j \in ChunkIndex :
                   /\ begin'[v] = j * Chunk /\ end'[v] <= j * Chunk + Chunk
                   /\ end'[v] = Tasks \/ end'[v] = j * Chunk + Chunk
    <2>1. CASE v = w
      <3>1. k \in ChunkIndex
        BY <1>5, EnoughChunks DEF ChunkIndex
      <3>2. /\ begin'[w] = k * Chunk /\ end'[w] <= k * Chunk + Chunk
            /\ end'[w] = Tasks \/ end'[w] = k * Chunk + Chunk
        BY <1>1, <1>2, <1>4
      <3> QED BY <2>1, <3>1, <3>2
    <2>2. CASE v # w
      <3>1. v \in holding /\ begin'[v] = begin[v] /\ end'[v] = end[v]
        BY <1>1, <1>2, <1>7, <2>2
      <3> QED BY <3>1 DEF CursorInv
    <2> QED BY ZenonT(60), <2>1, <2>2
  <1>8. ASSUME NEW t \in Task, t < next' PROVE \E v \in holding' : t < end'[v]
    <2>0. t \in Nat /\ t < Tasks
      BY <1>2 DEF Task
    <2>1. w \in holding' /\ end'[w] = IF Tasks - next < Chunk THEN Tasks ELSE next + Chunk
      BY <1>1, <1>2
    <2>2. t < end'[w]
      BY <1>1, <1>2, <1>8, <2>0, <2>1
    <2> QED BY <2>1, <2>2
  <1> QED
    BY <1>6, <1>7, <1>8, Zenon DEF CursorInv

\* A claim behind the last chunk moves the cursor once more and ends its worker.
LEMMA ClaimNothingCursor ==
    ASSUME RegionInv, CursorInv, NEW w \in Worker, ClaimNothing(w)
    PROVE  CursorInv'
  <1>1. /\ pc[w] = "claim" /\ next >= Tasks /\ next' = next + Chunk
        /\ pc' = [pc EXCEPT ![w] = "done"]
        /\ begin' = begin /\ end' = end /\ holding' = holding
    BY ZenonT(60) DEF ClaimNothing, contexts
  <1>2. /\ Chunk \in Nat \ {0} /\ Tasks \in Nat /\ next \in Nat
        /\ pc \in [Worker -> {"unstarted", "setup", "claim", "run", "done"}]
    BY PlanAssumption DEF RegionInv, TypeOK
  <1>3. Finished' = Finished \cup {w} /\ w \notin Finished
    BY <1>1, <1>2 DEF Finished
  <1>4. Cardinality(Finished') = Cardinality(Finished) + 1
    BY <1>3, FinishedIsFinite, FS_AddElement
  <1>5. PICK k \in 0..(ChunkCount + Cardinality(Finished)) : next = k * Chunk
    BY Zenon DEF CursorInv
  <1>6. k + 1 \in 0..(ChunkCount + Cardinality(Finished')) /\ next' = (k + 1) * Chunk
    BY <1>1, <1>2, <1>4, <1>5, EnoughChunks, FinishedIsFinite
  <1>7. \E j \in 0..(ChunkCount + Cardinality(Finished')) : next' = j * Chunk
    BY <1>6
  <1>8. ASSUME NEW t \in Task PROVE t < next
    BY <1>1, <1>2 DEF Task
  <1>9. \A t \in Task : t < next' => \E v \in holding' : t < end'[v]
    BY <1>1, <1>8, Zenon DEF CursorInv
  <1>10. \A v \in holding' :
            \E j \in ChunkIndex :
                /\ begin'[v] = j * Chunk /\ end'[v] <= j * Chunk + Chunk
                /\ end'[v] = Tasks \/ end'[v] = j * Chunk + Chunk
    BY <1>1, Zenon DEF CursorInv
  <1> QED
    BY <1>7, <1>9, <1>10, Zenon DEF CursorInv

\* The cursor moves by whole chunks, and every chunk a worker holds is one.
LEMMA CursorInvariant == Spec => []CursorInv
  <1>1. Init => CursorInv
    <2> SUFFICES ASSUME Init PROVE CursorInv
      OBVIOUS
    <2>1. next = 0 /\ holding = {}
      BY DEF Init
    <2>2. 0 \in 0..(ChunkCount + Cardinality(Finished)) /\ next = 0 * Chunk
      BY <2>1, EnoughChunks, FinishedIsFinite, PlanAssumption
    <2>3. \A t \in Task : ~(t < next)
      BY <2>1 DEF Task
    <2> QED BY <2>1, <2>2, <2>3 DEF CursorInv
  <1>2. RegionInv /\ CursorInv /\ [Next]_vars => CursorInv'
    <2> SUFFICES ASSUME RegionInv, CursorInv, [Next]_vars PROVE CursorInv'
      OBVIOUS
    <2>0. pc \in [Worker -> {"unstarted", "setup", "claim", "run", "done"}]
      BY DEF RegionInv, TypeOK
    <2>1. ASSUME NEW w \in Worker, pc[w] # "done", NEW v, pc' = [pc EXCEPT ![w] = v],
                 UNCHANGED <<next, begin, end, holding>>
          PROVE  CursorInv'
      <3>1. Finished \subseteq Finished'
        BY <2>0, <2>1 DEF Finished
      <3> QED BY <2>1, <3>1, CursorKept
    <2>2. ASSUME UNCHANGED <<pc, next, begin, end, holding>> PROVE CursorInv'
      BY <2>2, CursorKept DEF Finished
    <2>3. ASSUME NEW w \in Worker, WorkerStep(w) PROVE CursorInv'
      <3>1. CASE Claim(w)
        BY <3>1, ClaimCursor
      <3>2. CASE ClaimNothing(w)
        BY <3>2, ClaimNothingCursor
      <3>3. CASE Setup(w) \/ SetupThrows(w) \/ TaskThrows(w) \/ TaskRefused(w)
                   \/ TaskWritten(w)
        <4>1. UNCHANGED <<next, begin, end, holding>> /\ pc[w] # "done"
          BY <3>3, Zenon DEF Setup, SetupThrows, TaskThrows, TaskRefused, TaskWritten, contexts
        <4>2. \E v : pc' = [pc EXCEPT ![w] = v]
          BY <3>3, Zenon DEF Setup, SetupThrows, TaskThrows, TaskRefused, TaskWritten, Report
        <4> QED BY Zenon, <2>1, <4>1, <4>2
      <3> QED BY <2>3, <3>1, <3>2, <3>3 DEF WorkerStep
    <2>4. CASE SpawnWorker
      <3>1. started \in Worker /\ pc[started] = "unstarted"
        BY <2>4, PlanAssumption DEF SpawnWorker, RegionInv, TypeOK, DriverInv, Worker
      <3> QED BY ZenonT(60), <2>1, <2>4, <3>1 DEF SpawnWorker, contexts
    <2>5. CASE EnterOwnLane
      <3>1. 0 \in Worker /\ pc[0] = "unstarted"
        BY <2>5, WorkerFacts DEF EnterOwnLane, RegionInv, DriverInv
      <3> QED BY ZenonT(60), <2>1, <2>5, <3>1 DEF EnterOwnLane, contexts
    <2>6. CASE RunInline
      <3>1. NextLane \in Worker /\ NextLane >= started /\ NextLane > lane
              /\ pc[NextLane] = "unstarted"
        BY <2>6, WorkerFacts, PlanAssumption
           DEF RunInline, RegionInv, TypeOK, DriverInv, NextLane
      <3> QED BY ZenonT(60), <2>1, <2>6, <3>1 DEF RunInline, contexts
    <2>7. CASE JoinAll \/ RaiseFailure \/ ReturnOrComplain \/ Exited \/ UNCHANGED vars
      <3>1. UNCHANGED <<pc, next, begin, end, holding>>
        BY <2>7, Zenon DEF JoinAll, RaiseFailure, ReturnOrComplain, Exited, vars, contexts
      <3> QED BY <2>2, <3>1
    <2> QED
      BY <2>3, <2>4, <2>5, <2>6, <2>7 DEF Next, MainStep
  <1> QED
    BY <1>1, <1>2, RegionInvariant, PTL DEF Spec

\* ChunkQueue::next_ passes the end of the tasks by at most one chunk for each
\* worker, for every cut and every interleaving: a worker whose claim fails is
\* done.
THEOREM CursorIsBounded == Spec => []CursorStaysBounded
  <1>1. CursorInv => CursorStaysBounded
    <2> SUFFICES ASSUME CursorInv PROVE CursorStaysBounded
      OBVIOUS
    <2>1. PICK k \in 0..(ChunkCount + Cardinality(Finished)) : next = k * Chunk
      BY DEF CursorInv
    <2>2. k \in Nat /\ k <= ChunkCount + Workers
      BY <2>1, EnoughChunks, FinishedIsFinite, PlanAssumption
    <2>3. k * Chunk <= (ChunkCount + Workers) * Chunk
      BY <2>2, EnoughChunks, PlanAssumption
    <2> QED BY <2>1, <2>3 DEF CursorStaysBounded
  <1> QED
    BY <1>1, CursorInvariant, PTL

-----------------------------------------------------------------------------
(* Tasks and chunks.                                                       *)

\* The facts of a worker's type that the steps below use.
LEMMA WorkerTypes ==
    ASSUME RegionInv
    PROVE  /\ Chunk \in Nat \ {0} /\ Tasks \in Nat /\ next \in Nat
           /\ pc \in [Worker -> {"unstarted", "setup", "claim", "run", "done"}]
           /\ begin \in [Worker -> 0..Tasks] /\ end \in [Worker -> 0..Tasks]
           /\ at \in [Worker -> 0..Tasks]
           /\ holding \subseteq Worker /\ opened \subseteq Worker
           /\ failed \subseteq Worker /\ stopped_early \subseteq Worker
           /\ setup_warnings \in [Worker -> Nat] /\ chunk_warnings \in [ChunkIndex -> Nat]
           /\ body.warns \subseteq Task /\ body.lazy \subseteq Task
  BY PlanAssumption DEF RegionInv, TypeOK, Body

\* A later task belongs to a later chunk.
LEMMA ChunksAscend ==
    ASSUME NEW a \in Nat, NEW b \in Nat, a <= b
    PROVE  a \div Chunk <= b \div Chunk /\ a \div Chunk \in Nat /\ b \div Chunk \in Nat
  <1> DEFINE p == a \div Chunk
             q == b \div Chunk
             r == a % Chunk
             s == b % Chunk
  <1>1. Chunk \in Nat \ {0}
    BY PlanAssumption
  <1>2. /\ p \in Nat /\ r \in 0..(Chunk - 1) /\ a = Chunk * p + r
        /\ q \in Nat /\ s \in 0..(Chunk - 1) /\ b = Chunk * q + s
    BY <1>1
  <1> HIDE DEF p, q, r, s
  <1>3. ~(q < p)
    <2> SUFFICES ASSUME q + 1 <= p PROVE FALSE
      BY <1>2
    <2>1. (q + 1) * Chunk <= p * Chunk
      BY <1>1, <1>2
    <2> QED BY <1>1, <1>2, <2>1
  <1>4. p <= q /\ p \in Nat /\ q \in Nat
    BY <1>2, <1>3
  <1> QED
    BY <1>4 DEF p, q

\* The tasks that stop a worker are numbered like the others.
LEMMA StopTypes ==
    ASSUME RegionInv
    PROVE  Stops \subseteq Task /\ Stops \subseteq Nat /\ Task \subseteq Nat
  <1>1. body.throws \subseteq Task /\ body.refuses \subseteq Task
    BY DEF RegionInv, TypeOK, Body
  <1>2. Task \subseteq Nat
    BY PlanAssumption DEF Task
  <1> QED
    BY <1>1, <1>2, ZenonT(60) DEF Stops

\* Every task has a counter, and the tasks of a chunk that is held share it.
LEMMA TaskChunk ==
    ASSUME NEW t \in Task
    PROVE  t \div Chunk \in ChunkIndex
  <1> DEFINE q == t \div Chunk
             r == t % Chunk
  <1>1. Chunk \in Nat \ {0} /\ Tasks \in Nat /\ t \in Nat /\ t < Tasks
    BY PlanAssumption DEF Task
  <1>2. q \in Nat /\ r \in 0..(Chunk - 1) /\ t = Chunk * q + r
    BY <1>1
  <1> HIDE DEF q, r
  <1>3. q * Chunk < Tasks
    BY <1>1, <1>2
  <1>4. q < ChunkCount
    BY <1>2, <1>3, EnoughChunks
  <1>5. q \in ChunkIndex
    BY <1>2, <1>4, EnoughChunks DEF ChunkIndex
  <1> QED
    BY <1>5 DEF q

\* A task lies before the end of a worker's chunk exactly if it is of that chunk.
LEMMA HeldChunk ==
    ASSUME RegionInv, CursorInv, NEW w \in holding, NEW t \in Task, begin[w] <= t
    PROVE  t < end[w] <=> t \div Chunk = begin[w] \div Chunk
  <1>1. /\ Chunk \in Nat \ {0} /\ Tasks \in Nat /\ t \in Nat /\ t < Tasks
        /\ begin[w] \in 0..Tasks /\ end[w] \in 0..Tasks
    BY WorkerTypes DEF Task
  <1>2. PICK k \in ChunkIndex :
            /\ begin[w] = k * Chunk /\ end[w] <= k * Chunk + Chunk
            /\ end[w] = Tasks \/ end[w] = k * Chunk + Chunk
    BY DEF CursorInv
  <1>3. k \in Nat /\ k * Chunk \in Nat
    BY <1>1, EnoughChunks DEF ChunkIndex
  <1>4. begin[w] \div Chunk = k
    <2>1. begin[w] \in Nat /\ k * Chunk <= begin[w] /\ begin[w] < k * Chunk + Chunk
      BY <1>1, <1>2, <1>3
    <2> QED BY <1>3, <2>1, ChunkOf
  <1>5. ASSUME t < end[w] PROVE t \div Chunk = k
    <2>1. k * Chunk <= t /\ t < k * Chunk + Chunk
      BY <1>1, <1>2, <1>3, <1>5
    <2> QED BY <1>1, <1>3, <2>1, ChunkOf
  <1>6. ASSUME ~(t < end[w]) PROVE t \div Chunk # k
    <2>1. (k + 1) * Chunk <= t
      BY <1>1, <1>2, <1>3, <1>6
    <2>2. (k + 1) * Chunk \in Nat /\ ((k + 1) * Chunk) \div Chunk = k + 1
      <3>1. /\ (k + 1) * Chunk \in Nat /\ k + 1 \in Nat
            /\ (k + 1) * Chunk <= (k + 1) * Chunk
            /\ (k + 1) * Chunk < (k + 1) * Chunk + Chunk
        BY <1>1, <1>3
      <3> QED BY <3>1, ChunkOf
    <2>3. k + 1 <= t \div Chunk /\ t \div Chunk \in Nat
      BY <1>1, <2>1, <2>2, ChunksAscend
    <2> QED BY <1>3, <2>3
  <1> QED
    BY <1>4, <1>5, <1>6

=============================================================================
