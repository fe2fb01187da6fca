--------------------------- MODULE ParallelRegion ---------------------------
(***************************************************************************)
(* run_region() of src/shared/parallel.cpp: one ParallelBody run over      *)
(* [0, Tasks) by the calling thread and Workers - 1 spawned threads, which *)
(* draw chunks of Chunk tasks from a shared cursor; the join; the choice   *)
(* of the failure to raise; and SerialWarnings, which counts the warnings  *)
(* a serial run would have raised.                                         *)
(*                                                                         *)
(* What the operation's body does at each task is an input, chosen once    *)
(* and then fixed (see Body).  A worker's step at one task touches only    *)
(* its own report, its own chunk's warning counter and its own output      *)
(* element, so it is one action; the shared cursor is one atomic           *)
(* fetch_add, so a claim is one action.                                    *)
(***************************************************************************)
EXTENDS Integers, FiniteSets

CONSTANTS
    Tasks,      \* the length of the task range
    Chunk,      \* plan.chunk
    Workers,    \* plan.workers; 1 is the serial plan
    Bodies      \* the bodies considered

Worker == 0..(Workers - 1)
Task == 0..(Tasks - 1)

\* SerialWarnings::reset(): as many counters as there are chunks.
ChunkCount == Tasks \div Chunk + (IF Tasks % Chunk # 0 THEN 1 ELSE 0)
ChunkIndex == 0..(ChunkCount - 1)

(***************************************************************************)
(* What a ParallelBody::run() may do, as the operations of the altrep      *)
(* backend do it.                                                          *)
(*   setupWarns   the workers whose setup warns (the fallback of a         *)
(*                collator or matcher built before the first claim)        *)
(*   setupThrows  the workers whose setup throws                           *)
(*   lazy         the tasks that need the break iterator a worker opens    *)
(*                once, on first need, with a warning                      *)
(*   warns        the tasks that warn                                      *)
(*   throws       the tasks that throw                                     *)
(*   refuses      the tasks the direct byte kernels cannot handle: the     *)
(*                worker parks the index and calls stop_early()            *)
(*   forgetful    the workers whose run() returns after one chunk, the     *)
(*                mistake the driver's own check is for; no operation of   *)
(*                the backend makes it                                     *)
(***************************************************************************)
Body == [setupWarns : SUBSET Worker, setupThrows : SUBSET Worker,
         lazy : SUBSET Task, warns : SUBSET Task,
         throws : SUBSET Task, refuses : SUBSET Task, forgetful : SUBSET Worker]

ASSUME PlanAssumption ==
    /\ Tasks \in Nat
    /\ Chunk \in Nat \ {0}
    /\ Workers \in Nat \ {0}
    /\ Bodies \subseteq Body

\* The kernels that refuse tasks are handed no SerialWarnings, and open nothing
\* lazily: what they refuse, a body that may warn does again.
ASSUME SilentAssumption ==
    \A b \in Bodies : b.refuses # {} => b.warns = {} /\ b.lazy = {}

VARIABLES
    body,
    main,               \* where run_region() is
    started,            \* workers started so far, this thread's included
    lane,               \* the context this thread runs
    pc,                 \* where each worker's run() is
    next,               \* ChunkQueue::next_
    begin, end,         \* WorkerContext::begin, end
    holding,            \* the workers with WorkerContext::holding_ set
    at,                 \* the worker's task index within its chunk
    opened,             \* the workers that have opened their lazy resource
    failed, stopped_early,    \* the workers with these WorkerReport flags set
    failed_at, message,       \* the rest of WorkerReport
    setup_warnings, chunk_warnings, counted,      \* SerialWarnings
    first_ineligible,   \* the slots the direct kernels park an index in
    writes,             \* how often each output element was written
    outcome             \* what run_region() did in the end

driver    == <<main, started, lane>>
contexts  == <<begin, end, holding, at, opened>>
reports   == <<failed, stopped_early, failed_at, message>>
warnings  == <<setup_warnings, chunk_warnings, counted>>
output    == <<first_ineligible, writes>>
vars == <<body, driver, pc, next, contexts, reports, warnings, output, outcome>>

Running  == [kind |-> "running", message |-> -1]
Returned == [kind |-> "returned", message |-> -1]
Raised(m) == [kind |-> "raised", message |-> m]
Undrained == [kind |-> "logic_error", message |-> -1]

-----------------------------------------------------------------------------
Init ==
    /\ body \in Bodies
    /\ main = "spawn" /\ started = 1 /\ lane = 0
    /\ pc = [w \in Worker |-> "unstarted"]
    /\ next = 0
    /\ begin = [w \in Worker |-> 0] /\ end = [w \in Worker |-> 0]
    /\ holding = {}
    /\ at = [w \in Worker |-> 0]
    /\ opened = {}
    /\ failed = {}
    /\ stopped_early = {}
    /\ failed_at = [w \in Worker |-> 0]
    /\ message = [w \in Worker |-> -1]
    /\ setup_warnings = [w \in Worker |-> 0]
    /\ chunk_warnings = [c \in ChunkIndex |-> 0]
    /\ counted = ChunkCount
    /\ first_ineligible = [w \in Worker |-> Tasks]
    /\ writes = [t \in Task |-> 0]
    /\ outcome = Running

-----------------------------------------------------------------------------
(* The workers: run_guarded() around the body's loop.                      *)

\* Resources the worker owns are built before its first claim.
SetupWarns(w) ==
    setup_warnings' = IF w \in body.setupWarns THEN [setup_warnings EXCEPT ![w] = @ + 1]
                      ELSE setup_warnings

Setup(w) ==
    /\ pc[w] = "setup" /\ w \notin body.setupThrows
    /\ SetupWarns(w)
    /\ pc' = [pc EXCEPT ![w] = "claim"]
    /\ UNCHANGED <<body, driver, next, contexts, reports, chunk_warnings, counted,
                   output, outcome>>

\* Mutant: a worker that holds no chunk is taken to be at its begin.
serial_position_unheld(w) == begin[w]

\* WorkerContext::serial_position()
serial_position(w) == IF w \in holding THEN begin[w] ELSE -1

\* The handler of run_guarded(): the report of a throw with message m.
Report(w, m) ==
    /\ failed' = failed \cup {w}
    /\ failed_at' = [failed_at EXCEPT ![w] = serial_position(w)]
    /\ message' = [message EXCEPT ![w] = m]
    /\ pc' = [pc EXCEPT ![w] = "done"]
    /\ UNCHANGED stopped_early

SetupThrows(w) ==
    /\ pc[w] = "setup" /\ w \in body.setupThrows
    /\ SetupWarns(w)
    /\ Report(w, -1)
    /\ UNCHANGED <<body, driver, next, contexts, chunk_warnings, counted, output, outcome>>

\* Mutant: the cursor is advanced one task short of the chunk.
ClaimShort(w) ==
    /\ pc[w] = "claim" /\ next < Tasks
    /\ next' = next + (IF Chunk > 1 THEN Chunk - 1 ELSE 1)
    /\ begin' = [begin EXCEPT ![w] = next]
    /\ end' = [end EXCEPT ![w] = IF Tasks - next < Chunk THEN Tasks ELSE next + Chunk]
    /\ holding' = holding \cup {w}
    /\ at' = [at EXCEPT ![w] = next]
    /\ pc' = [pc EXCEPT ![w] = "run"]
    /\ UNCHANGED <<body, driver, opened, reports, warnings, output, outcome>>

\* next_chunk() and ChunkQueue::claim(): one fetch_add, which a failing claim
\* performs too.
Claim(w) ==
    /\ pc[w] = "claim" /\ next < Tasks
    /\ next' = next + Chunk
    /\ begin' = [begin EXCEPT ![w] = next]
    /\ end' = [end EXCEPT ![w] = IF Tasks - next < Chunk THEN Tasks ELSE next + Chunk]
    /\ holding' = holding \cup {w}
    /\ at' = [at EXCEPT ![w] = next]
    /\ pc' = [pc EXCEPT ![w] = "run"]
    /\ UNCHANGED <<body, driver, opened, reports, warnings, output, outcome>>

\* Mutant: a worker that drew nothing tries again, up to a bound.
ClaimNothingAgain(w) ==
    /\ pc[w] = "claim" /\ next >= Tasks /\ next < 10 * Tasks
    /\ next' = next + Chunk
    /\ UNCHANGED <<body, driver, pc, contexts, reports, warnings, output, outcome>>

\* Mutant: a worker that finds the queue drained keeps polling it.
ClaimNothingSpins(w) ==
    pc[w] = "claim" /\ next >= Tasks /\ UNCHANGED vars

ClaimNothing(w) ==
    /\ pc[w] = "claim" /\ next >= Tasks
    /\ next' = next + Chunk
    /\ pc' = [pc EXCEPT ![w] = "done"]
    /\ UNCHANGED <<body, driver, contexts, reports, warnings, output, outcome>>

\* SerialWarnings::add() at the worker's chunk, by each warning of the task.
OpensLazily(w) == at[w] \in body.lazy /\ w \notin opened

TaskWarnings(w) ==
    (IF OpensLazily(w) THEN 1 ELSE 0) + (IF at[w] \in body.warns THEN 1 ELSE 0)

\* Mutant: warnings are counted against the worker instead of the chunk.
AddWarningsByWorker(w) ==
    /\ opened' = IF at[w] \in body.lazy THEN opened \cup {w} ELSE opened
    /\ setup_warnings' = [setup_warnings EXCEPT ![w] = @ + TaskWarnings(w)]
    /\ UNCHANGED <<chunk_warnings, counted>>

AddWarnings(w) ==
    /\ opened' = IF at[w] \in body.lazy THEN opened \cup {w} ELSE opened
    /\ chunk_warnings' = [chunk_warnings EXCEPT
                              ![serial_position(w) \div Chunk] = @ + TaskWarnings(w)]
    /\ UNCHANGED <<setup_warnings, counted>>

TaskThrows(w) ==
    /\ pc[w] = "run" /\ at[w] \in body.throws
    /\ AddWarnings(w)
    /\ Report(w, at[w])
    /\ UNCHANGED <<body, driver, next, begin, end, holding, at, output, outcome>>

\* Mutant: the kernel parks the first index of its chunk.
TaskRefusedAtBegin(w) ==
    /\ pc[w] = "run" /\ at[w] \in body.refuses \ body.throws
    /\ AddWarnings(w)
    /\ first_ineligible' = [first_ineligible EXCEPT ![w] = begin[w]]
    /\ stopped_early' = stopped_early \cup {w}
    /\ pc' = [pc EXCEPT ![w] = "done"]
    /\ UNCHANGED <<body, driver, next, begin, end, holding, at,
                   failed, failed_at, message, writes, outcome>>

\* A direct kernel meets an element it cannot handle: it parks the index,
\* calls stop_early() and returns.
TaskRefused(w) ==
    /\ pc[w] = "run" /\ at[w] \in body.refuses \ body.throws
    /\ AddWarnings(w)
    /\ first_ineligible' = [first_ineligible EXCEPT ![w] = at[w]]
    /\ stopped_early' = stopped_early \cup {w}
    /\ pc' = [pc EXCEPT ![w] = "done"]
    /\ UNCHANGED <<body, driver, next, begin, end, holding, at,
                   failed, failed_at, message, writes, outcome>>

TaskWritten(w) ==
    /\ pc[w] = "run" /\ at[w] \notin body.throws \cup body.refuses
    /\ AddWarnings(w)
    /\ writes' = [writes EXCEPT ![at[w]] = @ + 1]
    /\ at' = [at EXCEPT ![w] = @ + 1]
    /\ pc' = [pc EXCEPT ![w] = IF at[w] + 1 < end[w] THEN "run"
                               ELSE IF w \notin body.forgetful THEN "claim" ELSE "done"]
    /\ UNCHANGED <<body, driver, next, begin, end, holding, reports,
                   first_ineligible, outcome>>

WorkerStep(w) ==
    \/ Setup(w) \/ SetupThrows(w)
    \/ Claim(w) \/ ClaimNothing(w)
    \/ TaskThrows(w) \/ TaskRefused(w) \/ TaskWritten(w)

-----------------------------------------------------------------------------
(* The calling thread: run_region().                                       *)

SpawnWorker ==
    /\ main = "spawn" /\ started < Workers
    /\ started' = started + 1
    /\ pc' = [pc EXCEPT ![started] = "setup"]
    /\ UNCHANGED <<body, main, lane, next, contexts, reports, warnings, output, outcome>>

\* Every worker was started, or thread creation was refused; either way this
\* thread enters its own lane and starts no further thread.
EnterOwnLane ==
    /\ main = "spawn"
    /\ main' = "lane"
    /\ pc' = [pc EXCEPT ![0] = "setup"]
    /\ UNCHANGED <<body, started, lane, next, contexts, reports, warnings, output, outcome>>

\* The context this thread runs after the one it has finished: the workers
\* that could not be started, in order.
NextLane == IF lane = 0 THEN started ELSE lane + 1

RunInline ==
    /\ main = "lane" /\ pc[lane] = "done" /\ NextLane < Workers
    /\ lane' = NextLane
    /\ pc' = [pc EXCEPT ![NextLane] = "setup"]
    /\ UNCHANGED <<body, main, started, next, contexts, reports, warnings, output, outcome>>

\* Mutant: the calling thread does not wait for the workers.
NoJoin ==
    /\ main = "lane" /\ pc[lane] = "done" /\ NextLane >= Workers
    /\ main' = "reduce"
    /\ UNCHANGED <<body, started, lane, pc, next, contexts, reports, warnings, output, outcome>>

\* join_all() returns when every spawned thread has.
JoinAll ==
    /\ main = "lane" /\ pc[lane] = "done" /\ NextLane >= Workers
    /\ \A w \in 1..(started - 1) : pc[w] = "done"
    /\ main' = "reduce"
    /\ UNCHANGED <<body, started, lane, pc, next, contexts, reports, warnings, output, outcome>>

\* Mutant: the lowest failing worker wins, wherever it failed.
FirstFailureByWorker(w) == w \in failed /\ \A v \in failed : w <= v

\* The report the reduction loop ends on: the smallest failed_at, and among
\* equals the lowest worker.
FirstFailure(w) ==
    /\ w \in failed
    /\ \A v \in failed :
          failed_at[w] < failed_at[v] \/ (failed_at[w] = failed_at[v] /\ w <= v)

\* Mutant: the failing chunk itself is not counted.
fail_at_exclusive(position) == IF position < 0 THEN 0 ELSE position \div Chunk

\* SerialWarnings::fail_at()
fail_at(position) == IF position < 0 THEN 0 ELSE position \div Chunk + 1

\* The sum of the first n elements of a counter array.
Total(f, n) ==
    LET sum[k \in 0..n] == IF k = 0 THEN 0 ELSE sum[k - 1] + f[k - 1]
    IN  sum[n]

\* SerialWarnings::count()
count == Total(setup_warnings, Workers) + Total(chunk_warnings, counted)

\* A serial plan lets the exception propagate and leaves counted_ alone.
RaiseFailure ==
    /\ main = "reduce"
    /\ \E w \in Worker :
          /\ FirstFailure(w)
          /\ outcome' = Raised(message[w])
          /\ counted' = IF Workers = 1 THEN counted ELSE fail_at(failed_at[w])
    /\ main' = "exit"
    /\ UNCHANGED <<body, started, lane, pc, next, contexts, reports,
                   setup_warnings, chunk_warnings, output>>

\* Mutant: the drained test forgets the last chunk.
drained_early == next + Chunk >= Tasks

\* ChunkQueue::drained()
drained == next >= Tasks

ReturnOrComplain ==
    /\ main = "reduce" /\ failed = {}
    /\ outcome' = IF /\ Workers > 1
                     /\ stopped_early = {}
                     /\ ~drained
                  THEN Undrained ELSE Returned
    /\ main' = "exit"
    /\ UNCHANGED <<body, started, lane, pc, next, contexts, reports, warnings, output>>

MainStep ==
    \/ SpawnWorker \/ EnterOwnLane \/ RunInline
    \/ JoinAll \/ RaiseFailure \/ ReturnOrComplain

Exited == main = "exit" /\ UNCHANGED vars

Next == MainStep \/ (\E w \in Worker : WorkerStep(w)) \/ Exited

Spec == Init /\ [][Next]_vars

\* The operating system runs every started thread, and a body's task ends.
FairSpec ==
    /\ Spec
    /\ WF_vars(MainStep)
    /\ \A w \in Worker : WF_vars(WorkerStep(w))

-----------------------------------------------------------------------------
TypeOK ==
    /\ body \in Body
    /\ main \in {"spawn", "lane", "reduce", "exit"}
    /\ started \in 1..Workers /\ lane \in Worker
    /\ pc \in [Worker -> {"unstarted", "setup", "claim", "run", "done"}]
    /\ next \in Nat
    /\ begin \in [Worker -> 0..Tasks] /\ end \in [Worker -> 0..Tasks]
    /\ holding \subseteq Worker
    /\ at \in [Worker -> 0..Tasks]
    /\ opened \subseteq Worker
    /\ failed \subseteq Worker
    /\ stopped_early \subseteq Worker
    /\ failed_at \in [Worker -> -1..Tasks]
    /\ message \in [Worker -> -1..Tasks]
    /\ setup_warnings \in [Worker -> Nat]
    /\ chunk_warnings \in [ChunkIndex -> Nat]
    /\ counted \in 0..ChunkCount
    /\ first_ineligible \in [Worker -> 0..Tasks]
    /\ writes \in [Task -> Nat]
    /\ outcome \in [kind : {"running", "returned", "raised", "logic_error"},
                    message : -1..Tasks]

\* run_region() "joins unconditionally": whether it returns or throws, no
\* worker is still inside run(), where it would touch the frame being unwound.
JoinedBeforeExit == main \in {"reduce", "exit"} => \A w \in Worker : pc[w] = "done"

\* parallel.h: run() "writes only at its own task indices", and "each chunk has
\* one writer".  No two workers hold a task in common and no element is
\* written twice, whichever workers draw which chunks.
Holds(w, t) == w \in holding /\ begin[w] <= t /\ t < end[w]

OneWorkerPerTask ==
    \A t \in Task :
        /\ writes[t] <= 1
        /\ \A v, w \in Worker : Holds(v, t) /\ Holds(w, t) => v = w

\* The tasks at which a serial run would stop, and the first of them.
Stops == body.throws \cup body.refuses
FirstStop(t) == t \in Stops /\ \A s \in Stops : t <= s

\* "The lowest recorded failure is therefore the one a serial run would have
\* reached first" (run_region): a failing setup if there is one, otherwise
\* the first task that throws, unless the body refused an earlier one; and
\* nothing is ever raised that no task threw.
RaisesTheSerialFailure ==
    main = "exit" =>
        /\ body.setupThrows # {} => outcome = Raised(-1)
        /\ \A t \in Task :
              body.setupThrows = {} /\ body.forgetful = {} /\ FirstStop(t) /\ t \in body.throws
                  => outcome = Raised(t)
        /\ outcome.kind = "raised" /\ body.setupThrows = {} => outcome.message \in body.throws

\* "A body that returned without looping would leave part of the output
\* unwritten, which is silent; this makes it loud": a threaded region that
\* returns, and that no worker stopped early, has written every element once.
NothingLeftUnwritten ==
    /\ outcome = Returned /\ (Workers > 1 \/ body.forgetful = {})
    /\ stopped_early = {}
    => \A t \in Task : writes[t] = 1

\* lowest_ineligible() of the direct byte kernels: "the lowest index any worker
\* rejected is the index the serial scan would have stopped at. Below it
\* every record was counted by the direct kernel".
lowest_ineligible(k) ==
    /\ k = Tasks \/ \E w \in Worker : k = first_ineligible[w]
    /\ \A w \in Worker : k <= first_ineligible[w]

DirectPrefixIsSerial ==
    outcome = Returned /\ body.forgetful = {} =>
        \A k \in 0..Tasks : lowest_ineligible(k) =>
            /\ k = Tasks \/ k \in body.refuses
            /\ \A t \in body.refuses : k <= t
            /\ \A t \in Task : t < k => writes[t] = 1

\* The warnings a serial run raises before it ends: one from setup or from the
\* first lazy opening, and those of the tasks up to the one it stops at.
SerialReaches(t) == body.setupThrows = {} /\ \A s \in Stops : t <= s

SerialCount ==
    (IF body.setupWarns # {} THEN 1 ELSE 0)
    + (IF \E t \in body.lazy : SerialReaches(t) THEN 1 ELSE 0)
    + Cardinality({t \in body.warns : SerialReaches(t)})

\* The rule in the comment of SerialWarnings: warnings keyed by chunk and cut
\* at the failing chunk are exactly those of a serial run, on success and on
\* failure, when they are warnings of tasks.
TaskWarningsAreSerial ==
    main = "exit" /\ body.forgetful = {} /\ body.setupWarns = {} /\ body.lazy = {} => count = SerialCount

\* The entry points that warn from setup or from a lazy opening (coll_split,
\* boundaries_locate) ask only whether count() > 0, and that answer is the
\* serial one, although every worker opens a resource of its own.
WarnedIffSerialWarned ==
    main = "exit" /\ body.forgetful = {} => (count > 0 <=> SerialCount > 0)

\* parallel.h: "After it returns or throws, warnings.count() is the serial
\* count."
WarningCountIsSerial == main = "exit" /\ body.forgetful = {} => count = SerialCount

\* ChunkQueue::next_ is an R_xlen_t that every claim advances, the failing ones
\* too.  A worker makes at most one failing claim, so the cursor passes the
\* end by at most one chunk for each worker.
CursorStaysBounded == next <= (ChunkCount + Workers) * Chunk

\* Every region ends: a worker that throws, refuses or could not be started
\* leaves no one waiting.
Terminates == <>(main = "exit")

-----------------------------------------------------------------------------
(* The inductive invariant the proofs in ParallelRegion_proofs rest on.    *)

\* Which workers have been started: in order on threads of their own, then
\* this thread's lane, then in order the ones that could not be started.
DriverInv ==
    /\ main = "spawn" =>
          lane = 0 /\ \A w \in Worker : w = 0 \/ w >= started => pc[w] = "unstarted"
    /\ main = "lane" =>
          /\ lane = 0 \/ (started <= lane /\ pc[0] = "done")
          /\ \A w \in Worker : started <= w /\ w < lane => pc[w] = "done"
          /\ \A w \in Worker : started <= w /\ w > lane => pc[w] = "unstarted"
    /\ main \in {"reduce", "exit"} => \A w \in Worker : pc[w] = "done"
    /\ main # "exit" => outcome = Running

\* A worker's chunk lies below the cursor, and no two chunks overlap.
ChunkInv ==
    /\ \A w \in Worker :
          /\ pc[w] \in {"unstarted", "setup"} => w \notin holding
          /\ pc[w] = "run" => w \in holding /\ at[w] < end[w]
          /\ pc[w] = "claim" /\ w \in holding => at[w] = end[w]
          /\ w \in holding => /\ begin[w] < end[w] /\ end[w] <= next
                           /\ begin[w] <= at[w] /\ at[w] <= end[w]
    /\ \A v, w \in Worker :
          v # w /\ v \in holding /\ w \in holding => end[v] <= begin[w] \/ end[w] <= begin[v]

\* The part of its chunk a worker has not written: what it still has to do
\* or, once it is done, what it abandoned.
Pending(w, t) == w \in holding /\ at[w] <= t /\ t < end[w]

\* Every task below the cursor was written once or is pending, and every task
\* that was written is one the body neither throws at nor refuses.
TaskInv ==
    \A t \in Task :
        /\ writes[t] \in {0, 1}
        /\ writes[t] = 1 => t < next /\ t \notin Stops
        /\ t < next => writes[t] = 1 \/ \E w \in Worker : Pending(w, t)
        /\ \A w \in Worker : Pending(w, t) => writes[t] = 0

\* What a worker's report says about where and why it stopped.
ReportIsTrue(w) ==
    /\ pc[w] # "done" => w \notin failed /\ w \notin stopped_early
    /\ w \in failed /\ w \in holding =>
          /\ failed_at[w] = begin[w] /\ message[w] = at[w]
          /\ at[w] \in body.throws /\ at[w] < end[w]
    /\ w \in failed /\ w \notin holding =>
          failed_at[w] = -1 /\ message[w] = -1 /\ w \in body.setupThrows
    /\ w \in stopped_early =>
          /\ w \in holding /\ w \notin failed
          /\ at[w] \in body.refuses \ body.throws /\ at[w] < end[w]
          /\ first_ineligible[w] = at[w]
    /\ w \notin stopped_early => first_ineligible[w] = Tasks
    /\ pc[w] = "done" /\ w \notin failed /\ w \notin stopped_early =>
          /\ w \in holding => at[w] = end[w]
          /\ w \notin body.forgetful => next >= Tasks
    /\ w \in body.setupThrows =>
          w \notin holding /\ pc[w] \in {"unstarted", "setup", "done"}
    /\ w \in body.setupThrows /\ pc[w] = "done" => w \in failed

ReportInv == \A w \in Worker : ReportIsTrue(w)

\* The cursor moves by whole chunks, and past the last chunk only once for each
\* worker that is done.  Every claimed task lies below the end of some chunk
\* that is still held.
Finished == {w \in Worker : pc[w] = "done"}

CursorInv ==
    /\ \E k \in 0..(ChunkCount + Cardinality(Finished)) : next = k * Chunk
    /\ \A w \in holding :
          \E k \in ChunkIndex :
              /\ begin[w] = k * Chunk /\ end[w] <= k * Chunk + Chunk
              /\ end[w] = Tasks \/ end[w] = k * Chunk + Chunk
    /\ \A t \in Task : t < next => \E w \in holding : t < end[w]

\* The body has run at the task: it wrote the element, threw or refused.
Ran(t) ==
    \/ writes[t] = 1
    \/ \E w \in failed \cup stopped_early : w \in holding /\ at[w] = t

\* What the counters of SerialWarnings hold: one warning of each worker whose
\* setup warns; in each chunk warnings of tasks that ran, and none missing
\* although a worker opens its resource only once.
SetupCounted ==
    \A w \in Worker :
        setup_warnings[w] > 0
            <=> w \in body.setupWarns /\ pc[w] \notin {"unstarted", "setup"}

CountedRan ==
    \A c \in ChunkIndex :
        chunk_warnings[c] > 0 =>
            \E t \in body.warns \cup body.lazy : t \div Chunk = c /\ Ran(t)

RanCounted ==
    \A t \in body.warns \cup body.lazy :
        Ran(t) => \E c \in ChunkIndex : c <= t \div Chunk /\ chunk_warnings[c] > 0

OpenedCounted ==
    \A w \in opened :
        /\ w \in holding
        /\ \E c \in ChunkIndex : c <= begin[w] \div Chunk /\ chunk_warnings[c] > 0

RanIn(c) == {t \in body.warns : t \div Chunk = c /\ Ran(t)}

ChunkCounted ==
    body.lazy = {} => \A c \in ChunkIndex : chunk_warnings[c] = Cardinality(RanIn(c))

CountInv == SetupCounted /\ CountedRan /\ RanCounted /\ OpenedCounted /\ ChunkCounted

\* Where the warnings are cut.
CutInv ==
    \/ counted = ChunkCount /\ (Workers = 1 \/ main # "exit" \/ failed = {})
    \/ main = "exit" /\ \E w \in Worker : FirstFailure(w) /\ counted = fail_at(failed_at[w])

\* Every task below the cursor is accounted for by exactly one worker, and a
\* worker's report points at the task that stopped it.
RegionInv == TypeOK /\ DriverInv /\ ChunkInv /\ TaskInv /\ ReportInv

=============================================================================
