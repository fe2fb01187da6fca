------------------------- MODULE ConversionWarnings -------------------------
(***************************************************************************)
(* ci_encode_string() of src/altrep_backend/ci_encoding_conversion.cpp:    *)
(* records are converted on workers, each conversion may warn or fail, and *)
(* the warnings are emitted afterwards by the main thread, which has to    *)
(* stop where a serial conversion would have stopped.  A native input is   *)
(* converted to UTF-8 by the main thread before the region, a native       *)
(* output after it, and either may fail as well.                           *)
(*                                                                         *)
(* A warning is the index of the record that raised it.                    *)
(***************************************************************************)
EXTENDS Integers, Sequences, FiniteSets

CONSTANTS
    Calls,      \* the conversions explored, see IsCall
    Worker      \* the workers of the region

VARIABLES
    call,               \* the records and what happens to them
    phase,              \* where the main thread is
    work_size,          \* the records left by the native prepass
    next,               \* the region's claim cursor
    state,              \* what each worker does
    held,               \* its chunk and the task it has reached in it
    queue,              \* its DeferredWarnings queue
    worker_chunks,      \* its row of closed chunks
    worker_cutoffs,     \* where its failure stops the emission
    task_prefix,        \* task_warning_prefix and task_chunk_begin
    output_cutoff,      \* where a failing output conversion stops it
    error,              \* the error rethrown at the end
    emitted,            \* the merge cursor of each row
    emission            \* the warnings R has seen, in order

main == <<call, phase, work_size, output_cutoff, error, emitted, emission>>
lane == <<state, held, queue, worker_chunks, worker_cutoffs>>
vars == <<main, lane, next, task_prefix>>

Fault == {"none", "input", "convert", "output"}
IsCall(c) ==
    /\ c.n \in Nat /\ c.chunk \in Nat \ {0} /\ c.threads \in Nat
    /\ c.warn \in [0..(c.n - 1) -> Nat]         \* warnings of each record
    /\ c.fault \in [0..(c.n - 1) -> Fault]      \* the stage that fails
    /\ c.native_output \in BOOLEAN              \* does the output need one?
    /\ c.setup \subseteq Worker                 \* converters that do not open
    /\ ~c.native_output => \A i \in 0..(c.n - 1) : c.fault[i] # "output"

CallsAssumption == \A c \in Calls : IsCall(c)

Record == 0..(call.n - 1)
NoError == -2
SetupError == -1
Inactive == [active |-> FALSE, chunk_begin |-> 0, prefix |-> 0]
Cutoff(b, p) == [active |-> TRUE, chunk_begin |-> b, prefix |-> p]
Least(S) == CHOOSE i \in S : \A j \in S : i <= j
Failing(f) == {i \in Record : call.fault[i] = f}

\* The converter's callback pushes a record's warnings while it converts.
push(q, i) == q \o [k \in 1..call.warn[i] |-> i]

\* The serial loop: the record it fails at, and the warnings until then.  A
\* record whose input cannot be read has not been converted yet.
serial_stop ==
    LET F == Record \ Failing("none") IN IF F = {} THEN NoError ELSE Least(F)
serial_warnings ==
    LET reached == {i \in Record : serial_stop = NoError \/ i < serial_stop
                        \/ (i = serial_stop /\ call.fault[i] # "input")}
        walk[i \in 0..call.n] ==
            IF i = 0 THEN <<>>
            ELSE IF i - 1 \in reached THEN push(walk[i - 1], i - 1)
            ELSE walk[i - 1]
    IN walk[call.n]

-----------------------------------------------------------------------------
Init ==
    /\ call \in Calls /\ phase = "begin"
    /\ work_size = call.n /\ next = 0
    /\ state = [w \in Worker |-> "opening"]
    /\ held = [w \in Worker |-> [begin |-> 0, end |-> 0, at |-> 0]]
    /\ queue = [w \in Worker |-> <<>>]
    /\ worker_chunks = [w \in Worker |-> <<>>]
    /\ worker_cutoffs = [w \in Worker |-> Inactive]
    /\ task_prefix = [i \in Record |-> Inactive]
    /\ output_cutoff = Inactive /\ error = NoError
    /\ emitted = [w \in Worker |-> 0] /\ emission = <<>>

\* One worker: the main thread converts every record with its own converters
\* and emits its one queue.
ConvertSerially ==
    /\ phase = "begin" /\ (call.threads = 1 \/ call.n = 0)
    /\ emission' = serial_warnings /\ error' = serial_stop
    /\ phase' = "done"
    /\ UNCHANGED <<call, work_size, output_cutoff, emitted, lane, next,
                   task_prefix>>

\* preconvert_native_records() keeps the error for later and shortens the
\* range the region works on.
preconvert_native_records ==
    IF Failing("input") = {} THEN call.n ELSE Least(Failing("input"))

StartRegion ==
    /\ phase = "begin" /\ call.threads > 1 /\ call.n > 0
    /\ work_size' = preconvert_native_records
    /\ phase' = "region"
    /\ UNCHANGED <<call, output_cutoff, error, emitted, emission, lane, next,
                   task_prefix>>

\* A worker that cannot open its converters fails with no chunk held.
OpenConverters(w) ==
    /\ phase = "region" /\ state[w] = "opening"
    /\ IF w \in call.setup
       THEN /\ state' = [state EXCEPT ![w] = "failed"]
            /\ worker_cutoffs' = [worker_cutoffs EXCEPT ![w] = Cutoff(0, 0)]
       ELSE /\ state' = [state EXCEPT ![w] = "claiming"]
            /\ UNCHANGED worker_cutoffs
    /\ UNCHANGED <<main, held, queue, worker_chunks, next, task_prefix>>

claim_end == IF work_size - next < call.chunk THEN work_size
             ELSE next + call.chunk

NextChunk(w) ==
    /\ phase = "region" /\ state[w] = "claiming"
    /\ IF next >= work_size
       THEN state' = [state EXCEPT ![w] = "left"] /\ UNCHANGED <<held, next>>
       ELSE /\ state' = [state EXCEPT ![w] = "converting"]
            /\ held' = [held EXCEPT ![w] = [begin |-> next, end |-> claim_end,
                                            at |-> next]]
            /\ next' = claim_end
    /\ UNCHANGED <<main, queue, worker_chunks, worker_cutoffs, task_prefix>>

\* Only a chunk that warned leaves a record; the queue starts again.
close_chunk_warnings(w, q) ==
    /\ worker_chunks' =
         IF q = <<>> THEN worker_chunks
         ELSE [worker_chunks EXCEPT ![w] =
                 Append(@, [begin |-> held[w].begin, warnings |-> q])]
    /\ queue' = [queue EXCEPT ![w] = <<>>]

\* One record of the chunk.  Every record notes how far its chunk's queue
\* stood, in case its output conversion fails after the join.
ConvertTask(w) ==
    LET i == held[w].at
        q == push(queue[w], i)
        last == i + 1 = held[w].end
    IN /\ phase = "region" /\ state[w] = "converting"
       /\ IF call.fault[i] = "convert"
          THEN /\ state' = [state EXCEPT ![w] = "failed"]
               /\ worker_cutoffs' = [worker_cutoffs EXCEPT ![w] =
                                       Cutoff(held[w].begin, Len(q))]
               /\ close_chunk_warnings(w, q)
               /\ UNCHANGED <<held, task_prefix>>
          ELSE /\ held' = [held EXCEPT ![w].at = i + 1]
               /\ task_prefix' =
                    IF call.native_output
                    THEN [task_prefix EXCEPT ![i] =
                            Cutoff(held[w].begin, Len(q))]
                    ELSE task_prefix
               /\ state' = [state EXCEPT ![w] =
                              IF last THEN "claiming" ELSE "converting"]
               /\ IF last THEN close_chunk_warnings(w, q)
                  ELSE /\ queue' = [queue EXCEPT ![w] = q]
                       /\ UNCHANGED worker_chunks
               /\ UNCHANGED worker_cutoffs
       /\ UNCHANGED <<main, next>>

\* After the join the region raises the failure a serial run over its tasks
\* reaches first; the prepass's error waits for the output conversion.
JoinRegion ==
    LET failed == {w \in Worker : state[w] = "failed"}
    IN /\ phase = "region" /\ \A w \in Worker : state[w] \in {"left", "failed"}
       /\ error' = IF \E w \in failed : w \in call.setup THEN SetupError
                   ELSE IF failed # {}
                   THEN Least({held[w].at : w \in failed})
                   ELSE IF work_size < call.n /\ ~call.native_output
                   THEN work_size ELSE NoError
       /\ phase' = IF failed = {} /\ call.native_output THEN "finish"
                   ELSE "emit"
       /\ UNCHANGED <<call, work_size, output_cutoff, emitted, emission, lane,
                      next, task_prefix>>

FinishNativeOutput ==
    LET bad == {i \in Failing("output") : i < work_size}
    IN /\ phase = "finish"
       /\ error' = IF bad # {} THEN Least(bad)
                   ELSE IF work_size < call.n THEN work_size ELSE NoError
       /\ output_cutoff' = IF bad # {} THEN task_prefix[Least(bad)]
                           ELSE output_cutoff
       /\ phase' = "emit"
       /\ UNCHANGED <<call, work_size, emitted, emission, lane, next,
                      task_prefix>>

first_warning_cutoff_any_prefix ==
    LET active == {c \in {worker_cutoffs[w] : w \in Worker}
                             \cup {output_cutoff} : c.active}
    IN IF active = {} THEN Inactive
       ELSE CHOOSE c \in active :
              \A d \in active : c.chunk_begin < d.chunk_begin
                \/ (c.chunk_begin = d.chunk_begin /\ c.prefix >= d.prefix)

\* The lowest chunk, and the shorter prefix of an equal chunk.
first_warning_cutoff ==
    LET active == {c \in {worker_cutoffs[w] : w \in Worker}
                             \cup {output_cutoff} : c.active}
    IN IF active = {} THEN Inactive
       ELSE CHOOSE c \in active :
              \A d \in active : c.chunk_begin < d.chunk_begin
                \/ (c.chunk_begin = d.chunk_begin /\ c.prefix <= d.prefix)

begin_of(w) == worker_chunks[w][emitted[w] + 1].begin
pending == {w \in Worker : emitted[w] < Len(worker_chunks[w])}

\* Each row is ascending, so the lowest head is the next chunk.
lowest_row ==
    CHOOSE w \in pending : \A v \in pending : begin_of(w) <= begin_of(v)

emit_prefix(q, count) == SubSeq(q, 1, IF count > Len(q) THEN Len(q) ELSE count)

EmitChunk ==
    LET w == lowest_row
        q == worker_chunks[w][emitted[w] + 1].warnings
        cutoff == first_warning_cutoff
    IN /\ phase = "emit" /\ pending # {}
       /\ emitted' = [emitted EXCEPT ![w] = @ + 1]
       /\ IF cutoff.active /\ begin_of(w) >= cutoff.chunk_begin
          THEN /\ emission' = IF begin_of(w) = cutoff.chunk_begin
                              THEN emission \o emit_prefix(q, cutoff.prefix)
                              ELSE emission
               /\ phase' = "done"
          ELSE emission' = emission \o q /\ UNCHANGED phase
       /\ UNCHANGED <<call, work_size, output_cutoff, error, lane, next,
                      task_prefix>>

EmitEnd ==
    /\ phase = "emit" /\ pending = {}
    /\ phase' = "done"
    /\ UNCHANGED <<call, work_size, output_cutoff, error, emitted, emission,
                   lane, next, task_prefix>>

Finished == phase = "done" /\ UNCHANGED vars

Next ==
    \/ ConvertSerially \/ StartRegion
    \/ \E w \in Worker : OpenConverters(w) \/ NextChunk(w) \/ ConvertTask(w)
    \/ JoinRegion \/ FinishNativeOutput
    \/ EmitChunk \/ EmitEnd
    \/ Finished

Spec == Init /\ [][Next]_vars

-----------------------------------------------------------------------------
TypeOK ==
    /\ IsCall(call) /\ work_size \in 0..call.n /\ next \in 0..work_size
    /\ phase \in {"begin", "region", "finish", "emit", "done"}
    /\ \A w \in Worker :
         /\ state[w] \in {"opening", "claiming", "converting", "left", "failed"}
         /\ state[w] = "converting" => held[w].at \in held[w].begin..held[w].end
         /\ emitted[w] \in 0..Len(worker_chunks[w])
    /\ error \in {NoError, SetupError} \cup Record

\* The one case in which the region's failure hides an earlier one: a record
\* whose output conversion would have failed lies below one that fails on a
\* worker, and the output conversion is never reached.
HiddenOutputFailure ==
    \E i \in Failing("output"), j \in Failing("convert") : i < j

\* The warnings R sees, their order, and the error that follows are those of
\* the serial loop, whichever workers drew which chunks and whichever failed.
EmissionIsSerial ==
    phase = "done" /\ error # SetupError /\ ~HiddenOutputFailure =>
        error = serial_stop /\ emission = serial_warnings

\* A region that fails before its first record emits no warning of it.
SetupFailureIsSilent == error = SetupError => emission = <<>>

\* Each worker's row is ascending by chunk, which the merge relies on, and a
\* queue holds warnings of the chunk in hand only.
RowsAscend ==
    \A w \in Worker :
        /\ \A j, k \in 1..Len(worker_chunks[w]) :
             j < k => worker_chunks[w][j].begin < worker_chunks[w][k].begin
        /\ \A k \in 1..Len(queue[w]) :
             queue[w][k] \in held[w].begin..(held[w].at - 1)

=============================================================================
