------------------------------ MODULE WrapCall ------------------------------
(***************************************************************************)
(* ci_wrap() of src/altrep_backend/ci_wrap.cpp from its plan to its        *)
(* result, with the ChunkStores and concat_stores() of io/utf8_output.cpp. *)
(* Flattened output has no fixed length per element, so every chunk is     *)
(* staged on its own and the chunks are merged by the task they begin at.  *)
(*                                                                         *)
(* Of the parallel region this uses the shared cursor, which ParallelPlan  *)
(* and ParallelRegion describe, and that the failure it raises is the one  *)
(* a serial run reaches first.  An element is what wrapping it yields.     *)
(***************************************************************************)
EXTENDS Integers, SequencesExt, FiniteSetsExt

CONSTANTS
    Calls,      \* the calls explored, see IsCall
    Worker      \* a set of integers; worker 0 is the main thread

VARIABLES
    call,           \* the arguments, and the workers parallel_plan() grants
    phase,          \* where the entry point is
    normalized,     \* how many inputs were normalized, work_length
    prepass_error,  \* normalizing the next one threw
    next,           \* the loop variable, or the region's cursor
    active,         \* the workers of the region
    at, end,        \* the chunk a worker holds: its next element and its end
    flat_output,    \* a worker's growable builder
    rows,           \* ChunkStores: a row of chunks per worker
    stores,         \* the outputs that have an index per element
    failed,         \* elements at which a worker's body threw
    cursors, ordered,   \* the merge of concatenate()
    result          \* what the call returns or raises

region == <<next, active, at, end, flat_output, rows, stores, failed>>
merge  == <<cursors, ordered>>
vars   == <<call, phase, normalized, prepass_error, region, merge, result>>

\* Missing; bytes, which normalizing refuses; a record the engine cannot plan;
\* a record of one or two lines.
Kind == {"na", "bytes", "unplanned", "one", "two"}
IsCall(c) ==
    /\ c.n \in Nat /\ c.inputs \in [0..(c.n - 1) -> Kind]
    /\ c.mode \in {"list", "flatten", "join"} /\ c.missing_start \in BOOLEAN
    /\ c.workers \subseteq Worker /\ 0 \in c.workers /\ c.chunk \in Nat \ {0}

CallsAssumption == 0 \in Worker /\ \A c \in Calls : IsCall(c)

Missing == <<"na">>
Pending == [kind |-> "pending", at |-> -1, value |-> <<>>]
Value(v) == [kind |-> "value", at |-> -1, value |-> v]
Raised(i) == [kind |-> "raised", at |-> i, value |-> <<>>]

-----------------------------------------------------------------------------
(* One element.                                                            *)

Throws(i) == call.inputs[i] = "unplanned" /\ ~call.missing_start

\* The lines of an element, each named by its element and the start it got.
Lines(i) ==
    IF call.inputs[i] = "na" \/ call.missing_start THEN <<Missing>>
    ELSE LET first == IF i = 0 THEN "initial" ELSE "prefix"
             more  == IF call.inputs[i] = "two" THEN <<<<i, "exdent">>>> ELSE <<>>
         IN <<<<i, first>>>> \o more

Indexed == call.mode # "flatten"

-----------------------------------------------------------------------------
(* The call.                                                               *)

Init ==
    /\ call \in Calls
    /\ phase = "plan" /\ normalized = 0 /\ prepass_error = FALSE
    /\ next = 0 /\ active = {} /\ failed = {}
    /\ at = [w \in Worker |-> 0] /\ end = [w \in Worker |-> 0]
    /\ flat_output = [w \in Worker |-> <<>>]
    /\ rows = [w \in Worker |-> <<>>]
    /\ stores = [i \in 0..(call.n - 1) |-> <<>>]
    /\ cursors = [w \in Worker |-> 0] /\ ordered = <<>>
    /\ result = Pending

Plan ==
    /\ phase = "plan"
    /\ phase' = IF call.workers = {0} THEN "serial" ELSE "prepass"
    /\ UNCHANGED <<call, normalized, prepass_error, region, merge, result>>

\* The loop of a plan with one worker: each element is normalized, planned and
\* output before the next.
SerialElement ==
    /\ phase = "serial" /\ next < call.n
    /\ IF call.inputs[next] = "bytes" \/ Throws(next)
       THEN /\ result' = Raised(next) /\ phase' = "done"
            /\ UNCHANGED <<flat_output, stores>>
       ELSE /\ IF Indexed THEN /\ stores' = [stores EXCEPT ![next] = Lines(next)]
                               /\ UNCHANGED flat_output
               ELSE /\ flat_output' = [flat_output EXCEPT ![0] = @ \o Lines(next)]
                    /\ UNCHANGED stores
            /\ UNCHANGED <<phase, result>>
    /\ next' = next + 1
    /\ UNCHANGED <<call, normalized, prepass_error, active, at, end, rows, failed, merge>>

SerialDone ==
    /\ phase = "serial" /\ next = call.n
    /\ result' = Value(IF Indexed THEN stores ELSE flat_output[0])
    /\ phase' = "done"
    /\ UNCHANGED <<call, normalized, prepass_error, region, merge>>

\* All inputs are normalized first, up to one that throws.
Normalize ==
    /\ phase = "prepass" /\ normalized < call.n /\ ~prepass_error
    /\ IF call.inputs[normalized] = "bytes"
       THEN prepass_error' = TRUE /\ UNCHANGED normalized
       ELSE normalized' = normalized + 1 /\ UNCHANGED prepass_error
    /\ UNCHANGED <<call, phase, region, merge, result>>

\* A second plan for what was normalized, ChunkStores::reset() and the region.
StartRegion(W) ==
    /\ phase = "prepass" /\ (prepass_error \/ normalized = call.n)
    /\ W \subseteq call.workers /\ 0 \in W
    /\ active' = W
    /\ rows' = [w \in Worker |-> <<>>]
    /\ phase' = "region"
    /\ UNCHANGED <<call, normalized, prepass_error, next, at, end, flat_output,
                   stores, failed, merge, result>>

-----------------------------------------------------------------------------
(* Body::run()                                                             *)

Idle(w) == w \in active /\ at[w] = end[w]

open(w, b) ==
    rows' = [rows EXCEPT ![w] = Append(@, [begin |-> b, store |-> <<>>])]

Claim(w) ==
    /\ phase = "region" /\ Idle(w) /\ next < normalized
    /\ at' = [at EXCEPT ![w] = next]
    /\ end' = [end EXCEPT ![w] = Min({normalized, next + call.chunk})]
    /\ next' = next + call.chunk
    /\ IF Indexed THEN UNCHANGED <<flat_output, rows>>
       ELSE /\ flat_output' = [flat_output EXCEPT ![w] = <<>>]
            /\ open(w, next)
    /\ UNCHANGED <<call, phase, normalized, prepass_error, active, stores, failed,
                   merge, result>>

ClaimNothing(w) ==
    /\ phase = "region" /\ Idle(w) /\ next >= normalized
    /\ active' = active \ {w}
    /\ UNCHANGED <<call, phase, normalized, prepass_error, next, at, end,
                   flat_output, rows, stores, failed, merge, result>>

\* The lines of one element; after the last of the chunk, the chunk's store is
\* the builder's, which starts again.
Element(w) ==
    /\ phase = "region" /\ w \in active /\ at[w] < end[w] /\ ~Throws(at[w])
    /\ at' = [at EXCEPT ![w] = @ + 1]
    /\ LET staged == flat_output[w] \o Lines(at[w])
           last == at[w] + 1 = end[w]
       IN IF Indexed
          THEN /\ stores' = [stores EXCEPT ![at[w]] = Lines(at[w])]
               /\ UNCHANGED <<flat_output, rows>>
          ELSE /\ flat_output' = [flat_output EXCEPT ![w] = IF last THEN <<>> ELSE staged]
               /\ rows' = IF last THEN [rows EXCEPT ![w][Len(rows[w])].store = staged]
                          ELSE rows
               /\ UNCHANGED stores
    /\ UNCHANGED <<call, phase, normalized, prepass_error, next, end, active, failed,
                   merge, result>>

ElementThrows(w) ==
    /\ phase = "region" /\ w \in active /\ at[w] < end[w] /\ Throws(at[w])
    /\ failed' = failed \cup {at[w]}
    /\ active' = active \ {w}
    /\ UNCHANGED <<call, phase, normalized, prepass_error, next, at, end,
                   flat_output, rows, stores, merge, result>>

\* run_parallel() returns or raises its first failure; then the prepass's.
EndRegion ==
    /\ phase = "region" /\ active = {}
    /\ IF failed # {} \/ prepass_error
       THEN /\ result' = Raised(IF failed # {} THEN Min(failed) ELSE normalized)
            /\ phase' = "done"
       ELSE IF Indexed THEN result' = Value(stores) /\ phase' = "done"
       ELSE UNCHANGED result /\ phase' = "merge"
    /\ UNCHANGED <<call, normalized, prepass_error, region, merge>>

-----------------------------------------------------------------------------
(* ChunkStores::concatenate() and concat_stores()                          *)

Left == {w \in Worker : cursors[w] < Len(rows[w])}
key(w) == rows[w][cursors[w] + 1].begin

\* The row whose next chunk begins first, the lowest of equals.
chosen ==
    CHOOSE w \in Left : \A v \in Left : key(w) <= key(v) /\ (key(w) = key(v) => w <= v)

Merge ==
    /\ phase = "merge" /\ Left # {}
    /\ ordered' = Append(ordered, rows[chosen][cursors[chosen] + 1])
    /\ cursors' = [cursors EXCEPT ![chosen] = @ + 1]
    /\ UNCHANGED <<call, phase, normalized, prepass_error, region, result>>

concat_stores(entries) == FlattenSeq([k \in 1..Len(entries) |-> entries[k].store])

MergeDone ==
    /\ phase = "merge" /\ Left = {}
    /\ result' = Value(concat_stores(ordered))
    /\ phase' = "done"
    /\ UNCHANGED <<call, normalized, prepass_error, region, merge>>

Finished == phase = "done" /\ UNCHANGED vars

Next ==
    \/ Plan \/ SerialElement \/ SerialDone \/ Normalize
    \/ \E W \in SUBSET Worker : StartRegion(W)
    \/ \E w \in Worker : Claim(w) \/ ClaimNothing(w) \/ Element(w) \/ ElementThrows(w)
    \/ EndRegion \/ Merge \/ MergeDone \/ Finished

Spec == Init /\ [][Next]_vars

-----------------------------------------------------------------------------
(* Properties.                                                             *)

\* Every variable has its type, and a worker's chunk lies in the work.
TypeOK ==
    /\ IsCall(call) /\ normalized \in 0..call.n /\ prepass_error \in BOOLEAN
    /\ phase \in {"plan", "serial", "prepass", "region", "merge", "done"}
    /\ next \in Nat /\ active \subseteq call.workers /\ failed \subseteq 0..(call.n - 1)
    /\ \A w \in Worker : at[w] <= end[w] /\ end[w] <= normalized
                         /\ cursors[w] <= Len(rows[w])
    /\ result.kind \in {"pending", "value", "raised"}

Failures == {i \in 0..(call.n - 1) : call.inputs[i] = "bytes" \/ Throws(i)}

\* The call returns what a loop over the elements returns, line for line, and
\* raises what that loop would have raised: whichever worker drew which chunk,
\* and although all inputs are normalized before the first is wrapped.
ResultIsSerial ==
    phase = "done" =>
      result = IF Failures # {} THEN Raised(Min(Failures))
               ELSE Value(IF Indexed THEN [i \in 0..(call.n - 1) |-> Lines(i)]
                          ELSE FlattenSeq([k \in 1..call.n |-> Lines(k - 1)]))

\* The merge walks every row once and never sorts: it relies on every row
\* ascending, and what it has taken begins before everything that is left.
MergeAscends ==
    phase \in {"region", "merge"} =>
      /\ \A w \in Worker : \A j, k \in 1..Len(rows[w]) :
           j < k => rows[w][j].begin < rows[w][k].begin
      /\ \A j \in 1..Len(ordered) : \A w \in Left : ordered[j].begin < key(w)

\* No chunk is merged before the last of its elements was staged.
MergedChunksAreComplete ==
    phase = "merge" =>
      \A w \in Worker : \A k \in 1..Len(rows[w]) :
        LET e == rows[w][k] IN
          e.store = FlattenSeq([j \in 1..(Min({call.chunk, call.n - e.begin})) |->
                                  Lines(e.begin + j - 1)])

=============================================================================
