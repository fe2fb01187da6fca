---------------------------- MODULE FixedKernels ----------------------------
(***************************************************************************)
(* The fixed-pattern operations of src/altrep_backend that try a direct    *)
(* byte kernel first and hand the rest to a general kernel: counting       *)
(* (ci_search_fixed_count.cpp), detecting (ci_search_fixed_detect.cpp) and *)
(* replacing (ci_search_fixed_replace.cpp).  Threaded, each kernel is one  *)
(* parallel region, of which only RegionContract is used.                  *)
(*                                                                         *)
(* A subject is its class: missing, found or not found by the direct       *)
(* kernel, found or not in another encoding, or bytes, which no kernel     *)
(* reads.  A pattern is one ASCII byte, something else, empty or missing.  *)
(***************************************************************************)
EXTENDS Integers, FiniteSets

CONSTANTS
    Calls,      \* the calls explored, see IsCall
    Worker      \* the workers that may draw a task

VARIABLES
    call,               \* the arguments
    phase,              \* where the entry point is
    general_start,      \* where the general kernel begins
    max_count,          \* how many more matches detect may report
    result,             \* the output vector, or the builder's records
    kernel,             \* who wrote each element last
    warning_slots,      \* empty patterns met, per worker
    empty_warnings,     \* empty_pattern_warnings
    tasks, body, writes, parked, outcome    \* the running region

region == <<tasks, body, writes, parked, outcome>>
entry  == <<call, phase, general_start, max_count, result, kernel,
            warning_slots, empty_warnings>>
vars   == <<entry, region>>

Region == INSTANCE RegionContract WITH Bodies <- {}

Subject == {"na", "hit", "miss", "latin_hit", "latin_miss", "bytes"}
Pattern == {"byte", "wide", "empty", "na"}
IsCall(c) ==
    /\ c.op \in {"count", "detect", "replace", "sequential"}
    /\ {c.threads, c.n, c.m, c.r} \subseteq Nat /\ c.max_count \in Int
    /\ c.subjects \in [0..(c.n - 1) -> Subject]
    /\ c.patterns \in [0..(c.m - 1) -> Pattern]
    /\ c.op \in {"count", "detect"} => c.r = 1
    /\ c.op # "detect" => c.max_count = -1
    \* require_sequential_lengths() and a single pattern's vectorized core
    /\ c.op = "sequential" => c.m > 1 /\ c.r > 0 /\ c.r <= c.m

CallsAssumption == Worker # {} /\ \A c \in Calls : IsCall(c)

NoResult == "unset"
PlainBody(R) == [throws |-> {}, refuses |-> R, setupThrows |-> {}]

-----------------------------------------------------------------------------
(* Lengths, lanes and eligibility.                                         *)

\* The longest argument, or nothing when one is empty; replacing "all" one
\* pattern after another keeps the subjects' length.
recycling_length(c) ==
    IF c.op = "sequential" THEN c.n
    ELSE IF 0 \in {c.n, c.m, c.r} THEN 0
    ELSE CHOOSE k \in {c.n, c.m, c.r} : \A j \in {c.n, c.m, c.r} : j <= k

Length == recycling_length(call)
Element == 0..(Length - 1)

\* With one pattern, or with patterns applied in sequence, a task is an
\* element; otherwise it is a lane of the elements that share a pattern.
TaskCount == IF call.op = "sequential" \/ call.m = 1 THEN Length ELSE call.m

threaded == call.threads > 1 /\ TaskCount > 1
              /\ (call.op = "detect" => call.max_count < 0)

\* The loop over a lane compares before it adds, so that i + m stays an int.
lane_elements(lane) ==
    LET walk[i \in Nat] == {i} \cup (IF call.m >= Length - i THEN {}
                                     ELSE walk[i + call.m])
    IN walk[lane]

direct_ascii_pattern(c) ==
    c.op # "sequential" /\ c.m = 1 /\ c.r = 1 /\ c.patterns[0] = "byte"

\* What a direct kernel refuses: a record that is not ASCII or UTF-8.
direct_refuses(i) == call.subjects[i] \in {"latin_hit", "latin_miss", "bytes"}

\* What either kernel writes for element i under pattern p when detect may
\* still report k matches (a negative k has no limit).
value(i, p, k) ==
    LET s == call.subjects[i % call.n]
    IN IF k = 0 \/ s = "na" \/ p \in {"na", "empty"} THEN "NA"
       ELSE IF s \in {"hit", "latin_hit"} THEN "hit" ELSE "miss"

pattern_of(i) == call.patterns[i % call.m]

\* Patterns in sequence: one that is missing or empty makes all missing.
first_unusable ==
    {j \in 0..(call.m - 1) : call.patterns[j] \in {"na", "empty"}
        /\ \A h \in 0..(j - 1) : call.patterns[h] \notin {"na", "empty"}}
sequential_value(i) ==
    IF first_unusable # {} THEN "NA" ELSE value(i, "byte", -1)

sequential_warnings ==
    Cardinality({j \in first_unusable : call.patterns[j] = "empty"})

general_value(i) ==
    IF call.op = "sequential" THEN sequential_value(i)
    ELSE value(i, pattern_of(i), -1)

count_empty_patterns ==
    Cardinality({j \in 0..(call.m - 1) : call.patterns[j] = "empty"})

\* Scanning elements S in ascending order from a remaining count of k: the
\* values, and the count left.  Only detect's count is ever not negative.
scan(S, k) ==
    LET step[i \in Int] ==
            IF i = -1 THEN [out |-> <<>>, left |-> k]
            ELSE LET before == step[i - 1]
                     v == value(i, pattern_of(i), before.left)
                 IN IF i \notin S THEN before
                    ELSE [out |-> [j \in DOMAIN before.out \cup {i} |->
                                     IF j = i THEN v ELSE before.out[j]],
                          left |-> IF before.left > 0 /\ v = "hit"
                                   THEN before.left - 1 ELSE before.left]
    IN step[Length - 1]

-----------------------------------------------------------------------------
Init ==
    /\ call \in Calls
    /\ phase = "begin"
    /\ general_start = 0 /\ max_count = call.max_count
    /\ result = [i \in Element |-> NoResult]
    /\ kernel = [i \in Element |-> "none"]
    /\ warning_slots = [w \in Worker |-> 0] /\ empty_warnings = 0
    /\ tasks = 0 /\ body = PlainBody({}) /\ writes = <<>> /\ parked = {}
    /\ outcome = Region!Returned

StartRegion(k, R) ==
    /\ tasks' = k /\ body' = PlainBody(R)
    /\ writes' = [t \in 0..(k - 1) |-> 0] /\ parked' = {}
    /\ outcome' = Region!Running

\* Nothing to do for an empty result.
ReturnEmpty ==
    /\ phase = "begin" /\ Length = 0
    /\ phase' = "done"
    /\ UNCHANGED <<call, general_start, max_count, result, kernel,
                   warning_slots, empty_warnings, region>>

\* A serial plan scans until the first record the kernel refuses.
ScanDirect ==
    LET refused == {i \in Element : direct_refuses(i)}
        prefix == {i \in Element : \A j \in refused : i < j}
        done == scan(prefix, max_count)
    IN /\ phase = "begin" /\ Length > 0 /\ ~threaded
       /\ IF direct_ascii_pattern(call)
          THEN /\ result' = [i \in Element |->
                               IF i \in prefix THEN done.out[i] ELSE result[i]]
               /\ kernel' = [i \in Element |->
                               IF i \in prefix THEN "direct" ELSE kernel[i]]
               /\ general_start' = IF refused = {} THEN 0
                                   ELSE Cardinality(prefix)
               /\ max_count' = done.left
               /\ phase' = IF refused = {} THEN "done" ELSE "normalize"
          ELSE /\ phase' = "normalize"
               /\ UNCHANGED <<general_start, max_count, result, kernel>>
       /\ UNCHANGED <<call, warning_slots, empty_warnings, region>>

\* A threaded plan hands the direct kernel to a region.
StartDirect ==
    /\ phase = "begin" /\ Length > 0 /\ threaded
    /\ IF direct_ascii_pattern(call)
       THEN /\ phase' = "direct"
            /\ StartRegion(Length, {i \in Element : direct_refuses(i)})
       ELSE /\ phase' = "normalize" /\ UNCHANGED region
    /\ UNCHANGED <<call, general_start, max_count, result, kernel,
                   warning_slots, empty_warnings>>

DirectElement(i) ==
    /\ phase = "direct" /\ Region!Write(i)
    /\ result' = [result EXCEPT ![i] = value(i, pattern_of(i), max_count)]
    /\ kernel' = [kernel EXCEPT ![i] = "direct"]
    /\ UNCHANGED <<call, phase, general_start, max_count, warning_slots,
                   empty_warnings>>

DirectRefusal(i) ==
    /\ phase = "direct" /\ Region!Park(i)
    /\ UNCHANGED entry

DirectReturn ==
    /\ phase = "direct" /\ Region!Return
    /\ phase' = "reduce"
    /\ UNCHANGED <<call, general_start, max_count, result, kernel,
                   warning_slots, empty_warnings>>

lowest_ineligible_last(none) ==
    IF parked = {} THEN none ELSE CHOOSE i \in parked : \A j \in parked : j <= i

lowest_ineligible(none) ==
    IF parked = {} THEN none ELSE CHOOSE i \in parked : \A j \in parked : i <= j

\* Counting and detecting resume at the lowest refused element.  Replacing
\* abandons the attempt: its general kernel starts again at element 0.
ReduceRefusals ==
    LET resume == lowest_ineligible(Length)
    IN /\ phase = "reduce"
       /\ phase' = IF resume = Length THEN "done" ELSE "normalize"
       /\ general_start' = IF resume = Length \/ call.op = "replace" THEN 0
                           ELSE resume
       /\ UNCHANGED <<call, max_count, result, kernel, warning_slots,
                      empty_warnings, region>>

\* Every record is converted to UTF-8 before the general kernel; one marked
\* as bytes is an error.
NormalizeFails ==
    /\ phase = "normalize"
    /\ \E i \in 0..(call.n - 1) : call.subjects[i] = "bytes"
    /\ phase' = "failed"
    /\ UNCHANGED <<call, general_start, max_count, result, kernel,
                   warning_slots, empty_warnings, region>>

\* A threaded replacement resets its sharded builder here.
reset_builder == threaded /\ call.op \in {"replace", "sequential"}

StartGeneral ==
    /\ phase = "normalize"
    /\ \A i \in 0..(call.n - 1) : call.subjects[i] # "bytes"
    /\ phase' = "general"
    /\ empty_warnings' = count_empty_patterns
    /\ IF reset_builder
       THEN /\ result' = [i \in Element |-> NoResult]
            /\ kernel' = [i \in Element |-> "none"]
       ELSE UNCHANGED <<result, kernel>>
    /\ StartRegion(TaskCount, {})
    /\ UNCHANGED <<call, general_start, max_count, warning_slots>>

\* The elements of one task that the general kernel writes.
general_elements(t) ==
    IF TaskCount = Length THEN {i \in {t} : i >= general_start}
    ELSE lane_elements(t)

\* The serial general kernel runs its tasks in order; detect carries what is
\* left of max_count from one element to the next.
GeneralTask(t, w) ==
    LET E == general_elements(t)
        done == scan(E, max_count)
    IN /\ phase = "general" /\ Region!Write(t)
       /\ ~threaded => \A s \in 0..(t - 1) : writes[s] = 1
       /\ result' = [i \in Element |->
                       IF i \notin E THEN result[i]
                       ELSE IF call.op = "detect" THEN done.out[i]
                       ELSE general_value(i)]
       /\ kernel' = [i \in Element |->
                       IF i \in E THEN "general" ELSE kernel[i]]
       /\ max_count' = IF call.op = "detect" THEN done.left ELSE max_count
       /\ warning_slots' =
            IF call.op = "sequential"
            THEN [warning_slots EXCEPT ![w] = sequential_warnings]
            ELSE warning_slots
       /\ UNCHANGED <<call, phase, general_start, empty_warnings>>

\* Each worker that drew a chunk met the same empty pattern.
additional_warnings ==
    CHOOSE k \in {warning_slots[w] : w \in Worker} :
        \A w \in Worker : warning_slots[w] <= k

GeneralReturn ==
    /\ phase = "general" /\ Region!Return
    /\ phase' = "done"
    /\ empty_warnings' = empty_warnings + additional_warnings
    /\ UNCHANGED <<call, general_start, max_count, result, kernel,
                   warning_slots>>

Finished == phase \in {"done", "failed"} /\ UNCHANGED vars

Next ==
    \/ ReturnEmpty \/ ScanDirect \/ StartDirect
    \/ \E i \in Region!Task : DirectElement(i) \/ DirectRefusal(i)
    \/ DirectReturn \/ ReduceRefusals
    \/ NormalizeFails \/ StartGeneral
    \/ \E t \in Region!Task, w \in Worker : GeneralTask(t, w)
    \/ GeneralReturn
    \/ Finished

Spec == Init /\ [][Next]_vars

-----------------------------------------------------------------------------
TypeOK ==
    /\ IsCall(call)
    /\ phase \in {"begin", "direct", "reduce", "normalize", "general",
                  "done", "failed"}
    /\ general_start \in 0..Length
    /\ result \in [Element -> {NoResult, "NA", "hit", "miss"}]
    /\ kernel \in [Element -> {"none", "direct", "general"}]
    /\ warning_slots \in [Worker -> {0, 1}]
    /\ empty_warnings \in Nat

\* The call returns what a serial scan of all elements by the general kernel
\* returns (detect visits the elements lane by lane when patterns recycle),
\* and fails exactly when a subject is marked as bytes.
ResultIsSerial ==
    /\ phase = "done" => \A i \in Element : call.subjects[i % call.n] # "bytes"
    /\ phase = "done" =>
         IF call.op = "detect" /\ call.m = 1
         THEN result = scan(Element, call.max_count).out
         ELSE call.op # "detect" =>
                \A i \in Element : result[i] = general_value(i)
    /\ phase = "failed" => \E i \in Element : call.subjects[i % call.n] = "bytes"

\* count and detect keep exactly the direct prefix a serial scan would have
\* written: the elements below the first refused one, whichever workers
\* stopped and whatever they wrote above it.
KernelIsSerial ==
    phase = "done" /\ call.op \in {"count", "detect"}
        /\ direct_ascii_pattern(call) =>
        \A i \in Element :
            kernel[i] = IF \E j \in 0..i : direct_refuses(j)
                        THEN "general" ELSE "direct"

\* A replacement whose threaded attempt was refused shows no record of it:
\* the builder holds only what the general kernel wrote.
AttemptIsDiscarded ==
    phase \in {"general", "done"} /\ call.op = "replace" /\ threaded
        /\ direct_ascii_pattern(call) /\ (\E i \in Element : direct_refuses(i)) =>
        \A i \in Element : kernel[i] # "direct"

\* The lanes of a recycled call are a partition of the elements, so no index
\* passes the output and no two workers write one element.
LanesPartition ==
    phase = "general" /\ TaskCount # Length =>
        /\ UNION {lane_elements(t) : t \in Region!Task} = Element
        /\ \A s, t \in Region!Task :
             s # t => lane_elements(s) \cap lane_elements(t) = {}

\* The empty-pattern warnings are those of a serial run, however many workers
\* met the pattern and however many drew no chunk.
WarningsAreSerial ==
    phase = "done" /\ Length > 0 =>
        empty_warnings = count_empty_patterns
            + (IF call.op = "sequential" THEN sequential_warnings ELSE 0)

=============================================================================
