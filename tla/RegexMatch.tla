----------------------------- MODULE RegexMatch -----------------------------
(***************************************************************************)
(* ci_match_first_regex() and ci_match_all_regex() of                      *)
(* src/altrep_backend/ci_search_regex_match.cpp: the matches of patterns   *)
(* and their capture groups, as one matrix or as a list of matrices.  With *)
(* several patterns a task is a lane, the rows that one pattern covers; a  *)
(* matrix of first matches is then staged by lanes in one region and       *)
(* filled by rows in another, once its width is known.                     *)
(*                                                                         *)
(* A subject is what the patterns find in it: nothing, one or two matches, *)
(* or an error.  A pattern is its capture groups.  A range is its subject, *)
(* its match and its group; the second group of a match is always absent.  *)
(***************************************************************************)
EXTENDS Integers, SequencesExt, FiniteSetsExt

CONSTANTS
    Calls,      \* the calls explored, see IsCall
    Worker      \* the workers, 0 up to the most granted

VARIABLES
    call,           \* the arguments and the settings of the plan
    phase,          \* where the entry point is
    next,           \* the cursor of the region, or of the serial loop
    lanes,          \* what every worker holds
    matches,        \* staged_matches
    captures,       \* staged_captures of the serial loop, by columns
    row_captures,   \* of the staging region, by rows
    row_warnings,   \* SerialWarnings: what every chunk has counted
    failures,       \* the workers' reports
    metadata,       \* staged_capture_names
    stores,         \* stores, row_counts and column_counts
    result,         \* the result: cells, columns and names
    warnings,       \* empty_pattern_warnings
    error           \* the error the call raises

region == <<lanes, row_warnings, failures, metadata>>
staged == <<matches, captures, row_captures, stores>>
vars == <<call, phase, next, region, staged, result, warnings, error>>

Subject == {"na", "bytes", "none", "one", "two", "trap"}
Groups == [g0 |-> 0, g1 |-> 1, g2 |-> 2]
Pattern == {"na", "bytes", "empty", "invalid"} \cup DOMAIN Groups
IsCall(c) ==
    /\ c.op \in {"first", "all"} /\ c.omit \in BOOLEAN
    /\ c.subjects \in Seq(Subject) /\ c.patterns \in Seq(Pattern)
    /\ c.cg_missing \in {"text", "bytes"}
    /\ c.workers \in Nat \ {0} /\ 0..(c.workers - 1) \subseteq Worker
    /\ c.chunk \in Nat \ {0}

CallsAssumption == \A c \in Calls : IsCall(c)

NA == <<-2, 0, 0>>          \* a missing record
ABSENT == <<-1, 0, 0>>      \* cg_missing
UNSET == <<-3, 0, 0>>

-----------------------------------------------------------------------------
(* Lengths, lanes and plans.                                               *)

subject_length == Len(call.subjects)
pattern_length == Len(call.patterns)
recycling_length ==
    IF 0 \in {subject_length, pattern_length} THEN 0
    ELSE Max({subject_length, pattern_length})
rows == recycling_length
scalar == pattern_length = 1
Row == 0..(rows - 1)

tasks == IF rows = 0 THEN 0 ELSE IF scalar THEN rows ELSE pattern_length

\* What parallel_plan() grants for n tasks, see ParallelPlan.
parallel_plan(n) ==
    IF call.workers = 1 \/ n < 2 THEN [workers |-> 1, chunk |-> Max({n, 1})]
    ELSE [workers |-> Min({call.workers, (n + call.chunk - 1) \div call.chunk}),
          chunk |-> call.chunk]
plan == parallel_plan(tasks)
fill_plan == parallel_plan(rows)

subject(i) == call.subjects[(i % subject_length) + 1]
pattern(l) == call.patterns[l + 1]
Unusable == {"na", "empty"}

\* The rows a lane strides over.
lane_rows(l) == {i \in Row : i % pattern_length = l}

-----------------------------------------------------------------------------
(* The matcher.                                                            *)

match_count(i) == CASE subject(i) = "one" -> 1 [] subject(i) = "two" -> 2 [] OTHER -> 0
range(i, k, g) == IF g = 2 THEN ABSENT ELSE <<i % subject_length, k, g>>

\* find_first_with_captures(): what a row's match and its groups are.
first_of(i, n) ==
    IF subject(i) = "na" THEN [g \in 0..n |-> NA]
    ELSE [g \in 0..n |-> IF match_count(i) = 0 THEN ABSENT ELSE range(i, 1, g)]

bind_error(l) == IF pattern(l) = "invalid" THEN <<"compile", l>> ELSE <<>>
\* The error of a lane: its pattern, or the first of the rows that fail.
error_of(l, R) ==
    IF pattern(l) \in Unusable THEN <<>>
    ELSE IF bind_error(l) # <<>> THEN bind_error(l)
    ELSE IF \E i \in R : subject(i) = "trap" THEN <<"match", 0>> ELSE <<>>

-----------------------------------------------------------------------------
(* The entry points up to their loops.                                     *)

NoMatrix == [cells |-> <<>>, columns |-> 1, names |-> "none"]
IdleLane == [state |-> "start", begin |-> -1, end |-> -1, task |-> -1]

Init ==
    /\ call \in Calls
    /\ phase = "prepare" /\ next = 0
    /\ lanes = [w \in Worker |-> IdleLane]
    /\ matches = [i \in Row |-> NA]
    /\ captures = <<>> /\ row_captures = [i \in Row |-> <<>>]
    /\ row_warnings = <<>> /\ failures = {} /\ metadata = <<>>
    /\ stores = [i \in Row |-> [cells |-> <<>>, rows |-> 0, columns |-> 0]]
    /\ result = IF call.op = "first" THEN NoMatrix ELSE <<>>
    /\ warnings = 0 /\ error = <<>>

Raise(e) == phase' = "raised" /\ error' = e

empty_count == Cardinality({l \in 1..pattern_length : call.patterns[l] = "empty"})

\* cg_missing, the subjects and the patterns are read in that order; a call
\* for all matches reads no patterns when there is no row.
Prepare ==
    /\ phase = "prepare"
    /\ IF \/ call.cg_missing = "bytes"
          \/ rows > 0 /\ Contains(call.subjects, "bytes")
          \/ (call.op = "first" \/ rows > 0) /\ Contains(call.patterns, "bytes")
       THEN Raise(<<"bytes", 0>>) /\ UNCHANGED warnings
       ELSE /\ warnings' = IF call.op = "first" \/ rows > 0 THEN empty_count ELSE 0
            /\ phase' = IF call.op = "all" /\ rows = 0 THEN "returned"
                        ELSE IF call.op = "first" /\ scalar THEN "scalar" ELSE "start"
            /\ UNCHANGED error
    /\ UNCHANGED <<call, next, region, staged, result>>

\* The only pattern of ci_match_first_regex() is bound on the main thread, which
\* reads the width and the names off it.
BindScalar ==
    /\ phase = "scalar"
    /\ IF bind_error(0) # <<>>
       THEN Raise(bind_error(0)) /\ UNCHANGED <<result, warnings>>
       ELSE LET n == IF pattern(0) \in Unusable THEN 0 ELSE Groups[pattern(0)]
            IN /\ result' = [cells |-> [x \in 0..(rows * (n + 1) - 1) |-> UNSET],
                             columns |-> n + 1,
                             names |-> IF n > 0 THEN pattern(0) ELSE "none"]
               /\ warnings' = IF pattern(0) = "empty" THEN warnings + Max({rows, 1})
                              ELSE warnings
               /\ phase' = "start" /\ UNCHANGED error
    /\ UNCHANGED <<call, next, region, staged>>

\* Entering a region, or the serial loop.
Start ==
    /\ phase = "start"
    /\ phase' = IF plan.workers > 1 THEN "region" ELSE "serial"
    /\ row_warnings' = [c \in 0..((tasks + plan.chunk - 1) \div plan.chunk - 1) |-> 0]
    /\ metadata' = [x \in 0..((IF scalar THEN plan.workers ELSE pattern_length) - 1) |-> "none"]
    /\ UNCHANGED <<call, next, lanes, failures, staged, result, warnings, error>>

-----------------------------------------------------------------------------
(* Cells.                                                                  *)

\* A matrix is laid out by columns.
cell(i, g) == i + g * rows

\* The matrix once the ranges of row i are in it, the rest of the row missing.
with_row(cells, i, ranges) ==
    [x \in DOMAIN cells |->
       LET g == {k \in 0..(result.columns - 1) : cell(i, k) = x}
       IN IF g = {} THEN cells[x]
          ELSE LET k == CHOOSE k \in g : TRUE
               IN IF k \in DOMAIN ranges THEN ranges[k] ELSE NA]

\* build_all_matches() and the cases of stage_one() around it.
all_matches(i, l) ==
    IF pattern(l) \in Unusable THEN [cells |-> [x \in 0..0 |-> NA], rows |-> 1, columns |-> 1]
    ELSE LET n == Groups[pattern(l)]
             count == match_count(i)
             r == IF count > 0 THEN count
                  ELSE IF call.omit /\ subject(i) # "na" THEN 0 ELSE 1
         IN [cells |-> [x \in 0..(r * (n + 1) - 1) |->
                          IF count = 0 THEN NA ELSE range(i, (x % r) + 1, x \div r)],
             rows |-> r, columns |-> n + 1]

-----------------------------------------------------------------------------
(* The serial loop: one lane, or one row of a scalar pattern, at a time.   *)

\* ensure_capture_columns()
with_columns(cols, n) ==
    cols \o [k \in 1..Max({n - Len(cols), 0}) |-> [i \in Row |-> NA]]

SerialLane ==
    /\ phase = "serial" /\ next < (IF scalar THEN 1 ELSE pattern_length)
    /\ LET l == next
           R == lane_rows(l)
           usable == pattern(l) \notin Unusable
       IN IF error_of(l, R) # <<>>
          THEN Raise(error_of(l, R)) /\ UNCHANGED <<staged, result, warnings, next, metadata>>
          ELSE /\ next' = next + 1
               /\ warnings' = IF pattern(l) # "empty" \/ (scalar /\ call.op = "first")
                              THEN warnings
                              ELSE warnings + Max({Cardinality(R), IF rows = 0 THEN 1 ELSE 0})
               /\ CASE call.op = "all" ->
                       /\ stores' = [i \in Row |-> IF i \in R THEN all_matches(i, l)
                                                   ELSE stores[i]]
                       /\ metadata' = [metadata EXCEPT ![l] =
                             IF usable /\ Groups[pattern(l)] > 0 THEN pattern(l) ELSE "none"]
                       /\ UNCHANGED <<matches, captures, result>>
                    [] call.op = "first" /\ scalar ->
                       /\ result' = [result EXCEPT !.cells =
                             [x \in DOMAIN @ |->
                                IF usable THEN first_of(x % rows, result.columns - 1)[x \div rows]
                                ELSE NA]]
                       /\ UNCHANGED <<matches, captures, stores, metadata>>
                    [] OTHER ->
                       LET n == IF usable THEN Groups[pattern(l)] ELSE 0
                           cols == with_columns(captures, n)
                       IN /\ matches' = [i \in Row |-> IF usable /\ i \in R
                                                       THEN first_of(i, 0)[0] ELSE matches[i]]
                          /\ captures' = [k \in 1..Len(cols) |-> [i \in Row |->
                                            IF i \in R /\ k <= n THEN first_of(i, n)[k]
                                            ELSE cols[k][i]]]
                          /\ UNCHANGED <<stores, result, metadata>>
               /\ UNCHANGED <<row_captures, phase, error>>
    /\ UNCHANGED <<call, lanes, row_warnings, failures>>

SerialEnd ==
    /\ phase = "serial" /\ next = (IF scalar THEN 1 ELSE pattern_length)
    /\ phase' = IF call.op = "all" THEN "list" ELSE "returned"
    /\ result' = IF call.op = "all" \/ scalar THEN result
                 ELSE LET n == Len(captures)
                      IN [cells |-> [x \in 0..(rows * (n + 1) - 1) |->
                                       IF x < rows THEN matches[x]
                                       ELSE captures[x \div rows][x % rows]],
                          columns |-> n + 1, names |-> "none"]
    /\ UNCHANGED <<call, next, region, staged, warnings, error>>

-----------------------------------------------------------------------------
(* The regions.                                                            *)

current_plan == IF phase = "fill" THEN fill_plan ELSE plan
current_tasks == IF phase = "fill" THEN rows ELSE tasks
InRegion(w) == phase \in {"region", "fill"} /\ w < current_plan.workers

Lane(w, l) == lanes' = [lanes EXCEPT ![w] = l]
Fail(w, e) ==
    /\ Lane(w, [lanes[w] EXCEPT !.state = "failed"])
    /\ failures' = failures \cup {[at |-> lanes[w].begin, worker |-> w, error |-> e]}

names_of(l) ==
    IF pattern(l) \in DOMAIN Groups /\ Groups[pattern(l)] > 0 THEN pattern(l) ELSE "none"

\* What a body does before its first chunk: with one pattern it is bound here,
\* and AllMatchBody keeps its names under the worker.
Begin(w) ==
    /\ InRegion(w) /\ lanes[w].state = "start"
    /\ IF phase = "region" /\ scalar /\ bind_error(0) # <<>>
       THEN Fail(w, bind_error(0)) /\ UNCHANGED metadata
       ELSE /\ Lane(w, [lanes[w] EXCEPT !.state = "idle"])
            /\ metadata' = IF phase = "region" /\ scalar /\ call.op = "all"
                           THEN [metadata EXCEPT ![w] = names_of(0)] ELSE metadata
            /\ UNCHANGED failures
    /\ UNCHANGED <<call, phase, next, row_warnings, staged, result, warnings, error>>

Claim(w) ==
    /\ InRegion(w) /\ lanes[w].state = "idle" /\ next < current_tasks
    /\ LET end == Min({next + current_plan.chunk, current_tasks})
       IN /\ Lane(w, [state |-> "task", begin |-> next, end |-> end, task |-> next])
          /\ next' = end
    /\ UNCHANGED <<call, phase, row_warnings, failures, metadata, staged, result, warnings,
                   error>>

done(w) ==
    LET l == lanes[w]
    IN [l EXCEPT !.task = @ + 1, !.state = IF l.task + 1 = l.end THEN "idle" ELSE "task"]

\* The pattern and the rows of a task.
lane_of(t) == IF scalar THEN 0 ELSE t
rows_of(t) == IF scalar THEN {t} ELSE lane_rows(t)

\* ScalarFirstBody: the row is missing until its ranges are written over it.
ScalarFirst(t) ==
    /\ result' = [result EXCEPT !.cells =
          with_row(@, t, IF pattern(0) \in Unusable THEN <<>>
                         ELSE first_of(t, result.columns - 1))]
    /\ UNCHANGED <<matches, row_captures, stores, metadata>>

\* The groups of the match of row i.
row_ranges(i, n) == [k \in 1..n |-> first_of(i, n)[k]]

\* StageFirstBody
StageFirst(t) ==
    /\ LET usable == pattern(t) \notin Unusable
           n == IF usable THEN Groups[pattern(t)] ELSE 0
       IN /\ matches' = [i \in Row |-> IF usable /\ i \in rows_of(t) THEN first_of(i, 0)[0]
                                       ELSE matches[i]]
          /\ row_captures' = [i \in Row |->
                IF usable /\ i \in rows_of(t) THEN row_ranges(i, n)
                ELSE row_captures[i]]
    /\ UNCHANGED <<result, stores, metadata>>

\* AllMatchBody
StageAll(t) ==
    /\ stores' = [i \in Row |-> IF i \in rows_of(t) THEN all_matches(i, lane_of(t)) ELSE stores[i]]
    /\ metadata' = IF scalar THEN metadata ELSE [metadata EXCEPT ![t] = names_of(t)]
    /\ UNCHANGED <<result, matches, row_captures>>

\* SerialWarnings::add() for every row of an empty pattern.
Task(w) ==
    /\ phase = "region" /\ lanes[w].state = "task"
    /\ LET t == lanes[w].task
           e == error_of(lane_of(t), rows_of(t))
       IN IF e # <<>>
          THEN Fail(w, e) /\ UNCHANGED <<result, matches, row_captures, stores, metadata,
                                         row_warnings>>
          ELSE /\ CASE call.op = "all" -> StageAll(t)
                    [] call.op = "first" /\ scalar -> ScalarFirst(t)
                    [] OTHER -> StageFirst(t)
               /\ row_warnings' =
                    IF pattern(lane_of(t)) # "empty" \/ (scalar /\ call.op = "first")
                    THEN row_warnings
                    ELSE [row_warnings EXCEPT ![lanes[w].begin \div plan.chunk] =
                            @ + Cardinality(rows_of(t))]
               /\ Lane(w, done(w)) /\ UNCHANGED failures
    /\ UNCHANGED <<call, phase, next, captures, warnings, error>>

AllStopped ==
    \A w \in 0..(current_plan.workers - 1) :
        lanes[w].state = "failed" \/ (lanes[w].state = "idle" /\ next = current_tasks)

\* Mutant: the report of the lowest worker.
raised_by_worker == CHOOSE f \in failures : \A g \in failures : f.worker <= g.worker

\* The report run_region() raises again.
raised ==
    CHOOSE f \in failures : \A g \in failures :
        f.at < g.at \/ (f.at = g.at /\ f.worker <= g.worker)

\* The chunks that SerialWarnings::count() adds up; fail_at() keeps those up to
\* the failing one.
counted ==
    IF failures = {} THEN DOMAIN row_warnings
    ELSE IF raised.at < 0 THEN {} ELSE 0..(raised.at \div plan.chunk)

maximum_captures == Max({Len(row_captures[i]) : i \in Row})

EndRegion ==
    /\ phase = "region" /\ AllStopped
    /\ warnings' = warnings + MapThenSumSet(LAMBDA c : row_warnings[c], counted)
    /\ IF failures # {} THEN Raise(raised.error) /\ UNCHANGED <<result, next, lanes>>
       ELSE IF call.op = "first" /\ ~scalar
       THEN /\ result' = [cells |-> [x \in 0..(rows * (maximum_captures + 1) - 1) |-> UNSET],
                          columns |-> maximum_captures + 1, names |-> "none"]
            /\ next' = 0 /\ lanes' = [w \in Worker |-> IdleLane]
            /\ phase' = "fill" /\ UNCHANGED error
       ELSE /\ phase' = IF call.op = "all" THEN "list" ELSE "returned"
            /\ UNCHANGED <<result, next, lanes, error>>
    /\ UNCHANGED <<call, row_warnings, failures, metadata, staged>>

\* FillFirstBody
FillTask(w) ==
    /\ phase = "fill" /\ lanes[w].state = "task"
    /\ LET i == lanes[w].task
           ranges == [g \in 0..Len(row_captures[i]) |->
                        IF g = 0 THEN matches[i] ELSE row_captures[i][g]]
       IN result' = [result EXCEPT !.cells = with_row(@, i, ranges)]
    /\ Lane(w, done(w))
    /\ UNCHANGED <<call, phase, next, row_warnings, failures, metadata, staged, warnings, error>>

EndFill ==
    /\ phase = "fill" /\ AllStopped
    /\ phase' = "returned"
    /\ UNCHANGED <<call, next, region, staged, result, warnings, error>>

\* Where the main thread finds the names of a lane.
metadata_index(l) == IF scalar THEN 0 ELSE l

\* The list of matrices, lane by lane.
BuildList ==
    /\ phase = "list"
    /\ result' = [i \in Row |-> [cells |-> stores[i].cells, rows |-> stores[i].rows,
                                 columns |-> stores[i].columns,
                                 names |-> metadata[metadata_index(i % pattern_length)]]]
    /\ phase' = "returned"
    /\ UNCHANGED <<call, next, region, staged, warnings, error>>

Ended == phase \in {"returned", "raised"}
Finished == Ended /\ UNCHANGED vars

Next ==
    \/ Prepare \/ BindScalar \/ Start \/ SerialLane \/ SerialEnd
    \/ EndRegion \/ EndFill \/ BuildList \/ Finished
    \/ \E w \in Worker : Begin(w) \/ Claim(w) \/ Task(w) \/ FillTask(w)

Spec == Init /\ [][Next]_vars

-----------------------------------------------------------------------------
(* What one thread computes.                                               *)

\* The arguments could be read.
Entered == error # <<"bytes", 0>>
Lanes == 0..(pattern_length - 1)
Failing == {l \in Lanes : error_of(l, lane_rows(l)) # <<>>}
SerialError ==
    IF Failing = {} \/ (call.op = "all" /\ rows = 0) THEN <<>>
    ELSE LET l == Min(Failing) IN error_of(l, lane_rows(l))

\* The groups of the pattern of row i, and of the widest pattern.
GroupsOf(l) == IF pattern(l) \in Unusable THEN 0 ELSE Groups[pattern(l)]
Width == 1 + Max({GroupsOf(l) : l \in Lanes} \cup {0})
CellOf(i, g) ==
    LET l == i % pattern_length
    IN IF pattern(l) \in Unusable \/ g > GroupsOf(l) THEN NA
       ELSE first_of(i, GroupsOf(l))[g]

-----------------------------------------------------------------------------
\* Type invariant: the matrix, the staging vectors and the chunks' counters.
TypeOK ==
    /\ phase \in {"prepare", "scalar", "start", "serial", "region", "fill", "list",
                  "returned", "raised"}
    /\ next \in 0..Max({tasks, rows, 1, pattern_length})
    /\ \A w \in Worker : lanes[w].state \in {"start", "idle", "task", "failed"}
    /\ DOMAIN matches = Row /\ DOMAIN row_captures = Row /\ DOMAIN stores = Row
    /\ \A k \in 1..Len(captures) : DOMAIN captures[k] = Row
    /\ \A i \in Row : Len(row_captures[i]) <= 2
    /\ warnings \in Nat

\* A call that returns has every cell of its matrix, at the row of its subject
\* and the column of its group, as wide as the widest pattern and missing where
\* a row's pattern has fewer groups; or, for all matches, every row's own matrix
\* under the names of its own pattern, whichever worker found it
\* (ScalarFirstBody, StageFirstBody, FillFirstBody, AllMatchBody).
ResultIsSerial ==
    phase = "returned" =>
        IF call.op = "first"
        THEN /\ result.columns = Width
             /\ DOMAIN result.cells = 0..(rows * Width - 1)
             /\ \A i \in Row, g \in 0..(Width - 1) : result.cells[i + g * rows] = CellOf(i, g)
             /\ result.names = IF scalar THEN names_of(0) ELSE "none"
        ELSE rows > 0 => \A i \in Row :
                /\ [f \in {"cells", "rows", "columns"} |-> result[i][f]]
                     = all_matches(i, i % pattern_length)
                /\ result[i].names = names_of(i % pattern_length)

\* The call warns of every empty pattern and once more for every row it covers;
\* when it fails, only for the rows of the patterns before the one that failed,
\* although the workers had gone further (SerialWarnings, ci_match_all_regex).
WarningsAreSerial ==
    (Ended /\ Entered) =>
        LET reached == IF Failing = {} THEN Lanes ELSE 0..(Min(Failing) - 1)
            empties == {l \in reached : pattern(l) = "empty"}
        IN (call.op = "first" \/ rows > 0) =>
             warnings = empty_count
                + MapThenSumSet(LAMBDA l : Max({Cardinality(lane_rows(l)), IF rows = 0 THEN 1 ELSE 0}),
                                empties)

\* It fails exactly when the serial loop does and with the same error, that of
\* the lowest failing lane; with one pattern every worker fails to bind it
\* before it claims a row (run_parallel_with_warnings, bind_for_pattern).
FailureIsSerial == (Ended /\ Entered) => error = SerialError

=============================================================================
