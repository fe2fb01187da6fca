---------------------------- MODULE FixedExtract ----------------------------
(***************************************************************************)
(* ci_extract_all_fixed() of src/altrep_backend/ci_search_fixed_extract.cpp*)
(* from its plan to its result, with plan_fixed_extract() of               *)
(* src/shared/fixed_search.cpp.  A row's matches are an index into the     *)
(* plan that holds them, so every copy of a row into another plan has to   *)
(* move that index: once when a worker collects its chunks, and once more  *)
(* when the workers' plans are merged.                                     *)
(*                                                                         *)
(* A subject is missing, empty, or the number of matches any pattern has   *)
(* in it; what FixedMatcher finds is named by the subject and its number.  *)
(* A pattern is missing, empty, or its text; two may have the same text.   *)
(***************************************************************************)
EXTENDS Integers, SequencesExt, FiniteSetsExt

CONSTANTS
    Calls,      \* the calls explored, see IsCall
    Worker      \* the workers, 0 up to the number granted

VARIABLES
    call,           \* the arguments
    phase,          \* where the entry point is
    next,           \* the region's cursor
    plans,          \* worker_plans
    segments,       \* worker_segments: the rows each chunk stands for
    plan,           \* the plan of the call
    source,         \* the worker merge_plans() is at
    merged_rows,    \* rows it has placed
    at,             \* the row the result loop is at
    children,       \* missing_child, empty_child and repeated_children
    result          \* what the call returns

vars == <<call, phase, next, plans, segments, plan, source, merged_rows, at,
          children, result>>
region == <<next, plans, segments>>
output == <<at, children, result>>

Subject == {"na", "empty", "none", "one", "two"}
Pattern == {"na", "empty", "p", "q"}
IsCall(c) ==
    /\ c.subjects \in Seq(Subject) /\ c.patterns \in Seq(Pattern)
    /\ c.case_insensitive \in BOOLEAN /\ c.omit_no_match \in BOOLEAN
    /\ c.simplify \in {"list", "matrix"}
    /\ c.workers \in Nat \ {0} /\ 0..(c.workers - 1) \subseteq Worker
    /\ c.chunk \in Nat \ {0}

CallsAssumption == \A c \in Calls : IsCall(c)

-----------------------------------------------------------------------------
(* plan_fixed_extract()                                                    *)

vectorize_length ==
    IF call.subjects = <<>> \/ call.patterns = <<>> THEN 0
    ELSE Max({Len(call.subjects), Len(call.patterns)})

subject_index(i) == i % Len(call.subjects)
pattern_index(i) == i % Len(call.patterns)
subject(i) == call.subjects[subject_index(i) + 1]
pattern(i) == call.patterns[pattern_index(i) + 1]

matches_are_patterns == ~call.case_insensitive

EmptyPlan(mode) == [rows |-> <<>>, matches |-> <<>>, max_columns |-> 0, patterns |-> mode]

\* What count_exact_bytes(), FixedMatcher::count() and find_all() find.
count(i) ==
    CASE subject(i) = "one" -> 1
      [] subject(i) = "two" -> 2
      [] OTHER -> 0
found(i) == [j \in 1..count(i) |-> <<subject_index(i), j>>]

missing(i) == "na" \in {subject(i), pattern(i)} \/ pattern(i) = "empty"
forced_na(i) == missing(i) \/ (count(i) = 0 /\ ~call.omit_no_match)

width(i) == IF forced_na(i) THEN 1 ELSE count(i)

\* The plan with row i behind its rows.
with_row(p, i) ==
    [rows |-> Append(p.rows,
        [begin |-> IF matches_are_patterns THEN pattern_index(i) ELSE Len(p.matches),
         count |-> IF missing(i) THEN 0 ELSE count(i),
         forced_na |-> forced_na(i)]),
     matches |-> IF matches_are_patterns \/ missing(i) THEN p.matches
                 ELSE p.matches \o found(i),
     max_columns |-> Max({p.max_columns, width(i)}),
     patterns |-> matches_are_patterns]

plan_fixed_extract(begin, end) ==
    FoldLeft(with_row, EmptyPlan(matches_are_patterns),
             [k \in 1..(end - begin) |-> begin + k - 1])

-----------------------------------------------------------------------------
(* The region.                                                             *)

Init ==
    /\ call \in Calls
    /\ phase = "plan" /\ next = 0
    \* a default FixedExtractPlan has matches_are_patterns false
    /\ plans = [w \in Worker |-> EmptyPlan(FALSE)]
    /\ segments = [w \in Worker |-> <<>>]
    /\ plan = EmptyPlan(FALSE)
    /\ source = 0 /\ merged_rows = 0
    /\ at = 0 /\ children = {} /\ result = <<>>

PlanSerial ==
    /\ phase = "plan" /\ call.workers = 1
    /\ plan' = plan_fixed_extract(0, vectorize_length)
    /\ phase' = "output"
    /\ UNCHANGED <<call, region, source, merged_rows, output>>

StartRegion ==
    /\ phase = "plan" /\ call.workers > 1
    /\ phase' = "region"
    /\ UNCHANGED <<call, region, plan, source, merged_rows, output>>

\* The rows of another plan whose matches start at offset in this one.
moved(rows, offset) ==
    [k \in 1..Len(rows) |->
       IF matches_are_patterns THEN rows[k]
       ELSE [rows[k] EXCEPT !.begin = @ + offset]]

append_chunk(chunk, p) ==
    [rows |-> p.rows \o moved(chunk.rows, Len(p.matches)),
     matches |-> p.matches \o chunk.matches,
     max_columns |-> Max({p.max_columns, chunk.max_columns}),
     patterns |-> chunk.patterns]

chunk_end == Min({next + call.chunk, vectorize_length})

\* One turn of Body::run(): the chunk drawn, planned, appended and recorded.
Chunk(w) ==
    /\ phase = "region" /\ w < call.workers /\ next < vectorize_length
    /\ LET end == chunk_end
       IN /\ plans' = [plans EXCEPT ![w] = append_chunk(plan_fixed_extract(next, end), @)]
          /\ segments' = [segments EXCEPT ![w] =
                            Append(@, [begin |-> next, count |-> end - next])]
          /\ next' = end
    /\ UNCHANGED <<call, phase, plan, source, merged_rows, output>>

EndRegion ==
    /\ phase = "region" /\ next = vectorize_length
    /\ plan' = [EmptyPlan(matches_are_patterns) EXCEPT
                  !.rows = [k \in 1..vectorize_length |->
                              [begin |-> 0, count |-> 0, forced_na |-> FALSE]]]
    /\ phase' = "merge"
    /\ UNCHANGED <<call, region, source, merged_rows, output>>

-----------------------------------------------------------------------------
(* merge_plans()                                                           *)

Raise == phase' = "raised"

\* How many of the source's rows its runs before run r took.
consumed(runs, r) == FoldLeft(LAMBDA n, s : n + s.count, 0, SubSeq(runs, 1, r - 1))

\* The rows of the call once those of one source are at their output index.
placed(runs, rows) ==
    [k \in 1..vectorize_length |->
       LET mine == {r \in 1..Len(runs) :
                      k - 1 \in runs[r].begin..(runs[r].begin + runs[r].count - 1)}
           r == CHOOSE r \in mine : \A q \in mine : q <= r
       IN IF mine = {} THEN plan.rows[k]
          ELSE rows[consumed(runs, r) + k - runs[r].begin]]

\* What the checks of the loop over a source ask for.
complete(p, runs) ==
    /\ consumed(runs, Len(runs) + 1) = Len(p.rows)
    /\ \A r \in 1..Len(runs) : runs[r].begin + runs[r].count <= vectorize_length
    /\ \A k \in 1..Len(p.rows) :
         IF matches_are_patterns THEN p.rows[k].begin < Len(call.patterns)
         ELSE p.rows[k].begin + p.rows[k].count <= Len(p.matches)

MergeSource ==
    /\ phase = "merge" /\ source < call.workers
    /\ LET p == plans[source]
           runs == segments[source]
       IN IF runs = <<>> THEN UNCHANGED <<plan, merged_rows, phase>>
          ELSE IF p.patterns # matches_are_patterns \/ ~complete(p, runs)
          THEN Raise /\ UNCHANGED <<plan, merged_rows>>
          ELSE /\ plan' = [plan EXCEPT
                    !.rows = placed(runs, moved(p.rows, Len(plan.matches))),
                    !.matches = @ \o p.matches,
                    !.max_columns = Max({@, p.max_columns})]
               /\ merged_rows' = merged_rows + Len(p.rows)
               /\ UNCHANGED phase
    /\ source' = source + 1
    /\ UNCHANGED <<call, region, output>>

EndMerge ==
    /\ phase = "merge" /\ source = call.workers
    /\ IF merged_rows # vectorize_length THEN Raise ELSE phase' = "output"
    /\ UNCHANGED <<call, region, plan, source, merged_rows, output>>

-----------------------------------------------------------------------------
(* The result.                                                             *)

\* set_matched_store(), and the cells of a row of the matrix.
row_values(row) ==
    IF row.forced_na THEN <<"na">>
    ELSE [j \in 1..row.count |->
            IF plan.patterns THEN call.patterns[row.begin + 1]
            ELSE plan.matches[row.begin + j]]

\* Under what a child may be used again; <<>> for never.
child_key(row) ==
    IF row.forced_na THEN <<"missing">>
    ELSE IF row.count = 0 THEN <<"empty">>
    ELSE IF plan.patterns THEN <<"repeated", call.patterns[row.begin + 1], row.count>>
    ELSE <<>>

ListRow ==
    /\ phase = "output" /\ call.simplify = "list" /\ at < vectorize_length
    /\ LET row == plan.rows[at + 1]
           key == child_key(row)
           known == {c \in children : c.key = key}
           value == IF known # {} THEN (CHOOSE c \in known : TRUE).value
                    ELSE row_values(row)
       IN /\ result' = Append(result, value)
          /\ children' = IF key = <<>> THEN children
                         ELSE children \cup {[key |-> key, value |-> value]}
    /\ at' = at + 1
    /\ UNCHANGED <<call, phase, region, plan, source, merged_rows>>

\* A row is filled up to the columns of the widest.
MatrixRow ==
    /\ phase = "output" /\ call.simplify = "matrix" /\ at < vectorize_length
    /\ LET values == row_values(plan.rows[at + 1])
       IN result' = Append(result, [j \in 1..plan.max_columns |->
                                      IF j <= Len(values) THEN values[j] ELSE "fill"])
    /\ at' = at + 1
    /\ UNCHANGED <<call, phase, region, plan, source, merged_rows, children>>

Return ==
    /\ phase = "output" /\ at = vectorize_length
    /\ phase' = "done"
    /\ UNCHANGED <<call, region, plan, source, merged_rows, output>>

Finished == phase \in {"raised", "done"} /\ UNCHANGED vars

Next ==
    \/ PlanSerial \/ StartRegion \/ \E w \in Worker : Chunk(w)
    \/ EndRegion \/ MergeSource \/ EndMerge
    \/ ListRow \/ MatrixRow \/ Return \/ Finished

Spec == Init /\ [][Next]_vars

-----------------------------------------------------------------------------
(* Properties.                                                             *)

\* Every variable has its type, and a worker's segments hold its rows.
TypeOK ==
    /\ IsCall(call)
    /\ phase \in {"plan", "region", "merge", "output", "raised", "done"}
    /\ next \in 0..vectorize_length /\ at \in 0..vectorize_length
    /\ source \in 0..call.workers /\ merged_rows \in 0..vectorize_length
    /\ \A w \in Worker : consumed(segments[w], Len(segments[w]) + 1) = Len(plans[w].rows)

\* What extracting the rows one after the other finds in row i.
Extracted(i) ==
    IF forced_na(i) THEN <<"na">>
    ELSE [j \in 1..count(i) |-> IF matches_are_patterns THEN pattern(i) ELSE found(i)[j]]
Columns == Max({0} \cup {width(i) : i \in 0..(vectorize_length - 1)})

\* Every plan a row is copied through keeps it with its matches: a worker's
\* rows lead to the matches of the chunks they were drawn from, in whatever
\* order the chunks were drawn and although a worker may have drawn none.
RowsKeepTheirMatches ==
    \A w \in Worker : \A r \in 1..Len(segments[w]) : \A k \in 1..segments[w][r].count :
      LET p == plans[w]
          row == p.rows[consumed(segments[w], r) + k]
          i == segments[w][r].begin + k - 1
      IN ~row.forced_na /\ ~matches_are_patterns =>
           SubSeq(p.matches, row.begin + 1, row.begin + row.count) = Extracted(i)

\* The merged plan is the one a single worker would have made, up to where in
\* it the matches are, and the result, children that rows share included, is
\* what extracting row by row gives; no check of the merge ever fails.
ResultIsSerial ==
    /\ phase # "raised"
    /\ phase = "output" => plan.max_columns = Columns
    /\ phase = "done" =>
         result = [k \in 1..vectorize_length |->
                     IF call.simplify = "list" THEN Extracted(k - 1)
                     ELSE [j \in 1..Columns |->
                             IF j <= Len(Extracted(k - 1)) THEN Extracted(k - 1)[j]
                             ELSE "fill"]]

=============================================================================
