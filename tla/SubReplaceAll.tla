--------------------------- MODULE SubReplaceAll ---------------------------
(***************************************************************************)
(* ci_sub_replacement_all() of src/altrep_backend/ci_sub.cpp.  A serial    *)
(* call assembles row after row and keeps the warnings for later.  A       *)
(* parallel call first goes through all rows on the R thread, preparing    *)
(* arguments and running ci__sub_validate_replacement_all() in place of    *)
(* the assembler, so that errors and warnings come in the serial order;    *)
(* workers then assemble, and park what fails with its row.  A call with   *)
(* one positive range and one replacement for all rows takes a path of its *)
(* own, without an assembler.  Texts are sequences of code points of one   *)
(* byte each.                                                              *)
(***************************************************************************)
EXTENDS SubstringRanges, SequencesExt

CONSTANT Calls      \* calls: their rows, and whether R's own lists were recycled

VARIABLES
    call,
    parallel,           \* plan.workers > 1
    scalar_fast_path,
    pc,
    row,                \* the row the R thread is at
    pending,            \* pending_warnings: <<row, kind>>
    limits,             \* row |-> warning_limits
    limit,              \* warning_emit_limit, -1 without one
    stores,             \* row |-> its result, NoStore before
    raised,             \* "" or the error the call ends in
    emitted             \* the warnings R has seen

vars == <<call, parallel, scalar_fast_path, pc, row, pending, limits, limit,
          stores, raised, emitted>>

Store(kind, v, e) == [kind |-> kind, value |-> v, error |-> e]
NoStore == Store("none", <<>>, "")
Text(v) == Store("text", v, "")
Missing == Store("missing", <<>>, "")
Failure(e) == Store("error", <<>>, e)

At(seq, i) == seq[(i % Len(seq)) + 1]

\* A row: source and replacements are texts, na if missing; endpoint is to or
\* length; refused says which of its arguments R refuses, if one.
Rows == DOMAIN call.rows
vectorize(r) == recycling_length(<<Len(r.from), Len(r.endpoint)>>)

Skips(r, i) ==
    \/ At(r.from, i) = NA_INTEGER \/ At(r.endpoint, i) = NA_INTEGER
    \/ At(r.replacements, i).na
    \/ r.by_length /\ At(r.endpoint, i) < 0

MakesMissing(r) ==
    /\ ~r.omit_na
    /\ \E i \in 0..(vectorize(r) - 1) :
          \/ At(r.from, i) = NA_INTEGER \/ At(r.endpoint, i) = NA_INTEGER
          \/ At(r.replacements, i).na

first(r, i) == replacement_all_from(At(r.from, i), Len(r.source.value))
behind(r, i) ==
    replacement_all_to(At(r.endpoint, i), r.by_length, first(r, i), Len(r.source.value))

-----------------------------------------------------------------------------
(* ReplacementAssembler::build().                                          *)

inner_warning(r, replaced) ==
    IF replaced > 0 /\ vectorize(r) % Len(r.replacements) # 0 THEN "recycling" ELSE ""

\* append(): a result beyond the ints throws.
append(s, piece) ==
    IF s.error # "" THEN s
    ELSE IF Len(s.bytes) + Len(piece) > IntMax THEN [s EXCEPT !.error = "too large"]
    ELSE [s EXCEPT !.bytes = @ \o piece]

\* One range: the text before it, its replacement, and past what it covers.
assemble(r, s, i) ==
    IF s.error # "" \/ Skips(r, i) THEN s
    ELSE IF s.last > first(r, i) THEN [s EXCEPT !.error = "not sorted"]
    ELSE LET t == append(append(s, SubSeq(r.source.value, s.last + 1, first(r, i))),
                         At(r.replacements, i).value)
             past == IF behind(r, i) > first(r, i) THEN behind(r, i) ELSE first(r, i)
         IN  [t EXCEPT !.last = past, !.replaced = @ + 1]

assembled(r) ==
    LET s == FoldLeft(LAMBDA t, i : assemble(r, t, i),
                      [bytes |-> <<>>, last |-> 0, replaced |-> 0, error |-> ""],
                      [k \in 1..vectorize(r) |-> k - 1])
    IN  append(s, SubSeq(r.source.value, s.last + 1, Len(r.source.value)))

\* What build() returns and the warning with it.
build(r) ==
    LET s == assembled(r)
        Returns(store, warning) == [store |-> store, warning |-> warning]
    IN  IF r.source.na THEN Returns(Missing, "")
        ELSE IF vectorize(r) <= 0 THEN Returns(Text(r.source.value), "")
        ELSE IF r.replacements = <<>> THEN Returns(Missing, "replacement_zero")
        ELSE IF MakesMissing(r) THEN Returns(Missing, "")
        ELSE IF s.error # "" THEN Returns(Failure(s.error), "")
        ELSE Returns(Text(s.bytes), inner_warning(r, s.replaced))

\* The scalar path, serial or in ci__sub_replace_one_parallel().
replace_one(r) ==
    LET n == Len(r.source.value)
        b == begin(n, r.from[1])
        e == IF end(n, r.endpoint[1]) < b THEN b ELSE end(n, r.endpoint[1])
        s == append(append(append([bytes |-> <<>>, error |-> ""],
                                  SubSeq(r.source.value, 1, b)),
                           r.replacements[1].value),
                    SubSeq(r.source.value, e + 1, n))
    IN  IF r.source.na THEN Missing
        ELSE IF r.replacements[1].na
               THEN IF r.omit_na THEN Text(r.source.value) ELSE Missing
        ELSE IF s.error # "" THEN Failure(s.error) ELSE Text(s.bytes)

-----------------------------------------------------------------------------
(* ci__sub_validate_replacement_all(): sizes in place of bytes.            *)

checked_output_size(s, n) ==
    IF s.error # "" THEN s
    ELSE IF s.size + n > IntMax THEN [s EXCEPT !.error = "too large"]
    ELSE [s EXCEPT !.size = @ + n]

validate_range(r, s, i) ==
    IF s.error # "" \/ Skips(r, i) THEN s
    ELSE IF s.last > first(r, i) THEN [s EXCEPT !.error = "not sorted"]
    ELSE LET t == checked_output_size(checked_output_size(s, first(r, i) - s.last),
                                      Len(At(r.replacements, i).value))
         IN  [t EXCEPT !.last = behind(r, i), !.replaced = @ + 1]

validated(r) ==
    LET s == FoldLeft(LAMBDA t, i : validate_range(r, t, i),
                      [size |-> 0, last |-> 0, replaced |-> 0, error |-> ""],
                      [k \in 1..vectorize(r) |-> k - 1])
    IN  checked_output_size(s, Len(r.source.value) - s.last)

validate(r) ==
    LET s == validated(r) IN
    IF r.source.na \/ vectorize(r) <= 0 THEN [warning |-> "", error |-> ""]
    ELSE IF r.replacements = <<>> THEN [warning |-> "replacement_zero", error |-> ""]
    ELSE IF MakesMissing(r) THEN [warning |-> "", error |-> ""]
    ELSE IF s.error # "" THEN [warning |-> "", error |-> s.error]
    ELSE [warning |-> inner_warning(r, s.replaced), error |-> ""]

-----------------------------------------------------------------------------
(* The call.                                                               *)

\* Warnings of a row: of recycling the bounds, then of the replacement.
BoundsWarning(k) ==
    IF recycling_warning(<<Len(call.rows[k].from), Len(call.rows[k].endpoint)>>)
      THEN <<<<k, "recycling_rule">>>> ELSE <<>>
Warning(k, kind) == IF kind = "" THEN <<>> ELSE <<<<k, kind>>>>

\* One positive range and one replacement for all rows.
IsScalar(c) ==
    \A k \in DOMAIN c.rows :
        LET r == c.rows[k] IN
        /\ r.from = c.rows[1].from /\ r.endpoint = c.rows[1].endpoint
        /\ r.replacements = c.rows[1].replacements
        /\ Len(r.from) = 1 /\ Len(r.endpoint) = 1 /\ Len(r.replacements) = 1
        /\ r.from[1] > 0 /\ r.endpoint[1] > 0
        /\ ~r.by_length /\ r.refused = ""

Outer == IF call.recycled THEN <<<<0, "recycling_rule">>>> ELSE <<>>

Init ==
    /\ call \in Calls /\ parallel \in BOOLEAN
    /\ scalar_fast_path \in {FALSE, IsScalar(call) /\ ~call.recycled}
    /\ pc = IF scalar_fast_path /\ parallel THEN "region" ELSE "rows"
    /\ row = 1 /\ pending = Outer
    /\ limits = [k \in Rows |-> Len(Outer)] /\ limit = -1
    /\ stores = [k \in Rows |-> NoStore]
    /\ raised = "" /\ emitted = <<>>

\* An argument R refuses leaves the call at once, through no handler; before
\* it refuses a matrix, the pending warnings are given.
given_before(refused) == IF refused = "matrix" THEN pending ELSE <<>>

Refuse ==
    /\ pc = "rows" /\ row \in Rows
    /\ ~call.rows[row].source.na /\ call.rows[row].refused # ""
    /\ emitted' = given_before(call.rows[row].refused)
    /\ raised' = call.rows[row].refused /\ pc' = "raised"
    /\ UNCHANGED <<call, parallel, scalar_fast_path, row, pending, limits, limit, stores>>

Accepted == row \in Rows /\ (call.rows[row].source.na \/ call.rows[row].refused = "")

\* A row of the serial loop.
SerialRow ==
    /\ pc = "rows" /\ ~parallel /\ Accepted
    /\ LET r == call.rows[row]
           b == IF scalar_fast_path THEN [store |-> replace_one(r), warning |-> ""] ELSE build(r)
       IN
       /\ pending' = IF r.source.na THEN pending
                     ELSE pending \o BoundsWarning(row) \o Warning(row, b.warning)
       /\ IF b.store.kind = "error"
            THEN raised' = b.store.error /\ pc' = "catch" /\ UNCHANGED <<row, stores>>
            ELSE /\ stores' = [stores EXCEPT ![row] = b.store]
                 /\ row' = row + 1 /\ UNCHANGED <<pc, raised>>
    /\ UNCHANGED <<call, parallel, scalar_fast_path, limits, limit, emitted>>

\* A row of the planning loop of a parallel call.
PlanRow ==
    /\ pc = "rows" /\ parallel /\ Accepted
    /\ LET r == call.rows[row] v == validate(r) IN
       /\ pending' = IF r.source.na THEN pending
                     ELSE pending \o BoundsWarning(row) \o Warning(row, v.warning)
       /\ IF v.error # ""
            THEN /\ limits' = [limits EXCEPT ![row] = Len(pending)]
                 /\ raised' = v.error /\ pc' = "catch" /\ UNCHANGED row
            ELSE /\ limits' = [limits EXCEPT ![row] = Len(pending')]
                 /\ row' = row + 1 /\ UNCHANGED <<pc, raised>>
    /\ UNCHANGED <<call, parallel, scalar_fast_path, limit, stores, emitted>>

EndRows ==
    /\ pc = "rows" /\ row \notin Rows
    /\ pc' = IF parallel THEN "region" ELSE "finalize"
    /\ UNCHANGED <<call, parallel, scalar_fast_path, row, pending, limits, limit,
                   stores, raised, emitted>>

\* A worker assembles a row, or its memory runs out.
WorkerRow(k) ==
    /\ pc = "region" /\ stores[k] = NoStore
    /\ LET r == call.rows[k]
           store == IF scalar_fast_path THEN replace_one(r) ELSE build(r).store
       IN  stores' \in {[stores EXCEPT ![k] = store], [stores EXCEPT ![k] = Failure("memory")]}
    /\ UNCHANGED <<call, parallel, scalar_fast_path, pc, row, pending, limits, limit,
                   raised, emitted>>

\* The lowest failing row is reported, by the region itself on the scalar
\* path; otherwise it limits the warnings given before the error.
limit_of(k) == IF scalar_fast_path THEN -1 ELSE limits[k]

EndRegion ==
    /\ pc = "region" /\ \A k \in Rows : stores[k] # NoStore
    /\ LET failed == {k \in Rows : stores[k].kind = "error"} IN
       IF failed = {} THEN pc' = "finalize" /\ UNCHANGED <<row, limit, raised>>
       ELSE /\ row' = CHOOSE k \in failed : \A j \in failed : k <= j
            /\ raised' = stores[row'].error /\ pc' = "catch"
            /\ limit' = limit_of(row')
    /\ UNCHANGED <<call, parallel, scalar_fast_path, pending, limits, stores, emitted>>

Emit ==
    /\ pc \in {"catch", "finalize"}
    /\ emitted' = IF limit >= 0 THEN SubSeq(pending, 1, limit) ELSE pending
    /\ pc' = IF pc = "catch" THEN "raised" ELSE "returned"
    /\ UNCHANGED <<call, parallel, scalar_fast_path, row, pending, limits, limit,
                   stores, raised>>

Ended == pc \in {"raised", "returned"}

Next ==
    \/ Refuse \/ SerialRow \/ PlanRow \/ EndRows \/ EndRegion \/ Emit
    \/ \E k \in Rows : WorkerRow(k)
    \/ Ended /\ UNCHANGED vars

Spec == Init /\ [][Next]_vars

-----------------------------------------------------------------------------
(* The reference: ranges spliced from the last to the first, each into the *)
(* text the ranges after it left.                                          *)

Spliced(r) ==
    LET used == SelectSeq([k \in 1..vectorize(r) |-> k - 1], LAMBDA i : ~Skips(r, i))
    IN  FoldRight(LAMBDA i, t : SubSeq(t, 1, first(r, i)) \o At(r.replacements, i).value
                                  \o SubSeq(t, behind(r, i) + 1, Len(t)),
                  used, r.source.value)

\* The error a serial call stops at in a row, "" if it goes on.
RowError(k) ==
    LET r == call.rows[k] IN
    IF r.source.na THEN "" ELSE IF r.refused # "" THEN r.refused ELSE build(r).store.error

StopRow ==
    LET stops == {k \in Rows : RowError(k) # ""}
    IN  IF stops = {} THEN Len(call.rows) + 1 ELSE CHOOSE k \in stops : \A j \in stops : k <= j

WarningsBefore(k) ==
    Outer \o FlattenSeq([j \in 1..(k - 1) |->
        IF call.rows[j].source.na THEN <<>>
        ELSE BoundsWarning(j) \o Warning(j, build(call.rows[j]).warning)])

\* Every variable has its type; no warning limit lies beyond the warnings and
\* no result beyond the ints.
TypeOK ==
    /\ pc \in {"rows", "region", "catch", "finalize", "raised", "returned"}
    /\ row \in 1..(Len(call.rows) + 1)
    /\ limits \in [Rows -> 0..Len(pending)] /\ limit \in -1..Len(pending)
    /\ \A k \in Rows : /\ stores[k].kind \in {"none", "text", "missing", "error"}
                        /\ Len(stores[k].value) <= IntMax
    /\ \A k \in DOMAIN pending : pending[k][1] \in {0} \cup Rows

\* The assembler, which walks the text once from left to right, and the scalar
\* path, which uses other index arithmetic, produce what replacing range after
\* range from the right produces.
AssemblyIsSplicing ==
    \A k \in Rows :
        stores[k].kind = "text" =>
            stores[k].value = IF call.rows[k].replacements = <<>> THEN call.rows[k].source.value
                              ELSE Spliced(call.rows[k])

\* The validation a parallel call runs in the assembler's place takes no row
\* the assembler rejects: a worker's error would be reported as a failure of
\* the region, after a warning of its own row.
ValidationLeavesNoError ==
    parallel /\ ~scalar_fast_path =>
        \A k \in Rows : k < row => build(call.rows[k]).store.kind # "error"

\* However the call is run, it ends in the error of the row a serial call
\* stops at, after the warnings of the rows before it and no others, or
\* returns with all of them; unless a worker's memory runs out.
OutcomeIsSerial ==
    Ended /\ raised # "memory" =>
        /\ raised = IF StopRow \in Rows THEN RowError(StopRow) ELSE ""
        /\ (pc = "raised") = (StopRow \in Rows)
        /\ emitted = IF raised = "value" THEN <<>>
                     ELSE IF raised \in {"", "matrix"} THEN WarningsBefore(StopRow)
                     ELSE WarningsBefore(StopRow) \o BoundsWarning(StopRow)

\* A worker's failure is reported after the warnings of the rows up to its
\* own, and of no later row, though the plan has collected those too.
FailureHidesLaterWarnings ==
    pc = "raised" /\ raised = "memory" => emitted = WarningsBefore(row + 1)

=============================================================================
