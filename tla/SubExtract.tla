----------------------------- MODULE SubExtract -----------------------------
(***************************************************************************)
(* ci_sub() of src/altrep_backend/ci_sub.cpp: every row's window, by one   *)
(* thread in order or by the workers of a region in any order, each with a *)
(* count of negative lengths of its own; with ignore_negative_length a     *)
(* second pass drops the rows counted, into a vector sized by the counts.  *)
(***************************************************************************)
EXTENDS SubstringRanges, FiniteSets, Functions

CONSTANTS
    Calls,      \* the arguments of a call: see IsCall
    Workers     \* the workers of a region; a serial call has one of them

\* texts are lengths in code points, -1 for a missing string.
IsCall(c) ==
    /\ c.texts \in Seq(-1..IntMax) /\ c.from \in Seq(Int32) /\ c.endpoint \in Seq(Int32)
    /\ c.by_length \in BOOLEAN /\ c.ignore_negative \in BOOLEAN

ASSUME CallsAssumption == \A c \in Calls : IsCall(c)
ASSUME WorkersAssumption == IsFiniteSet(Workers)

VARIABLES
    call,
    crew,       \* the workers of this call
    pc,
    out,        \* row |-> the record written, NoRecord before
    negatives,  \* worker |-> its count of negative lengths
    index,      \* the row the second pass is at
    kept        \* the rows the second pass has kept, in order

vars == <<call, crew, pc, out, negatives, index, kept>>

vectorize_len == recycling_length(<<Len(call.texts), Len(call.from), Len(call.endpoint)>>)
Rows == 0..(vectorize_len - 1)

At(seq, i) == seq[(i % Len(seq)) + 1]
Text(i) == At(call.texts, i)
From(i) == At(call.from, i)
Endpoint(i) == At(call.endpoint, i)

NoRecord == [kind |-> "none", begin |-> 0, end |-> 0]
Missing  == [kind |-> "missing", begin |-> 0, end |-> 0]
Empty    == [kind |-> "text", begin |-> 0, end |-> 0]

Window(n, b, e) == IF e > b THEN [kind |-> "text", begin |-> b, end |-> e] ELSE Empty

is_missing(text, from, to) == text = -1 \/ from = NA_INTEGER \/ to = NA_INTEGER

extract_one(text, from, to) ==
    IF is_missing(text, from, to) THEN Missing
    ELSE IF ~call.by_length THEN Window(text, begin(text, from), end(text, to))
    ELSE IF to = 0 THEN Empty
    ELSE IF to < 0 THEN Missing
    ELSE Window(text, begin(text, from), end(text, length_endpoint(from, to)))

counts_also_missing(text, from, to) == call.by_length /\ to < 0
counts_negative(text, from, to) ==
    ~is_missing(text, from, to) /\ call.by_length /\ to < 0

Init ==
    /\ call \in Calls
    /\ crew \in {Workers} \cup {{w} : w \in Workers}
    /\ pc = "extract"
    /\ out = [i \in Rows |-> NoRecord]
    /\ negatives = [w \in crew |-> 0]
    /\ index = 0 /\ kept = <<>>

Extract(w, i) ==
    /\ pc = "extract" /\ out[i] = NoRecord
    /\ Cardinality(crew) = 1 => \A j \in Rows : j < i => out[j] # NoRecord
    /\ out' = [out EXCEPT ![i] = extract_one(Text(i), From(i), Endpoint(i))]
    /\ negatives' =
          [negatives EXCEPT ![w] =
              @ + IF counts_negative(Text(i), From(i), Endpoint(i)) THEN 1 ELSE 0]
    /\ UNCHANGED <<call, crew, pc, index, kept>>

negative_lengths == SumFunction(negatives)

EndExtract ==
    /\ pc = "extract" /\ \A i \in Rows : out[i] # NoRecord
    /\ IF negative_lengths > 0 /\ call.ignore_negative
         THEN pc' = "filter" /\ index' = 0
         ELSE pc' = "done" /\ UNCHANGED index
    /\ UNCHANGED <<call, crew, out, negatives, kept>>

next_row(i) == recycled_order_next(i, Len(call.texts), vectorize_len)

\* One row of the second pass, source by source.
Filter ==
    /\ pc = "filter" /\ index < vectorize_len
    /\ kept' = IF /\ ~is_missing(Text(index), From(index), Endpoint(index))
                  /\ Endpoint(index) < 0
                 THEN kept ELSE Append(kept, index)
    /\ index' = next_row(index)
    /\ UNCHANGED <<call, crew, pc, out, negatives>>

EndFilter ==
    /\ pc = "filter" /\ index >= vectorize_len
    /\ pc' = "done"
    /\ UNCHANGED <<call, crew, out, negatives, index, kept>>

Steps ==
    \/ \E w \in crew, i \in Rows : Extract(w, i)
    \/ EndExtract \/ Filter \/ EndFilter

Next == Steps \/ (pc = "done" /\ UNCHANGED vars)

Spec == Init /\ [][Next]_vars
FairSpec == Spec /\ WF_vars(Steps)

-----------------------------------------------------------------------------

\* Every variable has its type; ranges lie in the text's ints, and the second
\* pass never leaves the ints.
TypeOK ==
    /\ IsCall(call)
    /\ crew \subseteq Workers
    /\ pc \in {"extract", "filter", "done"}
    /\ out \in [Rows -> [kind : {"none", "missing", "text"}, begin : 0..IntMax, end : 0..IntMax]]
    /\ negatives \in [crew -> 0..vectorize_len]
    /\ index \in 0..IntMax

\* What range() and length_endpoint() clamp to the ints is the window the
\* arguments describe: a record holds exactly the code points between from
\* and to, or from from on, whichever end they are counted from.
WindowIsExact ==
    \A i \in Rows : out[i].kind = "text" =>
        \A p \in 1..IntMax :
            out[i].begin < p /\ p <= out[i].end <=>
                IF call.by_length THEN InLengthWindow(Text(i), From(i), Endpoint(i), p)
                                  ELSE InWindow(Text(i), From(i), Endpoint(i), p)

\* The second pass fills the vector that the workers' counts have sized: it
\* visits every row once, source by source, keeps the rows not counted, and
\* never writes behind the vector's end.
FilterFillsExactly ==
    /\ kept # <<>> => Len(kept) <= vectorize_len - negative_lengths
    /\ pc = "done" /\ call.ignore_negative /\ negative_lengths > 0 =>
        /\ Len(kept) = vectorize_len - negative_lengths
        /\ {kept[k] : k \in DOMAIN kept} =
              {i \in Rows : Endpoint(i) < 0 => -1 = Text(i) \/ NA_INTEGER \in {From(i), Endpoint(i)}}
        /\ \A j, k \in DOMAIN kept : j < k =>
              LET s == Len(call.texts) IN
              \/ kept[j] % s < kept[k] % s
              \/ kept[j] % s = kept[k] % s /\ kept[j] < kept[k]

\* The inductive invariant behind FilterFillsExactly.  The counts of the
\* workers add up to the rows counted so far; the second pass has kept, in
\* the recycled order, the rows before the one it is at that are not dropped.
Counted ==
    {i \in Rows : out[i] # NoRecord /\ counts_negative(Text(i), From(i), Endpoint(i))}
Dropped(i) == ~is_missing(Text(i), From(i), Endpoint(i)) /\ Endpoint(i) < 0
Before(i, j) ==
    LET s == Len(call.texts) IN i % s < j % s \/ (i % s = j % s /\ i < j)
Visited(i) == index >= vectorize_len \/ Before(i, index)

Filtering == call.ignore_negative /\ negative_lengths > 0

CountingInv ==
    /\ negatives \in [crew -> 0..Cardinality(Counted)]
    /\ negative_lengths = Cardinality(Counted)

OrderInv ==
    /\ index \in 0..vectorize_len
    /\ kept \in Seq(Rows)
    /\ {kept[k] : k \in DOMAIN kept} \subseteq {i \in Rows : ~Dropped(i) /\ Visited(i)}
    /\ pc # "extract" /\ Filtering =>
          {i \in Rows : ~Dropped(i) /\ Visited(i)} \subseteq {kept[k] : k \in DOMAIN kept}
    /\ \A j, k \in DOMAIN kept : j < k => Before(kept[j], kept[k])

FilterInv ==
    /\ CountingInv /\ OrderInv
    /\ pc \in {"extract", "filter", "done"}
    /\ pc = "extract" => index = 0 /\ kept = <<>>
    /\ pc # "extract" => \A i \in Rows : out[i] # NoRecord
    /\ pc = "filter" => Filtering
    /\ pc = "done" /\ Filtering => index >= vectorize_len
    /\ kept # <<>> => Filtering

\* The recycled order comes to its end.
CallEnds == <>(pc = "done")

=============================================================================
