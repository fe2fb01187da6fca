------------------------------- MODULE Joining -------------------------------
(***************************************************************************)
(* ci_join() and ci_flatten() of src/altrep_backend/ci_join.cpp over the   *)
(* planners and writers of src/shared/join.cpp.  A planner adds up sizes   *)
(* with a limit, the caller reserves that many bytes, and a writer that    *)
(* checks nothing fills them.  Collapsing on several workers plans every   *)
(* row, sums the rows up on the main thread, and writes every row at its   *)
(* offset of one shared buffer.                                            *)
(*                                                                         *)
(* Text is a sequence of bytes, a byte order mark counts as one.  Regions  *)
(* are used by their contract: tasks in any order, each once.              *)
(***************************************************************************)
EXTENDS Integers, SequencesExt, FiniteSetsExt

CONSTANTS
    Calls,          \* the calls explored, see IsCall
    Limit,          \* INT_MAX, the longest element of a character vector
    NonAscii        \* the bytes above 0x7f, which a byte order mark starts with

VARIABLES
    call,           \* the arguments, and whether the plan has several workers
    phase,          \* where the entry point is
    columns,        \* the normalized inputs
    separator, collapse_value,  \* normalized
    plans,          \* row_plans
    finished,       \* the rows the current region or loop is done with
    failed,         \* the rows at which a worker threw
    row_offsets,    \* where a row starts in the shared buffer
    buffer,         \* the bytes of a collapsed or flattened result
    rows,           \* the elements of a vector result
    warned,         \* the recycling warning was raised
    result          \* what the call returns or raises

inputs == <<columns, separator, collapse_value>>
work == <<plans, finished, failed, row_offsets, buffer, rows>>
vars == <<call, phase, inputs, work, warned, result>>

BOM == "bom"
Encoding == {"missing", "ascii", "utf8", "ascii_or_utf8", "native", "latin1", "bytes"}
Empty == [enc |-> "ascii", text |-> <<>>]
is_na(v) == v.enc = "missing"
len(v) == Len(v.text)

IsValue(v) ==
    /\ v.enc \in Encoding
    /\ v.enc = "ascii" => \A k \in 1..len(v) : v.text[k] \notin NonAscii
    /\ v.enc = "latin1" => \A k \in 1..len(v) : v.text[k] # BOM
IsCall(c) ==
    /\ c.op \in {"rows", "collapse", "flatten"} /\ c.several \in BOOLEAN
    /\ c.na_empty \in {"true", "false", "na"} /\ c.omit_empty \in BOOLEAN
    /\ IsValue(c.sep) /\ IsValue(c.collapse)
    /\ \A j \in 1..Len(c.strlist) : \A k \in 1..Len(c.strlist[j]) : IsValue(c.strlist[j][k])
    /\ c.op = "flatten" => Len(c.strlist) = 1

CallsAssumption ==
    Limit \in Nat /\ BOM \in NonAscii /\ \A c \in Calls : IsCall(c)

\* The rows of a result are numbered from 0, as in the code.
Missing == [kind |-> "missing", text |-> <<>>, ascii |-> FALSE]
Text(s, a) == [kind |-> "text", text |-> s, ascii |-> a]
Pending == [kind |-> "pending", value |-> <<>>]
Returned(v) == [kind |-> "returned", value |-> v]
Raised == [kind |-> "raised", value |-> <<>>]

-----------------------------------------------------------------------------
(* Inputs.                                                                 *)

all_ascii(s) == \A k \in 1..Len(s) : s[k] \notin NonAscii
unmarked(s) == IF s # <<>> /\ s[1] = BOM THEN Tail(s) ELSE s

\* NativeToUtf8::latin1(), which fails for no byte and makes two of some.
latin1(s) ==
    FlattenSeq([k \in 1..Len(s) |-> IF s[k] \in NonAscii THEN <<s[k], s[k]>> ELSE <<s[k]>>])

\* normalize_utf8(): the native encoding is UTF-8, so that no text fails to
\* convert.
normalized(v) ==
    CASE v.enc \in {"missing", "ascii"} -> v
      [] v.enc = "latin1" -> [enc |-> "utf8", text |-> latin1(v.text)]
      [] v.enc = "ascii_or_utf8" /\ unmarked(v.text) = v.text -> v
      [] OTHER -> [enc |-> "utf8", text |-> unmarked(v.text)]

\* direct_input(): a mark that may be either is resolved.
direct_input(v) ==
    LET s == unmarked(v.text) IN
      IF v.enc \in {"missing", "ascii"} THEN v
      ELSE [enc |-> IF v.enc = "ascii_or_utf8" /\ all_ascii(s) THEN "ascii" ELSE "utf8",
            text |-> s]

is_ascii(v) ==
    \/ v.enc \in {"missing", "ascii"}
    \/ v.enc = "ascii_or_utf8" /\ all_ascii(v.text)

Columns(c) == 1..Len(c)
recycling_length(c) ==
    IF \E j \in Columns(c) : c[j] = <<>> THEN 0 ELSE Max({Len(c[j]) : j \in Columns(c)})
recycling_warning(c) ==
    LET n == recycling_length(c) IN n > 0 /\ \E j \in Columns(c) : n % Len(c[j]) # 0

value_at(c, row) == c[(row % Len(c)) + 1]

row_count == IF columns = <<>> THEN 0 ELSE recycling_length(columns)

Rows == 0..(row_count - 1)

-----------------------------------------------------------------------------
(* Planners.                                                               *)

NoPlan == [bytes |-> 0, pieces |-> 0, has_na |-> FALSE, too_large |-> FALSE, ascii |-> TRUE]

add_bytes(plan, n) ==
    IF plan.too_large \/ n > Limit - plan.bytes
    THEN [plan EXCEPT !.too_large = TRUE]
    ELSE [plan EXCEPT !.bytes = @ + n]

add(plan, v) == [add_bytes(plan, len(v)) EXCEPT !.ascii = @ /\ is_ascii(v)]
piece(plan, v) == [add(plan, v) EXCEPT !.pieces = @ + 1]

\* A missing value ends the planning of a row, and of all rows.
add_column(plan, row, j) ==
    IF plan.has_na THEN plan
    ELSE IF is_na(value_at(columns[j], row)) THEN [plan EXCEPT !.has_na = TRUE]
    ELSE piece(IF j > 1 THEN add(plan, separator) ELSE plan, value_at(columns[j], row))

add_columns(plan, row) ==
    FoldLeft(LAMBDA p, j : add_column(p, row, j), plan, [j \in Columns(columns) |-> j])

plan_join_row(row) == add_columns(NoPlan, row)

plan_join_all ==
    FoldLeft(LAMBDA p, r :
               IF p.has_na THEN p
               ELSE add_columns(IF r > 1 THEN add(p, collapse_value) ELSE p, r - 1),
             NoPlan, [r \in 1..row_count |-> r])

included(v) ==
    ~ \/ is_na(v) /\ call.na_empty = "na"
      \/ call.omit_empty /\ len(v) = 0

\* ci_flatten() passes no separator when the argument is empty as it stands.
flatten_separator == IF call.collapse.text = <<>> THEN Empty ELSE collapse_value

plan_flatten ==
    LET values == FoldLeft(LAMBDA p, v :
                     IF is_na(v) /\ call.na_empty = "false" THEN [p EXCEPT !.has_na = TRUE]
                     ELSE IF ~included(v) THEN p
                     ELSE IF is_na(v) THEN [p EXCEPT !.pieces = @ + 1]
                     ELSE piece(p, v), NoPlan, columns[1])
        n == len(flatten_separator)
    IN IF values.pieces <= 1 \/ call.collapse.text = <<>> THEN values
       ELSE [(IF n > 0 /\ (values.pieces - 1) > (Limit - values.bytes) \div n
              THEN [values EXCEPT !.too_large = TRUE]
              ELSE [values EXCEPT !.bytes = @ + (values.pieces - 1) * n])
             EXCEPT !.ascii = @ /\ is_ascii(flatten_separator)]

-----------------------------------------------------------------------------
(* Writers.  What they write is a sequence of bytes from some place on.    *)

joined(row) ==
    FlattenSeq([j \in Columns(columns) |->
      (IF j > 1 THEN separator.text ELSE <<>>) \o value_at(columns[j], row).text])

\* A row of a collapsed result, with what leads to it.
collapsed(row) == (IF row > 0 THEN collapse_value.text ELSE <<>>) \o joined(row)

write_join_all == FlattenSeq([r \in 1..row_count |-> collapsed(r - 1)])

write_flatten ==
    LET values == SelectSeq(columns[1], included)
    IN FlattenSeq([k \in 1..Len(values) |->
         (IF k > 1 THEN flatten_separator.text ELSE <<>>) \o values[k].text])

\* memcpy() to an offset: a byte written before is spoiled, and bytes beyond
\* the reserved ones are written all the same.
Unset == "unset"
Twice == "twice"
put(buf, offset, s) ==
    [k \in 1..Max({Len(buf), offset + Len(s)}) |->
       IF k \in (offset + 1)..(offset + Len(s))
       THEN IF k <= Len(buf) /\ buf[k] = Unset THEN s[k - offset] ELSE Twice
       ELSE IF k <= Len(buf) THEN buf[k] ELSE Unset]
reserve(n) == [k \in 1..n |-> Unset]

-----------------------------------------------------------------------------
(* The entry points up to their loops.                                     *)

Init ==
    /\ call \in Calls
    /\ phase = "begin"
    /\ columns = <<>> /\ separator = Empty /\ collapse_value = Empty
    /\ plans = <<>> /\ finished = {} /\ failed = {} /\ row_offsets = <<>>
    /\ buffer = <<>> /\ rows = <<>>
    /\ warned = FALSE /\ result = Pending

\* The results that need no input: what is returned, or "none".
early ==
    LET n == IF call.strlist = <<>> THEN 0 ELSE recycling_length(call.strlist)
        one == Len(call.strlist) = 1
    IN CASE call.op = "rows" /\ n = 0 -> "nothing"
         [] call.op = "rows" /\ is_na(call.sep) -> "missing rows"
         [] call.op # "rows" /\ call.strlist = <<>> -> "empty"
         [] call.op = "collapse" /\ ~one /\ is_na(call.sep) -> "missing"
         [] call.op # "rows" /\ is_na(call.collapse) -> "missing"
         [] call.op # "rows" /\ n = 0 -> "empty"
         [] OTHER -> "none"

ReturnEarly ==
    /\ phase = "begin" /\ early # "none"
    /\ result' = Returned(
         CASE early = "nothing" -> <<>>
           [] early = "empty"   -> <<Text(<<>>, TRUE)>>
           [] early = "missing" -> <<Missing>>
           [] OTHER -> [r \in 1..recycling_length(call.strlist) |-> Missing])
    /\ phase' = "done"
    /\ UNCHANGED <<call, inputs, work, warned>>

\* The separators an operation reads; one column needs none between columns.
uses_sep == call.op = "rows" \/ (call.op = "collapse" /\ Len(call.strlist) > 1)
uses_collapse == call.op = "collapse" \/ (call.op = "flatten" /\ call.collapse.text # <<>>)
bytes_column(j) == \E k \in 1..Len(call.strlist[j]) : call.strlist[j][k].enc = "bytes"
refused ==
    \/ \E j \in Columns(call.strlist) : bytes_column(j)
    \/ uses_sep /\ call.sep.enc = "bytes"
    \/ uses_collapse /\ call.collapse.enc = "bytes"

direct_pair ==
    /\ call.op = "rows" /\ Len(call.strlist) = 2 /\ normalized(call.sep).text = <<>>
    /\ \A j \in 1..2 : \A k \in 1..Len(call.strlist[j]) : call.strlist[j][k].enc \notin {"native", "latin1"}

\* The separator of rows is read before the warning, the rest after it; a
\* flattened vector is not recycled.
Warns ==
    /\ Len(call.strlist) > 1 /\ recycling_warning(call.strlist)
    /\ ~(call.op = "rows" /\ call.sep.enc = "bytes")

Prepare ==
    /\ phase = "begin" /\ early = "none"
    /\ warned' = Warns
    /\ IF refused
       THEN /\ result' = Raised /\ phase' = "done" /\ UNCHANGED inputs
       ELSE /\ columns' = [j \in Columns(call.strlist) |->
                             [k \in 1..Len(call.strlist[j]) |->
                                IF direct_pair THEN direct_input(call.strlist[j][k])
                                ELSE normalized(call.strlist[j][k])]]
            /\ separator' = IF uses_sep THEN normalized(call.sep) ELSE Empty
            /\ collapse_value' = IF uses_collapse THEN normalized(call.collapse) ELSE Empty
            /\ phase' = CASE call.op = "flatten" -> "flatten"
                          [] call.op = "collapse" /\ ~call.several -> "collapse all"
                          [] call.op = "rows" /\ (call.several \/ direct_pair) -> "rows"
                          [] OTHER -> "plan"
            /\ UNCHANGED result
    /\ UNCHANGED <<call, work>>

-----------------------------------------------------------------------------
(* Rows.  Several workers take them in any order, one takes them in turn.  *)

Turn(row) ==
    /\ row \in Rows \ (finished \cup failed)
    /\ call.several \/ \A r \in Rows : r < row => r \in finished

\* RowsBody and DirectPairBody, and the loop of a direct pair.
size_of(row) ==
    IF direct_pair
    THEN LET a == value_at(columns[1], row)
             b == value_at(columns[2], row)
             na == is_na(a) \/ is_na(b)
         IN [bytes |-> len(a) + len(b), pieces |-> 2, has_na |-> na,
             too_large |-> ~na /\ len(a) > Limit - len(b),
             ascii |-> a.enc = "ascii" /\ b.enc = "ascii"]
    ELSE plan_join_row(row)

element(row, plan) ==
    IF plan.has_na THEN Missing ELSE Text(put(reserve(plan.bytes), 0, joined(row)), plan.ascii)

Row(row) ==
    /\ phase = "rows" /\ Turn(row)
    /\ LET plan == size_of(row) IN
         IF ~plan.has_na /\ plan.too_large
         THEN /\ failed' = failed \cup {row} /\ UNCHANGED <<finished, rows>>
         ELSE /\ finished' = finished \cup {row}
              /\ rows' = (row :> element(row, plan)) @@ rows
              /\ UNCHANGED failed
    /\ UNCHANGED <<call, phase, inputs, plans, row_offsets, buffer, warned, result>>

\* A failure of a row ends the loop of one worker at once, and the region of
\* several when no row below it is left.
EndRows ==
    /\ phase \in {"rows", "write rows"}
    /\ IF failed # {} THEN \A r \in Rows : r < Min(failed) => r \in finished
       ELSE finished = Rows
    /\ result' = IF failed # {} THEN Raised
                 ELSE Returned([k \in 1..row_count |-> rows[k - 1]])
    /\ phase' = "done"
    /\ UNCHANGED <<call, inputs, work, warned>>

\* One worker plans all rows first, and so does a collapse of several.
PlanRow(row) ==
    /\ phase = "plan" /\ Turn(row)
    /\ plans' = (row :> plan_join_row(row)) @@ plans
    /\ LET plan == plan_join_row(row)
           throws == call.op = "rows" /\ ~plan.has_na /\ plan.too_large
       IN /\ finished' = IF throws THEN finished ELSE finished \cup {row}
          /\ result' = IF throws THEN Raised ELSE result
          /\ phase' = IF throws THEN "done" ELSE phase
    /\ UNCHANGED <<call, inputs, failed, row_offsets, buffer, rows, warned>>

EndPlan ==
    /\ phase = "plan" /\ finished = Rows
    /\ finished' = {}
    /\ phase' = IF call.op = "rows" THEN "write rows" ELSE "offsets"
    /\ UNCHANGED <<call, inputs, plans, failed, row_offsets, buffer, rows, warned, result>>

WriteRow(row) ==
    /\ phase = "write rows" /\ Turn(row)
    /\ finished' = finished \cup {row}
    /\ rows' = (row :> element(row, plans[row])) @@ rows
    /\ UNCHANGED <<call, phase, inputs, plans, failed, row_offsets, buffer, warned, result>>

-----------------------------------------------------------------------------
(* Collapsing on several workers.                                          *)

offset_of(total, leading) == total

\* The scan over the plans: the offsets, the total, and whether it is too much.
scan ==
    FoldLeft(LAMBDA s, r :
               LET plan == plans[r - 1]
                   leading == IF r > 1 THEN len(collapse_value) ELSE 0
               IN IF s.too_large THEN s
                  ELSE IF \/ plan.too_large \/ leading > Limit - s.total
                          \/ plan.bytes > Limit - s.total - leading
                  THEN [s EXCEPT !.too_large = TRUE]
                  ELSE [total |-> s.total + leading + plan.bytes,
                        offsets |-> Append(s.offsets, offset_of(s.total, leading)),
                        ascii |-> s.ascii /\ plan.ascii /\ (r = 1 \/ is_ascii(collapse_value)),
                        too_large |-> FALSE],
             [total |-> 0, offsets |-> <<>>, ascii |-> TRUE, too_large |-> FALSE],
             [r \in 1..row_count |-> r])

Offsets ==
    /\ phase = "offsets"
    /\ IF \E r \in Rows : plans[r].has_na
       THEN /\ result' = Returned(<<Missing>>) /\ phase' = "done"
            /\ UNCHANGED <<row_offsets, buffer>>
       ELSE IF scan.too_large
       THEN result' = Raised /\ phase' = "done" /\ UNCHANGED <<row_offsets, buffer>>
       ELSE /\ row_offsets' = scan.offsets
            /\ buffer' = reserve(scan.total)
            /\ phase' = "write" /\ UNCHANGED result
    /\ UNCHANGED <<call, inputs, plans, finished, failed, rows, warned>>

CollapseWrite(row) ==
    /\ phase = "write" /\ Turn(row)
    /\ buffer' = put(buffer, row_offsets[row + 1], collapsed(row))
    /\ finished' = finished \cup {row}
    /\ UNCHANGED <<call, phase, inputs, plans, failed, row_offsets, rows, warned, result>>

EndWrite ==
    /\ phase = "write" /\ finished = Rows
    /\ result' = Returned(<<Text(buffer, scan.ascii)>>)
    /\ phase' = "done"
    /\ UNCHANGED <<call, inputs, work, warned>>

-----------------------------------------------------------------------------
(* Collapsing on one worker, and flattening.                               *)

CollapseAll ==
    /\ phase = "collapse all"
    /\ LET plan == plan_join_all IN
         result' = IF plan.has_na THEN Returned(<<Missing>>)
                   ELSE IF plan.too_large THEN Raised
                   ELSE Returned(<<Text(put(reserve(plan.bytes), 0, write_join_all),
                                        plan.ascii)>>)
    /\ phase' = "done"
    /\ UNCHANGED <<call, inputs, work, warned>>

Flatten ==
    /\ phase = "flatten"
    /\ LET plan == plan_flatten IN
         result' = IF plan.too_large THEN Raised
                   ELSE IF plan.has_na THEN Returned(<<Missing>>)
                   ELSE Returned(<<Text(put(reserve(plan.bytes), 0, write_flatten),
                                        plan.ascii)>>)
    /\ phase' = "done"
    /\ UNCHANGED <<call, inputs, work, warned>>

Finished == phase = "done" /\ UNCHANGED vars

Next ==
    \/ ReturnEarly \/ Prepare
    \/ \E row \in Rows : Row(row) \/ PlanRow(row) \/ WriteRow(row) \/ CollapseWrite(row)
    \/ EndRows \/ EndPlan \/ Offsets \/ EndWrite \/ CollapseAll \/ Flatten \/ Finished

Spec == Init /\ [][Next]_vars

-----------------------------------------------------------------------------
(* Properties.                                                             *)

\* Every variable has its type; only rows of the call are worked on, and none
\* is both done with and failed.
TypeOK ==
    /\ IsCall(call)
    /\ \A r \in finished \cup failed \cup DOMAIN plans \cup DOMAIN rows :
         r \in 0..(recycling_length(call.strlist) - 1)
    /\ phase \in {"begin", "rows", "plan", "write rows", "offsets", "write",
                  "collapse all", "flatten", "done"}
    /\ finished \cap failed = {}
    /\ warned \in BOOLEAN /\ result.kind \in {"pending", "returned", "raised"}

Cells(s) == {s[k] : k \in 1..Len(s)}

\* The planner and the writer agree to the byte: the rows that are written
\* into the shared buffer, in whatever order, stay inside it and off each
\* other, and a buffer that is returned was written completely.
BuffersAreFilled ==
    /\ phase = "write" => Len(buffer) = scan.total /\ Twice \notin Cells(buffer)
    /\ \A k \in 1..Len(result.value) : Cells(result.value[k].text) \cap {Unset, Twice} = {}

\* What joining means, without plans or buffers.  A value is its text after
\* normalization.
Value(j, row) == normalized(call.strlist[j][(row % Len(call.strlist[j])) + 1])
Sep == IF uses_sep THEN normalized(call.sep).text ELSE <<>>
JoinedRow(row) ==
    FlattenSeq([j \in Columns(call.strlist) |->
      (IF j > 1 THEN Sep ELSE <<>>) \o Value(j, row).text])
MissingRow(row) == \E j \in Columns(call.strlist) : is_na(Value(j, row))
Kept ==
    SelectSeq(call.strlist[1],
              LAMBDA v : /\ ~(is_na(v) /\ call.na_empty # "true")
                         /\ call.omit_empty => normalized(v).text # <<>>)
Between(texts) ==
    FlattenSeq([k \in 1..Len(texts) |->
      (IF k > 1 THEN normalized(call.collapse).text ELSE <<>>) \o texts[k]])

Flattened == Between([k \in 1..Len(Kept) |-> normalized(Kept[k]).text])

\* What a string of the result is: missing, its text, or too long to be one.
Outcome(na, s) == IF na THEN <<"missing">> ELSE IF Len(s) > Limit THEN <<"too long">> ELSE s
Expected ==
    LET n == recycling_length(call.strlist) IN
      CASE call.op = "rows" ->
             [k \in 1..n |-> Outcome(MissingRow(k - 1), JoinedRow(k - 1))]
        [] call.op = "collapse" ->
             <<Outcome(\E r \in 0..(n - 1) : MissingRow(r),
                       Between([k \in 1..n |-> JoinedRow(k - 1)]))>>
        [] OTHER ->
             <<Outcome(/\ call.na_empty = "false"
                       /\ \E k \in 1..n : is_na(call.strlist[1][k]), Flattened)>>
Got(e) == IF e.kind = "missing" THEN <<"missing">> ELSE e.text

\* A call that reads its inputs returns every joined string, missing where a
\* part is missing, and raises if and only if a string would be too long,
\* whether a direct pair, a plan of rows or offsets into one buffer produced
\* it.  A flattened vector with a missing element may be refused for the others.
ResultIsJoined ==
    phase = "done" /\ columns # <<>> =>
      IF result.kind = "raised"
      THEN \/ <<"too long">> \in Cells(Expected)
           \/ call.op = "flatten" /\ Len(Flattened) > Limit
      ELSE [k \in 1..Len(result.value) |-> Got(result.value[k])] = Expected

\* A string marked as ASCII has no other bytes: the mark is put together from
\* the marks of parts, some of which are not resolved.
MarksAreSound ==
    \A k \in 1..Len(result.value) : LET e == result.value[k] IN
      e.kind = "text" /\ e.ascii => all_ascii(e.text)

=============================================================================
