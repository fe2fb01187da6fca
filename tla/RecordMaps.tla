----------------------------- MODULE RecordMaps -----------------------------
(***************************************************************************)
(* The operations that map a vector record by record: ci_length() and      *)
(* ci_width() of src/altrep_backend/ci_length.cpp, ci_reverse() of         *)
(* ci_reverse.cpp, ci_escape_unicode() of ci_escape.cpp and the case       *)
(* mappings of ci_trans_casemap.cpp.  On one worker each is one loop that  *)
(* converts, checks and maps a record before it looks at the next.  On     *)
(* several, a pass on the calling thread first converts what needs R's     *)
(* converter into slots, and the workers map the records from their own    *)
(* bytes or from their slots.                                              *)
(*                                                                         *)
(* A text is ASCII, one of two other texts, one with a leading byte-order  *)
(* mark (followed by an ASCII letter), "mark" (not UTF-8; the native       *)
(* encoding, when it is another, reads it as a byte-order mark and that    *)
(* letter), or broken in every encoding but Latin-1.  The mapped value is  *)
(* named by the text it is computed from and its ASCII mark; the marks of  *)
(* lengths, widths and escapes are constant.                               *)
(***************************************************************************)
EXTENDS Integers, Sequences

CONSTANTS
    Calls,      \* the calls explored, see IsCall
    Worker      \* the workers, 0 up to the most granted

VARIABLES
    call,       \* the records and the settings of the plan
    phase,      \* where the entry point is
    next,       \* the record of the pass or the loop; the region's cursor
    scratch,    \* the text in the converter's buffer
    slots,      \* converted_slots: 0 where a record has none
    values,     \* converted_values
    lanes,      \* the chunk every worker holds
    output,     \* the values written so far
    failures,   \* the workers' reports
    error       \* the error the call raises

maps_vars == <<call, phase, next, scratch, slots, values, lanes, output, failures, error>>

Operation == {"length", "width", "reverse", "escape", "case"}
Text == {"ascii", "wide", "other", "bom", "mark", "broken"}
Encoding == {"na", "ascii", "latin1", "utf8", "ambiguous", "native", "bytes"}
Record == [enc : Encoding, text : Text]
IsCall(c) ==
    /\ c.op \in Operation /\ c.native_is_utf8 \in BOOLEAN
    /\ c.records \in Seq(Record)
    /\ c.workers \in Nat \ {0} /\ 0..(c.workers - 1) \subseteq Worker
    /\ c.chunk \in Nat \ {0}

MapsAssumption == Worker \subseteq Nat /\ \A c \in Calls : IsCall(c)

ErrorKind == {"bytes", "conversion", "invalid", "unprepared"}
NoError == [kind |-> "none", at |-> 0, pass |-> "none"]
\* What a step computes of a record: a text with its mark, or a refusal.
Made(t, a) == [error |-> "none", text |-> t, ascii |-> a]
Refused(e) == [error |-> e, text |-> "none", ascii |-> FALSE]
Missing == Made("na", FALSE)

N == Len(call.records)
record(i) == call.records[i]

-----------------------------------------------------------------------------
(* Texts.                                                                  *)

is_utf8(t) == t \notin {"mark", "broken"}
is_ascii(t) == t = "ascii"
without_bom(t) == IF t = "bom" THEN "ascii" ELSE t

\* NativeToUtf8::latin1() never fails: every byte is a character.
latin1(t) == Made(IF is_ascii(t) THEN t ELSE IF t = "wide" THEN "wide" ELSE "other", FALSE)
native(t) ==
    IF call.native_is_utf8
    THEN IF is_utf8(t) THEN Made(t, FALSE) ELSE Refused("conversion")
    ELSE CASE t = "broken" -> Refused("conversion")
           [] t = "mark" -> Made("bom", FALSE)
           [] t = "bom" -> Made("other", FALSE)
           [] OTHER -> Made(t, FALSE)
convert(r) == IF r.enc = "latin1" THEN latin1(r.text) ELSE native(r.text)
Converted == {"latin1", "native"}
Utf8Like == {"utf8", "ambiguous"}

-----------------------------------------------------------------------------
(* The maps themselves, on a prepared text.                                *)

length_utf8(t) == IF is_utf8(t) THEN Made(t, FALSE) ELSE Refused("invalid")
\* U+FEFF has no width.
width_string(t) == IF is_utf8(t) THEN Made(without_bom(t), FALSE) ELSE Refused("invalid")
reverse_input(p) ==
    IF p.error = "none" /\ ~p.ascii /\ ~is_utf8(p.text) THEN Refused("invalid") ELSE p
escape_input(p) ==
    IF p.error # "none" THEN p
    ELSE IF is_utf8(p.text) THEN Made(p.text, TRUE) ELSE Refused("invalid")
\* ICU maps ill-formed text without an error.
case_map(p) == IF p.error # "none" THEN p ELSE Made(p.text, p.ascii \/ is_ascii(p.text))

-----------------------------------------------------------------------------
(* Preparing a record with the converter: the serial loops, and the slots. *)

normalize_utf8(r) ==
    IF r.enc = "native" /\ call.native_is_utf8
    THEN Made(without_bom(r.text), FALSE)
    ELSE convert(r)

normalize_input(r) ==
    CASE r.enc = "ascii" -> Made(r.text, TRUE)
      [] r.enc = "bytes" -> Refused("bytes")
      [] OTHER ->
           LET p == IF r.enc \in Converted THEN convert(r) ELSE Made(r.text, FALSE)
               t == without_bom(p.text)
               ambiguous == r.enc # "utf8" \/ p.text = "bom"
           IN IF p.error # "none" THEN p ELSE Made(t, ambiguous /\ is_ascii(t))

normalize_escape_input(r) ==
    CASE r.enc = "ascii" -> Made(r.text, FALSE)
      [] r.enc = "bytes" -> Refused("bytes")
      [] r.enc \in Converted ->
           LET p == convert(r)
               strip_bom == r.enc = "native" /\ r.text = "bom"
           IN IF p.error = "none" /\ strip_bom THEN Made(without_bom(p.text), FALSE) ELSE p
      [] OTHER -> Made(without_bom(r.text), FALSE)

\* CaseMapper::prepare_impl(), with a converter or without one.
prepare_impl(r, converter) ==
    CASE r.enc = "ascii" -> Made(r.text, TRUE)
      [] r.enc = "bytes" -> Refused("bytes")
      [] r.enc \in Converted /\ ~converter -> Refused("unprepared")
      [] r.enc \in Converted /\ converter ->
           LET p == convert(r)
               strip_bom == r.enc = "native" /\ r.text = "bom"
               t == IF strip_bom THEN without_bom(p.text) ELSE p.text
           IN IF p.error # "none" THEN p ELSE Made(t, is_ascii(t))
      [] OTHER -> Made(without_bom(r.text), r.enc = "ambiguous" /\ is_ascii(without_bom(r.text)))

-----------------------------------------------------------------------------
(* One record of the serial loops.                                         *)

length_inline(r) ==
    CASE r.enc \in {"ascii", "latin1"} -> Made(latin1(r.text).text, FALSE)
      [] r.enc = "bytes" -> Refused("bytes")
      [] r.enc = "native" /\ ~call.native_is_utf8 ->
           IF native(r.text).error # "none" THEN native(r.text)
           ELSE length_utf8(native(r.text).text)
      [] OTHER -> length_utf8(r.text)

width_inline(r) ==
    CASE r.enc = "ascii" -> Made(r.text, FALSE)
      [] r.enc = "bytes" -> Refused("bytes")
      [] r.enc \in Converted ->
           IF convert(r).error # "none" THEN convert(r) ELSE width_string(convert(r).text)
      [] OTHER -> width_string(r.text)

inline(r) ==
    IF r.enc = "na" THEN Missing
    ELSE CASE call.op = "length" -> length_inline(r)
           [] call.op = "width" -> width_inline(r)
           [] call.op = "reverse" -> reverse_input(normalize_input(r))
           [] call.op = "escape" -> escape_input(normalize_escape_input(r))
           [] call.op = "case" -> case_map(prepare_impl(r, TRUE))

-----------------------------------------------------------------------------
(* The pass before the region: refuse an encoding, convert into a slot, or *)
(* leave the record to its worker.                                         *)

Direct == Made("direct", FALSE)
classified(r, converts, p) ==
    IF r.enc = "bytes" THEN Refused("bytes") ELSE IF r.enc \in converts THEN p ELSE Direct
length_preflight(r) == classified(r, {"native"}, native(r.text))
width_preflight(r) == classified(r, Converted, normalize_utf8(r))
reverse_preflight(r) == classified(r, Converted, normalize_input(r))
escape_preflight(r) == classified(r, Converted, normalize_escape_input(r))
case_preflight(r) == classified(r, Converted, prepare_impl(r, TRUE))

preflight(r) ==
    IF r.enc = "na" THEN Direct
    ELSE CASE call.op = "length" -> length_preflight(r)
           [] call.op = "width" -> width_preflight(r)
           [] call.op = "reverse" -> reverse_preflight(r)
           [] call.op = "escape" -> escape_preflight(r)
           [] call.op = "case" -> case_preflight(r)

needs_preflight == ~(call.op = "length" /\ call.native_is_utf8)

\* Mutant: the slot keeps the view of the converter's buffer instead of a copy.
converter_view(p) == [prepared |-> p, stable |-> FALSE]

\* A slot owns its bytes, or borrows those of the record.
stable_copy(p) == [prepared |-> p, stable |-> TRUE]
new_slot == Len(values) + 1

-----------------------------------------------------------------------------
(* One record of the workers.                                              *)

\* What a slot that pointed at the converter's buffer would show.
slot_value(i) ==
    LET v == values[slots[i]]
    IN IF v.stable THEN v.prepared ELSE [v.prepared EXCEPT !.text = scratch]
converted_input_at(i) == slots[i] # 0

length_body(i) ==
    LET r == record(i)
    IN CASE r.enc \in {"ascii", "latin1"} -> Made(latin1(r.text).text, FALSE)
         [] r.enc = "bytes" -> Refused("bytes")
         [] r.enc = "native" /\ converted_input_at(i) -> length_utf8(slot_value(i).text)
         [] OTHER -> length_utf8(r.text)

width_body(i) ==
    LET r == record(i)
    IN CASE r.enc = "ascii" -> Made(r.text, FALSE)
         [] r.enc = "bytes" -> Refused("bytes")
         [] r.enc \in Utf8Like -> width_string(r.text)
         [] OTHER ->
              width_string(IF converted_input_at(i) THEN slot_value(i).text ELSE r.text)

direct_input(r) ==
    CASE r.enc = "ascii" -> Made(r.text, TRUE)
      [] r.enc = "bytes" -> Refused("bytes")
      [] r.enc \in Converted -> Refused("unprepared")
      [] OTHER ->
           LET t == without_bom(r.text)
           IN Made(t, (r.enc = "ambiguous" \/ r.text = "bom") /\ is_ascii(t))

direct_escape_input(r) ==
    CASE r.enc = "ascii" -> Made(r.text, FALSE)
      [] r.enc = "bytes" -> Refused("bytes")
      [] r.enc \in Converted -> Refused("unprepared")
      [] OTHER -> Made(without_bom(r.text), FALSE)

reverse_body(i) ==
    reverse_input(IF converted_input_at(i) THEN slot_value(i) ELSE direct_input(record(i)))
escape_body(i) ==
    escape_input(IF converted_input_at(i) THEN slot_value(i) ELSE direct_escape_input(record(i)))
case_body(i) ==
    case_map(IF converted_input_at(i) THEN slot_value(i) ELSE prepare_impl(record(i), FALSE))

region_body(i) ==
    IF record(i).enc = "na" THEN Missing
    ELSE CASE call.op = "length" -> length_body(i)
           [] call.op = "width" -> width_body(i)
           [] call.op = "reverse" -> reverse_body(i)
           [] call.op = "escape" -> escape_body(i)
           [] call.op = "case" -> case_body(i)

-----------------------------------------------------------------------------
(* The call.                                                               *)

Lane == [begin : Int, at : Int, end : Int, idle : BOOLEAN]
chunks == (N + call.chunk - 1) \div call.chunk
workers ==
    IF chunks <= 1 THEN 1 ELSE IF call.workers < chunks THEN call.workers ELSE chunks

MapsInit ==
    /\ call \in Calls
    /\ phase = "plan" /\ next = 1
    /\ scratch = "none"
    /\ slots = [i \in 1..N |-> 0] /\ values = <<>>
    /\ lanes = [w \in Worker |-> [begin |-> 1, at |-> 1, end |-> 0, idle |-> TRUE]]
    /\ output = <<>> /\ failures = {}
    /\ error = NoError

Open ==
    /\ phase = "plan"
    /\ phase' = IF workers = 1 THEN "serial" ELSE IF needs_preflight THEN "preflight" ELSE "region"
    /\ output' = [i \in 1..N |-> Made("none", FALSE)]
    /\ lanes' = [w \in Worker |-> [lanes[w] EXCEPT !.idle = w >= workers]]
    /\ UNCHANGED <<call, next, scratch, slots, values, failures, error>>

Raise(kind, at) ==
    /\ error' = [kind |-> kind, at |-> at, pass |-> phase]
    /\ phase' = "done"

\* One turn of the serial loop.  The converter's text is used at once.
SerialRecord ==
    /\ phase = "serial" /\ next <= N
    /\ LET made == inline(record(next))
       IN IF made.error # "none"
          THEN Raise(made.error, next) /\ UNCHANGED <<next, output>>
          ELSE /\ output' = [output EXCEPT ![next] = made]
               /\ next' = next + 1
               /\ UNCHANGED <<phase, error>>
    /\ UNCHANGED <<call, scratch, slots, values, lanes, failures>>

borrowed(r) == call.op = "width" /\ r.enc = "native" /\ call.native_is_utf8

PreflightRecord ==
    /\ phase = "preflight" /\ next <= N
    /\ LET r == record(next)
           p == preflight(r)
       IN IF p.error # "none"
          THEN Raise(p.error, next) /\ UNCHANGED <<next, scratch, slots, values>>
          ELSE /\ next' = next + 1
               /\ IF p = Direct
                  THEN UNCHANGED <<scratch, slots, values>>
                  ELSE /\ slots' = [slots EXCEPT ![next] = new_slot]
                       /\ values' = Append(values, stable_copy(p))
                       /\ scratch' = IF borrowed(r) THEN scratch ELSE convert(r).text
               /\ UNCHANGED <<phase, error>>
    /\ UNCHANGED <<call, lanes, output, failures>>

StartRegion ==
    /\ phase = "preflight" /\ next > N
    /\ phase' = "region" /\ next' = 1
    /\ UNCHANGED <<call, scratch, slots, values, lanes, output, failures, error>>

chunk_end == IF next + call.chunk - 1 < N THEN next + call.chunk - 1 ELSE N

\* A worker draws the next chunk, also when another one has failed.
Claim(w) ==
    /\ phase = "region" /\ ~lanes[w].idle /\ lanes[w].at > lanes[w].end
    /\ IF next > N
       THEN lanes' = [lanes EXCEPT ![w].idle = TRUE] /\ UNCHANGED next
       ELSE /\ lanes' = [lanes EXCEPT ![w] = [begin |-> next, at |-> next, end |-> chunk_end,
                                              idle |-> FALSE]]
            /\ next' = next + call.chunk
    /\ UNCHANGED <<call, phase, scratch, slots, values, output, failures, error>>

MapRecord(w) ==
    /\ phase = "region" /\ ~lanes[w].idle /\ lanes[w].at <= lanes[w].end
    /\ LET i == lanes[w].at
           made == region_body(i)
       IN IF made.error # "none"
          THEN /\ failures' = failures \cup
                                {[failed_at |-> lanes[w].begin, at |-> i, worker |-> w,
                                  error |-> made.error]}
               /\ lanes' = [lanes EXCEPT ![w].idle = TRUE]
               /\ UNCHANGED output
          ELSE /\ output' = [output EXCEPT ![i] = made]
               /\ lanes' = [lanes EXCEPT ![w].at = i + 1]
               /\ UNCHANGED failures
    /\ UNCHANGED <<call, phase, next, scratch, slots, values, error>>

raised == CHOOSE f \in failures : \A g \in failures : f.failed_at <= g.failed_at

EndRegion ==
    /\ phase = "region" /\ \A w \in Worker : lanes[w].idle
    /\ IF failures = {}
       THEN phase' = "done" /\ UNCHANGED error
       ELSE Raise(raised.error, raised.at)
    /\ UNCHANGED <<call, next, scratch, slots, values, lanes, output, failures>>

EndSerial ==
    /\ phase = "serial" /\ next > N
    /\ phase' = "done"
    /\ UNCHANGED <<call, next, scratch, slots, values, lanes, output, failures, error>>

Finished == phase = "done" /\ UNCHANGED maps_vars

MapsNext ==
    \/ Open \/ SerialRecord \/ PreflightRecord \/ StartRegion
    \/ \E w \in Worker : Claim(w) \/ MapRecord(w)
    \/ EndRegion \/ EndSerial \/ Finished

MapsSpec == MapsInit /\ [][MapsNext]_maps_vars

-----------------------------------------------------------------------------
(* Properties.                                                             *)

Value == [error : {"none"}, text : Text \cup {"na", "none"}, ascii : BOOLEAN]

(* The variables keep their types; a slot number is that of a stored value. *)
MapsTypeOK ==
    /\ phase \in {"plan", "serial", "preflight", "region", "done"}
    /\ next \in 1..(N + call.chunk)
    /\ scratch \in Text \cup {"none"}
    /\ slots \in [1..N -> 0..Len(values)]
    /\ values \in Seq([prepared : Value, stable : BOOLEAN])
    /\ lanes \in [Worker -> Lane]
    /\ output = <<>> \/ output \in [1..N -> Value]
    /\ \A f \in failures : f.at \in 1..N /\ f.worker \in Worker /\ f.error \in ErrorKind
    /\ error.kind \in ErrorKind \cup {"none"} /\ error.at \in 0..N

Least(S) == CHOOSE i \in S : \A j \in S : i <= j
serial_failures == {i \in 1..N : inline(record(i)).error # "none"}
serial_error ==
    IF serial_failures = {} THEN NoError
    ELSE LET i == Least(serial_failures)
         IN [kind |-> inline(record(i)).error, at |-> i, pass |-> "serial"]

(* However the records are shared out, and although the converter's buffer *)
(* was overwritten by later records when a worker reads a slot, a call     *)
(* that returns gives every record the value of the serial loop.           *)
ResultIsSerial ==
    phase = "done" /\ error.kind = "none" =>
        output = [i \in 1..N |-> inline(record(i))]

(* No worker meets a record it could only read with the converter, which   *)
(* belongs to the calling thread: the pass made a slot of every such       *)
(* record, or the native encoding is UTF-8 and the record is read in       *)
(* place.                                                                  *)
WorkersNeedNoConverter ==
    /\ \A f \in failures : f.error # "unprepared"
    /\ phase = "region" /\ ~call.native_is_utf8 =>
         \A i \in 1..N : record(i).enc = "native" => slots[i] # 0

(* A call on several workers fails exactly when the serial loop would, and *)
(* a failure of the region is that of the first record the serial loop     *)
(* refuses.                                                                *)
FailureIsSerial ==
    phase = "done" =>
        /\ (error.kind # "none") = (serial_failures # {})
        /\ error.pass \in {"region", "serial"} => error.at = serial_error.at

-----------------------------------------------------------------------------
(* The inductive invariant of the proofs.                                  *)

Fails(i) == inline(record(i)).error # "none"

\* What the pass left for a record it has seen.
SlotIsRight(i) ==
    LET p == preflight(record(i)) IN
    /\ p.error = "none"
    /\ IF p = Direct THEN slots[i] = 0
       ELSE slots[i] \in 1..Len(values) /\ values[slots[i]] = stable_copy(p)

\* A worker has mapped its chunk up to where it is, and leaves only when all
\* chunks are drawn or its chunk has failed.
LaneIsRight(w) ==
    LET l == lanes[w] IN
    /\ ~l.idle => /\ 1 <= l.begin /\ l.begin <= l.at /\ l.end <= N /\ l.end < next
                  /\ \A j \in l.begin..(l.at - 1) : ~Fails(j)
    /\ l.idle /\ w < workers => next > N \/ failures # {}

\* A report names the first record of its chunk that fails.
ReportIsRight(f) ==
    /\ f.failed_at \in 1..f.at /\ f.at < next /\ Fails(f.at)
    /\ \A j \in f.failed_at..(f.at - 1) : ~Fails(j)

\* A record of a drawn chunk lies before a worker, is mapped, or was given up.
IsAccounted(i) ==
    \/ \E w \in Worker : ~lanes[w].idle /\ lanes[w].at <= i /\ i <= lanes[w].end
    \/ ~Fails(i) /\ output[i] = inline(record(i))
    \/ \E f \in failures : f.at <= i

MapsInv ==
    /\ IsCall(call) /\ MapsTypeOK
    /\ phase # "plan" => output \in [1..N -> Value]
    /\ phase # "done" => error = NoError
    /\ phase \in {"plan", "serial", "preflight"} => failures = {} /\ next <= N + 1
    /\ phase \in {"plan", "preflight"} =>
         \A w \in Worker : lanes[w].begin = 1 /\ lanes[w].at = 1 /\ lanes[w].end = 0
    /\ phase = "plan" => next = 1 /\ \A i \in 1..N : slots[i] = 0
    /\ phase = "serial" =>
         \A i \in 1..N : i < next => ~Fails(i) /\ output[i] = inline(record(i))
    /\ phase \in {"preflight", "region"} =>
         workers > 1 /\ \A w \in Worker : lanes[w].idle => w >= workers \/ phase = "region"
    /\ phase = "preflight" =>
         needs_preflight /\ \A i \in 1..N : IF i < next THEN SlotIsRight(i) ELSE slots[i] = 0
    /\ phase = "region" =>
         /\ \A i \in 1..N : IF needs_preflight THEN SlotIsRight(i) ELSE slots[i] = 0
         /\ \A w \in Worker : LaneIsRight(w)
         /\ \A f \in failures : ReportIsRight(f)
         /\ \A i \in 1..N : i < next => IsAccounted(i)
    /\ \A f \in failures : f.error # "unprepared"
    /\ ResultIsSerial /\ FailureIsSerial

\* Mapping records on several workers is the serial loop (ci_length, ci_width,
\* ci_reverse, ci_escape_unicode and the case mappings): a call that returns has
\* its values, a call fails exactly when the loop does, a failure of the region
\* is at the loop's first failing record, and no worker needs a converter.
MapsAreSerial == MapsInv /\ WorkersNeedNoConverter

=============================================================================
