-------------------------- MODULE RecordMaps_proofs --------------------------
(***************************************************************************)
(* RecordMaps for every vector of records, every chunk size and any number *)
(* of workers.                                                             *)
(***************************************************************************)
EXTENDS RecordMaps, NaturalsInduction, WellFoundedInduction, TLAPS

\* A leaf that names no prover is tried with these, in this order.
USE SMTT(20), ZenonT(20), SMTT(60), Z3T(60)

-----------------------------------------------------------------------------
(* One record.                                                             *)

\* What the proofs use of a call.
LEMMA CallFacts ==
    ASSUME IsCall(call)
    PROVE  /\ N \in Nat /\ call.records \in [1..N -> Record]
           /\ call.op \in Operation /\ call.native_is_utf8 \in BOOLEAN
           /\ call.workers \in Nat \ {0} /\ call.chunk \in Nat \ {0}
           /\ \A i \in 1..N : record(i).enc \in Encoding /\ record(i).text \in Text
  <1>1. /\ call.records \in Seq(Record)
        /\ call.op \in Operation /\ call.native_is_utf8 \in BOOLEAN
        /\ call.workers \in Nat \ {0} /\ call.chunk \in Nat \ {0}
    BY DEF IsCall
  <1>2. N \in Nat /\ call.records \in [1..N -> Record]
    BY <1>1 DEF N
  <1>3. \A i \in 1..N : record(i) \in Record
    BY <1>2 DEF record
  <1> QED
    BY <1>1, <1>2, <1>3 DEF Record

Agrees(a, b) == (a.error = "none" <=> b.error = "none") /\ (a.error = "none" => a = b)

\* What a pass hands to a worker: nothing, or the prepared text.
InputAt(i, p) ==
    IF p = Direct THEN ~converted_input_at(i)
    ELSE converted_input_at(i) /\ slot_value(i) = p

\* A record whose slot is right is read from it.
LEMMA SlotIsRead ==
    ASSUME NEW i \in 1..N, SlotIsRight(i)
    PROVE  InputAt(i, preflight(record(i)))
  <1>1. CASE preflight(record(i)) = Direct
    BY <1>1 DEF SlotIsRight, InputAt, converted_input_at
  <1>2. CASE preflight(record(i)) # Direct
    BY <1>2 DEF SlotIsRight, InputAt, converted_input_at, slot_value, stable_copy
  <1> QED BY <1>1, <1>2

\* ci_length(): the body of the region counts what the serial loop counts.
LEMMA LengthAgrees ==
    ASSUME NEW i, record(i).enc \in Encoding, record(i).text \in Text,
           record(i).enc # "na", call.native_is_utf8 \in BOOLEAN,
           IF call.native_is_utf8 THEN ~converted_input_at(i)
           ELSE length_preflight(record(i)).error = "none" /\ InputAt(i, length_preflight(record(i)))
    PROVE  Agrees(length_body(i), length_inline(record(i))) /\ length_body(i).error # "unprepared"
  BY DEF Agrees, InputAt, length_body, length_inline, length_preflight, classified, Direct,
         Made, Refused, latin1, native, length_utf8, is_utf8, is_ascii, Encoding, Text

\* No text that is prepared looks like a record left to its worker.
LEMMA NotDirect ==
    ASSUME NEW v, v.text \in Text
    PROVE  v # Direct
  BY DEF Direct, Made, Text

\* A conversion gives a text, not known to be ASCII, or is refused.
LEMMA ConvertGives ==
    ASSUME NEW r, r.enc \in Converted, r.text \in Text, call.native_is_utf8 \in BOOLEAN
    PROVE  \/ convert(r) = Refused("conversion")
           \/ convert(r).text \in Text /\ convert(r) = Made(convert(r).text, FALSE)
  BY Zenon DEF convert, Converted, latin1, native, Made, Refused, is_utf8, is_ascii, Text

\* ci_width(): the body of the region measures what the serial loop measures.
LEMMA WidthAgrees ==
    ASSUME NEW i, record(i).enc \in Encoding, record(i).text \in Text,
           record(i).enc # "na", call.native_is_utf8 \in BOOLEAN,
           width_preflight(record(i)).error = "none", InputAt(i, width_preflight(record(i)))
    PROVE  Agrees(width_body(i), width_inline(record(i))) /\ width_body(i).error # "unprepared"
  <1> DEFINE r == record(i)
  <1>1. CASE r.enc \notin Converted
    BY <1>1 DEF Agrees, width_body, width_inline, Converted, Utf8Like, width_string,
                Made, Refused, is_utf8, Encoding, Text
  <1>2. CASE r.enc \in Converted /\ ~(r.enc = "native" /\ call.native_is_utf8)
    <2>1. width_preflight(r) = convert(r)
      BY Zenon, <1>2 DEF width_preflight, classified, normalize_utf8, Converted
    <2>2. convert(r).error = "none" /\ convert(r).text \in Text /\ convert(r) # Direct
      BY <1>2, <2>1, ConvertGives DEF Made, Refused, Direct, Text
    <2>3. converted_input_at(i) /\ slot_value(i) = convert(r)
      BY <2>1, <2>2 DEF InputAt
    <2>4. width_body(i) = width_string(convert(r).text) /\ width_inline(r) = width_string(convert(r).text)
      BY Zenon, <1>2, <2>2, <2>3 DEF width_body, width_inline, Converted, Utf8Like
    <2> QED BY <2>4 DEF Agrees, width_string, Made, Refused
  <1>3. CASE r.enc = "native" /\ call.native_is_utf8
    <2>1. width_preflight(r) = Made(without_bom(r.text), FALSE)
      BY <1>3 DEF width_preflight, classified, normalize_utf8, Converted
    <2>2. converted_input_at(i) /\ slot_value(i).text = without_bom(r.text)
      BY <2>1 DEF InputAt, Made, Direct, without_bom, Text
    <2>3. width_body(i) = width_string(without_bom(r.text))
      BY <1>3, <2>2 DEF width_body, Utf8Like
    <2>4. width_inline(r) = IF is_utf8(r.text) THEN width_string(r.text) ELSE Refused("conversion")
      BY <1>3 DEF width_inline, Converted, convert, native, Made, Refused
    <2>5. CASE r.text = "bom"
      BY <2>3, <2>4, <2>5 DEF Agrees, width_string, without_bom, is_utf8, Made, Refused
    <2>6. CASE r.text # "bom"
      <3>1. without_bom(r.text) = r.text
        BY <2>6 DEF without_bom
      <3>2. width_body(i) = width_string(r.text)
        BY Zenon, <2>3, <3>1
      <3>3. CASE is_utf8(r.text)
        <4>1. width_inline(r) = width_body(i)
          BY Zenon, <2>4, <3>2, <3>3
        <4>2. width_body(i).error = "none"
          BY <3>2, <3>3 DEF width_string, Made
        <4> QED BY Zenon, <4>1, <4>2 DEF Agrees
      <3>4. CASE ~is_utf8(r.text)
        <4>1. width_inline(r).error = "conversion" /\ width_body(i).error = "invalid"
          BY <2>4, <3>2, <3>4 DEF width_string, Refused
        <4> QED BY <4>1 DEF Agrees
      <3> QED BY <3>3, <3>4
    <2> QED BY <2>5, <2>6
  <1> QED BY <1>1, <1>2, <1>3

\* ci_reverse(): the body of the region reverses what the serial loop reverses.
LEMMA ReverseAgrees ==
    ASSUME NEW i, record(i).enc \in Encoding, record(i).text \in Text,
           record(i).enc # "na", call.native_is_utf8 \in BOOLEAN,
           reverse_preflight(record(i)).error = "none", InputAt(i, reverse_preflight(record(i)))
    PROVE  /\ Agrees(reverse_body(i), reverse_input(normalize_input(record(i))))
           /\ reverse_body(i).error # "unprepared"
  <1> DEFINE r == record(i)
             p == normalize_input(r)
  <1>1. CASE r.enc \in Converted
    <2>1. reverse_preflight(r) = p
      BY <1>1 DEF reverse_preflight, classified, Converted
    <2>2. p.error = "none" /\ p.text \in Text
      BY <1>1, <2>1, ConvertGives DEF normalize_input, Converted, Made, Refused, without_bom, Text
    <2>3. p # Direct
      BY Zenon, <2>2, NotDirect
    <2>4. converted_input_at(i) /\ slot_value(i) = p
      BY <2>1, <2>3 DEF InputAt
    <2>5. reverse_body(i) = reverse_input(p)
      BY Zenon, <2>4 DEF reverse_body
    <2>6. reverse_body(i).error # "unprepared"
      BY <2>2, <2>5 DEF reverse_input, Made, Refused
    <2> QED BY Zenon, <2>5, <2>6 DEF Agrees
  <1>2. CASE r.enc = "bytes"
    BY <1>2 DEF reverse_preflight, classified, Refused
  <1>3. CASE r.enc \notin Converted /\ r.enc # "bytes"
    <2>1. reverse_preflight(r) = Direct
      BY <1>3 DEF reverse_preflight, classified
    <2>2. reverse_body(i) = reverse_input(direct_input(r))
      BY Zenon, <2>1 DEF reverse_body, InputAt
    <2>3. direct_input(r) = p
      <3>1. CASE r.enc = "ascii"
        <4>1. direct_input(r) = Made(r.text, TRUE) /\ normalize_input(r) = Made(r.text, TRUE)
          BY Zenon, <3>1 DEF direct_input, normalize_input, Converted
        <4> QED BY Zenon, <4>1
      <3>2. CASE r.enc # "ascii"
        <4> DEFINE t == without_bom(r.text)
                   a == (r.enc # "utf8" \/ r.text = "bom") /\ is_ascii(t)
                   b == (r.enc = "ambiguous" \/ r.text = "bom") /\ is_ascii(t)
        <4>1. r.enc \in {"utf8", "ambiguous"}
          BY <1>3, <3>2 DEF Encoding, Converted
        <4>2. a = b
          BY Zenon, <4>1
        <4>3. direct_input(r) = Made(t, b)
          BY Zenon, <4>1 DEF direct_input, Converted
        <4>4. normalize_input(r) = Made(t, a)
          BY Zenon, <4>1 DEF normalize_input, Converted, Made
        <4> QED BY Zenon, <4>2, <4>3, <4>4
      <3> QED BY <3>1, <3>2
    <2>4. p.error = "none"
      BY <1>3 DEF normalize_input, Converted, Made, Encoding
    <2>5. reverse_body(i) = reverse_input(p)
      BY Zenon, <2>2, <2>3
    <2>6. reverse_body(i).error # "unprepared"
      BY <2>4, <2>5 DEF reverse_input, Made, Refused
    <2> QED BY Zenon, <2>5, <2>6 DEF Agrees
  <1> QED BY Zenon, <1>1, <1>2, <1>3

\* ci_escape_unicode(): the body of the region escapes what the serial loop escapes.
LEMMA EscapeAgrees ==
    ASSUME NEW i, record(i).enc \in Encoding, record(i).text \in Text,
           record(i).enc # "na", call.native_is_utf8 \in BOOLEAN,
           escape_preflight(record(i)).error = "none", InputAt(i, escape_preflight(record(i)))
    PROVE  /\ Agrees(escape_body(i), escape_input(normalize_escape_input(record(i))))
           /\ escape_body(i).error # "unprepared"
  <1> DEFINE r == record(i)
             p == normalize_escape_input(r)
  <1>1. CASE r.enc \in Converted
    <2>1. escape_preflight(r) = p
      BY <1>1 DEF escape_preflight, classified, Converted
    <2>2. p.error = "none" /\ p.text \in Text
      BY <1>1, <2>1, ConvertGives DEF normalize_escape_input, Converted, Made, Refused, without_bom, Text
    <2>3. p # Direct
      BY Zenon, <2>2, NotDirect
    <2>4. converted_input_at(i) /\ slot_value(i) = p
      BY <2>1, <2>3 DEF InputAt
    <2>5. escape_body(i) = escape_input(p)
      BY Zenon, <2>4 DEF escape_body
    <2>6. escape_body(i).error # "unprepared"
      BY <2>2, <2>5 DEF escape_input, Made, Refused
    <2> QED BY Zenon, <2>5, <2>6 DEF Agrees
  <1>2. CASE r.enc = "bytes"
    BY <1>2 DEF escape_preflight, classified, Refused
  <1>3. CASE r.enc \notin Converted /\ r.enc # "bytes"
    <2>1. escape_preflight(r) = Direct
      BY <1>3 DEF escape_preflight, classified
    <2>2. escape_body(i) = escape_input(direct_escape_input(r))
      BY Zenon, <2>1 DEF escape_body, InputAt
    <2>3. direct_escape_input(r) = p
      BY <1>3 DEF direct_escape_input, normalize_escape_input, Converted
    <2>4. p.error = "none"
      BY <1>3 DEF normalize_escape_input, Converted, Made, Encoding
    <2>5. escape_body(i) = escape_input(p)
      BY Zenon, <2>2, <2>3
    <2>6. escape_body(i).error # "unprepared"
      BY <2>4, <2>5 DEF escape_input, Made, Refused
    <2> QED BY Zenon, <2>5, <2>6 DEF Agrees
  <1> QED BY Zenon, <1>1, <1>2, <1>3

\* ICU maps every text.
LEMMA CaseMapped ==
    ASSUME NEW p, p.error = "none"
    PROVE  case_map(p).error = "none"
  BY DEF case_map, Made

\* What a made value is made of, whatever it is marked.
LEMMA MadeMarked ==
    ASSUME NEW p, NEW t, p = Made(t, is_ascii(t))
    PROVE  p.error = "none" /\ p.text = t
  BY DEF Made, is_ascii

\* ci_trans_tolower() and its siblings: a worker's mapper maps what the serial one maps.
LEMMA CaseAgrees ==
    ASSUME NEW i, record(i).enc \in Encoding, record(i).text \in Text,
           record(i).enc # "na", call.native_is_utf8 \in BOOLEAN,
           case_preflight(record(i)).error = "none", InputAt(i, case_preflight(record(i)))
    PROVE  /\ Agrees(case_body(i), case_map(prepare_impl(record(i), TRUE)))
           /\ case_body(i).error # "unprepared"
  <1> DEFINE r == record(i)
             p == prepare_impl(r, TRUE)
  <1>1. CASE r.enc \in Converted
    <2>1. case_preflight(r) = p
      BY Zenon, <1>1 DEF case_preflight, classified, Converted
    <2>2. p.error = "none" /\ p.text \in Text
      <3> DEFINE strip_bom == r.enc = "native" /\ r.text = "bom"
                 t == IF strip_bom THEN without_bom(convert(r).text) ELSE convert(r).text
      <3>1. convert(r).error # "none" => p = convert(r)
        BY Zenon, <1>1 DEF prepare_impl, Converted
      <3>2. convert(r).error = "none" => p = Made(t, is_ascii(t))
        BY Zenon, <1>1 DEF prepare_impl, Converted
      <3>0. p.error = "none"
        BY Zenon, <2>1
      <3>a. \/ convert(r).error # "none"
            \/ convert(r).error = "none" /\ convert(r).text \in Text
        BY <1>1, ConvertGives DEF Made, Refused
      <3>3. convert(r).error = "none" /\ convert(r).text \in Text
        BY Zenon, <3>0, <3>1, <3>a
      <3>4. t \in Text
        BY <3>3 DEF without_bom, Text
      <3>5. p = Made(t, is_ascii(t))
        BY Zenon, <3>2, <3>3
      <3> HIDE DEF t, p
      <3> QED BY <3>4, <3>5, MadeMarked
    <2>3. p # Direct
      BY Zenon, <2>2, NotDirect
    <2>4. converted_input_at(i) /\ slot_value(i) = p
      BY <2>1, <2>3 DEF InputAt
    <2>5. case_body(i) = case_map(p)
      BY Zenon, <2>4 DEF case_body
    <2>6. case_body(i).error # "unprepared"
      BY Zenon, <2>2, <2>5, CaseMapped
    <2> QED BY Zenon, <2>5, <2>6 DEF Agrees
  <1>2. CASE r.enc = "bytes"
    BY <1>2 DEF case_preflight, classified, Refused
  <1>3. CASE r.enc \notin Converted /\ r.enc # "bytes"
    <2>1. case_preflight(r) = Direct
      BY <1>3 DEF case_preflight, classified
    <2>2. case_body(i) = case_map(prepare_impl(r, FALSE))
      BY Zenon, <2>1 DEF case_body, InputAt
    <2>3. prepare_impl(r, FALSE) = p
      BY <1>3 DEF prepare_impl, Converted
    <2>4. p.error = "none"
      BY <1>3 DEF prepare_impl, Converted, Made, Encoding
    <2>5. case_body(i) = case_map(p)
      BY Zenon, <2>2, <2>3
    <2>6. case_body(i).error # "unprepared"
      BY Zenon, <2>4, <2>5, CaseMapped
    <2> QED BY Zenon, <2>5, <2>6 DEF Agrees
  <1> QED BY Zenon, <1>1, <1>2, <1>3

\* On several workers a record is mapped to the value of the serial loop, or
\* refused when the loop refuses it.
LEMMA BodyIsInline ==
    ASSUME IsCall(call), NEW i \in 1..N,
           IF needs_preflight THEN SlotIsRight(i) ELSE slots[i] = 0
    PROVE  Agrees(region_body(i), inline(record(i))) /\ region_body(i).error # "unprepared"
  <1> DEFINE r == record(i)
  <1>0. r.enc \in Encoding /\ r.text \in Text /\ call.op \in Operation /\ call.native_is_utf8 \in BOOLEAN
    BY CallFacts
  <1>1. CASE r.enc = "na"
    BY <1>1 DEF region_body, inline, Agrees, Missing, Made
  <1>2. CASE r.enc # "na" /\ call.op = "length"
    <2>1. region_body(i) = length_body(i) /\ inline(r) = length_inline(r) /\ preflight(r) = length_preflight(r)
      BY <1>2 DEF region_body, inline, preflight
    <2>2. call.native_is_utf8 => ~converted_input_at(i)
      BY <1>2 DEF needs_preflight, converted_input_at
    <2>3. ~call.native_is_utf8 =>
            length_preflight(r).error = "none" /\ InputAt(i, length_preflight(r))
      BY <1>0, <1>2, <2>1, SlotIsRead DEF needs_preflight, SlotIsRight
    <2> QED BY <1>0, <1>2, <2>1, <2>2, <2>3, LengthAgrees
  <1>3. CASE r.enc # "na" /\ call.op # "length"
    <2>1. preflight(r).error = "none" /\ InputAt(i, preflight(r))
      BY <1>3, SlotIsRead DEF needs_preflight, SlotIsRight
    <2>2. CASE call.op = "width"
      <3>1. region_body(i) = width_body(i) /\ inline(r) = width_inline(r) /\ preflight(r) = width_preflight(r)
        BY <1>3, <2>2 DEF region_body, inline, preflight
      <3> QED BY <1>0, <1>3, <2>1, <3>1, WidthAgrees
    <2>3. CASE call.op = "reverse"
      <3>1. region_body(i) = reverse_body(i) /\ preflight(r) = reverse_preflight(r)
            /\ inline(r) = reverse_input(normalize_input(r))
        BY <1>3, <2>3 DEF region_body, inline, preflight
      <3> QED BY <1>0, <1>3, <2>1, <3>1, ReverseAgrees
    <2>4. CASE call.op = "escape"
      <3>1. region_body(i) = escape_body(i) /\ preflight(r) = escape_preflight(r)
            /\ inline(r) = escape_input(normalize_escape_input(r))
        BY <1>3, <2>4 DEF region_body, inline, preflight
      <3> QED BY <1>0, <1>3, <2>1, <3>1, EscapeAgrees
    <2>5. CASE call.op = "case"
      <3>1. region_body(i) = case_body(i) /\ preflight(r) = case_preflight(r)
            /\ inline(r) = case_map(prepare_impl(r, TRUE))
        BY Zenon, <1>3, <2>5 DEF region_body, inline, preflight
      <3> QED BY Zenon, <1>0, <1>3, <2>1, <3>1, CaseAgrees
    <2> QED BY <1>0, <1>3, <2>2, <2>3, <2>4, <2>5 DEF Operation
  <1> QED BY <1>0, <1>1, <1>2, <1>3

IsTyped(v) == v.error \in ErrorKind \cup {"none"} /\ (v.error = "none" => v \in Value)

\* A record that the pass refuses is one that the serial loop refuses.
LEMMA PreflightIsSerial ==
    ASSUME NEW r, r.enc \in Encoding, r.text \in Text, call.op \in Operation,
           call.native_is_utf8 \in BOOLEAN, preflight(r).error # "none"
    PROVE  inline(r).error # "none"
  <1>0. r.enc # "na"
    BY DEF preflight, Direct, Made
  <1>1. CASE call.op = "length"
    BY <1>0, <1>1 DEF preflight, inline, length_preflight, length_inline, classified, Direct, Made,
       Refused, native, length_utf8, is_utf8, Text
  <1>2. CASE call.op = "width"
    BY <1>0, <1>2, ConvertGives DEF preflight, inline, width_preflight, width_inline, classified, Direct, Made,
       Refused, Converted, normalize_utf8
  <1>3. CASE call.op = "reverse"
    BY <1>0, <1>3 DEF preflight, inline, reverse_preflight, reverse_input, classified, Direct, Made,
       Refused, normalize_input
  <1>4. CASE call.op = "escape"
    <2>1. inline(r) = escape_input(normalize_escape_input(r)) /\ preflight(r) = escape_preflight(r)
      BY Zenon, <1>0, <1>4 DEF inline, preflight
    <2>2. r.enc = "bytes" => normalize_escape_input(r) = Refused("bytes")
      BY Zenon DEF normalize_escape_input, Converted
    <2>3. normalize_escape_input(r).error # "none"
      <3>1. CASE r.enc = "bytes"
        BY Zenon, <2>1, <2>2, <3>1 DEF escape_preflight, classified
      <3>2. CASE r.enc # "bytes" /\ r.enc \in Converted
        BY Zenon, <2>1, <3>2 DEF escape_preflight, classified
      <3>3. CASE r.enc # "bytes" /\ r.enc \notin Converted
        BY <2>1, <3>3 DEF escape_preflight, classified, Direct, Made
      <3> QED BY Zenon, <3>1, <3>2, <3>3
    <2>4. inline(r) = normalize_escape_input(r)
      BY Zenon, <2>1, <2>3 DEF escape_input
    <2> QED BY Zenon, <2>3, <2>4
  <1>5. CASE call.op = "case"
    <2>1. inline(r) = case_map(prepare_impl(r, TRUE)) /\ preflight(r) = case_preflight(r)
      BY Zenon, <1>0, <1>5 DEF inline, preflight
    <2>2. r.enc = "bytes" => prepare_impl(r, TRUE) = Refused("bytes")
      BY Zenon DEF prepare_impl, Converted
    <2>3. prepare_impl(r, TRUE).error # "none"
      <3>1. CASE r.enc = "bytes"
        BY Zenon, <2>1, <2>2, <3>1 DEF case_preflight, classified
      <3>2. CASE r.enc # "bytes" /\ r.enc \in Converted
        BY Zenon, <2>1, <3>2 DEF case_preflight, classified
      <3>3. CASE r.enc # "bytes" /\ r.enc \notin Converted
        BY <2>1, <3>3 DEF case_preflight, classified, Direct, Made
      <3> QED BY Zenon, <3>1, <3>2, <3>3
    <2>4. inline(r) = prepare_impl(r, TRUE)
      BY Zenon, <2>1, <2>3 DEF case_map
    <2> QED BY Zenon, <2>3, <2>4
  <1> QED BY <1>1, <1>2, <1>3, <1>4, <1>5 DEF Operation

\* What a record is mapped to has its type.
LEMMA InlineTyped ==
    ASSUME NEW r, r.enc \in Encoding, r.text \in Text, call.op \in Operation,
           call.native_is_utf8 \in BOOLEAN
    PROVE  IsTyped(inline(r))
  <1>0. CASE r.enc = "na"
    BY <1>0 DEF inline, IsTyped, Missing, Made, Value
  <1>1. CASE r.enc # "na" /\ call.op = "length"
    BY <1>1 DEF inline, IsTyped, length_inline, Made, Value,
       Refused, native, latin1, is_ascii, length_utf8, is_utf8, Text, ErrorKind
  <1>2. CASE r.enc # "na" /\ call.op = "width"
    BY <1>2, ConvertGives DEF inline, width_inline, Made, IsTyped, Value, Text, ErrorKind,
       Refused, Converted, width_string, without_bom
  <1>3. CASE r.enc # "na" /\ call.op = "reverse"
    BY <1>3, ConvertGives DEF inline, reverse_input, Made, IsTyped, Value, Text, ErrorKind,
       Refused, normalize_input, Converted, without_bom, is_ascii
  <1>4. CASE r.enc # "na" /\ call.op = "escape"
    BY <1>4, ConvertGives DEF inline, escape_input, Made, IsTyped, Value, Text, ErrorKind,
       Refused, normalize_escape_input, Converted, without_bom
  <1>5. CASE r.enc # "na" /\ call.op = "case"
    BY <1>5, ConvertGives DEF inline, case_map, Made, IsTyped, Value, Text, ErrorKind,
       Refused, prepare_impl, Converted, without_bom, is_ascii
  <1> QED BY <1>0, <1>1, <1>2, <1>3, <1>4, <1>5 DEF Operation

\* Values made and errors refused have their types.
LEMMA MadeTyped ==
    ASSUME NEW t \in Text
    PROVE  IsTyped(Made(t, FALSE)) /\ IsTyped(Made(t, TRUE))
  BY DEF IsTyped, Made, Refused, Value, ErrorKind, Text

\* And so has what a slot holds.
LEMMA PreflightTyped ==
    ASSUME NEW r, r.enc \in Encoding, r.text \in Text, call.op \in Operation,
           call.native_is_utf8 \in BOOLEAN
    PROVE  /\ preflight(r).error \in ErrorKind \cup {"none"}
           /\ preflight(r).error = "none" => preflight(r) = Direct \/ preflight(r) \in Value
  <1>a. CASE r.enc = "na" \/ r.enc = "bytes" \/ r.enc \notin Converted \/ (call.op = "length" /\ r.enc = "latin1")
    <2>1. preflight(r) = Direct \/ preflight(r) = Refused("bytes")
      BY Zenon, <1>a DEF preflight, classified, length_preflight, width_preflight, reverse_preflight,
         escape_preflight, case_preflight, Operation, Converted
    <2> QED BY <2>1 DEF Direct, Made, Refused, ErrorKind
  <1>b. CASE r.enc \in Converted /\ ~(call.op = "length" /\ r.enc = "latin1")
    <2> SUFFICES IsTyped(preflight(r))
      BY DEF IsTyped
    <2>0. IsTyped(convert(r)) /\ (convert(r).error = "none" => convert(r).text \in Text)
      <3>1. CASE convert(r) = Refused("conversion")
        <4>1. IsTyped(Refused("conversion")) /\ Refused("conversion").error # "none"
          BY DEF IsTyped, Refused, ErrorKind
        <4> QED BY Zenon, <3>1, <4>1
      <3>2. CASE convert(r).text \in Text /\ convert(r) = Made(convert(r).text, FALSE)
        BY Zenon, <3>2, MadeTyped
      <3> QED BY Zenon, <1>b, <3>1, <3>2, ConvertGives
    <2>1. CASE call.op = "length"
      <3>1. preflight(r) = convert(r)
        BY <1>b, <2>1 DEF preflight, length_preflight, classified, Converted, convert
      <3> QED BY Zenon, <2>0, <3>1
    <2>2. CASE call.op = "width"
      <3>1. preflight(r) = convert(r) \/ preflight(r) = Made(without_bom(r.text), FALSE)
        BY Zenon, <1>b, <2>2 DEF preflight, width_preflight, classified, Converted, normalize_utf8
      <3>2. without_bom(r.text) \in Text
        BY DEF without_bom, Text
      <3> QED BY Zenon, <2>0, <3>1, <3>2, MadeTyped
    <2>3. CASE call.op = "reverse"
      <3> DEFINE t == without_bom(convert(r).text)
                 a == (r.enc # "utf8" \/ convert(r).text = "bom") /\ is_ascii(t)
      <3>1. preflight(r) = normalize_input(r)
        BY <1>b, <2>3 DEF preflight, reverse_preflight, classified, Converted
      <3>2. preflight(r) = convert(r) \/ (convert(r).error = "none" /\ preflight(r) = Made(t, a))
        BY Zenon, <1>b, <3>1 DEF normalize_input, Converted
      <3>3. \/ preflight(r) = convert(r)
            \/ /\ convert(r).error = "none"
               /\ preflight(r) = Made(t, TRUE) \/ preflight(r) = Made(t, FALSE)
        BY <3>2 DEF Made
      <3>4. convert(r).error = "none" => t \in Text
        BY <2>0 DEF without_bom, Text
      <3> QED BY Zenon, <2>0, <3>3, <3>4, MadeTyped
    <2>4. CASE call.op = "escape"
      <3>1. preflight(r) = normalize_escape_input(r)
        BY <1>b, <2>4 DEF preflight, escape_preflight, classified, Converted
      <3>2. preflight(r) = convert(r)
            \/ (convert(r).error = "none" /\ preflight(r) = Made(without_bom(convert(r).text), FALSE))
        BY Zenon, <1>b, <3>1 DEF normalize_escape_input, Converted
      <3>3. convert(r).error = "none" => without_bom(convert(r).text) \in Text
        BY <2>0 DEF without_bom, Text
      <3> QED BY Zenon, <2>0, <3>2, <3>3, MadeTyped
    <2>5. CASE call.op = "case"
      <3> DEFINE strip_bom == r.enc = "native" /\ r.text = "bom"
                 t == IF strip_bom THEN without_bom(convert(r).text) ELSE convert(r).text
      <3>1. preflight(r) = prepare_impl(r, TRUE)
        BY Zenon, <1>b, <2>5 DEF preflight, case_preflight, classified, Converted
      <3>2. preflight(r) = convert(r) \/ (convert(r).error = "none" /\ preflight(r) = Made(t, is_ascii(t)))
        BY Zenon, <1>b, <3>1 DEF prepare_impl, Converted
      <3>4. convert(r).error = "none" => t \in Text
        BY <2>0 DEF without_bom, Text
      <3> HIDE DEF t
      <3>3. \/ preflight(r) = convert(r)
            \/ /\ convert(r).error = "none"
               /\ preflight(r) = Made(t, TRUE) \/ preflight(r) = Made(t, FALSE)
        BY <3>2 DEF Made
      <3> QED BY Zenon, <2>0, <3>3, <3>4, MadeTyped
    <2> QED BY <2>1, <2>2, <2>3, <2>4, <2>5 DEF Operation
  <1> QED BY <1>a, <1>b DEF Converted

\* An error of a worker is one of the four kinds.
LEMMA BodyTyped ==
    ASSUME IsCall(call), NEW i \in 1..N,
           IF needs_preflight THEN SlotIsRight(i) ELSE slots[i] = 0
    PROVE  region_body(i).error \in ErrorKind \cup {"none"}
  <1> DEFINE r == record(i)
             Known(v) == v.error \in ErrorKind \cup {"none"}
  <1>0. r.enc \in Encoding /\ r.text \in Text /\ call.op \in Operation
    BY CallFacts
  <1>1. CASE r.enc = "na"
    BY <1>1 DEF region_body, Missing, Made
  <1>2. CASE r.enc # "na" /\ call.op = "length"
    <2>1. region_body(i) = length_body(i)
      BY <1>2 DEF region_body
    <2> QED BY <2>1 DEF length_body, length_utf8, Made, Refused, ErrorKind
  <1>3. CASE r.enc # "na" /\ call.op = "width"
    <2>1. region_body(i) = width_body(i)
      BY <1>3 DEF region_body
    <2> QED BY <2>1 DEF width_body, width_string, Made, Refused, ErrorKind
  <1>4. CASE r.enc # "na" /\ call.op \notin {"length", "width"}
    <2>0. converted_input_at(i) => slot_value(i).error = "none"
      <3>1. preflight(r).error = "none" /\ InputAt(i, preflight(r))
        BY <1>4, SlotIsRead DEF needs_preflight, SlotIsRight
      <3> QED BY <3>1 DEF InputAt
    <2>1. CASE call.op = "reverse"
      <3>1. Known(direct_input(r))
        BY Zenon, <1>0, <1>4 DEF direct_input, Made, Refused, ErrorKind, Encoding, Converted
      <3>2. region_body(i) = reverse_body(i)
        BY <1>4, <2>1 DEF region_body
      <3> QED BY <2>0, <3>1, <3>2 DEF reverse_body, reverse_input, Made, Refused, ErrorKind
    <2>2. CASE call.op = "escape"
      <3>1. Known(direct_escape_input(r))
        BY <1>0, <1>4 DEF direct_escape_input, Made, Refused, ErrorKind, Encoding, Converted
      <3>2. region_body(i) = escape_body(i)
        BY <1>4, <2>2 DEF region_body
      <3> QED BY <2>0, <3>1, <3>2 DEF escape_body, escape_input, Made, Refused, ErrorKind
    <2>3. CASE call.op = "case"
      <3>1. Known(prepare_impl(r, FALSE))
        BY <1>0, <1>4 DEF prepare_impl, Made, Refused, ErrorKind, Encoding, Converted
      <3>2. region_body(i) = case_body(i)
        BY Zenon, <1>4, <2>3 DEF region_body
      <3> DEFINE q == IF converted_input_at(i) THEN slot_value(i) ELSE prepare_impl(r, FALSE)
      <3>3. region_body(i) = case_map(q)
        BY Zenon, <3>2 DEF case_body
      <3>4. Known(q)
        BY Zenon, <2>0, <3>1
      <3>5. CASE q.error = "none"
        BY Zenon, <3>3, <3>5, CaseMapped
      <3>6. CASE q.error # "none"
        BY Zenon, <3>3, <3>4, <3>6 DEF case_map
      <3> QED BY Zenon, <3>5, <3>6
    <2> QED BY <1>0, <1>4, <2>1, <2>2, <2>3 DEF Operation
  <1> QED BY <1>0, <1>1, <1>2, <1>3, <1>4

-----------------------------------------------------------------------------
(* The call does not change.                                               *)

\* What the serial loop gives for a record depends on the call alone.
LEMMA InlineKept ==
    ASSUME call' = call, NEW i
    PROVE  /\ N' = N /\ workers' = workers /\ needs_preflight' = needs_preflight
           /\ Fails(i)' = Fails(i) /\ inline(record(i))' = inline(record(i))
           /\ preflight(record(i))' = preflight(record(i))
  <1>1. N' = N /\ workers' = workers /\ needs_preflight' = needs_preflight
    BY DEF N, workers, chunks, needs_preflight
  <1>2. inline(record(i))' = inline(record(i))
    BY DEF inline, record, length_inline, width_inline, latin1, native, convert, length_utf8,
       width_string, reverse_input, escape_input, case_map, normalize_input, normalize_escape_input,
       prepare_impl
  <1>3. Fails(i)' = Fails(i)
    BY <1>2 DEF Fails
  <1>4. preflight(record(i))' = preflight(record(i))
    BY DEF preflight, record, length_preflight, width_preflight, reverse_preflight, escape_preflight,
       case_preflight, classified, native, convert, normalize_utf8, normalize_input, normalize_escape_input,
       prepare_impl
  <1> QED BY <1>1, <1>2, <1>3, <1>4

\* The serial loop stops at the first record that fails.
LEMMA LeastFailure ==
    ASSUME N \in Nat, NEW i \in 1..N, Fails(i), \A j \in 1..N : j < i => ~Fails(j)
    PROVE  serial_failures # {} /\ serial_error.at = i
  <1>1. i \in serial_failures /\ \A j \in serial_failures : i <= j
    BY DEF serial_failures, Fails
  <1>2. \A k \in serial_failures : (\A j \in serial_failures : k <= j) => k = i
    BY <1>1 DEF serial_failures
  <1>3. Least(serial_failures) = i
    BY Zenon, <1>1, <1>2 DEF Least
  <1> QED BY <1>1, <1>3 DEF serial_error

\* And so does the record at which it fails.
LEMMA FailuresKept ==
    ASSUME call' = call
    PROVE  serial_failures' = serial_failures /\ serial_error' = serial_error
  <1>1. N' = N /\ \A i : inline(record(i))' = inline(record(i))
    BY InlineKept
  <1>2. serial_failures' = serial_failures
    BY <1>1 DEF serial_failures
  <1> QED BY <1>1, <1>2 DEF serial_error

-----------------------------------------------------------------------------
(* The invariant.                                                          *)

\* A call that has not begun satisfies the invariant.
LEMMA MapsInvInit ==
    ASSUME MapsAssumption, MapsInit
    PROVE  MapsInv
  <1>1. IsCall(call) /\ N \in Nat /\ call.chunk \in Nat \ {0}
    BY CallFacts DEF MapsAssumption, MapsInit
  <1>2. MapsTypeOK
    BY <1>1 DEF MapsTypeOK, MapsInit, NoError, Lane
  <1> QED
    BY <1>1, <1>2 DEF MapsInv, MapsInit, ResultIsSerial, FailureIsSerial

\* What every step keeps of the call.
LEMMA StepKeeps ==
    ASSUME call' = call, IsCall(call)
    PROVE  IsCall(call') /\ IsCall(call)' /\ N' = N /\ N \in Nat /\ call.chunk \in Nat \ {0}
  BY CallFacts, InlineKept DEF IsCall

\* A call has at least one worker.
LEMMA SomeWorker ==
    ASSUME IsCall(call)
    PROVE  workers \in Nat \ {0} /\ workers <= call.workers
  <1>1. N \in Nat /\ call.chunk \in Nat \ {0} /\ call.workers \in Nat \ {0}
    BY CallFacts
  <1>2. chunks \in Int
    BY <1>1 DEF chunks
  <1> QED BY <1>1, <1>2 DEF workers

\* Open: the choice between the serial loop, the pass and the region.
LEMMA OpenKeeps ==
    ASSUME MapsAssumption, MapsInv, Open
    PROVE  MapsInv'
  <1>1. /\ phase = "plan" /\ call' = call /\ next' = next /\ scratch' = scratch /\ slots' = slots
        /\ values' = values /\ failures' = failures /\ error' = error
        /\ phase' = IF workers = 1 THEN "serial" ELSE IF needs_preflight THEN "preflight" ELSE "region"
        /\ output' = [i \in 1..N |-> Made("none", FALSE)]
        /\ lanes' = [w \in Worker |-> [lanes[w] EXCEPT !.idle = w >= workers]]
    BY DEF Open
  <1>2. IsCall(call)' /\ N' = N /\ N \in Nat /\ call.chunk \in Nat \ {0} /\ workers' = workers
        /\ needs_preflight' = needs_preflight /\ workers \in Nat \ {0} /\ Worker \subseteq Nat
    BY Zenon, <1>1, StepKeeps, InlineKept, SomeWorker DEF MapsInv, MapsAssumption
  <1>3. /\ MapsTypeOK /\ next = 1 /\ failures = {} /\ error = NoError
        /\ \A i \in 1..N : slots[i] = 0
        /\ \A w \in Worker : lanes[w].begin = 1 /\ lanes[w].at = 1 /\ lanes[w].end = 0
    BY <1>1 DEF MapsInv
  <1>4. output' \in [1..N -> Value]
    BY <1>1 DEF Made, Value
  <1>5. /\ lanes' \in [Worker -> Lane]
        /\ \A w \in Worker : /\ lanes'[w].begin = 1 /\ lanes'[w].at = 1 /\ lanes'[w].end = 0
                             /\ lanes'[w].idle <=> w >= workers
    <2>1. ASSUME NEW w \in Worker
          PROVE  /\ lanes'[w] \in Lane /\ (lanes'[w].idle <=> w >= workers)
                 /\ lanes'[w].begin = 1 /\ lanes'[w].at = 1 /\ lanes'[w].end = 0
      <3>1. lanes[w] \in Lane /\ lanes[w].begin = 1 /\ lanes[w].at = 1 /\ lanes[w].end = 0
        BY <1>3 DEF MapsTypeOK
      <3>2. CASE w >= workers
        <4>1. lanes'[w] = [lanes[w] EXCEPT !.idle = TRUE]
          BY Zenon, <1>1, <3>2
        <4> QED BY Zenon, <3>1, <3>2, <4>1 DEF Lane
      <3>3. CASE ~(w >= workers)
        <4>0. (w >= workers) = FALSE
          BY <1>2, <3>3
        <4>1. lanes'[w] = [lanes[w] EXCEPT !.idle = FALSE]
          BY Zenon, <1>1, <4>0
        <4> QED BY Zenon, <3>1, <3>3, <4>1 DEF Lane
      <3> QED BY <3>2, <3>3
    <2>2. lanes' = [w \in Worker |-> lanes'[w]]
      BY <1>1
    <2> QED BY <2>1, <2>2
  <1>6. MapsTypeOK'
    BY Zenon, <1>1, <1>2, <1>3, <1>4, <1>5 DEF MapsTypeOK
  <1>7. phase' = "region" =>
          /\ \A i \in 1..N : IF needs_preflight THEN SlotIsRight(i)' ELSE slots'[i] = 0
          /\ \A w \in Worker : LaneIsRight(w)'
          /\ \A f \in failures' : ReportIsRight(f)'
          /\ \A i \in 1..N : i < next' => IsAccounted(i)'
    <2>1. ASSUME NEW w \in Worker PROVE LaneIsRight(w)'
      BY <1>1, <1>2, <1>3, <1>5 DEF LaneIsRight
    <2> QED BY <1>1, <1>3, <2>1
  <1>8. phase' # "done" /\ phase' # "plan" /\ next' = 1 /\ failures' = {} /\ error' = NoError
        /\ (phase' # "serial" => workers' > 1) /\ (phase' = "preflight" => needs_preflight')
    BY <1>1, <1>2, <1>3
  <1>9. \A i \in 1..N' : ~(i < next') /\ slots'[i] = 0
    BY <1>1, <1>2, <1>3
  <1>10. ResultIsSerial' /\ FailureIsSerial'
    BY <1>8 DEF ResultIsSerial, FailureIsSerial
  <1> QED
    BY <1>2, <1>4, <1>5, <1>6, <1>7, <1>8, <1>9, <1>10 DEF MapsInv

\* SerialRecord: one iteration of the serial loop.
LEMMA SerialKeeps ==
    ASSUME MapsInv, SerialRecord
    PROVE  MapsInv'
  <1> DEFINE made == inline(record(next))
  <1>1. /\ phase = "serial" /\ next <= N /\ call' = call /\ scratch' = scratch /\ slots' = slots
        /\ values' = values /\ lanes' = lanes /\ failures' = failures
    BY DEF SerialRecord
  <1>2. /\ IsCall(call) /\ IsCall(call)' /\ N' = N /\ N \in Nat /\ call.chunk \in Nat \ {0}
        /\ \A i : Fails(i)' = Fails(i) /\ inline(record(i))' = inline(record(i))
    BY <1>1, StepKeeps, InlineKept DEF MapsInv
  <1>3. /\ MapsTypeOK /\ next \in 1..N /\ failures = {} /\ error = NoError
        /\ output \in [1..N -> Value]
        /\ \A i \in 1..N : i < next => ~Fails(i) /\ output[i] = inline(record(i))
    BY <1>1, <1>2 DEF MapsInv, MapsTypeOK
  <1>4. IsTyped(made)
    BY <1>2, <1>3, CallFacts, InlineTyped
  <1>5. CASE made.error # "none"
    <2>1. error' = [kind |-> made.error, at |-> next, pass |-> phase] /\ phase' = "done"
          /\ next' = next /\ output' = output
      BY <1>5 DEF SerialRecord, Raise
    <2>2. MapsTypeOK'
      BY <1>1, <1>2, <1>3, <1>4, <2>1 DEF MapsTypeOK, IsTyped
    <2>3. Fails(next)
      BY <1>5 DEF Fails
    <2>4. serial_failures # {} /\ serial_error.at = next
      BY <1>2, <1>3, <2>3, LeastFailure
    <2>5. FailureIsSerial' /\ ResultIsSerial'
      BY <1>1, <1>5, <2>1, <2>4, FailuresKept DEF FailureIsSerial, ResultIsSerial
    <2> QED BY Zenon, <1>1, <1>2, <1>3, <2>1, <2>2, <2>5 DEF MapsInv
  <1>6. CASE made.error = "none"
    <2>1. output' = [output EXCEPT ![next] = made] /\ next' = next + 1 /\ phase' = phase /\ error' = error
      BY <1>6 DEF SerialRecord
    <2>2. output' \in [1..N -> Value]
      BY <1>3, <1>4, <1>6, <2>1 DEF IsTyped
    <2>3. MapsTypeOK'
      BY <1>1, <1>2, <1>3, <2>1, <2>2 DEF MapsTypeOK
    <2>4. ~Fails(next) /\ output'[next] = inline(record(next))
      BY <1>3, <1>6, <2>1 DEF Fails
    <2>5. ASSUME NEW i \in 1..N, i < next' PROVE ~Fails(i)' /\ output'[i] = inline(record(i))'
      BY <1>2, <1>3, <2>1, <2>4, <2>5
    <2> QED BY <1>1, <1>2, <1>3, <2>1, <2>2, <2>3, <2>5 DEF MapsInv, ResultIsSerial, FailureIsSerial
  <1> QED BY <1>5, <1>6

\* The invariant while the pass runs.
LEMMA PassGivesInv ==
    ASSUME phase' = "preflight", IsCall(call)', MapsTypeOK', N' = N, N \in Nat, next' <= N + 1,
           output' \in [1..N -> Value], error' = NoError, failures' = {}, workers' > 1, needs_preflight',
           \A i \in 1..N : IF i < next' THEN SlotIsRight(i)' ELSE slots'[i] = 0,
           \A w \in Worker : /\ lanes'[w].begin = 1 /\ lanes'[w].at = 1 /\ lanes'[w].end = 0
                             /\ lanes'[w].idle => w >= workers'
    PROVE  MapsInv'
  <1>1. ResultIsSerial' /\ FailureIsSerial'
    BY DEF ResultIsSerial, FailureIsSerial
  <1> QED BY <1>1 DEF MapsInv

\* The invariant while the region runs.
LEMMA RegionGivesInv ==
    ASSUME phase' = "region", IsCall(call)', MapsTypeOK', N' = N,
           output' \in [1..N -> Value], error' = NoError, workers' > 1,
           \A i \in 1..N : IF needs_preflight' THEN SlotIsRight(i)' ELSE slots'[i] = 0,
           \A w \in Worker : LaneIsRight(w)',
           \A f \in failures' : ReportIsRight(f)' /\ f.error # "unprepared",
           \A i \in 1..N : i < next' => IsAccounted(i)'
    PROVE  MapsInv'
  BY DEF MapsInv, ResultIsSerial, FailureIsSerial

\* PreflightRecord: one iteration of preflight_inputs().
LEMMA PreflightKeeps ==
    ASSUME MapsInv, PreflightRecord
    PROVE  MapsInv'
  <1> DEFINE r == record(next)
             p == preflight(r)
  <1>1. /\ phase = "preflight" /\ next <= N /\ call' = call /\ lanes' = lanes
        /\ output' = output /\ failures' = failures
    BY DEF PreflightRecord
  <1>2. /\ IsCall(call) /\ IsCall(call)' /\ N' = N /\ N \in Nat /\ call.chunk \in Nat \ {0}
        /\ workers' = workers /\ needs_preflight' = needs_preflight
        /\ \A i : preflight(record(i))' = preflight(record(i))
    BY ZenonT(60), <1>1, StepKeeps, InlineKept DEF MapsInv
  <1>3. /\ MapsTypeOK /\ next \in 1..N /\ failures = {} /\ error = NoError
        /\ output \in [1..N -> Value] /\ workers > 1 /\ needs_preflight
        /\ \A i \in 1..N : IF i < next THEN SlotIsRight(i) ELSE slots[i] = 0
        /\ \A w \in Worker : /\ lanes[w].begin = 1 /\ lanes[w].at = 1 /\ lanes[w].end = 0
                             /\ lanes[w].idle => w >= workers
    BY <1>1, <1>2 DEF MapsInv, MapsTypeOK
  <1>4. /\ call.op \in Operation /\ call.native_is_utf8 \in BOOLEAN /\ r.enc \in Encoding /\ r.text \in Text
    BY <1>2, <1>3, CallFacts
  <1>7. PICK k \in 1..N : k = next
    BY <1>3
  <1>5. CASE p.error # "none"
    <2>1. /\ error' = [kind |-> p.error, at |-> next, pass |-> phase] /\ phase' = "done"
          /\ next' = next /\ scratch' = scratch /\ slots' = slots /\ values' = values
      BY <1>5 DEF PreflightRecord, Raise
    <2>2. MapsTypeOK'
      BY <1>1, <1>2, <1>3, <1>4, <2>1, PreflightTyped DEF MapsTypeOK
    <2>3. next \in serial_failures
      BY <1>3, <1>4, <1>5, PreflightIsSerial DEF serial_failures
    <2>4. FailureIsSerial' /\ ResultIsSerial'
      BY <1>1, <1>5, <2>1, <2>3, FailuresKept DEF FailureIsSerial, ResultIsSerial
    <2> QED BY <1>1, <1>2, <1>3, <2>1, <2>2, <2>4 DEF MapsInv
  <1>6. CASE p.error = "none"
    <2>1. next' = next + 1 /\ phase' = phase /\ error' = error
      BY <1>6 DEF PreflightRecord
    <2>2. /\ MapsTypeOK'
          /\ \A i \in 1..N : IF i < next' THEN SlotIsRight(i)' ELSE slots'[i] = 0
      <3>1. CASE p = Direct
        <4>1. scratch' = scratch /\ slots' = slots /\ values' = values
          BY <1>6, <3>1 DEF PreflightRecord
        <4>2. MapsTypeOK'
          BY <1>1, <1>2, <1>3, <2>1, <4>1 DEF MapsTypeOK
        <4>3. SlotIsRight(k)'
          BY <1>2, <1>3, <1>6, <1>7, <3>1, <4>1 DEF SlotIsRight
        <4>4. ASSUME NEW i \in 1..N, i < next PROVE SlotIsRight(i)'
          BY <1>2, <1>3, <4>1, <4>4 DEF SlotIsRight
        <4>5. \A i \in 1..N : i < next + 1 => i < next \/ i = k
          BY <1>3, <1>7
        <4>6. \A i \in 1..N : ~(i < next + 1) => slots[i] = 0
          BY <1>3
        <4> QED BY <2>1, <4>1, <4>2, <4>3, <4>4, <4>5, <4>6
      <3>2. CASE p # Direct
        <4>1. /\ slots' = [slots EXCEPT ![next] = Len(values) + 1]
              /\ values' = Append(values, stable_copy(p))
              /\ scratch' = IF borrowed(r) THEN scratch ELSE convert(r).text
          BY <1>6, <3>2 DEF PreflightRecord, new_slot
        <4>2. p \in Value
          BY <1>4, <1>6, <3>2, PreflightTyped
        <4>3. /\ values \in Seq([prepared : Value, stable : BOOLEAN])
              /\ slots \in [1..N -> 0..Len(values)]
          BY <1>3 DEF MapsTypeOK
        <4>4. stable_copy(p) \in [prepared : Value, stable : BOOLEAN]
          BY <4>2 DEF stable_copy
        <4> HIDE DEF p
        <4>5. /\ values' \in Seq([prepared : Value, stable : BOOLEAN]) /\ Len(values') = Len(values) + 1
              /\ values'[Len(values) + 1] = stable_copy(p) /\ Len(values) \in Nat
              /\ \A j \in 1..Len(values) : values'[j] = values[j]
          BY <4>1, <4>3, <4>4
        <4>6. slots' \in [1..N -> 0..Len(values')]
          <5>1. \A i \in 1..N : slots'[i] \in 0..Len(values')
            BY <1>3, <4>1, <4>3, <4>5
          <5> QED BY Zenon, <4>1, <4>3, <5>1
        <4>7. scratch' \in Text \cup {"none"}
          <5>1. scratch \in Text \cup {"none"}
            BY <1>3 DEF MapsTypeOK
          <5>2. convert(r).text \in Text \cup {"none"}
            BY <1>4 DEF convert, latin1, native, Made, Refused, is_utf8, is_ascii, Text
          <5> QED BY <4>1, <5>1, <5>2
        <4>8. MapsTypeOK'
          <5>1. next' \in 1..(N' + call'.chunk)
            BY <1>1, <1>2, <1>3, <2>1
          <5>2. slots' \in [1..N' -> 0..Len(values')]
            BY Zenon, <1>2, <4>6
          <5>3. /\ phase \in {"plan", "serial", "preflight", "region", "done"}
                /\ lanes \in [Worker -> Lane]
                /\ error.kind \in ErrorKind \cup {"none"} /\ error.at \in 0..N
            BY Zenon, <1>3 DEF MapsTypeOK
          <5> QED BY ZenonT(60), <1>1, <1>2, <1>3, <2>1, <4>5, <4>7, <5>1, <5>2, <5>3 DEF MapsTypeOK
        <4>9. SlotIsRight(k)'
          <5>1. slots'[next] = Len(values) + 1
            BY <1>3, <4>1, <4>3
          <5> QED BY <1>2, <1>6, <1>7, <3>2, <4>5, <5>1 DEF SlotIsRight, p
        <4>10. ASSUME NEW i \in 1..N, i < next PROVE SlotIsRight(i)'
          <5>1. slots'[i] = slots[i] /\ slots[i] \in 0..Len(values) /\ SlotIsRight(i)
            BY <1>3, <4>1, <4>3, <4>10
          <5>2. CASE preflight(record(i)) = Direct
            BY <1>2, <5>1, <5>2 DEF SlotIsRight
          <5>3. CASE preflight(record(i)) # Direct
            <6>1. slots[i] \in 1..Len(values) /\ values[slots[i]] = stable_copy(preflight(record(i)))
              BY <5>1, <5>3 DEF SlotIsRight
            <6>2. slots'[i] \in 1..Len(values') /\ values'[slots'[i]] = stable_copy(preflight(record(i)))
              BY <4>5, <5>1, <6>1
            <6> QED BY Zenon, <1>2, <5>1, <5>3, <6>2 DEF SlotIsRight, stable_copy
          <5> QED BY <5>2, <5>3
        <4>11. ASSUME NEW i \in 1..N, i > next PROVE slots'[i] = 0
          BY <1>3, <4>1, <4>3, <4>11
        <4>12. \A i \in 1..N : (i < next + 1 => i < next \/ i = k) /\ (~(i < next + 1) => i > next)
          BY <1>3, <1>7
        <4> QED BY <2>1, <4>8, <4>9, <4>10, <4>11, <4>12
      <3> QED BY <3>1, <3>2
    <2>3. /\ phase' = "preflight" /\ next' <= N + 1 /\ output' \in [1..N -> Value]
          /\ error' = NoError /\ failures' = {} /\ workers' > 1 /\ needs_preflight'
      BY <1>1, <1>2, <1>3, <2>1
    <2>4. \A w \in Worker : /\ lanes'[w].begin = 1 /\ lanes'[w].at = 1 /\ lanes'[w].end = 0
                            /\ lanes'[w].idle => w >= workers'
      BY Zenon, <1>1, <1>2, <1>3
    <2> QED BY Zenon, <1>2, <2>2, <2>3, <2>4, PassGivesInv
  <1> QED BY <1>5, <1>6

\* StartRegion: the pass has left every record to its worker or in a slot.
LEMMA StartKeeps ==
    ASSUME MapsAssumption, MapsInv, StartRegion
    PROVE  MapsInv'
  <1>1. /\ phase = "preflight" /\ next > N /\ phase' = "region" /\ next' = 1 /\ call' = call /\ lanes' = lanes
        /\ output' = output /\ failures' = failures /\ slots' = slots /\ values' = values
        /\ scratch' = scratch /\ error' = error
    BY DEF StartRegion
  <1>2. /\ IsCall(call) /\ IsCall(call)' /\ N' = N /\ N \in Nat /\ call.chunk \in Nat \ {0}
        /\ workers' = workers /\ needs_preflight' = needs_preflight
        /\ \A i : preflight(record(i))' = preflight(record(i))
    BY ZenonT(60), <1>1, StepKeeps, InlineKept DEF MapsInv
  <1>3. /\ MapsTypeOK /\ failures = {} /\ error = NoError
        /\ output \in [1..N -> Value] /\ workers > 1 /\ needs_preflight
        /\ \A i \in 1..N : SlotIsRight(i)
        /\ \A w \in Worker : /\ lanes[w].begin = 1 /\ lanes[w].at = 1 /\ lanes[w].end = 0
                             /\ lanes[w].idle => w >= workers
    BY <1>1, <1>2 DEF MapsInv, MapsTypeOK
  <1>4. MapsTypeOK'
    BY <1>1, <1>2, <1>3 DEF MapsTypeOK
  <1>5. ASSUME NEW i \in 1..N PROVE SlotIsRight(i)'
    BY <1>1, <1>2, <1>3 DEF SlotIsRight
  <1>6. ASSUME NEW w \in Worker PROVE LaneIsRight(w)'
    <2>1. w \in Nat /\ workers \in Nat
      BY <1>2, SomeWorker DEF MapsAssumption
    <2> QED BY <1>1, <1>2, <1>3, <2>1 DEF LaneIsRight
  <1>7. /\ output' \in [1..N -> Value] /\ error' = NoError /\ workers' > 1 /\ failures' = {}
        /\ needs_preflight' /\ \A i \in 1..N : ~(i < next')
    BY <1>1, <1>2, <1>3
  <1> QED BY <1>1, <1>2, <1>4, <1>5, <1>6, <1>7, RegionGivesInv

\* What a region starts its steps from.
LEMMA RegionFacts ==
    ASSUME MapsAssumption, MapsInv, phase = "region", call' = call
    PROVE  /\ IsCall(call) /\ IsCall(call)' /\ N' = N /\ N \in Nat /\ call.chunk \in Nat \ {0}
           /\ workers' = workers /\ needs_preflight' = needs_preflight
           /\ workers \in Nat /\ workers > 1 /\ Worker \subseteq Nat /\ 0 \in Worker
           /\ MapsTypeOK /\ output \in [1..N -> Value] /\ error = NoError
           /\ next \in Nat /\ lanes \in [Worker -> Lane]
           /\ \A i : preflight(record(i))' = preflight(record(i)) /\ Fails(i)' = Fails(i)
                     /\ inline(record(i))' = inline(record(i))
  <1>1. IsCall(call) /\ MapsTypeOK /\ output \in [1..N -> Value] /\ error = NoError /\ workers > 1
    BY ZenonT(60) DEF MapsInv
  <1>2. call.workers \in Nat \ {0} /\ N \in Nat /\ call.chunk \in Nat \ {0}
    BY <1>1, CallFacts
  <1>3. 0 \in Worker /\ Worker \subseteq Nat
    BY <1>1, <1>2 DEF IsCall, MapsAssumption
  <1> QED
    BY <1>1, <1>2, <1>3, StepKeeps, SomeWorker, InlineKept DEF MapsTypeOK

\* The slots are as the pass left them.
SlotsAreRight == \A i \in 1..N : IF needs_preflight THEN SlotIsRight(i) ELSE slots[i] = 0

\* No step of the region touches a slot.
LEMMA SlotsKept ==
    ASSUME MapsAssumption, MapsInv, phase = "region", call' = call, slots' = slots, values' = values
    PROVE  SlotsAreRight /\ SlotsAreRight'
  <1>1. SlotsAreRight
    BY DEF MapsInv, SlotsAreRight
  <1>2. ASSUME NEW i \in 1..N, SlotIsRight(i) PROVE SlotIsRight(i)'
    BY <1>2, RegionFacts DEF SlotIsRight, stable_copy
  <1> QED BY <1>1, <1>2, RegionFacts DEF SlotsAreRight

\* What a step of the region has to keep.
LEMMA RegionKeeps ==
    ASSUME MapsAssumption, MapsInv, phase = "region", phase' = phase, call' = call, slots' = slots,
           values' = values, error' = error, MapsTypeOK', output' \in [1..N -> Value],
           \A w \in Worker : LaneIsRight(w)',
           \A f \in failures' : ReportIsRight(f)' /\ f.error # "unprepared",
           \A i \in 1..N : i < next' => IsAccounted(i)'
    PROVE  MapsInv'
  <1>1. SlotsAreRight'
    BY SlotsKept
  <1>2. IsCall(call)' /\ N' = N /\ workers' > 1 /\ error' = NoError
    BY RegionFacts
  <1> QED
    BY <1>1, <1>2, RegionGivesInv DEF SlotsAreRight

\* Claim: a worker draws the next chunk, or learns that there is none.
LEMMA ClaimKeeps ==
    ASSUME MapsAssumption, MapsInv, NEW w \in Worker, Claim(w)
    PROVE  MapsInv'
  <1>1. /\ phase = "region" /\ ~lanes[w].idle /\ lanes[w].at > lanes[w].end
        /\ phase' = phase /\ call' = call /\ slots' = slots /\ values' = values /\ error' = error
        /\ scratch' = scratch /\ output' = output /\ failures' = failures
    BY DEF Claim
  <1>2. /\ N' = N /\ N \in Nat /\ call.chunk \in Nat \ {0} /\ workers' = workers
        /\ workers \in Nat /\ Worker \subseteq Nat
        /\ MapsTypeOK /\ output \in [1..N -> Value] /\ next \in Nat /\ lanes \in [Worker -> Lane]
        /\ \A i : Fails(i)' = Fails(i) /\ inline(record(i))' = inline(record(i))
    BY <1>1, RegionFacts
  <1>3. /\ \A v \in Worker : LaneIsRight(v)
        /\ \A f \in failures : ReportIsRight(f) /\ f.error # "unprepared"
        /\ \A i \in 1..N : i < next => IsAccounted(i)
    BY <1>1 DEF MapsInv
  <1>4. next' >= next /\ next' \in Nat /\ next' <= N + call.chunk /\ lanes' \in [Worker -> Lane]
        /\ \A v \in Worker : v # w => lanes'[v] = lanes[v]
    <2>1. CASE next > N
      <3>1. lanes' = [lanes EXCEPT ![w].idle = TRUE] /\ next' = next
        BY <2>1 DEF Claim
      <3>2. lanes' \in [Worker -> Lane] /\ \A v \in Worker : v # w => lanes'[v] = lanes[v]
        BY ZenonT(60), <1>2, <3>1 DEF Lane
      <3> QED BY <1>2, <3>1, <3>2 DEF MapsTypeOK
    <2>2. CASE ~(next > N)
      <3>1. /\ lanes' = [lanes EXCEPT ![w] = [begin |-> next, at |-> next, end |-> chunk_end,
                                            idle |-> FALSE]]
            /\ next' = next + call.chunk
        BY <2>2 DEF Claim
      <3>2. chunk_end \in Int
        BY <1>2 DEF chunk_end
      <3>3. lanes' \in [Worker -> Lane] /\ \A v \in Worker : v # w => lanes'[v] = lanes[v]
        BY <1>2, <3>1, <3>2 DEF Lane
      <3> QED BY <1>2, <2>2, <3>1, <3>3
    <2> QED BY <2>1, <2>2
  <1>5. MapsTypeOK'
    BY <1>1, <1>2, <1>4 DEF MapsTypeOK
  <1>6. ASSUME NEW f \in failures' PROVE ReportIsRight(f)' /\ f.error # "unprepared"
    <2>1. f.at \in 1..N
      BY <1>1, <1>2 DEF MapsTypeOK
    <2> QED BY <1>1, <1>2, <1>3, <1>4, <2>1 DEF ReportIsRight
  <1>7. ASSUME NEW v \in Worker, v # w PROVE LaneIsRight(v)'
    <2>1. lanes'[v] = lanes[v] /\ lanes[v] \in Lane /\ LaneIsRight(v) /\ v \in Nat
      BY <1>2, <1>3, <1>4, <1>7
    <2> QED BY <1>1, <1>2, <1>4, <2>1 DEF LaneIsRight, Lane
  <1>8. ASSUME NEW i \in 1..N, i < next PROVE IsAccounted(i)'
    <2>1. IsAccounted(i)
      BY <1>3, <1>8
    <2>2. CASE \E v \in Worker : ~lanes[v].idle /\ lanes[v].at <= i /\ i <= lanes[v].end
      <3>1. PICK v \in Worker : ~lanes[v].idle /\ lanes[v].at <= i /\ i <= lanes[v].end
        BY <2>2
      <3>2. v # w
        BY <1>1, <1>2, <3>1 DEF Lane
      <3> QED BY <1>4, <3>1, <3>2 DEF IsAccounted
    <2>3. CASE ~Fails(i) /\ output[i] = inline(record(i))
      BY <1>1, <1>2, <2>3 DEF IsAccounted
    <2>4. CASE \E f \in failures : f.at <= i
      BY <1>1, <2>4 DEF IsAccounted
    <2> QED BY Zenon, <2>1, <2>2, <2>3, <2>4 DEF IsAccounted
  <1>9. CASE next > N
    <2>1. lanes' = [lanes EXCEPT ![w].idle = TRUE] /\ next' = next
      BY <1>9 DEF Claim
    <2>2. lanes'[w].idle
      BY <1>2, <2>1 DEF Lane
    <2>3. LaneIsRight(w)'
      BY <1>2, <1>9, <2>1, <2>2 DEF LaneIsRight
    <2>4. \A v \in Worker : LaneIsRight(v)'
      BY <1>7, <2>3
    <2> QED BY <1>1, <1>2, <1>5, <1>6, <1>8, <2>1, <2>4, RegionKeeps
  <1>10. CASE ~(next > N)
    <2>1. /\ lanes' = [lanes EXCEPT ![w] = [begin |-> next, at |-> next, end |-> chunk_end,
                                            idle |-> FALSE]]
          /\ next' = next + call.chunk
      BY <1>10 DEF Claim
    <2>2. /\ lanes'[w].begin = next /\ lanes'[w].at = next /\ lanes'[w].end = chunk_end
          /\ ~lanes'[w].idle
      BY <1>1, <1>2, <2>1 DEF Lane
    <2>3. chunk_end \in Int /\ chunk_end <= N /\ chunk_end < next'
          /\ \A i \in 1..N : i < next' => i <= chunk_end
      BY <1>2, <1>10, <2>1 DEF chunk_end
    <2>4. next >= 1
      BY <1>2 DEF MapsTypeOK
    <2>5. LaneIsRight(w)'
      BY <1>2, <2>2, <2>3, <2>4 DEF LaneIsRight
    <2>6. ASSUME NEW i \in 1..N, i < next' PROVE IsAccounted(i)'
      <3>1. CASE i < next
        BY <1>8, <3>1
      <3>2. CASE ~(i < next)
        <4>1. ~lanes'[w].idle /\ lanes'[w].at <= i /\ i <= lanes'[w].end
          BY <1>2, <2>2, <2>3, <2>6, <3>2
        <4> QED BY <4>1 DEF IsAccounted
      <3> QED BY <3>1, <3>2
    <2>7. \A v \in Worker : LaneIsRight(v)'
      BY <1>7, <2>5
    <2> QED BY <1>1, <1>2, <1>5, <1>6, <2>6, <2>7, RegionKeeps
  <1> QED BY <1>9, <1>10

\* MapRecord: a worker maps the next record of its chunk, or fails at it.
LEMMA MapKeeps ==
    ASSUME MapsAssumption, MapsInv, NEW w \in Worker, MapRecord(w)
    PROVE  MapsInv'
  <1>1. /\ phase = "region" /\ ~lanes[w].idle /\ lanes[w].at <= lanes[w].end
        /\ phase' = phase /\ call' = call /\ slots' = slots /\ values' = values /\ error' = error
        /\ scratch' = scratch /\ next' = next
    BY DEF MapRecord
  <1>2. /\ IsCall(call) /\ N' = N /\ N \in Nat /\ call.chunk \in Nat \ {0} /\ workers' = workers
        /\ workers \in Nat /\ Worker \subseteq Nat
        /\ MapsTypeOK /\ output \in [1..N -> Value] /\ next \in Nat /\ lanes \in [Worker -> Lane]
        /\ \A j : Fails(j)' = Fails(j) /\ inline(record(j))' = inline(record(j))
    BY <1>1, RegionFacts
  <1>3. /\ \A v \in Worker : LaneIsRight(v)
        /\ \A f \in failures : ReportIsRight(f) /\ f.error # "unprepared"
        /\ \A j \in 1..N : j < next => IsAccounted(j)
    BY <1>1 DEF MapsInv
  <1>4. /\ lanes[w] \in Lane /\ lanes[w].begin \in 1..lanes[w].at /\ lanes[w].at \in 1..N
        /\ lanes[w].at < next /\ lanes[w].end <= N /\ lanes[w].end < next
        /\ \A j \in lanes[w].begin..(lanes[w].at - 1) : ~Fails(j)
    BY <1>1, <1>2, <1>3 DEF LaneIsRight, Lane
  <1>5. PICK i \in 1..N : i = lanes[w].at
    BY <1>4
  <1> DEFINE made == region_body(i)
  <1>6. /\ Agrees(made, inline(record(i))) /\ made.error # "unprepared"
        /\ made.error \in ErrorKind \cup {"none"}
    BY <1>1, <1>2, SlotsKept, BodyIsInline, BodyTyped DEF SlotsAreRight
  <1>7. CASE made.error # "none"
    <2> DEFINE report == [failed_at |-> lanes[w].begin, at |-> i, worker |-> w, error |-> made.error]
    <2>1. /\ failures' = failures \cup {report} /\ output' = output
          /\ lanes' = [lanes EXCEPT ![w].idle = TRUE]
      BY <1>5, <1>7 DEF MapRecord
    <2>2. Fails(i)
      BY <1>6, <1>7 DEF Fails, Agrees
    <2>3. report.failed_at = lanes[w].begin /\ report.at = i /\ report.worker = w
          /\ report.error = made.error
      OBVIOUS
    <2> HIDE DEF report, made
    <2>4. lanes' \in [Worker -> Lane] /\ lanes'[w].idle
          /\ \A v \in Worker : v # w => lanes'[v] = lanes[v]
      BY ZenonT(60), <1>2, <2>1 DEF Lane
    <2>5. ASSUME NEW f \in failures' PROVE f.at \in 1..N /\ f.worker \in Worker /\ f.error \in ErrorKind
      <3>1. CASE f \in failures
        BY <1>2, <3>1 DEF MapsTypeOK
      <3>2. CASE f = report
        BY <1>6, <1>7, <2>3, <3>2
      <3> QED BY <2>1, <3>1, <3>2
    <2>6. MapsTypeOK'
      BY <1>1, <1>2, <2>1, <2>4, <2>5 DEF MapsTypeOK
    <2>7. ASSUME NEW f \in failures' PROVE ReportIsRight(f)' /\ f.error # "unprepared"
      <3>1. CASE f \in failures
        BY <1>1, <1>2, <1>3, <3>1 DEF ReportIsRight
      <3>2. CASE f = report
        <4>1. f.failed_at = lanes[w].begin /\ f.at = i /\ f.error = made.error
          BY <2>3, <3>2
        <4> QED BY <1>1, <1>2, <1>4, <1>5, <1>6, <2>2, <4>1 DEF ReportIsRight
      <3> QED BY <2>1, <3>1, <3>2
    <2>8. ASSUME NEW v \in Worker PROVE LaneIsRight(v)'
      <3>1. failures' # {}
        BY <2>1
      <3>2. CASE v = w
        BY <2>4, <3>1, <3>2 DEF LaneIsRight
      <3>3. CASE v # w
        <4>1. lanes'[v] = lanes[v] /\ lanes[v] \in Lane /\ LaneIsRight(v)
          BY <1>2, <1>3, <2>4, <3>3
        <4> QED BY <1>1, <1>2, <3>1, <4>1 DEF LaneIsRight
      <3> QED BY <3>2, <3>3
    <2>9. ASSUME NEW j \in 1..N, j < next' PROVE IsAccounted(j)'
      <3>1. IsAccounted(j)
        BY <1>1, <1>3, <2>9
      <3>2. CASE \E v \in Worker : ~lanes[v].idle /\ lanes[v].at <= j /\ j <= lanes[v].end
        <4>1. PICK v \in Worker : ~lanes[v].idle /\ lanes[v].at <= j /\ j <= lanes[v].end
          BY <3>2
        <4>2. CASE v = w
          <5>1. report \in failures' /\ report.at <= j
            BY <1>5, <2>1, <2>3, <4>1, <4>2
          <5> QED BY Zenon, <5>1 DEF IsAccounted
        <4>3. CASE v # w
          BY Zenon, <2>4, <4>1, <4>3 DEF IsAccounted
        <4> QED BY <4>2, <4>3
      <3>3. CASE ~Fails(j) /\ output[j] = inline(record(j))
        BY <1>2, <2>1, <3>3 DEF IsAccounted
      <3>4. CASE \E f \in failures : f.at <= j
        BY <2>1, <3>4 DEF IsAccounted
      <3> QED BY Zenon, <3>1, <3>2, <3>3, <3>4 DEF IsAccounted
    <2> QED BY <1>1, <1>2, <2>1, <2>6, <2>7, <2>8, <2>9, RegionKeeps
  <1>8. CASE made.error = "none"
    <2>1. /\ failures' = failures /\ output' = [output EXCEPT ![i] = made]
          /\ lanes' = [lanes EXCEPT ![w].at = i + 1]
      BY <1>5, <1>8 DEF MapRecord
    <2>2. ~Fails(i) /\ made = inline(record(i))
      BY <1>6, <1>8 DEF Fails, Agrees
    <2>3. made \in Value
      BY Zenon, <1>2, <1>8, <2>2, CallFacts, InlineTyped DEF IsTyped
    <2> HIDE DEF made
    <2>4. /\ lanes' \in [Worker -> Lane] /\ ~lanes'[w].idle /\ lanes'[w].at = i + 1
          /\ lanes'[w].begin = lanes[w].begin /\ lanes'[w].end = lanes[w].end
          /\ \A v \in Worker : v # w => lanes'[v] = lanes[v]
      <3>1. lanes'[w] = [lanes[w] EXCEPT !.at = i + 1] /\ \A v \in Worker : v # w => lanes'[v] = lanes[v]
        BY <1>2, <2>1
      <3>2. /\ lanes'[w] \in Lane /\ ~lanes'[w].idle /\ lanes'[w].at = i + 1
            /\ lanes'[w].begin = lanes[w].begin /\ lanes'[w].end = lanes[w].end
        BY <1>1, <1>4, <3>1 DEF Lane
      <3>3. lanes' \in [Worker -> Lane]
        BY <1>2, <2>1, <3>1, <3>2
      <3> QED BY <3>1, <3>2, <3>3
    <2>5. /\ output' \in [1..N -> Value] /\ output'[i] = made
          /\ \A j \in 1..N : j # i => output'[j] = output[j]
      BY <1>2, <2>1, <2>3
    <2>6. MapsTypeOK'
      BY <1>1, <1>2, <2>1, <2>4, <2>5 DEF MapsTypeOK
    <2>7. ASSUME NEW f \in failures' PROVE ReportIsRight(f)' /\ f.error # "unprepared"
      BY <1>1, <1>2, <1>3, <2>1 DEF ReportIsRight
    <2>8. ASSUME NEW v \in Worker PROVE LaneIsRight(v)'
      <3>1. CASE v = w
        <4>1. /\ lanes[w].begin \in Int /\ 1 <= lanes[w].begin /\ lanes[w].begin <= i + 1
              /\ lanes[w].end <= N' /\ lanes[w].end < next'
          BY <1>1, <1>2, <1>4, <1>5
        <4>2. \A j \in lanes[w].begin..((i + 1) - 1) : ~Fails(j)'
          <5>1. ASSUME NEW j \in lanes[w].begin..((i + 1) - 1) PROVE ~Fails(j)
            <6>1. j = i \/ j \in lanes[w].begin..(lanes[w].at - 1)
              BY <1>5, <4>1
            <6> QED BY <1>4, <2>2, <6>1
          <5> QED BY ZenonT(60), <1>2, <5>1
        <4> QED BY <2>4, <3>1, <4>1, <4>2 DEF LaneIsRight
      <3>2. CASE v # w
        <4>1. lanes'[v] = lanes[v] /\ lanes[v] \in Lane /\ LaneIsRight(v)
          BY <1>2, <1>3, <2>4, <3>2
        <4> QED BY ZenonT(60), <1>1, <1>2, <2>1, <4>1 DEF LaneIsRight
      <3> QED BY <3>1, <3>2
    <2>9. ASSUME NEW j \in 1..N, j < next' PROVE IsAccounted(j)'
      <3>1. IsAccounted(j)
        BY <1>1, <1>3, <2>9
      <3>2. CASE j = i
        BY <1>2, <2>2, <2>5, <3>2 DEF IsAccounted
      <3>3. CASE j # i /\ \E v \in Worker : ~lanes[v].idle /\ lanes[v].at <= j /\ j <= lanes[v].end
        <4>1. PICK v \in Worker : ~lanes[v].idle /\ lanes[v].at <= j /\ j <= lanes[v].end
          BY <3>3
        <4>2. ~lanes'[v].idle /\ lanes'[v].at <= j /\ j <= lanes'[v].end
          <5>1. CASE v = w
            BY <1>5, <2>4, <3>3, <4>1, <5>1
          <5>2. CASE v # w
            BY <2>4, <4>1, <5>2
          <5> QED BY <5>1, <5>2
        <4> QED BY <4>2 DEF IsAccounted
      <3>4. CASE j # i /\ ~Fails(j) /\ output[j] = inline(record(j))
        BY <1>2, <2>5, <3>4 DEF IsAccounted
      <3>5. CASE \E f \in failures : f.at <= j
        BY <2>1, <3>5 DEF IsAccounted
      <3> QED BY ZenonT(60), <3>1, <3>2, <3>3, <3>4, <3>5 DEF IsAccounted
    <2> QED BY <1>1, <1>2, <2>5, <2>6, <2>7, <2>8, <2>9, RegionKeeps
  <1> QED BY <1>7, <1>8

\* A set of naturals has a least one.
LEMMA LeastNatural ==
    ASSUME NEW T, T \subseteq Nat, T # {}
    PROVE  \E x \in T : \A y \in T : x <= y
  <1> DEFINE R == {ss \in Nat \X Nat : ss[1] < ss[2]}
  <1>1. IsWellFoundedOn(R, Nat)
    BY Zenon, NatLessThanWellFounded DEF OpToRel
  <1>2. ASSUME NEW x \in Nat, NEW y \in Nat, y < x PROVE <<y, x>> \in R
    BY <1>2
  <1> HIDE DEF R
  <1>3. PICK x \in T : \A y \in T : ~(<<y, x>> \in R)
    BY <1>1, WFMin, Zenon
  <1>4. ASSUME NEW y \in T PROVE x <= y
    <2>1. x \in Nat /\ y \in Nat /\ ~(y < x)
      BY ZenonT(60), <1>2, <1>3
    <2> QED BY <2>1
  <1> QED BY <1>4

\* A region that nobody failed has mapped every record.
LEMMA RegionIsWhole ==
    ASSUME MapsAssumption, MapsInv, phase = "region", \A w \in Worker : lanes[w].idle, failures = {},
           call' = call
    PROVE  \A i \in 1..N : ~Fails(i) /\ output[i] = inline(record(i))
  <1>1. /\ 0 \in Worker /\ workers \in Nat /\ workers > 1 /\ N \in Nat /\ next \in Nat
    BY RegionFacts
  <1>2. LaneIsRight(0) /\ \A i \in 1..N : i < next => IsAccounted(i)
    BY <1>1 DEF MapsInv
  <1>3. next > N
    BY <1>1, <1>2 DEF LaneIsRight
  <1>4. \A i \in 1..N : IsAccounted(i)
    BY <1>1, <1>2, <1>3
  <1> QED BY <1>4 DEF IsAccounted

\* The report that is raised is that of the first record that fails.
LEMMA RaisedIsFirst ==
    ASSUME MapsAssumption, MapsInv, phase = "region", \A w \in Worker : lanes[w].idle, failures # {},
           call' = call
    PROVE  /\ raised \in failures /\ Fails(raised.at) /\ \A j \in 1..N : j < raised.at => ~Fails(j)
  <1>1. /\ \A f \in failures : ReportIsRight(f) /\ f.at \in 1..N
        /\ \A i \in 1..N : i < next => IsAccounted(i)
        /\ N \in Nat /\ next \in Nat
    BY ZenonT(60), RegionFacts DEF MapsInv, MapsTypeOK
  <1>2. \A f \in failures : f.failed_at \in Nat /\ f.failed_at <= f.at /\ f.at < next
    BY <1>1 DEF ReportIsRight
  <1>3. \E f \in failures : \A g \in failures : f.failed_at <= g.failed_at
    <2> DEFINE T == {f.failed_at : f \in failures}
    <2>1. PICK x \in T : \A y \in T : x <= y
      <3>1. T \subseteq Nat /\ T # {}
        BY <1>2
      <3> HIDE DEF T
      <3> QED BY Zenon, <3>1, LeastNatural
    <2> QED BY <2>1
  <1>4. raised \in failures /\ \A g \in failures : raised.failed_at <= g.failed_at
    BY Zenon, <1>3 DEF raised
  <1> DEFINE f == raised
  <1> HIDE DEF f
  <1>5. f \in failures /\ \A g \in failures : f.failed_at <= g.failed_at
    BY <1>4 DEF f
  <1>6. Fails(f.at) /\ f.at \in 1..N
    BY <1>1, <1>5 DEF ReportIsRight
  <1>7. ASSUME NEW j \in 1..N, j < f.at PROVE ~Fails(j)
    <2>1. CASE j >= f.failed_at
      <3>1. ReportIsRight(f) /\ f.failed_at \in Nat /\ f.at \in Nat
        BY <1>1, <1>2, <1>5
      <3> QED BY <1>7, <2>1, <3>1 DEF ReportIsRight
    <2>2. CASE j < f.failed_at
      <3>1. IsAccounted(j)
        BY <1>1, <1>2, <1>5, <1>7
      <3>2. ~ \E g \in failures : g.at <= j
        BY <1>1, <1>2, <1>5, <2>2
      <3> QED BY <3>1, <3>2 DEF IsAccounted
    <2> QED BY <1>1, <1>2, <1>5, <2>1, <2>2
  <1> QED BY <1>5, <1>6, <1>7 DEF f

\* What is left of the invariant when the call has ended.
LEMMA DoneKeeps ==
    ASSUME MapsInv, phase # "plan", phase' = "done", call' = call, MapsTypeOK', output' = output,
           failures' = failures, ResultIsSerial', FailureIsSerial'
    PROVE  MapsInv'
  <1>1. IsCall(call) /\ output \in [1..N -> Value] /\ \A f \in failures : f.error # "unprepared"
    BY Zenon DEF MapsInv
  <1>2. IsCall(call)' /\ N' = N
    BY <1>1, StepKeeps
  <1> QED BY ZenonT(60), <1>1, <1>2 DEF MapsInv

\* EndRegion: the join and the reduction of the workers' failures.
LEMMA EndRegionKeeps ==
    ASSUME MapsAssumption, MapsInv, EndRegion
    PROVE  MapsInv'
  <1>1. /\ phase = "region" /\ \A w \in Worker : lanes[w].idle
        /\ phase' = "done" /\ call' = call /\ next' = next /\ scratch' = scratch /\ slots' = slots
        /\ values' = values /\ lanes' = lanes /\ output' = output /\ failures' = failures
    BY DEF EndRegion, Raise
  <1>2. /\ N' = N /\ N \in Nat /\ MapsTypeOK /\ output \in [1..N -> Value] /\ error = NoError
        /\ \A j : inline(record(j))' = inline(record(j))
    BY <1>1, RegionFacts
  <1>3. CASE failures = {}
    <2>1. error' = NoError
      BY <1>2, <1>3 DEF EndRegion
    <2>2. \A i \in 1..N : ~Fails(i) /\ output[i] = inline(record(i))
      BY <1>1, <1>3, RegionIsWhole
    <2>3. MapsTypeOK'
      BY <1>1, <1>2, <2>1 DEF MapsTypeOK, NoError
    <2>4. serial_failures = {}
      BY <2>2 DEF serial_failures, Fails
    <2>5. ResultIsSerial' /\ FailureIsSerial'
      BY <1>1, <1>2, <2>1, <2>2, <2>4, FailuresKept DEF ResultIsSerial, FailureIsSerial, NoError
    <2> QED BY <1>1, <2>3, <2>5, DoneKeeps
  <1>4. CASE failures # {}
    <2> DEFINE f == raised
    <2>1. error' = [kind |-> f.error, at |-> f.at, pass |-> phase]
      BY <1>4 DEF EndRegion, Raise
    <2>2. f \in failures /\ Fails(f.at) /\ \A j \in 1..N : j < f.at => ~Fails(j)
      BY <1>1, <1>4, RaisedIsFirst
    <2>3. f.at \in 1..N /\ f.error \in ErrorKind
      BY <1>2, <2>2 DEF MapsTypeOK
    <2> HIDE DEF f
    <2>4. MapsTypeOK'
      BY <1>1, <1>2, <2>1, <2>3 DEF MapsTypeOK
    <2>5. serial_failures # {} /\ serial_error.at = f.at
      BY <1>2, <2>2, <2>3, LeastFailure
    <2>6. ResultIsSerial' /\ FailureIsSerial'
      BY <1>1, <2>1, <2>3, <2>5, FailuresKept DEF ResultIsSerial, FailureIsSerial, ErrorKind
    <2> QED BY <1>1, <2>4, <2>6, DoneKeeps
  <1> QED BY <1>3, <1>4

\* EndSerial: the serial loop has mapped every record.
LEMMA EndSerialKeeps ==
    ASSUME MapsInv, EndSerial
    PROVE  MapsInv'
  <1>1. /\ phase = "serial" /\ next > N /\ phase' = "done" /\ call' = call /\ next' = next
        /\ scratch' = scratch /\ slots' = slots /\ values' = values /\ lanes' = lanes
        /\ output' = output /\ failures' = failures /\ error' = error
    BY DEF EndSerial
  <1>2. /\ IsCall(call) /\ N' = N /\ N \in Nat /\ MapsTypeOK /\ error = NoError
        /\ output \in [1..N -> Value] /\ next \in Nat
        /\ \A j : inline(record(j))' = inline(record(j))
        /\ \A i \in 1..N : i < next => ~Fails(i) /\ output[i] = inline(record(i))
    <2>1. /\ IsCall(call) /\ MapsTypeOK /\ error = NoError /\ output \in [1..N -> Value]
          /\ \A i \in 1..N : i < next => ~Fails(i) /\ output[i] = inline(record(i))
      BY <1>1 DEF MapsInv
    <2>2. next \in Nat
      BY <2>1 DEF MapsTypeOK
    <2>3. N' = N /\ N \in Nat
      BY <1>1, <2>1, StepKeeps
    <2>4. \A j : inline(record(j))' = inline(record(j))
      BY Zenon, <1>1, InlineKept
    <2> QED BY <2>1, <2>2, <2>3, <2>4
  <1>3. \A i \in 1..N : ~Fails(i) /\ output[i] = inline(record(i))
    BY <1>1, <1>2
  <1>4. MapsTypeOK'
    BY <1>1, <1>2 DEF MapsTypeOK
  <1>5. serial_failures = {}
    BY <1>3 DEF serial_failures, Fails
  <1>6. ResultIsSerial' /\ FailureIsSerial'
    BY <1>1, <1>2, <1>3, <1>5, FailuresKept DEF ResultIsSerial, FailureIsSerial, NoError
  <1> QED BY <1>1, <1>4, <1>6, DoneKeeps

\* A step that changes nothing.
LEMMA StutterKeeps ==
    ASSUME MapsInv, UNCHANGED maps_vars
    PROVE  MapsInv'
  <1>1. /\ phase' = phase /\ call' = call /\ next' = next
        /\ scratch' = scratch /\ slots' = slots /\ values' = values /\ lanes' = lanes
        /\ output' = output /\ failures' = failures /\ error' = error
    BY DEF maps_vars
  <1>2. /\ IsCall(call)' /\ N' = N /\ workers' = workers /\ needs_preflight' = needs_preflight
        /\ \A i : preflight(record(i))' = preflight(record(i)) /\ Fails(i)' = Fails(i)
                  /\ inline(record(i))' = inline(record(i))
    BY ZenonT(60), <1>1, StepKeeps, InlineKept DEF MapsInv
  <1>3. MapsTypeOK'
    BY <1>1, <1>2 DEF MapsInv, MapsTypeOK
  <1>4. /\ \A i : SlotIsRight(i)' = SlotIsRight(i)
        /\ \A i : IsAccounted(i)' = IsAccounted(i)
        /\ \A f : ReportIsRight(f)' = ReportIsRight(f)
    BY Zenon, <1>1, <1>2 DEF SlotIsRight, stable_copy, IsAccounted, ReportIsRight
  <1>5. \A w : LaneIsRight(w)' = LaneIsRight(w)
    BY Zenon, <1>1, <1>2 DEF LaneIsRight
  <1>6. ResultIsSerial' /\ FailureIsSerial'
    BY ZenonT(60), <1>1, <1>2, FailuresKept DEF MapsInv, ResultIsSerial, FailureIsSerial
  <1> QED BY ZenonT(60), <1>1, <1>2, <1>3, <1>4, <1>5, <1>6 DEF MapsInv

\* A record that a worker could only read with a converter has a slot.
LEMMA NativesHaveSlots ==
    ASSUME MapsInv
    PROVE  WorkersNeedNoConverter
  <1>1. \A f \in failures : f.error # "unprepared"
    BY Zenon DEF MapsInv
  <1>2. ASSUME phase = "region", ~call.native_is_utf8, NEW i \in 1..N, record(i).enc = "native"
        PROVE  slots[i] # 0
    <2>1. IsCall(call) /\ SlotIsRight(i)
      BY ZenonT(60), <1>2 DEF MapsInv, needs_preflight
    <2>2. call.op \in Operation /\ call.native_is_utf8 \in BOOLEAN /\ record(i).text \in Text
      BY <2>1, CallFacts
    <2>3. preflight(record(i)).text \in Text
      <3> DEFINE r == record(i)
                 t == IF r.text = "bom" THEN without_bom(convert(r).text) ELSE convert(r).text
      <3>1. preflight(r).error = "none"
        BY <2>1 DEF SlotIsRight
      <3>2. convert(r).error # "none" \/ convert(r).text \in Text
        <4>1. r.enc \in Converted
          BY <1>2 DEF Converted
        <4> QED BY <2>2, <4>1, ConvertGives DEF Made, Refused
      <3>3. CASE call.op \in {"length", "width"}
        BY <1>2, <3>1, <3>2, <3>3 DEF preflight, length_preflight, width_preflight, classified,
           normalize_utf8, convert, Converted
      <3>4. CASE call.op = "reverse"
        <4> DEFINE q == without_bom(convert(r).text)
                   a == (r.enc # "utf8" \/ convert(r).text = "bom") /\ is_ascii(q)
        <4>1. preflight(r) = normalize_input(r)
          BY <1>2, <3>4 DEF preflight, reverse_preflight, classified, Converted
        <4>2. \/ convert(r).error # "none" /\ preflight(r) = convert(r)
              \/ convert(r).error = "none" /\ preflight(r) = Made(q, a)
          BY Zenon, <1>2, <4>1 DEF normalize_input, Converted
        <4>4. convert(r).error = "none" /\ preflight(r) = Made(q, a)
          BY Zenon, <3>1, <4>2
        <4>3. q \in Text
          BY <3>2, <4>4 DEF without_bom, Text
        <4> HIDE DEF q, a
        <4> QED BY <4>3, <4>4 DEF Made
      <3>5. CASE call.op = "escape"
        BY <1>2, <3>1, <3>2, <3>5 DEF preflight, escape_preflight, classified, normalize_escape_input,
           Converted, Made, without_bom, Text
      <3>6. CASE call.op = "case"
        <4>1. preflight(r) = prepare_impl(r, TRUE)
          BY Zenon, <1>2, <3>6 DEF preflight, case_preflight, classified, Converted
        <4>2. \/ convert(r).error # "none" /\ preflight(r) = convert(r)
              \/ convert(r).error = "none" /\ preflight(r) = Made(t, is_ascii(t))
          BY Zenon, <1>2, <4>1 DEF prepare_impl, Converted
        <4>3. convert(r).error = "none" /\ preflight(r) = Made(t, is_ascii(t))
          BY ZenonT(60), <3>1, <4>2
        <4>4. t \in Text
          BY <3>2, <4>3 DEF without_bom, Text
        <4> HIDE DEF t
        <4> QED BY <4>3, <4>4, MadeMarked
      <3> QED BY Zenon, <2>2, <3>3, <3>4, <3>5, <3>6 DEF Operation
    <2>4. preflight(record(i)) # Direct
      BY <2>3, NotDirect
    <2> QED BY <2>1, <2>4 DEF SlotIsRight
  <1> QED BY <1>1, <1>2 DEF WorkersNeedNoConverter

-----------------------------------------------------------------------------
(* The theorem.                                                            *)

\* Whatever the records, the chunk size, the number of workers and the order
\* they draw and map their chunks in, mapping on several workers is the serial
\* loop (ci_length, ci_width, ci_reverse, ci_escape_unicode, the case
\* mappings): a slot keeps its own bytes while the converter's buffer is
\* reused, the values of a call that returns are those of the loop, the call
\* fails exactly when the loop does, a failure of the region is reported at
\* the loop's first failing record, and no worker needs the converter of the
\* calling thread.
THEOREM MapsSerial == ASSUME MapsAssumption PROVE MapsSpec => []MapsAreSerial
  <1>1. MapsInit => MapsInv
    BY MapsInvInit
  <1>2. MapsInv /\ [MapsNext]_maps_vars => MapsInv'
    <2> SUFFICES ASSUME MapsInv, [MapsNext]_maps_vars PROVE MapsInv'
      OBVIOUS
    <2>1. CASE Open
      BY <2>1, OpenKeeps
    <2>2. CASE SerialRecord
      BY <2>2, SerialKeeps
    <2>3. CASE PreflightRecord
      BY <2>3, PreflightKeeps
    <2>4. CASE StartRegion
      BY <2>4, StartKeeps
    <2>5. ASSUME NEW w \in Worker, Claim(w) PROVE MapsInv'
      BY <2>5, ClaimKeeps
    <2>6. ASSUME NEW w \in Worker, MapRecord(w) PROVE MapsInv'
      BY <2>6, MapKeeps
    <2>7. CASE EndRegion
      BY <2>7, EndRegionKeeps
    <2>8. CASE EndSerial
      BY <2>8, EndSerialKeeps
    <2>9. CASE Finished \/ UNCHANGED maps_vars
      BY <2>9, StutterKeeps DEF Finished
    <2> QED BY <2>1, <2>2, <2>3, <2>4, <2>5, <2>6, <2>7, <2>8, <2>9 DEF MapsNext
  <1>3. MapsInv => MapsAreSerial
    BY NativesHaveSlots DEF MapsAreSerial
  <1> QED BY <1>1, <1>2, <1>3, PTL DEF MapsSpec

=============================================================================
