---------------------------- MODULE NativeToUtf8 ----------------------------
(***************************************************************************)
(* Converting marked strings: shared::NativeToUtf8                         *)
(* (src/shared/native_to_utf8.cpp), the normalizing functions of           *)
(* src/shared/utf8.cpp and .h that use it, and the two loops of            *)
(* src/altrep_backend/ci_encoding_conversion.cpp that convert native       *)
(* records before a parallel region and its results after it.              *)
(*                                                                         *)
(* One converter serves a call.  Its descriptors are opened when first     *)
(* needed and have a shift state; its scratch buffer grows, is written     *)
(* over by every conversion, and is what a conversion returns.  A string   *)
(* is a sequence of characters; what Riconv() makes of a character is      *)
(* Width[d][c] bytes, 0 for a character it refuses, behind a shift byte    *)
(* when the character needs another shift state.                           *)
(*                                                                         *)
(* A call is one of: "normalize", which keeps a view of every record;      *)
(* "transient", which uses a view before it asks for the next one; and     *)
(* "transcode", whose results the converter turns back into the native     *)
(* encoding, also when a later record could not be converted.              *)
(***************************************************************************)
EXTENDS Integers, SequencesExt, FiniteSetsExt

CONSTANTS
    Width,              \* descriptor -> character -> bytes, 0: refused
    Shifted,            \* descriptor -> the characters of its second shift state
    Calls,              \* [mode, records, strip_bom, native_is_utf8]
    R_LEN_T_MAX, initial_capacity, min_growth

VARIABLES
    call,
    pc,                 \* "next", "open", "start", "convert", "flush", "return", "end"
    i,                  \* the record
    phase,              \* "input", or "output" for the loop behind the region
    descriptors,        \* shift state of each descriptor, or Closed
    native_is_utf8_,    \* "unresolved", "no", "yes"
    scratch_,           \* the bytes of the buffer
    input, used,        \* of the conversion under way
    views,              \* what the caller holds, record by record
    error               \* "none", or why a conversion threw

converter == <<descriptors, native_is_utf8_, scratch_>>
vars == <<call, pc, i, phase, converter, input, used, views, error>>

Closed == -1
Descriptors == DOMAIN Width
Characters == UNION {DOMAIN Width[d] : d \in Descriptors}
Encodings == {"na", "bytes", "ascii", "utf8", "latin1", "native"}

ConverterAssumption ==
    /\ Descriptors = {"latin1", "native", "utf8_to_native"} /\ "bom" \in Characters
    /\ \A d \in Descriptors : \A c \in DOMAIN Width[d] : Width[d][c] \in 0..4
    /\ {R_LEN_T_MAX, initial_capacity, min_growth} \subseteq Nat \ {0}
    /\ initial_capacity <= R_LEN_T_MAX /\ min_growth <= R_LEN_T_MAX
    /\ \A k \in Calls :
         /\ k.mode \in {"normalize", "transient", "transcode"} /\ k.native_is_utf8 \in BOOLEAN
         /\ k.strip_bom \in BOOLEAN /\ (k.mode = "transient" => k.strip_bom)
         /\ \A j \in DOMAIN k.records :
              /\ k.records[j].enc \in Encodings /\ k.records[j].chars \in Seq(Characters)
              /\ k.mode = "transcode" => k.records[j].enc \in {"na", "native"} /\ ~k.native_is_utf8

-----------------------------------------------------------------------------
(* Riconv(): it converts whole characters while they fit.                  *)
shift_of(d, c) == IF c \in Shifted[d] THEN 1 ELSE 0
bytes(d, shift, c) ==
    (IF shift_of(d, c) = shift THEN <<>> ELSE <<<<"shift", shift_of(d, c)>>>>)
    \o [k \in 1..Width[d][c] |-> <<c, k>>]

\* Where a call of Riconv() with the given room stops: the characters taken.
shift_after(d, shift, t, n) == IF n = 0 THEN shift ELSE shift_of(d, t[n])
written(d, shift, t, n) ==
    LET w[k \in 0..n] == IF k = 0 THEN <<>> ELSE w[k - 1] \o bytes(d, shift_after(d, shift, t, k - 1), t[k])
    IN w[n]
taken(d, shift, t, room) ==
    Max({n \in 0..Len(t) : /\ \A k \in 1..n : Width[d][t[k]] > 0
                           /\ Len(written(d, shift, t, n)) <= room})
unshift(shift) == IF shift = 0 THEN <<>> ELSE <<<<"shift", 0>>>>

\* Writing b behind the first n bytes of the buffer.
over(buffer, n, b) == [k \in DOMAIN buffer |-> IF k \in n + 1..n + Len(b) THEN b[k - n] ELSE buffer[k]]

-----------------------------------------------------------------------------
(* ensure_capacity(): doubling, and the largest string at last.            *)
Garbage == <<"garbage", 0>>
doubled[next \in 0..R_LEN_T_MAX, required \in 0..R_LEN_T_MAX] ==
    IF next >= required THEN next
    ELSE IF next > R_LEN_T_MAX \div 2 THEN R_LEN_T_MAX
    ELSE doubled[next * 2, required]
capacity_kept(required) == IF scratch_ = <<>> THEN initial_capacity ELSE Len(scratch_)
capacity(required) ==
    IF Len(scratch_) >= required THEN Len(scratch_)
    ELSE doubled[IF scratch_ = <<>> THEN initial_capacity ELSE Len(scratch_), required]
grown(buffer, n) == [k \in 1..n |-> IF k <= Len(buffer) THEN buffer[k] ELSE Garbage]
ensure_capacity(required) == scratch_' = grown(scratch_, capacity(required))

first_capacity(n) ==
    LET growth == IF n > min_growth THEN n \div 2 ELSE min_growth
    IN IF n > R_LEN_T_MAX - growth THEN R_LEN_T_MAX ELSE n + growth

-----------------------------------------------------------------------------
source == call.records[i]
descriptor == IF phase = "output" THEN "utf8_to_native" ELSE source.enc
at_limit == Len(scratch_) = R_LEN_T_MAX

Init ==
    /\ call \in Calls /\ pc = "next" /\ i = 1 /\ phase = "input"
    /\ descriptors = [d \in Descriptors |-> Closed] /\ native_is_utf8_ = "unresolved"
    /\ scratch_ = <<>> /\ input = <<>> /\ used = 0 /\ views = <<>> /\ error = "none"

\* A throw: the conversion's catch block puts the descriptor back; the call
\* ends, except that "transcode" still converts the results of the records
\* before the failing one.
Throw(why) ==
    /\ error' = why
    /\ IF call.mode = "transcode" /\ phase = "input"
       THEN pc' = "next" /\ phase' = "output" /\ i' = 1
       ELSE pc' = "end" /\ UNCHANGED <<phase, i>>
    /\ UNCHANGED <<call, native_is_utf8_, input, used, views>>

has_bom(t) == t # <<>> /\ t[1] = "bom"
resolved == IF call.native_is_utf8 THEN "yes" ELSE "no"

\* A view: "own" of the record's bytes from the character `from`, "kept" of a
\* copy in the arena or the output, or "scratch" of the first len bytes there.
Own(from) == [place |-> "own", from |-> from, len |-> 0, copy |-> <<>>]
Kept(b) == [place |-> "kept", from |-> 0, len |-> Len(b), copy |-> b]
Scratch(n) == [place |-> "scratch", from |-> 0, len |-> n, copy |-> <<>>]
Missing == [place |-> "missing", from |-> 0, len |-> 0, copy |-> <<>>]

\* A transient view is gone when the next record is looked at.
Hold(v) == views' = IF call.mode = "transient" THEN <<v>> ELSE Append(views, v)

\* The records that are borrowed, refused, or converted.
borrowed == \/ source.enc \in {"ascii", "utf8"}
            \/ source.enc = "native" /\ call.mode # "transcode" /\ call.native_is_utf8
Next_record ==
    /\ pc = "next" /\ phase = "input" /\ i <= Len(call.records)
    /\ \/ /\ source.enc = "na" /\ Hold(Missing) /\ i' = i + 1
          /\ UNCHANGED <<call, pc, phase, converter, input, used, error>>
       \/ /\ source.enc = "bytes" /\ Throw("bytes") /\ UNCHANGED <<descriptors, scratch_>>
       \/ /\ borrowed /\ i' = i + 1
          /\ Hold(Own(IF source.enc # "ascii" /\ call.strip_bom /\ has_bom(source.chars) THEN 2 ELSE 1))
          /\ native_is_utf8_' = IF source.enc = "native" THEN resolved ELSE native_is_utf8_
          /\ UNCHANGED <<call, pc, phase, descriptors, scratch_, input, used, error>>
       \/ /\ ~borrowed /\ source.enc \in {"latin1", "native"}
          /\ native_is_utf8_' = IF source.enc = "native" THEN resolved ELSE native_is_utf8_
          /\ pc' = "open" /\ input' = source.chars
          /\ UNCHANGED <<call, i, phase, descriptors, scratch_, used, views, error>>

\* finish_native_output(): a result of the region, staged as UTF-8.
Next_result ==
    /\ pc = "next" /\ phase = "output" /\ i <= Len(views)
    /\ IF views[i] = Missing THEN i' = i + 1 /\ UNCHANGED <<pc, input>>
       ELSE pc' = "open" /\ input' = source.chars /\ UNCHANGED i
    /\ UNCHANGED <<call, phase, converter, used, views, error>>

End_of_records ==
    /\ pc = "next" /\ i > (IF phase = "input" THEN Len(call.records) ELSE Len(views))
    /\ IF call.mode = "transcode" /\ phase = "input"
       THEN phase' = "output" /\ i' = 1 /\ UNCHANGED pc
       ELSE pc' = "end" /\ UNCHANGED <<phase, i>>
    /\ UNCHANGED <<call, converter, input, used, views, error>>

Open ==
    /\ pc = "open"
    /\ \/ /\ pc' = "start"
          /\ descriptors' = [descriptors EXCEPT ![descriptor] = IF @ = Closed THEN 0 ELSE @]
          /\ UNCHANGED <<call, i, phase, native_is_utf8_, scratch_, input, used, views, error>>
       \/ descriptors[descriptor] = Closed /\ Throw("open") /\ UNCHANGED <<descriptors, scratch_>>

\* The buffer, and the descriptor put back to its first state.
Start ==
    /\ pc = "start"
    /\ \/ /\ ensure_capacity(first_capacity(Len(input)))
          /\ descriptors' = [descriptors EXCEPT ![descriptor] = 0]
          /\ used' = 0 /\ pc' = "convert"
          /\ UNCHANGED <<call, i, phase, native_is_utf8_, input, views, error>>
       \/ /\ Len(scratch_) < first_capacity(Len(input))
          /\ Throw("alloc") /\ UNCHANGED <<descriptors, scratch_>>

used_after(b) == used + Len(b)

\* One turn of the first loop: Riconv() takes n characters and writes b, then
\* the buffer is grown, or the conversion throws.
Converted(n, b) ==
    LET d == descriptor
        left == SubSeq(input, n + 1, Len(input))
        filled == over(scratch_, used, b)
        refused == left # <<>> /\ Width[d][left[1]] = 0
    IN \/ /\ refused \/ (at_limit /\ left # <<>>)
          /\ Throw(IF refused THEN "illegal" ELSE "length")
          /\ descriptors' = [descriptors EXCEPT ![d] = 0] /\ scratch_' = filled
       \/ /\ ~refused /\ (left = <<>> \/ ~at_limit)
          /\ descriptors' = [descriptors EXCEPT ![d] = shift_after(d, @, input, n)]
          /\ scratch_' = IF left = <<>> THEN filled ELSE grown(filled, capacity(Len(scratch_) + 1))
          /\ input' = left /\ used' = used_after(b)
          /\ UNCHANGED <<call, pc, i, phase, native_is_utf8_, views, error>>

Convert ==
    /\ pc = "convert" /\ input # <<>>
    /\ \E n \in {taken(descriptor, descriptors[descriptor], input, Len(scratch_) - used)} :
       \E b \in {written(descriptor, descriptors[descriptor], input, n)} : Converted(n, b)

\* One turn of the second loop, which puts the descriptor back and writes what
\* that takes.
Flush ==
    LET b == unshift(descriptors[descriptor])
        fits == used + Len(b) <= Len(scratch_)
    IN
    /\ pc = "convert" /\ input = <<>>
    /\ \/ /\ fits /\ scratch_' = over(scratch_, used, b) /\ used' = used_after(b) /\ pc' = "return"
          /\ descriptors' = [descriptors EXCEPT ![descriptor] = 0]
          /\ UNCHANGED <<call, i, phase, native_is_utf8_, input, views, error>>
       \/ /\ ~fits /\ ~at_limit /\ ensure_capacity(Len(scratch_) + 1)
          /\ UNCHANGED <<call, pc, i, phase, descriptors, native_is_utf8_, input, used, views, error>>
       \/ /\ ~fits /\ at_limit /\ Throw("length")
          /\ descriptors' = [descriptors EXCEPT ![descriptor] = 0] /\ UNCHANGED scratch_

\* The caller: a transient view stays in the buffer, every other one is copied
\* into the arena, or into the output.
returned == IF call.mode = "transient" THEN Scratch(used) ELSE Kept(SubSeq(scratch_, 1, used))
Return ==
    /\ pc = "return"
    /\ \/ /\ pc' = "next" /\ i' = i + 1
          /\ IF phase = "output" THEN views' = [views EXCEPT ![i] = returned] ELSE Hold(returned)
          /\ UNCHANGED <<call, phase, converter, input, used, error>>
       \/ call.mode # "transient" /\ used > 0 /\ Throw("alloc") /\ UNCHANGED <<descriptors, scratch_>>

Finished == pc = "end" /\ UNCHANGED vars

Step == Next_record \/ Next_result \/ End_of_records \/ Open \/ Start \/ Convert \/ Flush \/ Return
Next == Step \/ Finished

Spec == Init /\ [][Next]_vars /\ WF_vars(Step)

-----------------------------------------------------------------------------
\* What a whole conversion writes, counted from the characters alone.
shift_before(d, t, k) == IF k = 1 THEN 0 ELSE shift_of(d, t[k - 1])
Whole(d, t) ==
    LET w[k \in 0..Len(t)] == IF k = 0 THEN <<>> ELSE w[k - 1] \o bytes(d, shift_before(d, t, k), t[k])
    IN w[Len(t)] \o (IF t # <<>> /\ Last(t) \in Shifted[d] THEN <<<<"shift", 0>>>> ELSE <<>>)

View(v) == IF v.place = "scratch" THEN SubSeq(scratch_, 1, v.len) ELSE v.copy

TypeOK ==
    /\ pc \in {"next", "open", "start", "convert", "return", "end"}
    /\ phase \in {"input", "output"} /\ i \in Nat /\ used \in 0..Len(scratch_)
    /\ Len(scratch_) <= R_LEN_T_MAX
    /\ \A d \in Descriptors : descriptors[d] \in {Closed, 0, 1}
    /\ native_is_utf8_ \in {"unresolved", "no", "yes"}
    /\ error \in {"none", "bytes", "open", "alloc", "illegal", "length"}

\* Every view the caller still holds reads as the whole conversion of its
\* record: nothing of an earlier conversion, of a conversion that threw or of
\* a buffer that has grown or been written over since shows through.
ViewsAreExact ==
    \A j \in DOMAIN views :
        LET record == call.records[IF call.mode = "transient" THEN i - 1 ELSE j]
            done == phase = "output" /\ (j < i \/ (pc = "end" /\ i > Len(views)))
        IN (views[j].place \in {"kept", "scratch"} /\ (call.mode = "transient" => pc = "next")) =>
             View(views[j]) = Whole(IF done THEN "utf8_to_native" ELSE record.enc, record.chars)

\* A conversion refuses a string only for what is in it: "illegal" for a
\* character that cannot be converted, with all before it within the limit,
\* "length" for more bytes than an R string may have.
FailuresAreReal ==
    LET t == call.records[Min({i, Len(call.records)})].chars
        d == IF phase = "output" THEN "utf8_to_native" ELSE call.records[Min({i, Len(call.records)})].enc
        legal(n) == \A k \in 1..n : Width[d][t[k]] > 0
        prefix == Max({n \in 0..Len(t) : legal(n)})
        fits(n) == Len(written(d, 0, t, n)) <= R_LEN_T_MAX
    IN (pc = "end" /\ call.mode # "transcode") =>
         /\ error = "illegal" => prefix < Len(t) /\ fits(prefix)
         /\ error = "length" => ~fits(prefix) \/ (prefix = Len(t) /\ Len(Whole(d, t)) > R_LEN_T_MAX)

\* Every call returns or throws: each turn of the two loops takes a character
\* or finds the buffer larger.
CallEnds == <>(pc = "end")
=============================================================================
