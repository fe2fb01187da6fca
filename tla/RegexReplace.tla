---------------------------- MODULE RegexReplace ----------------------------
(***************************************************************************)
(* ci_replace_all_regex() and ci_replace_first_regex() of                  *)
(* src/altrep_backend/ci_search_regex_replace.cpp, from their arguments to *)
(* their result, on one worker or on several.  A vectorized call pairs     *)
(* record i with its own pattern and replacement; a sequential one applies *)
(* the whole list of patterns to every subject, one pattern after the      *)
(* other.  A worker keeps one matcher and one scratch text for all of its  *)
(* chunks.                                                                 *)
(*                                                                         *)
(* A text is missing, in the encoding "bytes", or one letter; a pattern is *)
(* missing, in that encoding, empty, refused by the compiler, a letter it  *)
(* matches, or one that exceeds a limit of the matcher on the text "a".    *)
(* What the matcher finds in longer texts is the subject of RegexMatcher.  *)
(***************************************************************************)
EXTENDS Integers, SequencesExt, FiniteSetsExt

CONSTANTS
    Calls,      \* the calls explored, see IsCall
    Worker      \* the workers, 0 up to the most granted

VARIABLES
    call,       \* the arguments and the settings of the plan
    phase,      \* where the entry point is
    next,       \* the region's cursor
    lanes,      \* what every worker holds
    output,     \* the records written so far
    slots,      \* warning_slots
    failures,   \* the workers' reports
    warnings,   \* the warnings the call raises
    error       \* the error the call raises

vars == <<call, phase, next, lanes, output, slots, failures, warnings, error>>

Letter == {"a", "b"}
Text == Letter \cup {"na", "bytes"}
Pattern == Text \cup {"empty", "invalid", "slow", "deep"}
IsCall(c) ==
    /\ c.op \in {"all", "first"} /\ c.vectorize \in BOOLEAN
    /\ c.subjects \in Seq(Text) /\ c.replacements \in Seq(Text)
    /\ c.patterns \in Seq(Pattern)
    /\ c.workers \in Nat \ {0} /\ 0..(c.workers - 1) \subseteq Worker
    /\ c.chunk \in Nat \ {0}

CallsAssumption == \A c \in Calls : IsCall(c)

NoError == [kind |-> "none", pattern |-> -1]
Error(k) == [kind |-> k, pattern |-> -1]
\* throw_regex_error() names the pattern of a failed compilation only.
CompileError(p) == [kind |-> "compile", pattern |-> p]

-----------------------------------------------------------------------------
(* Lengths and recycling.                                                  *)

vectorize == call.op = "first" \/ call.vectorize
vectorized_core == vectorize \/ Len(call.patterns) = 1

recycling_length ==
    LET lengths == {Len(call.subjects), Len(call.patterns), Len(call.replacements)}
    IN IF 0 \in lengths THEN 0 ELSE Max(lengths)

output_length == IF vectorize THEN recycling_length ELSE Len(call.subjects)

recycling_warning ==
    IF vectorize
    THEN output_length > 0 /\ \E n \in {Len(call.subjects), Len(call.patterns),
                                        Len(call.replacements)} : output_length % n # 0
    ELSE Len(call.patterns) % Len(call.replacements) # 0

\* What parallel_plan() grants, see ParallelPlan.
plan ==
    IF call.workers = 1 \/ output_length < 2
    THEN [workers |-> 1, chunk |-> output_length]
    ELSE LET chunks == (output_length + call.chunk - 1) \div call.chunk
         IN [workers |-> Min({call.workers, chunks}), chunk |-> call.chunk]

Record == 0..(output_length - 1)
Working == 0..(plan.workers - 1)

subject(i) == call.subjects[(i % Len(call.subjects)) + 1]
pattern(i) == call.patterns[(i % Len(call.patterns)) + 1]
replacement(i) == call.replacements[(i % Len(call.replacements)) + 1]

-----------------------------------------------------------------------------
(* The matcher: what a bound pattern does to a text.                       *)

limit_error(p, text) ==
    CASE p = "slow" /\ text = "a" -> Error("time_out")
      [] p = "deep" /\ text = "a" -> Error("stack_overflow")
      [] OTHER -> NoError

\* A match without a replacement makes the record missing.
replace(p, text, value) == IF p = text THEN value ELSE text

-----------------------------------------------------------------------------
(* The entry point up to the region.                                       *)

IdleLane == [state |-> "idle", begin |-> 0, end |-> 0, i |-> 0, p |-> 0, texts |-> <<>>,
             bound |-> "none", pattern_bound |-> FALSE, replacement_text |-> "",
             warnings |-> 0]

Init ==
    /\ call \in Calls
    /\ phase = "prepare" /\ next = 0
    /\ lanes = [w \in Worker |-> IdleLane]
    /\ output = [i \in Record |-> "unset"]
    /\ slots = [w \in Worker |-> 0]
    /\ failures = {}
    /\ warnings = [recycling |-> 0, empty |-> 0]
    /\ error = NoError

End(p, n, e) == phase' = p /\ warnings' = n /\ error' = e

empty_count(patterns) == Cardinality({k \in 1..Len(patterns) : patterns[k] = "empty"})

\* Readers, normalize_views() and the count of the empty patterns; the main
\* thread meets every error before a worker exists.
Prepare ==
    /\ phase = "prepare"
    /\ IF ~vectorize /\ call.subjects = <<>>
       THEN End("returned", warnings, NoError)
       ELSE IF ~vectorize /\ (\/ call.patterns = <<>> \/ call.replacements = <<>>
                              \/ Len(call.patterns) < Len(call.replacements))
       THEN End("raised", warnings, Error("lengths"))
       ELSE LET told == [warnings EXCEPT !.recycling = IF recycling_warning THEN 1 ELSE 0]
                counted == [told EXCEPT !.empty = empty_count(call.patterns)]
            IN IF output_length = 0 THEN End("returned", told, NoError)
               ELSE IF Contains(call.subjects, "bytes") \/ Contains(call.patterns, "bytes")
               THEN End("raised", told, Error("bytes"))
               ELSE IF Contains(call.replacements, "bytes")
               THEN End("raised", counted, Error("bytes"))
               ELSE End("region", counted, NoError)
    /\ UNCHANGED <<call, next, lanes, output, slots, failures>>

-----------------------------------------------------------------------------
(* The region.  A serial plan runs the same loops over one chunk.          *)

Lane(w, l) == lanes' = [lanes EXCEPT ![w] = l]

\* The worker unwinds; its report keeps the chunk it held.
Fail(w, e) ==
    /\ Lane(w, [lanes[w] EXCEPT !.state = "failed"])
    /\ failures' = failures \cup {[at |-> lanes[w].begin, worker |-> w, error |-> e]}

\* next_chunk(); a sequential worker refills its subjects from the chunk.
Claim(w) ==
    /\ phase = "region" /\ w \in Working
    /\ lanes[w].state = "idle" /\ next < output_length
    /\ LET end == Min({next + plan.chunk, output_length})
       IN /\ Lane(w, [lanes[w] EXCEPT
                        !.state = IF vectorized_core THEN "record" ELSE "pattern",
                        !.begin = next, !.end = end, !.i = next, !.p = 0, !.warnings = 0,
                        !.texts = IF vectorized_core THEN <<>>
                                  ELSE SubSeq(call.subjects, next + 1, end)])
          /\ next' = end
    /\ UNCHANGED <<call, phase, output, slots, failures, warnings, error>>

needs_bind(l) == Len(call.patterns) > 1 \/ ~l.pattern_bound

\* The worker's scratch text once the replacement of record i is loaded.
loaded(l, i) == IF replacement(i) = "na" THEN l.replacement_text ELSE replacement(i)

replacement_value(l, i) == IF replacement(i) = "na" THEN "na" ELSE loaded(l, i)

\* replace_vectorized_record() and the output of one record.
ReplaceRecord(w) ==
    /\ phase = "region" /\ lanes[w].state = "record"
    /\ LET l == lanes[w]
           i == l.i
           bound == IF needs_bind(l) THEN pattern(i) ELSE l.bound
           done == [l EXCEPT !.i = i + 1, !.state = IF i + 1 = l.end THEN "idle" ELSE @]
           limit == limit_error(bound, subject(i))
       IN IF subject(i) = "na" \/ pattern(i) \in {"na", "empty"}
          THEN /\ output' = [output EXCEPT ![i] = "na"]
               /\ Lane(w, done) /\ UNCHANGED failures
          ELSE IF bound = "invalid"
          THEN Fail(w, CompileError(i % Len(call.patterns))) /\ UNCHANGED output
          ELSE IF limit # NoError
          THEN Fail(w, limit) /\ UNCHANGED output
          ELSE /\ output' = [output EXCEPT ![i] =
                               replace(bound, subject(i), replacement_value(l, i))]
               /\ Lane(w, [done EXCEPT !.bound = bound, !.pattern_bound = TRUE,
                             !.replacement_text = loaded(l, i)])
               /\ UNCHANGED failures
    /\ UNCHANGED <<call, phase, next, slots, warnings, error>>

\* replace_sequential(), the head of its outer loop.
NextPattern(w) ==
    /\ phase = "region" /\ lanes[w].state = "pattern"
    /\ LET l == lanes[w]
           p == call.patterns[l.p + 1]
           bogus == [k \in 1..Len(l.texts) |-> "na"]
       IN IF l.p = Len(call.patterns)
          THEN Lane(w, [l EXCEPT !.state = "output"]) /\ UNCHANGED failures
          ELSE IF p \in {"na", "empty"}
          THEN /\ Lane(w, [l EXCEPT !.state = "output", !.texts = bogus,
                             !.warnings = IF p = "empty" THEN @ + 1 ELSE @])
               /\ UNCHANGED failures
          ELSE IF p = "invalid" THEN Fail(w, CompileError(l.p))
          ELSE /\ Lane(w, [l EXCEPT !.state = "subject", !.i = l.begin, !.bound = p])
               /\ UNCHANGED failures
    /\ UNCHANGED <<call, phase, next, output, slots, warnings, error>>

\* Its inner loop: one subject under the bound pattern.
ReplaceSubject(w) ==
    /\ phase = "region" /\ lanes[w].state = "subject"
    /\ LET l == lanes[w]
           k == l.i - l.begin + 1
           limit == limit_error(l.bound, l.texts[k])
       IN IF limit # NoError THEN Fail(w, limit)
          ELSE /\ Lane(w, [l EXCEPT
                      !.texts[k] = IF @ = "na" THEN @
                                   ELSE replace(l.bound, @, replacement(l.p)),
                      !.i = @ + 1,
                      !.p = IF l.i + 1 = l.end THEN @ + 1 ELSE @,
                      !.state = IF l.i + 1 = l.end THEN "pattern" ELSE @])
               /\ UNCHANGED failures
    /\ UNCHANGED <<call, phase, next, output, slots, warnings, error>>

\* What run_sequential() leaves in its slot after a chunk.
chunk_warnings(w) == lanes[w].warnings

WriteChunk(w) ==
    /\ phase = "region" /\ lanes[w].state = "output"
    /\ LET l == lanes[w]
       IN output' = [i \in Record |-> IF i \in l.begin..(l.end - 1)
                                      THEN l.texts[i - l.begin + 1] ELSE output[i]]
    /\ slots' = [slots EXCEPT ![w] = chunk_warnings(w)]
    /\ Lane(w, [lanes[w] EXCEPT !.state = "idle"])
    /\ UNCHANGED <<call, phase, next, failures, warnings, error>>

-----------------------------------------------------------------------------
(* The end of the call.                                                    *)

\* The report run_parallel() raises again.
raised == CHOOSE f \in failures : \A g \in failures : f.at <= g.at

additional_empty_warnings == Max({slots[w] : w \in Working})

EndRegion ==
    /\ phase = "region"
    /\ \A w \in Working : lanes[w].state = "failed"
                          \/ (lanes[w].state = "idle" /\ next = output_length)
    /\ IF failures # {} THEN End("raised", warnings, raised.error)
       ELSE End("returned", [warnings EXCEPT !.empty = @ + additional_empty_warnings],
                NoError)
    /\ UNCHANGED <<call, next, lanes, output, slots, failures>>

Ended == phase \in {"returned", "raised"}
Finished == Ended /\ UNCHANGED vars

Next ==
    \/ Prepare \/ EndRegion \/ Finished
    \/ \E w \in Worker : \/ Claim(w) \/ ReplaceRecord(w) \/ NextPattern(w)
                         \/ ReplaceSubject(w) \/ WriteChunk(w)

Spec == Init /\ [][Next]_vars

-----------------------------------------------------------------------------
(* What one thread computes, record by record and pattern by pattern.      *)

Patterns == 0..(Len(call.patterns) - 1)
first_unusable ==
    LET unusable == {p \in Patterns : pattern(p) \in {"na", "empty"}}
    IN IF unusable = {} THEN Len(call.patterns) ELSE Min(unusable)

\* Subject i before pattern p is applied to it.
before(p, i) ==
    LET text[k \in 0..p] ==
          IF k = 0 THEN subject(i)
          ELSE replace(pattern(k - 1), text[k - 1], replacement(k - 1))
    IN text[p]

SerialValue(i) ==
    IF vectorized_core
    THEN IF pattern(i) \in {"na", "empty"} THEN "na"
         ELSE replace(pattern(i), subject(i), replacement(i))
    ELSE IF first_unusable < Len(call.patterns) THEN "na"
    ELSE before(Len(call.patterns), i)

\* The error of pattern p at the text of a subject, which a loop meets.
ErrorAt(p, text) ==
    IF pattern(p) = "invalid" THEN CompileError(p % Len(call.patterns))
    ELSE limit_error(pattern(p), text)

VectorizedErrors ==
    {i \in Record : /\ subject(i) # "na" /\ pattern(i) \notin {"na", "empty"}
                    /\ ErrorAt(i, subject(i)) # NoError}

\* The pairs at which the sequential loops fail, the pattern first.
SequentialErrors ==
    {q \in (0..(first_unusable - 1)) \X Record :
       ErrorAt(q[1], before(q[1], q[2])) # NoError}

FirstPair(S) ==
    CHOOSE q \in S : \A r \in S : q[1] < r[1] \/ (q[1] = r[1] /\ q[2] <= r[2])

SerialError ==
    IF vectorized_core
    THEN IF VectorizedErrors = {} THEN NoError
         ELSE LET i == Min(VectorizedErrors) IN ErrorAt(i, subject(i))
    ELSE IF SequentialErrors = {} THEN NoError
    ELSE LET q == FirstPair(SequentialErrors) IN ErrorAt(q[1], before(q[1], q[2]))

InRegion == phase = "region" \/ \E w \in Worker : lanes[w] # IdleLane

-----------------------------------------------------------------------------
\* Type invariant: what every worker holds, the records, slots and reports.
TypeOK ==
    /\ phase \in {"prepare", "region", "returned", "raised"}
    /\ next \in 0..output_length
    /\ \A w \in Worker :
         /\ lanes[w].state \in {"idle", "record", "pattern", "subject", "output", "failed"}
         /\ lanes[w].begin <= lanes[w].i /\ lanes[w].i <= lanes[w].end
         /\ lanes[w].end <= output_length
         /\ lanes[w].p \in 0..Len(call.patterns)
         /\ slots[w] \in 0..1
    /\ output \in [Record -> Letter \cup {"", "na", "unset"}]
    /\ warnings.recycling \in 0..1 /\ warnings.empty \in Nat
    /\ error \in [kind : {"none", "compile", "time_out", "stack_overflow", "bytes", "lengths"},
                  pattern : -1..(Len(call.patterns) - 1)]

\* A call that returns has written every record, and each is what the serial
\* loops make of it: neither the pattern bound for an earlier record nor the
\* scratch replacement of one reaches it, and cutting the subjects of a
\* sequential call into chunks changes nothing (Body::run, run_sequential).
ResultIsSerial ==
    (phase = "returned" /\ InRegion) => \A i \in Record : output[i] = SerialValue(i)

\* However many chunks met the empty pattern of a sequential call, the call
\* warns of it once more than of the empty patterns themselves, and not at all
\* when a pattern before it was missing or an error ended the call
\* (warning_slots of ci_replace_all_regex).
WarningsAreSerial ==
    (Ended /\ InRegion) =>
        warnings.empty = empty_count(call.patterns)
            + (IF /\ phase = "returned" /\ ~vectorized_core
                  /\ first_unusable < Len(call.patterns) /\ pattern(first_unusable) = "empty"
               THEN 1 ELSE 0)

\* A threaded call fails exactly when the serial one does, and a vectorized one
\* with the error of the lowest failing record, although a worker of a higher
\* chunk may have failed long before (run_parallel, throw_regex_error).
FailureIsSerial ==
    (Ended /\ InRegion) =>
        /\ (phase = "raised") = (SerialError # NoError)
        /\ vectorized_core => error = SerialError

=============================================================================
