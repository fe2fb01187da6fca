--------------------------- MODULE ThreadedCalls ---------------------------
(***************************************************************************)
(* The entry points that hand their elements to a parallel region, and the *)
(* one whose preflight reports what a region may not (SubReplaceAll).  R   *)
(* makes one call at a time, so a behaviour is one call of one part, and   *)
(* the parts that do not run stay at their initial state.                  *)
(***************************************************************************)
EXTENDS RecordMaps, SequencesExt, FiniteSetsExt

CONSTANTS
    Parts,              \* the parts explored
    MaxLength           \* elements of a call in which every kind occurs

VARIABLES
    part,
    \* FixedKernels
    kernels_call, kernels_phase, general_start, max_count, kernels_result, kernel,
    warning_slots, empty_warnings, tasks, body, writes, parked, outcome,
    \* FixedExtract
    extract_call, extract_phase, extract_next, extract_plans, segments, plan, source,
    merged_rows, extract_at, children, extract_result,
    \* RegexReplace
    replace_call, replace_phase, replace_next, replace_lanes, replace_output,
    replace_slots, replace_failures, replace_warnings, replace_error,
    \* RegexMatch
    match_call, match_phase, match_next, match_lanes, matches, captures, row_captures,
    row_warnings, match_failures, metadata, match_stores, match_result,
    match_warnings, match_error,
    \* SubReplaceAll
    splice_call, parallel, scalar_fast_path, pc, row, pending, limits, limit,
    splice_stores, splice_raised, splice_emitted,
    \* WrapCall
    wrap_call, wrap_phase, normalized, prepass_error, wrap_next, active, wrap_at, end,
    flat_output, wrap_rows, wrap_stores, wrap_failed, cursors, ordered, wrap_result,
    \* Joining
    joins_call, joins_phase, columns, separator, collapse_value, joins_plans,
    finished, joins_failed, row_offsets, buffer, joins_rows, warned, joins_result,
    \* ConversionWarnings
    convert_call, convert_phase, work_size, convert_next, state, held, queue,
    worker_chunks, worker_cutoffs, task_prefix, output_cutoff, convert_error,
    convert_emitted, emission

kernels == <<kernels_call, kernels_phase, general_start, max_count, kernels_result,
             kernel, warning_slots, empty_warnings, tasks, body, writes, parked,
             outcome>>
extract == <<extract_call, extract_phase, extract_next, extract_plans, segments, plan,
             source, merged_rows, extract_at, children, extract_result>>
replace == <<replace_call, replace_phase, replace_next, replace_lanes, replace_output,
             replace_slots, replace_failures, replace_warnings, replace_error>>
match == <<match_call, match_phase, match_next, match_lanes, matches, captures,
           row_captures, row_warnings, match_failures, metadata, match_stores,
           match_result, match_warnings, match_error>>
splice == <<splice_call, parallel, scalar_fast_path, pc, row, pending, limits, limit,
            splice_stores, splice_raised, splice_emitted>>
wrap == <<wrap_call, wrap_phase, normalized, prepass_error, wrap_next, active,
          wrap_at, end, flat_output, wrap_rows, wrap_stores, wrap_failed, cursors,
          ordered, wrap_result>>
joins == <<joins_call, joins_phase, columns, separator, collapse_value, joins_plans,
           finished, joins_failed, row_offsets, buffer, joins_rows, warned,
           joins_result>>
conversion == <<convert_call, convert_phase, work_size, convert_next, state, held, queue,
                worker_chunks, worker_cutoffs, task_prefix, output_cutoff, convert_error,
                convert_emitted, emission>>
vars == <<part, kernels, extract, replace, match, splice, wrap, joins, maps_vars, conversion>>

Pair == {1, 2}
Crew == {0, 1, 2}

-----------------------------------------------------------------------------
(* Fixed patterns: one over every vector of subjects; several recycled over*)
(* the subjects, or over fewer subjects than that; and patterns applied one*)
(* after another.                                                          *)

Alternating(k) == [i \in 0..(k - 1) |-> IF i % 2 = 0 THEN "hit" ELSE "miss"]
KernelCall(o, h, c, k, l, q, s, p) ==
    [op |-> o, threads |-> h, max_count |-> c, n |-> k, m |-> l, r |-> q,
     subjects |-> s, patterns |-> p]
CountLimits(o) == IF o = "detect" THEN {-1, 0, 1, 2} ELSE {-1}

KernelCalls ==
    UNION {{KernelCall(o, h, c, MaxLength, 1, 1, s, p) :
              h \in {1, 2}, c \in CountLimits(o),
              s \in [0..(MaxLength - 1) -> {"na", "hit", "miss", "latin_hit", "bytes"}],
              p \in {[j \in {0} |-> x] : x \in {"byte", "wide"}}} :
              o \in {"count", "detect", "replace"}}
    \cup
    UNION {{KernelCall(o, h, c, k, l, q, Alternating(k), p) :
              h \in {1, 2}, c \in CountLimits(o), k \in {0, 1, MaxLength + 1},
              q \in IF o = "replace" THEN {1, 2, MaxLength + 2} ELSE {1},
              p \in [0..(l - 1) -> {"byte", "empty", "na"}]} :
              o \in {"count", "detect", "replace"}, l \in 0..3}
    \cup
    UNION {{KernelCall("sequential", h, -1, k, l, 1, Alternating(k), p) :
              h \in {1, 2}, k \in 0..MaxLength,
              p \in [0..(l - 1) -> {"byte", "wide", "empty", "na"}]} :
              l \in 2..3}

AnyKernelCall == CHOOSE c \in KernelCalls : TRUE

Kernels == INSTANCE FixedKernels
    WITH Calls <- KernelCalls, Worker <- Pair, call <- kernels_call,
         phase <- kernels_phase, result <- kernels_result

(* Extraction: short vectors of every kind; and long ones whose rows differ*)
(* in how many matches they have.                                          *)

ExtractCall(s, p, c, o, m, w, k) ==
    [subjects |-> s, patterns |-> p, case_insensitive |-> c, omit_no_match |-> o,
     simplify |-> m, workers |-> w, chunk |-> k]

ExtractCalls ==
    {ExtractCall(s, p, c, o, m, 2, 1) :
       s \in SeqOf({"na", "empty", "none", "two"}, 2), p \in SeqOf({"na", "empty", "p"}, 2),
       c \in BOOLEAN, o \in BOOLEAN, m \in {"list", "matrix"}}
    \cup {ExtractCall(s, <<"p">>, TRUE, TRUE, "list", 1, 1) : s \in SeqOf({"none", "one", "two"}, 2)}
    \cup
    {ExtractCall(<<"two">> \o s, p, c, TRUE, "list", 3, 1) :
       s \in [1..2 -> {"none", "two"}], p \in {<<"p">>, <<"p", "q">>, <<"p", "p", "q">>}, c \in BOOLEAN}
    \cup
    {ExtractCall(<<"two">> \o s, p, FALSE, TRUE, "list", 2, k) :
       s \in [1..3 -> {"none", "two"}], p \in {<<"p">>, <<"p", "p", "q">>}, k \in {1, 3}}

AnyExtractCall == CHOOSE c \in ExtractCalls : TRUE

Extract == INSTANCE FixedExtract
    WITH Calls <- ExtractCalls, Worker <- Crew, call <- extract_call,
         phase <- extract_phase, next <- extract_next, plans <- extract_plans,
         at <- extract_at, result <- extract_result

(* Regular expressions, replacing: short vectors of everything, for the    *)
(* checks and the recycling; and vectors of several chunks, on up to three *)
(* workers.                                                                *)

ReplaceCall(o, v, s, p, r, w) ==
    [op |-> o, vectorize |-> v, subjects |-> s, patterns |-> p, replacements |-> r,
     workers |-> w, chunk |-> 1]

ReplaceCalls ==
    {ReplaceCall(o, v, s, p, r, 2) :
       o \in {"all", "first"}, v \in BOOLEAN,
       s \in SeqOf({"a", "bytes"}, 2), p \in SeqOf({"a", "empty", "bytes"}, 2),
       r \in SeqOf({"b", "na"}, 2) \cup {<<"bytes">>}}
    \cup
    {ReplaceCall("all", v, s, p, r, w) :
       v \in BOOLEAN, w \in {1, 2},
       s \in {<<"a", "b", "a">>, <<"b", "b", "a">>, <<"a", "na", "b">>},
       p \in UNION {[1..n -> {"a", "b", "na", "empty", "invalid", "slow", "deep"}] : n \in 1..2},
       r \in {<<"b", "na">>}}
    \cup
    {ReplaceCall("all", v, s, p, <<"b", "na", "a">>, 3) :
       v \in BOOLEAN,
       s \in {<<"a", "b", "a">>, <<"b", "b", "a">>, <<"b", "a", "na", "a">>},
       p \in {<<"b", "slow", "a">>, <<"a", "b", "empty">>, <<"b", "na", "empty">>,
              <<"deep", "slow", "invalid">>, <<"b", "deep", "empty">>}}

AnyReplaceCall == CHOOSE c \in ReplaceCalls : TRUE

Replace == INSTANCE RegexReplace
    WITH Calls <- ReplaceCalls, Worker <- Crew, call <- replace_call,
         phase <- replace_phase, next <- replace_next, lanes <- replace_lanes,
         output <- replace_output, slots <- replace_slots,
         failures <- replace_failures, warnings <- replace_warnings,
         error <- replace_error

(* Regular expressions, matching: the same.                                *)

MatchCall(o, m, s, p, g, w, k) ==
    [op |-> o, omit |-> m, subjects |-> s, patterns |-> p, cg_missing |-> g,
     workers |-> w, chunk |-> k]

MatchCalls ==
    {MatchCall(o, m, s, p, "text", 2, 1) :
       o \in {"first", "all"}, m \in BOOLEAN,
       s \in SeqOf({"na", "two", "trap"}, 2),
       p \in SeqOf({"na", "empty", "invalid", "g0", "g2"}, 2)}
    \cup
    {MatchCall(o, TRUE, s, p, g, w, 1) :
       o \in {"first", "all"}, g \in {"text", "bytes"}, w \in {1, 2},
       s \in {<<>>, <<"bytes">>, <<"one", "none">>}, p \in {<<>>, <<"bytes">>, <<"g1", "empty">>}}
    \cup
    {MatchCall(o, FALSE, s, p, "text", 3, k) :
       o \in {"first", "all"}, k \in {1, 2},
       s \in {<<"one", "none">>, <<"two", "trap", "na">>, <<"none", "one", "two", "na">>},
       p \in {<<"g2">>, <<"g1", "g2", "g0">>, <<"empty", "g1", "na", "empty">>,
              <<"empty", "invalid", "empty", "invalid">>, <<"empty", "g1", "invalid">>}}

AnyMatchCall == CHOOSE c \in MatchCalls : TRUE

Match == INSTANCE RegexMatch
    WITH Calls <- MatchCalls, Worker <- Crew, call <- match_call,
         phase <- match_phase, next <- match_next, lanes <- match_lanes,
         failures <- match_failures, stores <- match_stores, result <- match_result,
         warnings <- match_warnings, error <- match_error

(* Several replacements within one text: single rows with bounds in and    *)
(* around the text, and three rows among which errors, warnings and missing*)
(* sources are mixed.                                                      *)

SpliceText(v) == [na |-> FALSE, value |-> v]
NoText == [na |-> TRUE, value |-> <<>>]
NA == -(6 + 1)
SpliceRow(s, f, e, l, r, o) ==
    [source |-> s, from |-> f, endpoint |-> e, by_length |-> l, replacements |-> r,
     omit_na |-> o, refused |-> ""]
Source == SpliceText(<<1, 2, 3>>)
UpToTwo(S) == {<<x>> : x \in S} \cup {<<x, y>> : x \in S, y \in S}

OneRow ==
    {SpliceRow(Source, f, e, l, r, o) :
        f \in UpToTwo({-2, 1, NA}), e \in UpToTwo({-1, 2, 5, NA}), l \in BOOLEAN, o \in BOOLEAN,
        r \in {<<>>, <<SpliceText(<<7>>)>>, <<SpliceText(<<>>), SpliceText(<<7, 8, 9>>)>>, <<SpliceText(<<7, 8>>), NoText>>}}
    \cup {SpliceRow(SpliceText(v), <<-2, -1, 4>>, <<1, 1>>, l, <<SpliceText(<<7>>), SpliceText(<<8>>)>>, TRUE) :
            v \in {<<>>, <<1>>, <<1, 2>>, <<1, 2, 3, 4>>}, l \in BOOLEAN}

Plain == SpliceRow(Source, <<1, 3>>, <<1, 3>>, FALSE, <<SpliceText(<<7>>)>>, FALSE)
Kinds ==
    {SpliceRow(NoText, <<1>>, <<1>>, FALSE, <<SpliceText(<<7>>)>>, FALSE),
     SpliceRow(Source, <<1, 2, 3>>, <<1, 1>>, TRUE, <<SpliceText(<<7>>), SpliceText(<<8>>)>>, FALSE),
     SpliceRow(Source, <<2, 3, 1>>, <<1, 1>>, TRUE, <<SpliceText(<<7>>)>>, FALSE),
     SpliceRow(Source, <<1>>, <<0>>, TRUE, <<SpliceText(<<7, 8, 9, 9>>)>>, FALSE),
     SpliceRow(Source, <<1>>, <<2>>, FALSE, <<>>, FALSE),
     Plain, [Plain EXCEPT !.refused = "value"], [Plain EXCEPT !.refused = "matrix"]}

\* Rows that differ in their source only.
OneArgument ==
    {<<SpliceRow(a, f, e, FALSE, r, o), SpliceRow(b, f, e, FALSE, r, o)>> :
        a \in {SpliceText(<<>>), SpliceText(<<1, 2, 3>>)}, b \in {NoText, SpliceText(<<1, 2>>), SpliceText(<<1, 2, 3, 4>>)},
        f \in {<<1>>, <<3>>, <<6>>}, e \in {<<1>>, <<4>>},
        r \in {<<SpliceText(<<7, 8, 9>>)>>, <<NoText>>}, o \in BOOLEAN}

SpliceCalls ==
    [rows : {<<r>> : r \in OneRow} \cup OneArgument, recycled : {FALSE}]
    \cup [rows : [1..3 -> Kinds], recycled : BOOLEAN]

AnySpliceCall == CHOOSE c \in SpliceCalls : TRUE

Splice == INSTANCE SubReplaceAll
    WITH Calls <- SpliceCalls, IntMax <- 6, call <- splice_call,
         stores <- splice_stores, raised <- splice_raised, emitted <- splice_emitted

(* Wrapping: every short vector in every mode, and long vectors of lines   *)
(* flattened.                                                              *)

WrapArgs(s, m, b, W, k) ==
    [n |-> Len(s), inputs |-> [i \in 0..(Len(s) - 1) |-> s[i + 1]], mode |-> m,
     missing_start |-> b, workers |-> W, chunk |-> k]

WrapCalls ==
    {WrapArgs(s, m, b, W, 1) :
       s \in SeqOf({"na", "bytes", "unplanned", "one", "two"}, MaxLength),
       m \in {"list", "flatten", "join"}, b \in BOOLEAN, W \in {{0}, {0, 1}}}
    \cup
    {WrapArgs([i \in 1..5 |-> IF i \in T THEN "two" ELSE "na"], "flatten", FALSE, {0, 1}, k) :
       T \in SUBSET (1..5), k \in {1, 2}}

AnyWrapCall == CHOOSE c \in WrapCalls : TRUE

Wrap == INSTANCE WrapCall
    WITH Calls <- WrapCalls, Worker <- {0, 1}, call <- wrap_call, phase <- wrap_phase,
         next <- wrap_next, at <- wrap_at, rows <- wrap_rows, stores <- wrap_stores,
         failed <- wrap_failed, result <- wrap_result

(* Joining: lists of vectors of several lengths, on one worker and on      *)
(* several.                                                                *)

JoinValue(e, t) == [enc |-> e, text |-> t]
MissingValue == JoinValue("missing", <<>>)
Empty == JoinValue("ascii", <<>>)

\* Two ASCII texts, one that is only known to be either, one that is not ASCII,
\* and one that starts with a byte order mark.
Values == {MissingValue, Empty, JoinValue("ascii", <<"x">>), JoinValue("ascii_or_utf8", <<"y", "z">>),
           JoinValue("utf8", <<"bom", "e">>)}
Odd == {JoinValue("bytes", <<"e">>), JoinValue("native", <<"n">>), JoinValue("latin1", <<"e", "x">>),
        JoinValue("ascii_or_utf8", <<"bom", "y">>)}
Seps == {MissingValue, Empty, JoinValue("utf8", <<"-">>), JoinValue("ascii_or_utf8", <<"e">>), JoinValue("utf8", <<"bom">>)}

ValueVectors(n) == [1..n -> Values]
Lists ==
    {<<>>, <<<<>>>>} \cup {<<<<>>, v>> : v \in ValueVectors(1)}
    \cup {<<v>> : v \in UNION {ValueVectors(n) : n \in 1..3}}
    \cup {<<v, w>> : v \in ValueVectors(1), w \in ValueVectors(2)}
    \cup {<<v, w>> : v \in {<<Empty, JoinValue("ascii", <<"x">>)>>, <<JoinValue("utf8", <<"e">>), MissingValue>>},
                     w \in {x \in ValueVectors(3) : x[1] # x[3]}}
    \cup {<<<<o>>, v>> : o \in Odd, v \in ValueVectors(1)}
    \cup {<<v, <<o>>, v>> : o \in Odd, v \in ValueVectors(1)}

JoinCall(o, l, s, c, w, n, e) ==
    [op |-> o, strlist |-> l, sep |-> s, collapse |-> c, several |-> w,
     na_empty |-> n, omit_empty |-> e]
JoinCalls ==
    {JoinCall("rows", l, s, Empty, w, "false", FALSE) : l \in Lists, s \in Seps, w \in BOOLEAN}
    \cup {JoinCall("collapse", l, s, c, w, "false", FALSE) :
            l \in Lists, s \in {MissingValue, JoinValue("utf8", <<"-">>)},
            c \in {MissingValue, JoinValue("ascii", <<"/">>), JoinValue("utf8", <<"bom">>)}, w \in BOOLEAN}
    \cup {JoinCall("flatten", <<v>>, Empty, c, FALSE, n, e) :
            v \in UNION {ValueVectors(k) : k \in 0..3} \cup {<<x>> : x \in Odd}, c \in Seps,
            n \in {"true", "false", "na"}, e \in BOOLEAN}
AnyJoinCall == CHOOSE c \in JoinCalls : TRUE

Joins == INSTANCE Joining
    WITH Calls <- JoinCalls, Limit <- 4, NonAscii <- {"bom", "e"}, call <- joins_call,
         phase <- joins_phase, plans <- joins_plans, failed <- joins_failed,
         rows <- joins_rows, result <- joins_result

(* Records mapped one by one: every kind of record next to one that may    *)
(* fail, and three and four records of the kinds that interact.            *)

MapCall(o, n, r, w, k) ==
    [op |-> o, native_is_utf8 |-> n, records |-> r, workers |-> w, chunk |-> k]
Marked(e, t) == [enc |-> e, text |-> t]

AnyRecord ==
    {Marked("na", "ascii"), Marked("ascii", "ascii"), Marked("bytes", "wide")}
    \cup {Marked(e, t) : e \in {"utf8", "ambiguous"}, t \in {"ascii", "wide", "bom", "broken"}}
    \cup {Marked("latin1", t) : t \in {"ascii", "wide", "broken"}}
    \cup {Marked("native", t) : t \in {"ascii", "wide", "other", "bom", "mark", "broken"}}
Failing == {Marked("utf8", "broken"), Marked("native", "other"), Marked("bytes", "wide")}
FewRecords == Failing \cup {Marked("latin1", "wide"), Marked("native", "mark")}

MapCalls ==
    UNION {
      {MapCall(o, n, <<r, s>>, w, 1) : n \in BOOLEAN, r \in AnyRecord, s \in FewRecords, w \in {1, 2}}
      \cup {MapCall(o, n, r, 3, 1) : n \in BOOLEAN, r \in [1..3 -> Failing]}
      \cup {MapCall(o, n, <<Marked("native", "wide")>> \o r, 2, 2) : n \in BOOLEAN, r \in [1..3 -> Failing]} :
      o \in {"length", "width", "reverse", "escape", "case"}}

AnyMapCall == CHOOSE c \in MapCalls : TRUE

(* Conversions: every combination of warnings and faults, a fault in at most*)
(* two records.                                                            *)

Faults(k) ==
    {f \in [0..(k - 1) -> {"none", "input", "convert", "output"}] :
       Cardinality({i \in 0..(k - 1) : f[i] # "none"}) <= 2}

ConvertCalls ==
    UNION {{c \in [n : {k}, chunk : {1, 2}, threads : {2}, warn : [0..(k - 1) -> {0, 1}],
                   fault : Faults(k), native_output : BOOLEAN, setup : {{}, {2}}] :
              LET faults == {c.fault[i] : i \in 0..(k - 1)}
              IN /\ "output" \in faults => c.native_output
                 /\ c.setup # {} => faults \subseteq {"none", "convert"}} :
           k \in 1..MaxLength}
    \cup {[n |-> 0, chunk |-> 1, threads |-> 2, warn |-> <<>>, fault |-> <<>>,
           native_output |-> FALSE, setup |-> {}],
          [n |-> 2, chunk |-> 2, threads |-> 1, warn |-> [i \in 0..1 |-> 1],
           fault |-> [i \in 0..1 |-> IF i = 1 THEN "input" ELSE "none"],
           native_output |-> TRUE, setup |-> {}]}

AnyConvertCall == CHOOSE c \in ConvertCalls : TRUE

Convert == INSTANCE ConversionWarnings
    WITH Calls <- ConvertCalls, Worker <- Pair, call <- convert_call,
         phase <- convert_phase, next <- convert_next, error <- convert_error,
         emitted <- convert_emitted

-----------------------------------------------------------------------------
ASSUME InputsAssumption ==
    /\ Parts \subseteq {"kernels", "extract", "replace", "match", "splice", "wrap", "joins", "maps", "convert"}
    /\ Kernels!CallsAssumption /\ Extract!CallsAssumption /\ Replace!CallsAssumption
    /\ Match!CallsAssumption /\ Wrap!CallsAssumption /\ Joins!CallsAssumption
    /\ MapsAssumption /\ Convert!CallsAssumption

\* A part that does not run has some input.
Idle(p, v, x) == part # p => v = x

Init ==
    /\ part \in Parts
    /\ Idle("maps", call, AnyMapCall) /\ MapsInit
    /\ Idle("kernels", kernels_call, AnyKernelCall) /\ Kernels!Init
    /\ Idle("extract", extract_call, AnyExtractCall) /\ Extract!Init
    /\ Idle("replace", replace_call, AnyReplaceCall) /\ Replace!Init
    /\ Idle("match", match_call, AnyMatchCall) /\ Match!Init
    /\ Idle("splice", splice_call, AnySpliceCall) /\ Idle("splice", parallel, FALSE)
        /\ Splice!Init
    /\ Idle("wrap", wrap_call, AnyWrapCall) /\ Wrap!Init
    /\ Idle("joins", joins_call, AnyJoinCall) /\ Joins!Init
    /\ Idle("convert", convert_call, AnyConvertCall) /\ Convert!Init

Next ==
    \/ /\ part = "kernels" /\ Kernels!Next
       /\ UNCHANGED <<part, extract, replace, match, splice, wrap, joins, maps_vars,
                      conversion>>
    \/ /\ part = "extract" /\ Extract!Next
       /\ UNCHANGED <<part, kernels, replace, match, splice, wrap, joins, maps_vars,
                      conversion>>
    \/ /\ part = "replace" /\ Replace!Next
       /\ UNCHANGED <<part, kernels, extract, match, splice, wrap, joins, maps_vars,
                      conversion>>
    \/ /\ part = "match" /\ Match!Next
       /\ UNCHANGED <<part, kernels, extract, replace, splice, wrap, joins, maps_vars,
                      conversion>>
    \/ /\ part = "splice" /\ Splice!Next
       /\ UNCHANGED <<part, kernels, extract, replace, match, wrap, joins, maps_vars,
                      conversion>>
    \/ /\ part = "wrap" /\ Wrap!Next
       /\ UNCHANGED <<part, kernels, extract, replace, match, splice, joins, maps_vars,
                      conversion>>
    \/ /\ part = "joins" /\ Joins!Next
       /\ UNCHANGED <<part, kernels, extract, replace, match, splice, wrap, maps_vars,
                      conversion>>
    \/ /\ part = "maps" /\ MapsNext
       /\ UNCHANGED <<part, kernels, extract, replace, match, splice, wrap, joins,
                      conversion>>
    \/ /\ part = "convert" /\ Convert!Next
       /\ UNCHANGED <<part, kernels, extract, replace, match, splice, wrap, joins,
                      maps_vars>>

Spec == Init /\ [][Next]_vars

-----------------------------------------------------------------------------
\* A call that returns has what a loop over the elements gives, whichever
\* worker drew which chunk, whichever kernel was tried first and refused, and
\* whatever a worker's matcher, plan or scratch held before (ci_count_fixed,
\* ci_detect_fixed and ci_replace_all_fixed; ci_extract_all_fixed;
\* ci_replace_all_regex; ci_match_first_regex and ci_match_all_regex;
\* ci_sub_replacement_all; ci_wrap; ci_join and ci_flatten).  And while it runs, what was
\* staged is where the main thread will look for it: lanes of distinct rows, an
\* abandoned attempt without a trace, the matches of every row in its chunk's
\* plan, chunk stores complete before they are merged and merged in ascending
\* order, and a buffer measured in one pass filled by the next.
ResultsAreSerial ==
    /\ part = "kernels" =>
         /\ Kernels!TypeOK /\ Kernels!ResultIsSerial /\ Kernels!KernelIsSerial
         /\ Kernels!AttemptIsDiscarded /\ Kernels!LanesPartition
    /\ part = "extract" => Extract!TypeOK /\ Extract!ResultIsSerial /\ Extract!RowsKeepTheirMatches
    /\ part = "replace" => Replace!TypeOK /\ Replace!ResultIsSerial
    /\ part = "match" => Match!TypeOK /\ Match!ResultIsSerial
    /\ part = "splice" => Splice!TypeOK /\ Splice!AssemblyIsSplicing
    /\ part = "wrap" =>
         Wrap!TypeOK /\ Wrap!ResultIsSerial /\ Wrap!MergeAscends /\ Wrap!MergedChunksAreComplete
    /\ part = "joins" =>
         Joins!TypeOK /\ Joins!ResultIsJoined /\ Joins!MarksAreSound /\ Joins!BuffersAreFilled

\* A call fails exactly when that loop does, and raises the error of the loop's
\* first failure, although a worker of a later chunk may have failed first, and
\* although the arguments of every row are checked before any row is spliced.
\* Which error it is may differ in two cases: a list of patterns is applied
\* chunk by chunk, and the tags of all records are read before the region.
FailuresAreSerial ==
    /\ part = "replace" => Replace!FailureIsSerial
    /\ part = "match" => Match!FailureIsSerial
    /\ part = "splice" => Splice!ValidationLeavesNoError /\ Splice!OutcomeIsSerial

\* R sees the warnings of that loop up to its first failure, in its order,
\* although every worker counts or queues its own; a fault of the setup shows
\* none.  Excluded is a failure of native output that a later record's failure
\* on a worker hides (HiddenOutputFailure in ConversionWarnings).
WarningsAreSerial ==
    /\ part = "kernels" => Kernels!WarningsAreSerial
    /\ part = "replace" => Replace!WarningsAreSerial
    /\ part = "match" => Match!WarningsAreSerial
    /\ part = "splice" => Splice!FailureHidesLaterWarnings
    /\ part = "convert" =>
         Convert!TypeOK /\ Convert!EmissionIsSerial /\ Convert!SetupFailureIsSilent
         /\ Convert!RowsAscend

=============================================================================
