-------------------------- MODULE TextAlgorithms --------------------------
(***************************************************************************)
(* The algorithms on the text of single records: each is the loop of one   *)
(* thread, or, for the windows of ci_sub(), of the workers of a region.    *)
(* One of them runs in a behaviour; the others stay at their initial       *)
(* state.                                                                  *)
(***************************************************************************)
EXTENDS SubExtract, Utf8Indexer, SequencesExt, FiniteSetsExt

CONSTANTS
    Parts,              \* the parts explored
    MaxCount,           \* code points of an indexed text
    MaxSearched,        \* characters of a searched text
    MaxElements,        \* elements of a pattern with groups
    MaxPieces,          \* pieces of a wrapped record
    MaxStrings          \* strings ordered by one call

VARIABLES
    part,
    \* FixedMatcher
    use, fixed_pc, row, pattern_, kmp_next_, search_, search_pos_, search_end_,
    fixed_current, pattern_pos_, fixed_output, refused,
    \* CaptureNames
    elements, pos, naming_current, name, names, naming_pc,
    \* WordWrap
    setting, record, words, wrap_after, direct_end, passthrough, cost, best, breaks,
    wrapping_phase, column, plans,
    \* CollationOrdering
    ordering_call, hash, ordering_phase, keys, slots, step, slot, mismatches, probing,
    ordering_output, order

fixed == <<use, fixed_pc, row, pattern_, kmp_next_, search_, search_pos_, search_end_,
           fixed_current, pattern_pos_, fixed_output, refused>>
naming == <<elements, pos, naming_current, name, names, naming_pc>>
wrapping == <<setting, record, words, wrap_after, direct_end, passthrough, cost, best,
              breaks, wrapping_phase, column, plans>>
ordering == <<ordering_call, hash, ordering_phase, keys, slots, step, slot,
              mismatches, probing, ordering_output, order>>
window == <<call, crew, pc, out, negatives, index, kept>>
indexing == <<text, query, answer, last_forward, last_backward, walking, at>>
all_vars == <<part, window, indexing, fixed, naming, wrapping, ordering>>

-----------------------------------------------------------------------------
(* Substrings: ints of -8..7, so that every index and length near and      *)
(* beyond the ends of a text, and both ends of the ints, occur; and        *)
(* recycled calls of up to seven rows.                                     *)

SubCall(t, f, e, l, g) ==
    [texts |-> t, from |-> f, endpoint |-> e, by_length |-> l, ignore_negative |-> g]
Lengths(n) == {[k \in 1..n |-> IF k \in d THEN -1 ELSE IF k \in m THEN NA_INTEGER ELSE 1] :
                  d \in SUBSET (1..n), m \in {{}, {1}, {n}}}

SubCalls ==
    {SubCall(<<t>>, <<f>>, <<e>>, l, FALSE) :
       t \in {-1, 0, 3, 7}, f \in Int32, e \in Int32, l \in BOOLEAN}
    \cup
    {SubCall([k \in 1..s |-> IF k = x THEN -1 ELSE 2], <<1>>, e, TRUE, TRUE) :
       s \in 1..3, x \in 0..1, e \in UNION {Lengths(n) : n \in {1, 3}}}
    \cup
    {SubCall([k \in 1..s |-> 2], <<1>>, [k \in 1..n |-> IF k \in d THEN -1 ELSE 1], TRUE, TRUE) :
       s \in 1..4, n \in 5..7, d \in {{1}, {2, 5}}}
AnySubCall == SubCall(<<0>>, <<1>>, <<1>>, FALSE, FALSE)

(* The indexer: texts of code points of one byte, of two, and with one of  *)
(* two among them; the ASCII flag is only set on text that is ASCII.       *)

TextOf(k, wide, a) ==
    [count |-> k, ascii |-> a,
     offset |-> [i \in 0..k |-> i + Cardinality({j \in wide : j <= i})]]
IndexedTexts ==
    UNION {{TextOf(k, wide, FALSE) : wide \in {1..k, {}} \cup {{i} : i \in 1..k}}
             \cup {TextOf(k, {}, TRUE)} : k \in 0..MaxCount}
IndexedPositions == -1..(MaxCount + 1)
NoText == TextOf(0, {}, TRUE)

(* The fixed matcher: i, I and the dotless i, whose upper case is I and    *)
(* which has two bytes; and a.  All short texts, one in which the longest  *)
(* pattern is nearly found, and texts of delimiters.                       *)

Letters == [i |-> <<1>>, I |-> <<2>>, dotless |-> <<8, 9>>, a |-> <<3>>]
Upper == [i |-> "I", I |-> "I", dotless |-> "I", a |-> "a"]
Encoded(c) ==
    LET b(k) == FlattenSeq([j \in 1..k |-> Letters[c[j]]])
    IN [chars |-> c, bytes |-> b(Len(c)), offsets |-> [k \in 0..Len(c) |-> Len(b(k))]]

Written == <<<<"a">>, <<"I", "a">>, <<"i", "a", "i">>, <<"i", "i", "a">>,
             <<"dotless", "i">>, <<"i", "a", "i", "i">>, <<"i", "i">>>>
FixedPatterns == [p \in 1..Len(Written) |-> Encoded(Written[p])]

FixedUse(o, c, v, t) == [op |-> o, case_insensitive |-> c, overlap |-> v, tokens_only |-> t]
FixedUses ==
    {FixedUse("first", c, FALSE, FALSE) : c \in BOOLEAN}
    \cup {FixedUse("all", c, v, FALSE) : c \in BOOLEAN, v \in BOOLEAN}
    \cup {FixedUse("split", c, FALSE, t) : c \in BOOLEAN, t \in BOOLEAN}

FixedRow(s, p, n, o) == [subject |-> Encoded(s), pattern |-> p, n |-> n, omit_empty |-> o]
SearchRows ==
    {FixedRow(s, p, 0, FALSE) : p \in 1..6,
       s \in SeqOf({"i", "a"}, MaxSearched) \cup SeqOf({"i", "dotless", "a"}, MaxSearched - 1)
             \cup {<<"i", "i", "a", "i">>, <<"i", "a", "i", "a", "i", "i">>}}
SplitRows ==
    {FixedRow(s, 1, n, o) : n \in (-1)..2 \cup {5, 6}, o \in BOOLEAN,
       s \in SeqOf({"i", "a"}, MaxSearched - 1)
             \cup {<<"a", "a", "i">>, <<"a", "i", "a">>, <<"a", "a", "a">>, <<"i", "a", "a", "i">>}}
    \cup {FixedRow(s, 7, n, o) : n \in (-1)..2, o \in BOOLEAN,
            s \in {<<"i", "i">>, <<"i", "i", "i">>, <<"i", "i", "i", "i">>, <<"a", "i", "i", "a">>}}

FixedRows == [first |-> SearchRows, all |-> SearchRows, split |-> SplitRows]

Fixed == INSTANCE FixedMatcher
    WITH utf8 <- Letters, u_toupper <- Upper, Patterns <- FixedPatterns,
         Uses <- FixedUses, Rows <- FixedRows, ShortLimit <- 3, IntMax <- 7,
         pc <- fixed_pc, current <- fixed_current, output <- fixed_output

(* Names of capture groups: every pattern of so many elements that the     *)
(* compiler accepts.                                                       *)

Elements == {"literal", "escape", "class", "group", "cluster", "behind", "named_n",
             "named_m", "close"}

Names == INSTANCE CaptureNames
    WITH Patterns <- SeqOf(Elements, MaxElements), current <- naming_current,
         pc <- naming_pc

(* Wrapping: records of words, hyphens, wide characters and repeated       *)
(* spaces; a long line of plain words; a newline; nothing.                 *)

WrapSettings ==
    {[width |-> w, exponent |-> e, first |-> s[1], later |-> s[2],
      use_length |-> f = "length", whitespace_only |-> f = "whitespace"] :
        w \in {0, 4}, e \in {0, 1, 2}, s \in {<<0, 0>>, <<2, 0>>, <<0, 1>>},
        f \in {"plain", "length", "whitespace"}}

Pieces == {<<"x", " ">>, <<"x", "x", "x", " ">>, <<"x", "-">>, <<"w">>, <<" ">>}
WrapRecords ==
    {FlattenSeq(f) : f \in SeqOf(Pieces, MaxPieces)}
      \cup {<<"x", " ", "x", "x", " ", "x", " ", "x", "x", "x", " ", "x", " ", "x">>,
            <<"x", "\n", "x">>, <<"w", " ", "x", "\n">>}
AnySetting == CHOOSE s \in WrapSettings : TRUE
FurtherRecords == {<<>>, <<"x", " ", "x", "x", " ", "x", "x">>}

Wrapping == INSTANCE WordWrap
    WITH Settings <- WrapSettings, Records <- WrapRecords, Further <- FurtherRecords,
         MaxPlans <- 2, phase <- wrapping_phase

(* Collation: two spellings of a short string, another short one, and long *)
(* strings that share a prefix, two of them spellings with the same        *)
(* sample.  The case level tells spellings apart, against the order of     *)
(* their keys.                                                             *)

Collation(b, p, x, c, m) ==
    [bytes |-> b, place |-> p, cased |-> IF b \in {"a", "LONG"} THEN 9 - p ELSE p,
     prefix |-> x, complete |-> c, sample |-> m]
Collated ==
    {Collation("a", 1, 1, TRUE, 0), Collation("A", 1, 1, TRUE, 0), Collation("b", 2, 2, TRUE, 0),
     Collation("long", 3, 3, FALSE, 1), Collation("LONG", 3, 3, FALSE, 1),
     Collation("longer", 4, 3, FALSE, 1), Collation("longest", 5, 3, FALSE, 2)}
MissingString == [bytes |-> "NA"]

\* Everything collides, or short strings do with long ones.
Hashed == (0..3) \X (-1..2)
MixHashes == {[x \in Hashed |-> 7], [x \in Hashed |-> x[1] + x[2]]}

OrderCall(o, r, l, v, c, f) ==
    [op |-> o, reversed |-> r, na_last |-> l, values |-> v, case_level |-> c, fails |-> f]
Vectors(k) == SeqOf(Collated \cup {MissingString}, k)

OrderCalls ==
    {OrderCall("duplicated", r, "omit", v, FALSE, FALSE) : r \in BOOLEAN, v \in Vectors(MaxStrings)}
    \cup {OrderCall("duplicated", r, "omit", v, TRUE, f) :
            r \in BOOLEAN, v \in Vectors(MaxStrings - 1), f \in BOOLEAN}
    \cup {OrderCall("order", r, l, v, c, FALSE) :
            r \in BOOLEAN, l \in {"first", "last", "omit"}, v \in Vectors(MaxStrings - 1),
            c \in BOOLEAN}
    \cup {OrderCall("order", r, "last", v, FALSE, TRUE) : r \in BOOLEAN, v \in Vectors(MaxStrings - 1)}
    \cup {OrderCall("rank", FALSE, "omit", v, FALSE, FALSE) : v \in Vectors(MaxStrings)}
    \cup {OrderCall("rank", FALSE, "omit", v, c, ~c) : v \in Vectors(MaxStrings - 1), c \in BOOLEAN}
    \cup {OrderCall("duplicated", r, "omit", v, FALSE, FALSE) :
            r \in BOOLEAN, v \in [1..(MaxStrings + 1) -> {s \in Collated : ~s.complete}]}
    \cup {OrderCall("rank", FALSE, "omit", <<MissingString, [bytes |-> "bytes"]>>, FALSE, FALSE)}
AnyOrderCall == OrderCall("duplicated", FALSE, "omit", <<>>, FALSE, FALSE)

Ordering == INSTANCE CollationOrdering
    WITH Strings <- Collated, Calls <- OrderCalls, Hashes <- MixHashes,
         ProbeLimit <- 2, call <- ordering_call, phase <- ordering_phase,
         output <- ordering_output

-----------------------------------------------------------------------------
ASSUME InputsAssumption ==
    /\ Parts \subseteq {"window", "indexing", "fixed", "naming", "wrapping", "ordering"}
    /\ Fixed!TextAssumption /\ Wrapping!WrapAssumption
    /\ Ordering!OrderingAssumption

\* A part that does not run has some input.
Waiting(p, v, x) == part # p => v = x

AlgorithmsInit ==
    /\ part \in Parts
    /\ Waiting("window", call, AnySubCall) /\ Waiting("window", crew, Workers) /\ Init
    /\ Waiting("indexing", text, NoText) /\ IndexerInit
    /\ Waiting("fixed", use, FixedUse("first", FALSE, FALSE, FALSE)) /\ Fixed!Init
    /\ Waiting("naming", elements, <<>>) /\ Names!Init
    /\ Waiting("wrapping", setting, AnySetting) /\ Wrapping!Init
    /\ Waiting("ordering", ordering_call, AnyOrderCall)
    /\ Waiting("ordering", hash, [x \in Hashed |-> 7]) /\ Ordering!Init
    /\ ordering_call.op # "duplicated" => hash = [x \in Hashed |-> 7]

AlgorithmsNext ==
    \/ /\ part = "window" /\ Next
       /\ UNCHANGED <<part, indexing, fixed, naming, wrapping, ordering>>
    \/ /\ part = "indexing" /\ IndexerNext
       /\ UNCHANGED <<part, window, fixed, naming, wrapping, ordering>>
    \/ /\ part = "fixed" /\ Fixed!Next
       /\ UNCHANGED <<part, window, indexing, naming, wrapping, ordering>>
    \/ /\ part = "naming" /\ Names!Next
       /\ UNCHANGED <<part, window, indexing, fixed, wrapping, ordering>>
    \/ /\ part = "wrapping" /\ Wrapping!Next
       /\ UNCHANGED <<part, window, indexing, fixed, naming, ordering>>
    \/ /\ part = "ordering" /\ Ordering!Next
       /\ UNCHANGED <<part, window, indexing, fixed, naming, wrapping>>

\* These are loops of one thread, which runs until they end; when a matcher or
\* an indexer is asked next is not up to it.
Fairness ==
    /\ WF_window(part = "window" /\ pc # "done" /\ Next)
    /\ WF_fixed(part = "fixed" /\ fixed_pc # "idle" /\ Fixed!Next)
    /\ WF_naming(part = "naming" /\ Names!Next)
    /\ WF_ordering(part = "ordering" /\ ordering_phase \notin {"returned", "raised"} /\ Ordering!Next)

AlgorithmsSpec == AlgorithmsInit /\ [][AlgorithmsNext]_all_vars /\ Fairness

-----------------------------------------------------------------------------
\* Whatever a matcher searched for before, and whichever of its ways of
\* searching it takes, the matches and fields of a row are those of their
\* definition, and the table it keeps is the one it would build again
\* (FixedMatcher).
\* However groups nest and whatever classes hold, a name is given only to the
\* group that has it, and every named group gets its name when plain groups
\* start with a character of their own (capture_names).
SearchesAreExact ==
    /\ part = "fixed" =>
         Fixed!TypeOK /\ Fixed!SearchIsExact /\ Fixed!SplitIsExact /\ Fixed!PrefixIsLongest
    /\ part = "naming" => Names!TypeOK /\ Names!NamesAreSound /\ Names!NamesAreFound

\* An engine that plans one record after another wraps each as if it were its
\* first: the lines tile the record, the greedy plan fills every line, the
\* dynamic plan has the least cost of all plans and reads no cell it has not
\* written, and the fast path for plain words gives the plan of the slow one
\* (shared/wrap).
WrapIsRight ==
    part = "wrapping" =>
        /\ Wrapping!TypeOK /\ Wrapping!LinesTileRecord /\ Wrapping!GreedyFillsLines
        /\ Wrapping!DynamicIsOptimal /\ Wrapping!NoStaleCost /\ Wrapping!FastPathIsWordPath

\* Whatever hashes collide and wherever the probing table gives up, a string is
\* marked a duplicate exactly if one that compares equal came before it, an order
\* is stable in both directions, and equal strings share the least rank
\* (ci_duplicated, ci_order, ci_rank).
OrderIsRight ==
    part = "ordering" =>
        /\ Ordering!TypeOK /\ Ordering!MarksAreRight /\ Ordering!DuplicatesAreExact
        /\ Ordering!TableIsSound /\ Ordering!OrderIsStable /\ Ordering!RanksAreMinimal

\* Every loop comes to its end: the recycled order of ci_sub() reaches every row,
\* a match and a dropped field move a search on, every element moves the scan of
\* a pattern on, and the walk through the probing table meets a free slot.
LoopsEnd ==
    /\ part = "window" => CallEnds
    /\ part = "fixed" => Fixed!RowsReturn
    /\ part = "naming" => Names!ScanEnds
    /\ part = "ordering" => Ordering!CallsReturn

\* str_match() names its columns after the named groups: every one of them has
\* its name once the scan is done (R/match.R, lines 18 and 19).
ColumnsAreNamed == part = "naming" => Names!ColumnsAreNamed

=============================================================================
