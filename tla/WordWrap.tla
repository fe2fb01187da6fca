------------------------------ MODULE WordWrap ------------------------------
(***************************************************************************)
(* The line planner of src/shared/wrap.cpp: Engine::plan() cuts a record   *)
(* into words and decides after which of them a line ends, greedily or by  *)
(* least cost, and Engine::line() of wrap.h reads the lines back.  One     *)
(* engine plans many records, so everything a plan leaves behind is state. *)
(*                                                                         *)
(* A record, as prepare_record() leaves it, is a sequence of character     *)
(* classes; a position counts characters, not bytes.                       *)
(***************************************************************************)
EXTENDS Integers, Sequences, FiniteSetsExt

CONSTANTS
    Settings,   \* the Options and line starts explored, see IsSetting
    Records,    \* the records an engine plans first
    MaxPlans,   \* plans made by one engine
    Further     \* the records it plans after the first

VARIABLES
    setting,        \* options_ and the widths of the line starts
    record,         \* record_data_
    words,          \* end_orig_, end_trim_, widths_orig_, widths_trim_
    wrap_after,     \* the words after which a line ends, an ascending vector
    direct_end,     \* where a record that fits at once ends, or -1
    passthrough,    \* a record without words is output as it is
    cost, best, breaks,     \* the matrices of dynamic()
    phase,          \* where plan() is
    column,         \* the loop variable of dynamic()
    plans           \* how many plans were begun

scratch == <<cost, best, breaks, column>>
vars == <<setting, record, words, wrap_after, direct_end, passthrough,
          scratch, phase, plans>>

\* A letter, a hyphen, a space, a wide character outside ASCII, a newline.
Char == {"x", "-", " ", "w", "\n"}
IsSetting(s) ==
    /\ {s.width, s.exponent, s.first, s.later} \subseteq Nat
    /\ {s.use_length, s.whitespace_only} \subseteq BOOLEAN

WrapAssumption ==
    /\ MaxPlans \in Nat /\ \A s \in Settings : IsSetting(s)
    /\ \A r \in Records \cup Further : r \in Seq(Char)

Whitespace == {" ", "\n"}
Length == Len(record)
Ascii == \A p \in 1..Length : record[p] # "w"

-----------------------------------------------------------------------------
(* Words and their widths.                                                 *)

character_width(c) == IF c = "w" THEN 2 ELSE IF c = "\n" THEN 0 ELSE 1
Size(c) == IF setting.use_length THEN 1 ELSE character_width(c)
Measure(b, e) == Cardinality({<<p, u>> \in ((b + 1)..e) \X {1, 2} : u <= Size(record[p])})

\* ICU's line breaks: after a newline, and after spaces or a hyphen that
\* something else follows.
Matches ==
    {p \in 1..Length :
        \/ p = Length \/ record[p] = "\n"
        \/ record[p] \in {" ", "-"} /\ record[p + 1] \notin Whitespace}

Accepted ==
    {p \in Matches : setting.whitespace_only /\ p < Length
                       => record[p] \in Whitespace}

\* Only the last character of a word is trimmed.
add_word(b, e) ==
    LET dropped == IF record[e] \in Whitespace THEN 1 ELSE 0
    IN [begin |-> b, end |-> e, end_trim |-> e - dropped,
        orig |-> Measure(b, e), trim |-> Measure(b, e - dropped)]

WordsOf ==
    [k \in 0..(Cardinality(Accepted) - 1) |->
        LET e == CHOOSE p \in Accepted : Cardinality({q \in Accepted : q < p}) = k
        IN add_word(Max({0} \cup {q \in Accepted : q < e}), e)]

Count == Cardinality(DOMAIN words)
LastWord == Count - 1

ascii_end == Length - (IF record[Length] \in Whitespace THEN 1 ELSE 0)

\* Whether an ASCII record fits, found without looking for words.
ascii_fits ==
    /\ Length > 0 /\ Ascii
    /\ setting.first + Measure(0, ascii_end) <= setting.width

fits_one_line(ws) ==
    LET n == Cardinality(DOMAIN ws)
    IN setting.first + MapThenSumSet(LAMBDA k : ws[k].orig, DOMAIN ws)
         - (ws[n - 1].orig - ws[n - 1].trim) <= setting.width

-----------------------------------------------------------------------------
(* Where lines end.                                                        *)

greedy(ws) ==
    LET n == Cardinality(DOMAIN ws)
        pass[i \in 0..(n - 1)] ==
          IF i = 0 THEN [current |-> setting.first + ws[0].orig, after |-> {}]
          ELSE IF pass[i - 1].current + ws[i].trim > setting.width
          THEN [current |-> setting.later + ws[i].orig,
                after |-> pass[i - 1].after \cup {i - 1}]
          ELSE [pass[i - 1] EXCEPT !.current = @ + ws[i].orig]
    IN pass[n - 1].after

\* std::pow() with a whole exponent
pow(x) == x ^ setting.exponent

\* What a line that runs from word i to word j leaves.
remaining(i, j) ==
    setting.width - MapThenSumSet(LAMBDA k : words[k].orig, i..(j - 1))
      - words[j].trim - (IF i = 0 THEN setting.first ELSE setting.later)

\* The cost of that line, or -1.  Once a line is too long it stays so; a word
\* of its own is never too long, and the last line costs nothing.
line_cost(i, j) ==
    IF \E k \in (i + 1)..j : remaining(i, k) < 0 THEN -1
    ELSE IF j = LastWord \/ remaining(i, j) < 0 THEN 0
    ELSE pow(remaining(i, j))

Cell(i, j) == i * Count + j

\* resize() keeps what it can of the old matrix, and the loops write only the
\* cells on and above the diagonal.
Dynamic ==
    /\ phase = "dynamic"
    /\ cost' = [c \in 0..(Count * Count - 1) |->
                  IF c \div Count <= c % Count THEN line_cost(c \div Count, c % Count)
                  ELSE IF c \in DOMAIN cost THEN cost[c] ELSE 0]
    /\ best' = [k \in 0..LastWord |-> IF k \in DOMAIN best THEN best[k] ELSE 0]
    /\ breaks' = [k \in 0..LastWord |-> {}]
    /\ column' = 0
    /\ phase' = "best"
    /\ UNCHANGED <<setting, record, words, wrap_after, direct_end, passthrough, plans>>

\* The first word after which the last line up to this column may begin.
first_break ==
    Min({i \in 0..column : Cell(i + 1, column) \in DOMAIN cost
                           /\ cost[Cell(i + 1, column)] >= 0} \cup {column + 1})

candidate(k) == best[k] + cost[Cell(k + 1, column)]

\* Mutant: the longest possible last line is taken without comparing.
chosen_break_first == first_break

\* The first of the cheapest breaks.
chosen_break ==
    LET Lines == {k \in first_break..(column - 1) : cost[Cell(k + 1, column)] >= 0}
    IN CHOOSE k \in Lines :
         \A h \in Lines : candidate(k) <= candidate(h)
                            /\ (candidate(k) = candidate(h) => k <= h)

\* One column of the second loop; a column of the bit matrix breaks_ is a set.
Best ==
    /\ phase = "best" /\ column <= LastWord
    /\ IF cost[Cell(0, column)] >= 0
       THEN /\ best' = [best EXCEPT ![column] = cost[Cell(0, column)]]
            /\ UNCHANGED breaks
       ELSE /\ first_break < column
            /\ best' = [best EXCEPT ![column] = candidate(chosen_break)]
            /\ breaks' = [breaks EXCEPT ![column] =
                            {k \in breaks[chosen_break] : k < chosen_break}
                              \cup {chosen_break}]
    /\ column' = column + 1
    /\ UNCHANGED <<setting, record, words, wrap_after, direct_end, passthrough,
                   cost, phase, plans>>

BestDone ==
    /\ phase = "best" /\ column > LastWord
    /\ wrap_after' = wrap_after \cup breaks[LastWord]
    /\ phase' = "planned"
    /\ UNCHANGED <<setting, record, words, direct_end, passthrough, scratch, plans>>

-----------------------------------------------------------------------------
(* Engine::plan()                                                          *)

NoWords == [k \in {} |-> 0]

Init ==
    /\ setting \in Settings
    /\ record = <<>> /\ words = NoWords /\ wrap_after = {}
    /\ direct_end = -1 /\ passthrough = FALSE
    /\ cost = <<>> /\ best = <<>> /\ breaks = <<>> /\ column = 0
    /\ phase = "ready" /\ plans = 0

\* clear_words() and the resets, then prepare_record().
Begin(r) ==
    /\ phase \in {"ready", "planned"} /\ plans < MaxPlans
    /\ record' = r /\ words' = NoWords /\ wrap_after' = {}
    /\ direct_end' = -1 /\ passthrough' = FALSE
    /\ phase' = "prepared" /\ plans' = plans + 1
    /\ UNCHANGED <<setting, scratch>>

\* A newline met by ascii_fits() or add_word() ends the call.
Throw ==
    /\ phase = "prepared"
    /\ \E p \in 1..Length : record[p] = "\n"
    /\ phase' = "thrown"
    /\ UNCHANGED <<setting, record, words, wrap_after, direct_end, passthrough,
                   scratch, plans>>

NoNewline == \A p \in 1..Length : record[p] # "\n"

FitDirectly ==
    /\ phase = "prepared" /\ NoNewline /\ ascii_fits
    /\ direct_end' = ascii_end
    /\ phase' = "planned"
    /\ UNCHANGED <<setting, record, words, wrap_after, passthrough, scratch, plans>>

\* The words, and with them one line, the greedy lines or the matrices.
CutWords ==
    /\ phase = "prepared" /\ NoNewline /\ ~ascii_fits
    /\ words' = WordsOf
    /\ passthrough' = (WordsOf = NoWords)
    /\ LET several == WordsOf # NoWords /\ ~fits_one_line(WordsOf)
       IN /\ wrap_after' = IF several /\ setting.exponent = 0
                           THEN wrap_after \cup greedy(WordsOf) ELSE wrap_after
          /\ phase' = IF several /\ setting.exponent > 0 THEN "dynamic" ELSE "planned"
    /\ UNCHANGED <<setting, record, direct_end, scratch, plans>>

Finished == (phase = "thrown" \/ (phase = "planned" /\ plans = MaxPlans)) /\ UNCHANGED vars

Next ==
    \/ \E r \in IF plans = 0 THEN Records ELSE Further : Begin(r)
    \/ Throw \/ FitDirectly \/ CutWords
    \/ Dynamic \/ Best \/ BestDone
    \/ Finished

Spec == Init /\ [][Next]_vars

-----------------------------------------------------------------------------
(* Engine::line(): the body of line k, without its start.                  *)

line_count == Cardinality(wrap_after) + 1
Nth(k) == CHOOSE w \in wrap_after : Cardinality({v \in wrap_after : v < w}) = k

line(k) ==
    IF passthrough THEN [begin |-> 0, end |-> Length]
    ELSE IF direct_end >= 0 THEN [begin |-> 0, end |-> direct_end]
    ELSE [begin |-> IF k = 0 THEN 0 ELSE words[Nth(k - 1)].end,
          end |-> words[IF k < line_count - 1 THEN Nth(k) ELSE LastWord].end_trim]

-----------------------------------------------------------------------------
(* Properties.                                                             *)

\* Every variable has its type; a word ends after it begins.
TypeOK ==
    /\ setting \in Settings /\ record \in Records \cup Further \cup {<<>>}
    /\ \A k \in DOMAIN words : /\ words[k].begin < words[k].end
                               /\ words[k].end_trim \in words[k].begin..words[k].end
                               /\ words[k].trim <= words[k].orig
    /\ wrap_after \subseteq Nat /\ direct_end \in -1..Length
    /\ passthrough \in BOOLEAN /\ column \in Nat /\ plans \in 0..MaxPlans
    /\ phase \in {"ready", "prepared", "dynamic", "best", "planned", "thrown"}

\* The lines of a planned record are the record, in order, but for at most one
\* whitespace character at the end of each, whatever the engine planned before:
\* line() never subtracts a larger position from a smaller one.
LinesTileRecord ==
    phase = "planned" =>
      /\ wrap_after \subseteq 0..(LastWord - 1)
      /\ line(0).begin = 0
      /\ \A k \in 0..(line_count - 1) :
           LET next == IF k < line_count - 1 THEN line(k + 1).begin ELSE Length
           IN /\ line(k).begin <= line(k).end
              /\ line(k).end \in (next - 1)..next
              /\ line(k).end < next => record[next] \in Whitespace

\* What the characters of a line with words i to j measure, its start included.
LineWidth(i, j) ==
    (IF i = 0 THEN setting.first ELSE setting.later)
      + Measure(words[i].begin, words[j].end_trim)
Fits(i, j) == LineWidth(i, j) <= setting.width

\* The lines <<i, j>> a set of breaks makes.
LinesOf(B) == {<<i, j>> \in (DOMAIN words) \X (DOMAIN words) :
                 /\ i <= j
                 /\ i = 0 \/ i - 1 \in B
                 /\ j = LastWord \/ j \in B
                 /\ \A k \in i..(j - 1) : k \notin B}
Allowed(B) == \A l \in LinesOf(B) : l[1] = l[2] \/ Fits(l[1], l[2])
CostOf(B) ==
    MapThenSumSet(LAMBDA l : IF l[2] = LastWord \/ ~Fits(l[1], l[2]) THEN 0
                             ELSE pow(setting.width - LineWidth(l[1], l[2])),
                  LinesOf(B))

Cut == phase = "planned" /\ words # NoWords

\* The greedy plan fills every line: no line could take the word that begins
\* the next one, and only a single word may be too wide for its line.
GreedyFillsLines ==
    Cut /\ setting.exponent = 0 =>
      /\ Allowed(wrap_after)
      /\ \A l \in LinesOf(wrap_after) : l[2] < LastWord => ~Fits(l[1], l[2] + 1)

\* The dynamic plan is one of the cheapest among all the ways to cut the words
\* into lines that are allowed, although dynamic() prices a whole prefix on one
\* line without looking for a cheaper cut.
DynamicIsOptimal ==
    Cut /\ setting.exponent > 0 =>
      /\ Allowed(wrap_after)
      /\ \A B \in SUBSET (0..(LastWord - 1)) :
           Allowed(B) => CostOf(wrap_after) <= CostOf(B)

\* In every column dynamic() finds a line that ends there before it would read
\* a cell below the diagonal, which resize() left as an earlier record had it.
NoStaleCost ==
    phase = "best" /\ column <= LastWord /\ cost[Cell(0, column)] < 0 =>
      first_break < column

\* ascii_fits() accepts exactly the ASCII records that the words would have
\* put on one line, and ends the line where the last word's does.
FastPathIsWordPath ==
    /\ phase = "planned" /\ direct_end >= 0 =>
         /\ fits_one_line(WordsOf)
         /\ direct_end = WordsOf[Cardinality(DOMAIN WordsOf) - 1].end_trim
    /\ Cut /\ Ascii => ~Fits(0, LastWord)

=============================================================================
