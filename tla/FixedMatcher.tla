---------------------------- MODULE FixedMatcher ----------------------------
(***************************************************************************)
(* Searching and splitting by a fixed pattern: FixedMatcher of             *)
(* src/shared/fixed_search.cpp, the ByteSearchMatcher it keeps             *)
(* (src/shared/byte_search_matcher.h) and split_exact_byte() of            *)
(* src/shared/fixed_search.h.                                              *)
(*                                                                         *)
(* A loop over rows owns one matcher and asks it, row after row, about     *)
(* recycled subjects and patterns; the matcher keeps its table as long as  *)
(* the pattern stays the same string.  Text is a sequence of characters,   *)
(* each of one or more bytes; positions are byte offsets, as in the code.  *)
(* find_last() has no caller and is left out.                              *)
(***************************************************************************)
EXTENDS Integers, SequencesExt, FiniteSetsExt

CONSTANTS
    utf8,           \* the bytes of each character
    u_toupper,      \* ICU's simple upper case mapping
    Patterns,       \* the pattern vector; an index stands for the pointer
    Uses,           \* what a loop does with its matcher, see IsUse
    Rows,           \* the rows a loop may meet, by operation, see IsRow
    ShortLimit,     \* patterns of fewer bytes are searched without a table
    IntMax          \* the largest int

VARIABLES
    use,            \* the operation and its options, fixed for a matcher
    pc,             \* where the row is
    row,            \* its arguments
    pattern_,       \* the pattern the matcher was built for, 0 for none
    kmp_next_,      \* its table, or Unprepared
    search_, search_pos_, search_end_,  \* the subject and the last match
    current, pattern_pos_,              \* the loop of the search
    output,         \* the ranges found, or the fields
    refused         \* split() returned limit_too_large

matcher == <<pattern_, kmp_next_, search_, search_pos_, search_end_>>
vars == <<use, pc, row, matcher, current, pattern_pos_, output, refused>>

\* A string: its characters, its bytes, and the offset behind each character.
Text(c) ==
    LET b(k) == FlattenSeq([j \in 1..k |-> utf8[c[j]]])
    IN [chars |-> c, bytes |-> b(Len(c)), offsets |-> [k \in 0..Len(c) |-> Len(b(k))]]
IsText(t) == t.chars \in Seq(DOMAIN utf8) /\ t = Text(t.chars)
length(t) == Len(t.bytes)

IsUse(u) == u.op \in {"first", "all", "split"}
            /\ {u.case_insensitive, u.overlap, u.tokens_only} \subseteq BOOLEAN
            \* only counting, locating and extracting all matches take overlap
            /\ u.op # "all" => ~u.overlap

IsRow(r) == /\ IsText(r.subject) /\ r.pattern \in DOMAIN Patterns
            /\ r.n \in Int /\ r.n <= IntMax /\ r.omit_empty \in BOOLEAN

TextAssumption ==
    /\ \A c \in DOMAIN utf8 : utf8[c] # <<>> /\ u_toupper[c] \in DOMAIN utf8
    /\ \A p \in DOMAIN Patterns : IsText(Patterns[p]) /\ Patterns[p].bytes # <<>>
    /\ ShortLimit > 1
    /\ \A u \in Uses : IsUse(u) /\ \A r \in Rows[u.op] : IsRow(r)

NoRow == [subject |-> Text(<<>>), pattern |-> 1, n |-> 0, omit_empty |-> FALSE]
Unprepared == <<>>
FixedRange(a, b) == [start |-> a, end |-> b]

-----------------------------------------------------------------------------
(* Text.                                                                   *)

\* The characters before a byte offset; offsets is a function of their number.
before(t, i) == CHOOSE k \in DOMAIN t.offsets : t.offsets[k] = i

U8_FWD_1(t, i) == IF i = length(t) THEN i ELSE t.offsets[before(t, i) + 1]

-----------------------------------------------------------------------------
(* ByteSearchMatcher                                                       *)

folded == use.case_insensitive

strategy(p) ==
    CASE folded -> "kmp"
      [] length(p) = 1 -> "single_byte"
      [] length(p) < ShortLimit -> "short_pattern"
      [] OTHER -> "kmp"

\* What the table is built over: bytes, or upper case characters.
folds(chars) == [k \in 1..Len(chars) |-> u_toupper[chars[k]]]
units(t) == IF folded THEN folds(t.chars) ELSE t.bytes
pattern_units == units(Patterns[pattern_])

\* prepare_kmp_forward()
kmp_table(p) ==
    LET next[i \in 0..Len(p)] ==
          IF i = 0 THEN -1
          ELSE LET fall[v \in 0..i] ==
                     IF v > 0 /\ p[i] # p[v] THEN fall[next[v - 1] + 1] ELSE v
               IN fall[next[i - 1] + 1]
    IN next

reset(t) ==
    search_' = t /\ search_pos_' = -1 /\ search_end_' = -1

miss ==
    /\ search_pos_' = length(search_) /\ search_end_' = length(search_)
    /\ pc' = "missed"

hit(a, b) ==
    search_pos_' = a /\ search_end_' = b /\ pc' = "found"

\* Mutant: overlaps are skipped although asked for.
find_next_apart == IF search_pos_ < 0 THEN 0 ELSE search_end_

\* Where find_next() starts.
find_next ==
    IF search_pos_ < 0 THEN 0
    ELSE IF ~use.overlap THEN search_end_
    ELSE U8_FWD_1(search_, search_pos_)

\* find_from_pos_single_byte() and find_from_pos_short(): memchr() and memcmp()
\* stop at the first place where the pattern stands.
FindBytes ==
    /\ pc = "find" /\ strategy(Patterns[pattern_]) # "kmp"
    /\ LET p == Patterns[pattern_].bytes
           text == search_.bytes
           hits == {i \in find_next..(Len(text) - Len(p)) :
                      SubSeq(text, i + 1, i + Len(p)) = p}
       IN IF hits = {} THEN miss ELSE hit(Min(hits), Min(hits) + Len(p))
    /\ UNCHANGED <<use, row, pattern_, kmp_next_, search_, current, pattern_pos_,
                   output, refused>>

\* The table is built by the first search only.
FindKmp ==
    /\ pc = "find" /\ strategy(Patterns[pattern_]) = "kmp"
    /\ kmp_next_' = IF search_pos_ < 0 /\ kmp_next_ = Unprepared
                    THEN kmp_table(pattern_units) ELSE kmp_next_
    /\ current' = find_next /\ pattern_pos_' = 0
    /\ pc' = "kmp"
    /\ UNCHANGED <<use, row, pattern_, search_, search_pos_, search_end_, output, refused>>

\* One unit of the subject, and the offset behind it.
unit == IF folded THEN u_toupper[search_.chars[before(search_, current) + 1]]
        ELSE search_.bytes[current + 1]
behind == IF folded THEN U8_FWD_1(search_, current) ELSE current + 1

\* Where the match that ends at behind begins: as many characters back as the
\* folded pattern has, which may be other bytes than the pattern's.
matched_from ==
    IF folded THEN search_.offsets[before(search_, behind) - Len(pattern_units)]
    ELSE behind - Len(pattern_units)

pattern_pos_after(u) ==
    LET back[q \in -1..(Len(pattern_units) - 1)] ==
          IF q >= 0 /\ pattern_units[q + 1] # u THEN back[kmp_next_[q]] ELSE q
    IN back[pattern_pos_] + 1

KmpStep ==
    /\ pc = "kmp" /\ current < length(search_)
    /\ pattern_pos_' = pattern_pos_after(unit)
    /\ current' = behind
    /\ IF pattern_pos_' = Len(pattern_units) THEN hit(matched_from, behind)
       ELSE UNCHANGED <<pc, search_pos_, search_end_>>
    /\ UNCHANGED <<use, row, pattern_, kmp_next_, search_, output, refused>>

KmpMiss ==
    /\ pc = "kmp" /\ current = length(search_)
    /\ miss
    /\ UNCHANGED <<use, row, pattern_, kmp_next_, search_, current, pattern_pos_,
                   output, refused>>

-----------------------------------------------------------------------------
(* FixedMatcher                                                            *)

Init ==
    /\ use \in Uses
    /\ pc = "idle" /\ row = NoRow
    /\ pattern_ = 0 /\ kmp_next_ = Unprepared
    /\ search_ = Text(<<>>) /\ search_pos_ = -1 /\ search_end_ = -1
    /\ current = 0 /\ pattern_pos_ = -1
    /\ output = <<>> /\ refused = FALSE

\* The matcher is built again only for another pattern.
prepare(p) ==
    IF pattern_ = p THEN UNCHANGED <<pattern_, kmp_next_>>
    ELSE pattern_' = p /\ kmp_next_' = Unprepared

limit(r) == IF r.n < 0 THEN IntMax ELSE r.n

search_limit(r) ==
    IF use.tokens_only /\ limit(r) < IntMax THEN limit(r) + 1 ELSE limit(r)

exact_byte(r) ==
    use.op = "split" /\ ~folded /\ length(Patterns[r.pattern]) = 1

\* split() with a limit it refuses, or nothing to search.
StartNothing(r) ==
    /\ \/ use.op = "split" /\ (r.n >= IntMax - 1 \/ r.n = 0)
       \/ length(r.subject) = 0
    /\ row' = r /\ output' = <<>>
    /\ refused' = (use.op = "split" /\ r.n >= IntMax - 1)
    /\ pc' = "returned"
    /\ UNCHANGED <<use, matcher, current, pattern_pos_>>

\* A single byte is split without the matcher, which is left as it was.
Start(r) ==
    /\ use.op = "split" => r.n < IntMax - 1 /\ r.n # 0
    /\ length(r.subject) # 0
    /\ row' = r
    /\ output' = IF use.op = "split" THEN <<FixedRange(0, 0)>> ELSE <<>>
    /\ IF exact_byte(r)
       THEN UNCHANGED <<matcher, pattern_pos_>> /\ current' = 0
       ELSE prepare(r.pattern) /\ reset(r.subject) /\ pattern_pos_' = -1
            /\ UNCHANGED current
    /\ pc' = IF use.op = "split" /\ search_limit(r) <= 1 THEN "close"
             ELSE IF exact_byte(r) THEN "exact" ELSE "find"
    /\ UNCHANGED <<use, refused>>

\* The fields once a delimiter is found at a up to b.
fields_after(a, b) ==
    IF row.omit_empty /\ Last(output).start = a
    THEN ReplaceAt(output, Len(output), FixedRange(b, Last(output).end))
    ELSE Append(ReplaceAt(output, Len(output), FixedRange(Last(output).start, a)), FixedRange(b, b))

\* find_first() and contains() return at once; find_all() and count() go on.
Found ==
    /\ pc = "found"
    /\ LET range == FixedRange(search_pos_, search_end_)
           fields == fields_after(search_pos_, search_end_)
       IN CASE use.op = "first" -> output' = <<range>> /\ pc' = "returned"
            [] use.op = "all" -> output' = Append(output, range) /\ pc' = "find"
            [] OTHER -> /\ output' = fields
                        /\ pc' = IF Len(fields) < search_limit(row) THEN "find"
                                 ELSE "close"
    /\ UNCHANGED <<use, row, matcher, current, pattern_pos_, refused>>

Missed ==
    /\ pc = "missed"
    /\ pc' = IF use.op = "split" THEN "close" ELSE "returned"
    /\ UNCHANGED <<use, row, matcher, current, pattern_pos_, output, refused>>

\* One memchr() of split_exact_byte(); current is its search_from.
SplitExactByte ==
    /\ pc = "exact"
    /\ LET text == row.subject.bytes
           hits == {i \in current..(Len(text) - 1) :
                      text[i + 1] = Patterns[row.pattern].bytes[1]}
           fields == fields_after(Min(hits), Min(hits) + 1)
       IN IF hits = {} THEN pc' = "close" /\ UNCHANGED <<current, output>>
          ELSE /\ output' = fields /\ current' = Min(hits) + 1
               /\ pc' = IF Len(fields) < search_limit(row) THEN "exact" ELSE "close"
    /\ UNCHANGED <<use, row, matcher, pattern_pos_, refused>>

\* The last field runs to the end, unless it is empty and omitted, and tokens
\* are cut to the limit.
Close ==
    /\ pc = "close"
    /\ LET last == FixedRange(Last(output).start, length(row.subject))
           all == IF row.omit_empty /\ last.start = last.end THEN Front(output)
                  ELSE ReplaceAt(output, Len(output), last)
       IN output' = IF use.tokens_only /\ Len(all) > limit(row)
                    THEN SubSeq(all, 1, limit(row)) ELSE all
    /\ pc' = "returned"
    /\ UNCHANGED <<use, row, matcher, current, pattern_pos_, refused>>

Return ==
    /\ pc = "returned"
    /\ pc' = "idle" /\ row' = NoRow /\ output' = <<>> /\ refused' = FALSE
    /\ current' = 0
    /\ UNCHANGED <<use, matcher, pattern_pos_>>

Step ==
    \/ FindBytes \/ FindKmp \/ KmpStep \/ KmpMiss
    \/ Found \/ Missed \/ SplitExactByte \/ Close \/ Return

NextRow == pc = "idle" /\ \E r \in Rows[use.op] : StartNothing(r) \/ Start(r)

Next == Step \/ NextRow

\* A row's search is a loop of its own thread.
Spec == Init /\ [][Next]_vars /\ WF_vars(Step)

-----------------------------------------------------------------------------
(* Properties.                                                             *)

\* Every variable has its type, and the fields stay below the search limit.
TypeOK ==
    /\ use \in Uses /\ refused \in BOOLEAN
    /\ pc \in {"idle", "find", "kmp", "found", "missed", "exact", "close", "returned"}
    /\ pattern_ \in 0..Len(Patterns) /\ pattern_pos_ \in Int
    /\ search_pos_ <= search_end_ /\ search_end_ <= length(search_)
    /\ \A k \in 1..Len(output) : output[k].start \in Nat /\ output[k].end \in Nat
    /\ pc # "returned" /\ use.op = "split" => Len(output) <= search_limit(row)

\* Every place the pattern stands, found by looking at all of them.
Places ==
    LET s == row.subject
        p == Patterns[row.pattern]
        stands(j, k) ==
          IF folded THEN folds(SubSeq(s.chars, j + 1, k)) = folds(p.chars)
          ELSE SubSeq(s.bytes, s.offsets[j] + 1, s.offsets[k]) = p.bytes
        at == {jk \in (0..Len(s.chars)) \X (0..Len(s.chars)) :
                 jk[1] < jk[2] /\ stands(jk[1], jk[2])}
    IN {FixedRange(s.offsets[jk[1]], s.offsets[jk[2]]) : jk \in at}

\* Those a search from left to right meets, with or without overlaps.
Matches ==
    LET places == Places
        from[i \in 0..length(row.subject)] ==
          LET rest == {r \in places : r.start >= i}
              r == CHOOSE r \in rest : \A q \in rest : r.start <= q.start
          IN IF rest = {} THEN <<>>
             ELSE <<r>> \o from[IF use.overlap THEN r.start + 1 ELSE r.end]
    IN from[0]

\* Whatever the matcher was asked before, and whichever of its three ways of
\* searching it takes, a row gets the leftmost match, or all of them in order.
SearchIsExact ==
    pc = "returned" /\ use.op # "split" =>
      output = IF use.op = "first" /\ Matches # <<>> THEN <<Matches[1]>> ELSE Matches

\* The subject cut at every match; omit_empty drops the empty pieces, which do
\* not count; a limit keeps the first pieces and leaves the rest in one field,
\* delimiters included, or with tokens_only leaves it out.
Split ==
    LET m == Matches
        piece == [k \in 1..(Len(m) + 1) |->
                    FixedRange(IF k = 1 THEN 0 ELSE m[k - 1].end,
                          IF k > Len(m) THEN length(row.subject) ELSE m[k].start)]
        kept(K) == SelectSeq([k \in 1..K |-> piece[k]],
                             LAMBDA r : ~row.omit_empty \/ r.start < r.end)
        all == kept(Len(piece))
        cut == {k \in 0..Len(m) : Len(kept(k)) = row.n - 1}
        rest == FixedRange(piece[Min(cut) + 1].start, length(row.subject))
    IN IF row.n < 0 \/ cut = {} THEN all
       ELSE IF use.tokens_only THEN SubSeq(all, 1, Min({row.n, Len(all)}))
       ELSE kept(Min(cut)) \o
            (IF row.omit_empty /\ rest.start = rest.end THEN <<>> ELSE <<rest>>)

\* The fields are those, by the matcher and by the loop for a single byte
\* alike, for every limit below the largest int.
SplitIsExact ==
    pc = "returned" /\ use.op = "split" =>
      /\ refused <=> row.n >= IntMax - 1
      /\ output = IF refused \/ row.n = 0 \/ length(row.subject) = 0 THEN <<>> ELSE Split

\* The search state is the longest beginning of the pattern that ends at the
\* current position and began no earlier than the search: falling back through
\* the table never skips a place where a match could still begin.
PrefixIsLongest ==
    pc = "kmp" =>
      LET text == IF folded
                  THEN folds(SubSeq(search_.chars, before(search_, find_next) + 1,
                                    before(search_, current)))
                  ELSE SubSeq(search_.bytes, find_next + 1, current)
      IN pattern_pos_ = Max({q \in 0..Min({Len(pattern_units) - 1, Len(text)}) :
                               SubSeq(pattern_units, 1, q)
                                 = SubSeq(text, Len(text) - q + 1, Len(text))})

\* Every row returns: a match moves the search on, and so does a dropped field.
RowsReturn == pc # "idle" ~> pc = "idle"

=============================================================================
