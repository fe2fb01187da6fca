---------------------------- MODULE RegexMatcher ----------------------------
(***************************************************************************)
(* Regular expressions: shared::RegexMatcher of                            *)
(* src/shared/regex_search.cpp and the conversion of its byte ranges to    *)
(* code-point positions (Utf8PositionCursor of src/shared/utf8.h).         *)
(*                                                                         *)
(* One matcher serves the rows of a call, or of a worker.  It keeps the    *)
(* compiled pattern as long as the pattern's identity stays, and the       *)
(* UTF-16 text of the subject as long as the subject's identity stays; the *)
(* table from UTF-16 to byte offsets is built only by the methods that     *)
(* report ranges.  An index of Patterns or of Subjects stands for the      *)
(* identity.  Any order of calls is allowed, on any subject and pattern,   *)
(* as the recycled rows of the callers make them.                          *)
(*                                                                         *)
(* A text is a sequence of characters, each of Bytes[c] bytes in UTF-8 and *)
(* Units[c] units in UTF-16.  What ICU matches is external: a pattern is a *)
(* character class, its starred form, or one fixed lookbehind.             *)
(***************************************************************************)
EXTENDS Integers, SequencesExt, FiniteSetsExt

CONSTANTS
    Bytes, Units,   \* the width of each character
    Caseless,       \* pairs of characters equal when case is ignored
    Subjects,       \* [enc, chars]; enc "na" is a missing subject
    Patterns,       \* [kind, set, group], see IsPattern
    Options,        \* "plain", "caseless"
    Limits,         \* the n of split()
    Replacements,   \* replacement texts, and Null
    Null,
    Bogus,          \* a UnicodeString whose allocation failed
    IntMax          \* the largest int

VARIABLES
    matcher_,           \* [pattern, options] or Null
    pattern_identity_,  \* 0 is nullptr
    options_,
    subject_, subject_identity_, byte_offsets_, subject_ascii_, byte_offsets_valid_,
    bound,              \* the pattern of the last bind() that returned true, until a failure
    call,               \* the last call
    answer              \* and what it returned

compiled == <<matcher_, pattern_identity_>>
converted == <<subject_, subject_identity_, byte_offsets_, subject_ascii_, byte_offsets_valid_>>
vars == <<compiled, options_, converted, bound, call, answer>>

Unmatched == <<-1, -1>>
length(s) == MapThenSumSet(LAMBDA j : Bytes[s.chars[j]], 1..Len(s.chars))
byte_at(t, i) == MapThenSumSet(LAMBDA j : Bytes[t[j]], 1..i)
unit_at(t, i) == MapThenSumSet(LAMBDA j : Units[t[j]], 1..i)

IsPattern(p) == /\ p.kind \in {"class", "star", "behind", "empty", "missing", "broken"}
                /\ p.set \subseteq DOMAIN Bytes /\ p.group \subseteq p.set
\* The one-byte, one-unit characters marked ASCII are ASCII.
IsSubject(s) == \/ s.enc = "na"
                \/ /\ s.enc \in {"ascii", "utf8", "ascii_or_utf8"}
                   /\ s.chars \in Seq(DOMAIN Bytes)
                   /\ s.enc = "ascii" => \A j \in DOMAIN s.chars : s.chars[j] = "k"
                   /\ length(s) <= IntMax

RegexAssumption ==
    /\ \A c \in DOMAIN Bytes : Bytes[c] \in 1..4 /\ Units[c] \in 1..2
    /\ \A p \in DOMAIN Patterns : IsPattern(Patterns[p])
    /\ \A s \in DOMAIN Subjects : IsSubject(Subjects[s])
    /\ Limits \subseteq Int /\ IntMax > 1

-----------------------------------------------------------------------------
(* ICU: the matches of a compiled pattern m in a text t, by character      *)
(* index.  A starred class is greedy and matches the empty text wherever   *)
(* the class does not; the lookbehind is (?<=(k|kkK))., whose group has    *)
(* two widths, so that it may start before the group of the match before.  *)
isin(m, c, set) == \E d \in set : c = d \/ (m.options = "caseless" /\ {c, d} \in Caseless)
inclass(m, t, i) == i < Len(t) /\ isin(m, t[i + 1], Patterns[m.pattern].set)

behind(m, t, i) ==
    IF i > 0 /\ i < Len(t) /\ isin(m, t[i], {"k"}) THEN <<i - 1, i>>
    ELSE IF /\ i > 2 /\ i < Len(t) /\ isin(m, t[i], {"K"})
            /\ isin(m, t[i - 1], {"k"}) /\ isin(m, t[i - 2], {"k"}) THEN <<i - 3, i>>
    ELSE Unmatched

match_starts(m, t, i) ==
    CASE Patterns[m.pattern].kind = "class" -> inclass(m, t, i)
      [] Patterns[m.pattern].kind = "star" ->
           inclass(m, t, i) => (i = 0 \/ ~inclass(m, t, i - 1))
      [] Patterns[m.pattern].kind = "behind" -> behind(m, t, i) # Unmatched

match_ends(m, t, i) ==
    IF Patterns[m.pattern].kind = "star"
    THEN Min({j \in i..Len(t) : ~inclass(m, t, j)})
    ELSE i + 1

group(m, t, i) ==
    CASE Patterns[m.pattern].kind = "behind" -> behind(m, t, i)
      [] isin(m, t[i + 1], Patterns[m.pattern].group) -> <<i, i + 1>>
      [] OTHER -> Unmatched

starts(m, t) == SelectSeq([i \in 1..Len(t) + 1 |-> i - 1], LAMBDA i : match_starts(m, t, i))
matches(m, t) == LET f == starts(m, t) IN [k \in DOMAIN f |-> <<f[k], match_ends(m, t, f[k])>>]
groups(m, t) == LET f == starts(m, t) IN [k \in DOMAIN f |-> group(m, t, f[k])]
group_count(m) == IF Patterns[m.pattern].kind = "behind"
                     \/ (Patterns[m.pattern].kind = "class" /\ Patterns[m.pattern].group # {})
                  THEN 1 ELSE 0

-----------------------------------------------------------------------------
(* The conversion of the subject.                                          *)
is_ascii(s) ==
    \/ s.enc = "ascii"
    \/ s.enc = "ascii_or_utf8" /\ \A j \in DOMAIN s.chars : s.chars[j] = "k"

\* byte_offsets[u + 1] is the byte at which unit u begins; the second unit of
\* a surrogate pair has the offset of the first.
offsets(s) ==
    LET t == s.chars
        of(j) == IF Units[t[j]] = 1 THEN <<byte_at(t, j)>> ELSE <<byte_at(t, j - 1), byte_at(t, j)>>
    IN CASE t = <<>> -> <<0>>
         [] t # <<>> /\ is_ascii(s) -> <<>>
         [] OTHER -> <<0>> \o FlattenSeq([j \in DOMAIN t |-> of(j)])

\* vector::resize() and the assignment of the first element.
resized(v, n) == [k \in 1..n |-> IF k > 1 /\ k <= Len(v) THEN v[k] ELSE 0]

\* contains(), count() and replace(): the text alone.
stale_text(s) == subject_identity_ # s
keeps_offsets_valid == byte_offsets_valid_
leaves_offsets_valid == FALSE
set_utf16(s) ==
    IF ~stale_text(s) THEN UNCHANGED converted
    ELSE /\ subject_' = Subjects[s].chars /\ subject_identity_' = s
         /\ byte_offsets_valid_' = leaves_offsets_valid
         /\ UNCHANGED <<byte_offsets_, subject_ascii_>>

set_utf16_throws(s) ==
    /\ stale_text(s) /\ Subjects[s].chars # <<>>
    /\ subject_identity_' = 0 /\ subject_' = Bogus
    /\ UNCHANGED <<byte_offsets_, subject_ascii_, byte_offsets_valid_>>

\* The methods that report ranges: the text and the table.
stale(s) == subject_identity_ # s \/ ~byte_offsets_valid_
set_utf16_with_offsets(s) ==
    IF ~stale(s) THEN UNCHANGED converted
    ELSE /\ subject_' = Subjects[s].chars /\ subject_identity_' = s
         /\ byte_offsets_' = offsets(Subjects[s]) /\ subject_ascii_' = is_ascii(Subjects[s])
         /\ byte_offsets_valid_' = TRUE

\* Growing the table or the text fails, with the identity already dropped.
set_utf16_with_offsets_throws(s) ==
    LET t == Subjects[s] IN
    /\ stale(s) /\ t.chars # <<>>
    /\ subject_identity_' = 0 /\ byte_offsets_valid_' = FALSE
    /\ subject_ascii_' = is_ascii(t)
    /\ \/ ~is_ascii(t) /\ UNCHANGED <<subject_, byte_offsets_>>
       \/ /\ subject_' = Bogus
          /\ byte_offsets_' = IF is_ascii(t) THEN byte_offsets_ ELSE resized(byte_offsets_, length(t) + 1)

-----------------------------------------------------------------------------
(* The public methods.                                                     *)
NoAnswer == [status |-> "ok", number |-> 0, ranges |-> <<>>, captures |-> <<>>, text |-> <<>>]
Failed(why) == [NoAnswer EXCEPT !.status = why]
Call(op, s) == [op |-> op, subject |-> s, captures |-> FALSE, n |-> 0, omit_empty |-> FALSE,
                tokens_only |-> FALSE, replacement |-> Null, return_length |-> FALSE]
Idle == Call("none", 0)

Init ==
    /\ matcher_ = Null /\ pattern_identity_ = 0 /\ options_ \in Options
    /\ subject_ = <<>> /\ subject_identity_ = 0 /\ byte_offsets_ = <<>>
    /\ subject_ascii_ = TRUE /\ byte_offsets_valid_ = FALSE
    /\ bound = 0 /\ call = Idle /\ answer = NoAnswer

close == matcher_' = Null /\ pattern_identity_' = 0 /\ bound' = 0

reset_options(o) ==
    /\ call = Idle /\ close /\ options_' = o
    /\ subject_identity_' = 0 /\ byte_offsets_valid_' = FALSE
    /\ call' = Call("reset_options", 0) /\ answer' = NoAnswer
    /\ UNCHANGED <<subject_, byte_offsets_, subject_ascii_>>

rebinds(p) == matcher_ = Null \/ pattern_identity_ # p
\* bind(): an illegal pattern leaves the matcher as it is; one that does not
\* compile, or whose limits ICU refuses, leaves it closed.
bind(p) ==
    /\ call = Idle /\ call' = Call("bind", 0) /\ UNCHANGED <<options_, converted>>
    /\ \/ /\ Patterns[p].kind \in {"missing", "empty"}
          /\ answer' = Failed("illegal") /\ UNCHANGED <<compiled, bound>>
       \/ /\ Patterns[p].kind \notin {"missing", "empty"} /\ ~rebinds(p)
          /\ answer' = NoAnswer /\ bound' = p /\ UNCHANGED compiled
       \/ /\ Patterns[p].kind \notin {"missing", "empty"} /\ rebinds(p)
          /\ \/ /\ Patterns[p].kind # "broken"
                /\ matcher_' = [pattern |-> p, options |-> options_]
                /\ pattern_identity_' = p /\ bound' = p /\ answer' = NoAnswer
             \/ close /\ answer' = Failed("failed")

legal(c) == Subjects[c.subject].enc # "na" /\ matcher_ # Null

\* The frame of a method: refuse, convert and perhaps throw, then search;
\* any find() may fail, on the limits of the pattern, and closes the matcher.
Search(c, refresh, throws, result) ==
    /\ call = Idle /\ call' = c /\ UNCHANGED options_
    /\ \/ ~legal(c) /\ answer' = Failed("illegal") /\ UNCHANGED <<compiled, bound, converted>>
       \/ legal(c) /\ throws /\ answer' = Failed("thrown") /\ UNCHANGED <<compiled, bound>>
       \/ /\ legal(c) /\ refresh
          /\ \/ answer' = Failed("failed") /\ close
             \/ /\ answer' = result
                /\ IF answer'.status = "failed" THEN close ELSE UNCHANGED <<compiled, bound>>

contains(s) ==
    Search(Call("contains", s), set_utf16(s), set_utf16_throws(s),
           [NoAnswer EXCEPT !.number = IF matches(matcher_, subject_') = <<>> THEN 0 ELSE 1])

too_many(n) == n > IntMax
count(s) ==
    Search(Call("count", s), set_utf16(s), set_utf16_throws(s),
           LET n == Len(matches(matcher_, subject_')) IN
           IF too_many(n) THEN Failed("failed") ELSE [NoAnswer EXCEPT !.number = n])

\* byte_offset(), for a range of the text t; a unit without an entry is an error.
covered(t, r) == subject_ascii_' \/ (r # Unmatched =>
                     {unit_at(t, r[1]) + 1, unit_at(t, r[2]) + 1} \subseteq DOMAIN byte_offsets_')
byte_offset(u) == IF subject_ascii_' THEN u ELSE byte_offsets_'[u + 1]
range(t, r) == IF r = Unmatched THEN r
               ELSE <<byte_offset(unit_at(t, r[1])), byte_offset(unit_at(t, r[2]))>>
ranges(t, rs) == [k \in DOMAIN rs |-> range(t, rs[k])]

Reported(t, found, captured) ==
    IF \E r \in ToSet(found) \cup ToSet(captured) : ~covered(t, r) THEN Failed("failed")
    ELSE [NoAnswer EXCEPT !.number = Len(found), !.ranges = ranges(t, found), !.captures = ranges(t, captured)]

columns(m, t, with_captures) == IF with_captures /\ group_count(m) = 1 THEN groups(m, t) ELSE <<>>
first(f) == SubSeq(f, 1, Min({1, Len(f)}))

find_first(s, with_captures) ==
    Search([Call("find_first", s) EXCEPT !.captures = with_captures],
           set_utf16_with_offsets(s), set_utf16_with_offsets_throws(s),
           Reported(subject_', first(matches(matcher_, subject_')),
                    first(columns(matcher_, subject_', with_captures))))

find_all(s, with_captures) ==
    Search([Call("find_all", s) EXCEPT !.captures = with_captures],
           set_utf16_with_offsets(s), set_utf16_with_offsets_throws(s),
           Reported(subject_', matches(matcher_, subject_'),
                    columns(matcher_, subject_', with_captures)))

-----------------------------------------------------------------------------
(* split_default() and split().                                            *)
split_default(s) ==
    Search([Call("split", s) EXCEPT !.n = -1],
           set_utf16_with_offsets(s), set_utf16_with_offsets_throws(s),
           LET found == Reported(subject_', matches(matcher_, subject_'), <<>>)
               m == found.ranges
               begins(k) == IF k = 1 THEN 0 ELSE m[k - 1][2]
           IN IF found.status # "ok" THEN found
              ELSE [NoAnswer EXCEPT !.ranges =
                      [k \in DOMAIN m |-> <<begins(k), m[k][1]>>]
                      \o <<<<begins(Len(m) + 1), length(Subjects[s])>>>>])

search_limit(c, limit) == IF c.tokens_only /\ limit < IntMax THEN limit + 1 ELSE limit

\* One match in the loop of split(): fields.back() is the open field.
next_field(c, limit, fields, m) ==
    LET open == Last(fields) IN
    IF Len(fields) >= search_limit(c, limit) THEN fields
    ELSE IF c.omit_empty /\ open[1] = m[1] THEN Front(fields) \o <<<<m[2], open[2]>>>>
    ELSE Front(fields) \o <<<<open[1], m[1]>>, <<m[2], m[2]>>>>

split_fields(c, m, len) ==
    LET limit == IF c.n < 0 THEN IntMax ELSE c.n
        looped == FoldLeft(LAMBDA fields, r : next_field(c, limit, fields, r), <<<<0, 0>>>>, m)
        closed == Front(looped) \o <<<<Last(looped)[1], len>>>>
        kept == IF c.omit_empty /\ Last(closed)[1] = Last(closed)[2] THEN Front(closed) ELSE closed
    IN IF c.tokens_only /\ limit < IntMax /\ Len(kept) > limit THEN SubSeq(kept, 1, limit) ELSE kept

refused(n) == n >= IntMax - 1
\* A negative n that omits nothing is left to split_default().
split(s, n, omit_empty, tokens_only) ==
    LET c == [Call("split", s) EXCEPT !.n = n, !.omit_empty = omit_empty, !.tokens_only = tokens_only] IN
    \/ /\ call = Idle /\ legal(c) /\ (refused(n) \/ n = 0)
       /\ call' = c /\ answer' = IF refused(n) THEN Failed("limit_too_large") ELSE NoAnswer
       /\ UNCHANGED <<compiled, options_, converted, bound>>
    \/ /\ legal(c) => (~refused(n) /\ n # 0 /\ (n < 0 => omit_empty \/ tokens_only))
       /\ Search(c, set_utf16_with_offsets(s), set_utf16_with_offsets_throws(s),
                 LET found == Reported(subject_', matches(matcher_, subject_'), <<>>) IN
                 IF found.status # "ok" THEN found
                 ELSE [NoAnswer EXCEPT !.ranges = split_fields(c, found.ranges, length(Subjects[s]))])

-----------------------------------------------------------------------------
(* replace(): ICU's replaceAll(), or appendReplacement() and appendTail(). *)
spliced(t, found, r) ==
    LET gap(k) == SubSeq(t, IF k = 1 THEN 1 ELSE found[k - 1][2] + 1,
                         IF k > Len(found) THEN Len(t) ELSE found[k][1])
    IN gap(1) \o FlattenSeq([k \in DOMAIN found |-> r \o gap(k + 1)])

replace(s, r, all) ==
    Search([Call(IF all THEN "replace_all" ELSE "replace_first", s) EXCEPT !.replacement = r],
           set_utf16(s), set_utf16_throws(s),
           LET found == matches(matcher_, subject_') IN
           IF r = Null
           THEN IF found # <<>> THEN Failed("missing") ELSE [NoAnswer EXCEPT !.text = subject_']
           ELSE [NoAnswer EXCEPT !.text = spliced(subject_', IF all THEN found ELSE first(found), r)])

-----------------------------------------------------------------------------
(* regex_range_to_positions() and regex_ranges_to_positions().  A cursor   *)
(* is the byte and the position it stands at.                              *)
at_byte(s, cursor, target) ==
    IF s.enc = "ascii" THEN target
    ELSE LET from == IF target < cursor THEN 0 ELSE cursor
         IN Min({i \in 0..Len(s.chars) : byte_at(s.chars, i) >= from /\ byte_at(s.chars, i) >= target})

one_based_position(i) == IF i < IntMax THEN i + 1 ELSE IntMax

positions(first_, end_, return_length) ==
    <<one_based_position(first_), IF return_length THEN end_ - first_ ELSE end_>>

range_to_positions(s, r, return_length) ==
    IF r = Unmatched THEN r
    ELSE positions(at_byte(s, 0, r[1]), at_byte(s, r[1], r[2]), return_length)

\* The starts keep a cursor and the ends keep another.
ranges_to_positions(s, rs, return_length) ==
    LET before(k) == SelectSeq(SubSeq(rs, 1, k - 1), LAMBDA r : r # Unmatched)
        cursor(k, side) == IF before(k) = <<>> THEN 0 ELSE Last(before(k))[side]
        start(k) == at_byte(s, cursor(k, 1), rs[k][1])
        end(k) == at_byte(s, cursor(k, 2), rs[k][2])
    IN [k \in DOMAIN rs |->
          IF rs[k] = Unmatched THEN Unmatched
          ELSE positions(start(k), end(k), return_length)]

locate(return_length) ==
    LET s == Subjects[call.subject]
        convert(rs) == IF call.op = "find_all" THEN ranges_to_positions(s, rs, return_length)
                       ELSE [k \in DOMAIN rs |-> range_to_positions(s, rs[k], return_length)]
    IN
    /\ call.op \in {"find_first", "find_all"} /\ answer.status = "ok"
    /\ call' = [call EXCEPT !.op = IF @ = "find_all" THEN "locate_all" ELSE "locate_first",
                            !.return_length = return_length]
    /\ answer' = [answer EXCEPT !.ranges = convert(@), !.captures = convert(@)]
    /\ UNCHANGED <<compiled, options_, converted, bound>>

-----------------------------------------------------------------------------
return ==
    /\ call # Idle /\ call' = Idle /\ answer' = NoAnswer
    /\ UNCHANGED <<compiled, options_, converted, bound>>

Next ==
    \/ \E o \in Options : reset_options(o)
    \/ \E p \in DOMAIN Patterns : bind(p)
    \/ /\ call = Idle
       /\ \E s \in DOMAIN Subjects :
            \/ contains(s) \/ count(s) \/ split_default(s)
            \/ \E with_captures \in BOOLEAN : find_first(s, with_captures) \/ find_all(s, with_captures)
            \/ \E n \in Limits, omit_empty \in BOOLEAN, tokens_only \in BOOLEAN :
                 split(s, n, omit_empty, tokens_only)
            \/ \E r \in Replacements, all \in BOOLEAN : replace(s, r, all)
    \/ \E return_length \in BOOLEAN : locate(return_length)
    \/ return

Spec == Init /\ [][Next]_vars

-----------------------------------------------------------------------------
\* The text and the pattern the caller asked about.
asked == Subjects[call.subject].chars
wanted == [pattern |-> bound, options |-> options_]
in_bytes(r) == IF r = Unmatched THEN r ELSE <<byte_at(asked, r[1]), byte_at(asked, r[2])>>
match_count == Cardinality({i \in 0..Len(asked) : match_starts(wanted, asked, i)})
nth(k) == CHOOSE i \in 0..Len(asked) :
            match_starts(wanted, asked, i) /\ Cardinality({j \in 0..i : match_starts(wanted, asked, j)}) = k

TypeOK ==
    /\ pattern_identity_ \in {0} \cup DOMAIN Patterns /\ (matcher_ = Null <=> pattern_identity_ = 0)
    /\ options_ \in Options /\ subject_identity_ \in {0} \cup DOMAIN Subjects
    /\ byte_offsets_ \in Seq(0..IntMax) /\ {subject_ascii_, byte_offsets_valid_} \subseteq BOOLEAN
    /\ bound \in {0} \cup DOMAIN Patterns /\ answer.number \in 0..IntMax + 1
    /\ call.op = "count" => answer.number <= IntMax

\* What is kept is what would be built again: a compiled pattern is the one
\* bound last, under the present options; a text whose identity is kept is that
\* subject's, and its table, while valid, has the byte of every character
\* boundary, whatever was converted, refused or interrupted in between.
CacheIsSound ==
    /\ matcher_ # Null => matcher_ = wanted
    /\ subject_identity_ # 0 =>
         LET t == Subjects[subject_identity_].chars IN
         /\ subject_ = t
         /\ byte_offsets_valid_ =>
              IF subject_ascii_ THEN \A i \in 0..Len(t) : byte_at(t, i) = i /\ unit_at(t, i) = i
              ELSE \A i \in 0..Len(t) : byte_offsets_[unit_at(t, i) + 1] = byte_at(t, i)

\* A call that succeeds answers for its own subject and for the pattern bound
\* last: contains() and count() by the matches there are, find_first() and
\* find_all() by the bytes they span, replace() by the text with each of them,
\* or the first, replaced.
AnswersAreExact ==
    answer.status = "ok" =>
        CASE call.op = "contains" -> (answer.number = 1) <=> (match_count > 0)
          [] call.op = "count" -> answer.number = match_count
          [] call.op \in {"find_first", "find_all"} ->
               LET found == IF call.op = "find_all" THEN match_count ELSE Min({1, match_count}) IN
               /\ answer.number = found /\ Len(answer.ranges) = found
               /\ \A k \in 1..found : answer.ranges[k] = in_bytes(<<nth(k), match_ends(wanted, asked, nth(k))>>)
               /\ IF call.captures /\ group_count(wanted) = 1
                  THEN /\ Len(answer.captures) = found
                       /\ \A k \in 1..found : answer.captures[k] = in_bytes(group(wanted, asked, nth(k)))
                  ELSE answer.captures = <<>>
          [] call.op \in {"replace_first", "replace_all"} ->
               LET taken(i) == /\ match_starts(wanted, asked, i)
                               /\ call.op = "replace_first" => i = nth(1)
                   inside(i) == \E j \in 0..i : taken(j) /\ i < match_ends(wanted, asked, j)
                   at(i) == (IF taken(i) THEN call.replacement ELSE <<>>)
                            \o (IF i < Len(asked) /\ ~inside(i) THEN <<asked[i + 1]>> ELSE <<>>)
               IN answer.text = FlattenSeq([i \in 1..Len(asked) + 1 |-> at(i - 1)])
          [] OTHER -> TRUE

\* split() and split_default() give the gaps between the matches: all of them,
\* or those that are not empty; a limit n keeps n - 1 of them and the rest of the
\* subject as it stands, or n of them when only tokens are wanted.  Without a
\* limit the rest of the subject is the last of INT_MAX fields.
SplitIsExact ==
    (call.op = "split" /\ answer.status = "ok" /\ call.n # 0) =>
        LET limit == IF call.n < 0 THEN IntMax ELSE call.n
            edge(k) == IF k = 0 THEN 0 ELSE byte_at(asked, match_ends(wanted, asked, nth(k)))
            len == byte_at(asked, Len(asked))
            gap(k) == <<edge(k - 1), IF k > match_count THEN len ELSE byte_at(asked, nth(k))>>
            kept == SelectSeq([k \in 1..match_count + 1 |-> k],
                              LAMBDA k : call.omit_empty => gap(k)[1] < gap(k)[2])
            tokens(n) == [j \in 1..Min({n, Len(kept)}) |-> gap(kept[j])]
            \* the gap behind the first limit - 1 kept ones
            rest == IF limit = 1 THEN 1 ELSE kept[limit - 1] + 1
            unlimited == call.n < 0 /\ ~call.omit_empty /\ ~call.tokens_only
        IN answer.ranges =
             IF unlimited THEN tokens(Len(kept))
             ELSE IF (call.tokens_only /\ limit < IntMax) \/ Len(kept) < limit - 1 THEN tokens(limit)
             ELSE IF rest > match_count + 1 \/ (call.omit_empty /\ edge(rest - 1) = len) THEN tokens(limit - 1)
             ELSE tokens(limit - 1) \o <<<<edge(rest - 1), len>>>>

\* Located matches and groups are counted in characters, also where a group
\* starts before the one of the match before it; the position past the largest
\* int is the largest int.
PositionsAreExact ==
    call.op \in {"locate_first", "locate_all"} =>
        LET place(r) == IF r = Unmatched THEN r
                        ELSE <<Min({r[1] + 1, IntMax}), IF call.return_length THEN r[2] - r[1] ELSE r[2]>>
        IN /\ \A k \in DOMAIN answer.ranges :
                answer.ranges[k] = place(<<nth(k), match_ends(wanted, asked, nth(k))>>)
           /\ \A k \in DOMAIN answer.captures :
                answer.captures[k] = place(group(wanted, asked, nth(k)))
=============================================================================
