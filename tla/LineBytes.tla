----------------------------- MODULE LineBytes -----------------------------
(***************************************************************************)
(* Bytes and code points as src/shared/line_split.cpp, read_lines.cpp and  *)
(* write_lines.cpp meet them, and the reference meaning of a text: its     *)
(* code points, its repaired form and its lines.  Texts hold no lead byte  *)
(* of a four-byte sequence; everything else of UTF-8 is as ICU reads it.   *)
(*                                                                         *)
(* A string is [kind, bytes].  Its kind is "text", marked UTF-8 or native  *)
(* where the native encoding is UTF-8; "converted", Latin-1 or native      *)
(* text, the bytes being what NativeToUtf8 makes of it; "unconvertible";   *)
(* "bytes"; or "missing".                                                  *)
(***************************************************************************)
EXTENDS Integers, SequencesExt

LF == 10
CR == 13
FFFD == <<239, 191, 189>>
BOM  == <<239, 187, 191>>

Kinds == {"text", "converted", "unconvertible", "bytes", "missing"}

has_bom(s) == Len(s) >= 3 /\ SubSeq(s, 1, 3) = BOM

\* normalize_utf8() and normalize_utf8_transient() on a text that converts:
\* a byte order mark is stripped, but not from what was converted.
strips_bom(v) == v.kind = "text" /\ has_bom(v.bytes)
normalize_utf8(v) == IF strips_bom(v) THEN SubSeq(v.bytes, 4, Len(v.bytes)) ELSE v.bytes

\* ICU's U8_NEXT at index i: the code point there, or -1 for an ill-formed
\* sequence, and the index behind it.
U8_NEXT(s, i) ==
    LET b == s[i]
        trail(k) == i + k <= Len(s) /\ s[i + k] \in 128..191
        second == trail(1) /\ (b = 224 => s[i+1] >= 160) /\ (b = 237 => s[i+1] < 160)
        ill(n) == [code |-> -1, next |-> i + n]
    IN  CASE b < 128 -> [code |-> b, next |-> i + 1]
          [] b \in 194..223 /\ trail(1) ->
                [code |-> (b % 32) * 64 + (s[i+1] % 64), next |-> i + 2]
          [] b \in 224..239 /\ second /\ trail(2) ->
                [code |-> (b % 16) * 4096 + (s[i+1] % 64) * 64 + (s[i+2] % 64),
                 next |-> i + 3]
          [] b \in 224..239 /\ second /\ ~trail(2) -> ill(2)
          [] OTHER -> ill(1)

-----------------------------------------------------------------------------
(* The reference: a text as the sequence of its code points.               *)

RECURSIVE ItemsFrom(_, _)
ItemsFrom(s, i) ==
    IF i > Len(s) THEN <<>>
    ELSE LET n == U8_NEXT(s, i)
         IN  <<[code |-> n.code, first |-> i, next |-> n.next]>> \o ItemsFrom(s, n.next)

Items(s) == ItemsFrom(s, 1)

IllFormed(s) == SelectSeq(Items(s), LAMBDA x : x.code = -1)

\* Every ill-formed sequence is U+FFFD, everything else stays.
Repaired(s) ==
    FlattenSeq([k \in DOMAIN Items(s) |->
        LET x == Items(s)[k] IN
        IF x.code = -1 THEN FFFD ELSE SubSeq(s, x.first, x.next - 1)])

\* What a string says: a text marked UTF-8 does not say its first code point
\* when that is U+FEFF.
Stated(v) ==
    LET items == Items(v.bytes)
        marked == v.kind = "text" /\ items # <<>> /\ items[1].code = 65279
    IN  IF marked THEN SubSeq(v.bytes, items[1].next, Len(v.bytes)) ELSE v.bytes

\* The Unicode line terminators; CR LF is one of them.
Terminator(items, k) ==
    /\ items[k].code \in {10, 11, 12, 13, 133, 8232, 8233}
    /\ ~(items[k].code = LF /\ k > 1 /\ items[k-1].code = CR)

\* The lines of a text, as the bytes between one terminator and the next.
\* A text that ends in a terminator has a last, empty line only if that is
\* asked for; the empty text is one empty line.
Lines(s, keepTrailing) ==
    LET items == Items(s)
        ends == SetToSortSeq({k \in DOMAIN items : Terminator(items, k)}, <)
        after(k) == IF items[k].code = CR /\ k < Len(items) /\ items[k+1].code = LF
                      THEN items[k+1].next ELSE items[k].next
        begin(j) == IF j = 1 THEN 1 ELSE after(ends[j-1])
        end(j) == IF j > Len(ends) THEN Len(s) ELSE items[ends[j]].first - 1
        all == [j \in 1..(Len(ends) + 1) |-> SubSeq(s, begin(j), end(j))]
    IN  IF ~keepTrailing /\ ends # <<>> /\ begin(Len(ends) + 1) > Len(s)
          THEN Front(all) ELSE all

NonEmpty(lines) == SelectSeq(lines, LAMBDA l : l # <<>>)

=============================================================================
