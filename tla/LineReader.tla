----------------------------- MODULE LineReader -----------------------------
(***************************************************************************)
(* ci_read_lines() with the FileReader of src/shared/read_lines.cpp, and   *)
(* the line scanner of src/shared/line_split.cpp that it shares with       *)
(* ci_split_lines() and ci_split_lines1().  A file is measured, then read; *)
(* it may change in between.  A text with ill-formed sequences is repaired *)
(* and scanned a second time, and warned about once the result is safe.    *)
(***************************************************************************)
EXTENDS LineBytes

CONSTANTS
    IntMax,         \* the largest int, the largest file and string
    Contents        \* files and texts

\* kind is that of the string to be split.
Ops ==
    [name : {"read"}, omit_empty : {FALSE}, keep_trailing : {FALSE}, kind : {"text"}]
    \cup [name : {"split_lines1"}, omit_empty : {FALSE}, keep_trailing : {FALSE}, kind : Kinds]
    \cup [name : {"split_lines"}, omit_empty : BOOLEAN, keep_trailing : {TRUE}, kind : Kinds]

VARIABLES
    file,       \* what the file, or the string, holds
    op,         \* the operation
    pc,
    handle,     \* whether handle_ is open
    size,       \* size_
    seen,       \* the file's contents when fread() ran (history)
    source,     \* the text, without its byte order mark
    text,       \* the text being scanned: source or repaired
    i, line_begin, line_ascii, pending_line,    \* the scanner's locals
    scan,       \* its ScanResult
    source_scan,    \* the ScanResult of the first pass
    warnings

input == <<file, op>>
locals == <<i, line_begin, line_ascii, pending_line, scan>>
reading == <<handle, size, seen>>
vars == <<input, pc, reading, source, text, locals, source_scan, warnings>>

NoScan == [lines |-> <<>>, invalid |-> <<>>, embedded_nul |-> FALSE]

\* scan_utf8() up to its loop: the result may be one of an earlier scan.
StartScan(t, earlier) ==
    /\ text' = t
    /\ i' = 1 /\ line_begin' = 1 /\ line_ascii' = TRUE /\ pending_line' = TRUE
    /\ scan' = [earlier EXCEPT !.lines = <<>>, !.invalid = <<>>, !.embedded_nul = FALSE]

ReaderInit ==
    /\ op \in Ops
    /\ pc = IF op.name = "read" THEN "open" ELSE "split"
    /\ handle = FALSE /\ size = 0 /\ seen = <<>>
    /\ source = <<>> /\ text = <<>>
    /\ i = 1 /\ line_begin = 1 /\ line_ascii = TRUE /\ pending_line = TRUE
    /\ scan = NoScan /\ source_scan = NoScan
    /\ warnings = 0

Init == file \in Contents /\ ReaderInit

\* A directory is announced by two warnings, another failure by one.
OpenFails ==
    /\ pc = "open"
    /\ warnings' \in {1, 2}
    /\ pc' = "throw"
    /\ UNCHANGED <<input, reading, source, text, locals, source_scan>>

Open ==
    /\ pc = "open"
    /\ handle' = TRUE /\ pc' = "measure"
    /\ UNCHANGED <<input, size, seen, source, text, locals, source_scan, warnings>>

\* fseek(), ftell() and rewind(); a failure of theirs throws as a file too
\* large does.
Measure ==
    /\ pc = "measure"
    /\ \/ Len(file) <= IntMax /\ size' = Len(file) /\ pc' = "read"
       \/ pc' = "throw" /\ UNCHANGED size
    /\ UNCHANGED <<input, handle, seen, source, text, locals, source_scan, warnings>>

\* Another process rewrites the file between ftell() and fread().
Rewrite ==
    /\ pc = "read" /\ seen = <<>>
    /\ file' \in Contents
    /\ UNCHANGED <<op, pc, reading, source, text, locals, source_scan, warnings>>

has_utf8_bom(s) == Len(s) >= 3 /\ SubSeq(s, 1, 3) = BOM

enough == Len(file) >= size

\* fread() of exactly size_ bytes, close(), and the byte order mark.  What
\* fread() does not deliver would be left as the buffer had it.
Read ==
    /\ pc = "read"
    /\ seen' = file
    /\ IF enough
         THEN \E left \in {0, 97} :
              LET bytes == [k \in 1..size |-> IF k <= Len(file) THEN file[k] ELSE left]
              IN  /\ handle' = FALSE
                  /\ source' = IF has_utf8_bom(bytes) THEN SubSeq(bytes, 4, size) ELSE bytes
                  /\ StartScan(source', scan) /\ pc' = "scan"
         ELSE /\ pc' = "throw"
              /\ UNCHANGED <<handle, source, text, locals>>
    /\ UNCHANGED <<input, size, source_scan, warnings>>

string == [kind |-> op.kind, bytes |-> file]

\* normalize_inputs(); a missing string is its own result.
Split ==
    /\ pc = "split"
    /\ IF op.kind \in {"text", "converted"}
         THEN /\ source' = normalize_utf8(string)
              /\ StartScan(source', scan) /\ pc' = "scan"
         ELSE /\ pc' = IF op.kind = "missing" THEN "missing" ELSE "throw"
              /\ UNCHANGED <<source, text, locals>>
    /\ UNCHANGED <<input, reading, source_scan, warnings>>

-----------------------------------------------------------------------------
(* The loop of scan_utf8().                                                *)

Scanning == pc \in {"scan", "scan again"}

Line(begin, length, ascii) == [begin |-> begin, length |-> length, ascii |-> ascii]

WithLine(length) ==
    IF ~op.omit_empty \/ length > 0
      THEN [scan EXCEPT !.lines = Append(@, Line(line_begin, length, line_ascii))]
      ELSE scan

\* An ill-formed sequence is noted, and the line is no longer ASCII.
ScanInvalid ==
    /\ Scanning /\ i <= Len(text)
    /\ LET n == U8_NEXT(text, i) IN
       /\ n.code < 0
       /\ scan' = [scan EXCEPT !.invalid = Append(@, [begin |-> i, length |-> n.next - i])]
       /\ line_ascii' = FALSE /\ i' = n.next
    /\ UNCHANGED <<input, pc, reading, source, text, line_begin, pending_line, source_scan, warnings>>

newline(code) == code \in {10, 11, 12, 13, 133, 8232, 8233}

nul_seen(code) == scan.embedded_nul \/ code = 0

ScanOther ==
    /\ Scanning /\ i <= Len(text)
    /\ LET n == U8_NEXT(text, i) IN
       /\ n.code >= 0 /\ ~newline(n.code)
       /\ scan' = [scan EXCEPT !.embedded_nul = nul_seen(n.code)]
       /\ line_ascii' = (line_ascii /\ n.code <= 127)
       /\ i' = n.next
    /\ UNCHANGED <<input, pc, reading, source, text, line_begin, pending_line, source_scan, warnings>>

after_cr_skips(next) == next + 1
after_cr(next) == IF next <= Len(text) /\ text[next] = LF THEN next + 1 ELSE next

pending_after(next) == next <= Len(text)

ScanNewline ==
    /\ Scanning /\ i <= Len(text)
    /\ LET n == U8_NEXT(text, i)
           next == IF n.code = CR THEN after_cr(n.next) ELSE n.next
       IN  /\ newline(n.code)
           /\ scan' = WithLine(i - line_begin)
           /\ i' = next /\ line_begin' = next
           /\ pending_line' = pending_after(next)
    /\ line_ascii' = TRUE
    /\ UNCHANGED <<input, pc, reading, source, text, source_scan, warnings>>

\* What scan_utf8() adds behind its loop.
scanned ==
    IF pending_line \/ (op.keep_trailing /\ ~op.omit_empty)
      THEN WithLine(Len(text) + 1 - line_begin) ELSE scan

-----------------------------------------------------------------------------
(* repair_utf8(): the length is computed first, then the bytes are copied  *)
(* into an array of that length.                                           *)

repaired_length(s, invalid) ==
    Len(s) + FoldLeft(LAMBDA n, q : n + 3 - q.length, 0, invalid)

behind(s, invalid, k) == IF k = 0 THEN 1 ELSE invalid[k].begin + invalid[k].length

repair_utf8(s, invalid) ==
    FlattenSeq([k \in 1..Len(invalid) |->
        SubSeq(s, behind(s, invalid, k - 1), invalid[k].begin - 1) \o FFFD])
    \o SubSeq(s, behind(s, invalid, Len(invalid)), Len(s))

KeepScan == scan' = scanned /\ UNCHANGED <<text, i, line_begin, line_ascii, pending_line>>

Repairs == op.name = "read" /\ scan.invalid # <<>>

\* A NUL is an error, a clean text is the result, another one is repaired
\* unless that makes it too long.
EndScan ==
    /\ pc = "scan" /\ i > Len(text)
    /\ source_scan' = scanned
    /\ CASE op.name = "read" /\ scan.embedded_nul -> KeepScan /\ pc' = "throw"
         [] ~(op.name = "read" /\ scan.embedded_nul) /\ ~Repairs -> KeepScan /\ pc' = "finalize"
         [] OTHER ->
              IF repaired_length(text, scan.invalid) > IntMax
                THEN KeepScan /\ pc' = "throw"
                ELSE StartScan(repair_utf8(text, scan.invalid), NoScan) /\ pc' = "scan again"
    /\ UNCHANGED <<input, reading, source, warnings>>

EndSecondScan ==
    /\ pc = "scan again" /\ i > Len(text)
    /\ KeepScan /\ pc' = "finalize"
    /\ UNCHANGED <<input, reading, source, source_scan, warnings>>

\* The lines are records of an R vector before the first warning.
Warned == IF op.name = "read" THEN Len(source_scan.invalid) ELSE 0

Warn ==
    /\ pc = "finalize" /\ warnings < Warned
    /\ warnings' = warnings + 1
    /\ pc' \in {"finalize", "throw"}        \* options(warn = 2)
    /\ UNCHANGED <<input, reading, source, text, locals, source_scan>>

Return ==
    /\ pc = "finalize" /\ warnings = Warned
    /\ pc' = "returned"
    /\ UNCHANGED <<input, reading, source, text, locals, source_scan, warnings>>

\* The frame is left: ~FileReader() closes what is still open.
handle_destroyed == FALSE

Destroy ==
    /\ pc = "throw"
    /\ handle' = handle_destroyed /\ pc' = "raised"
    /\ UNCHANGED <<input, size, seen, source, text, locals, source_scan, warnings>>

Ended == pc \in {"returned", "missing", "raised"}

Steps ==
    \/ OpenFails \/ Open \/ Measure \/ Rewrite \/ Read \/ Split
    \/ ScanInvalid \/ ScanOther \/ ScanNewline \/ EndScan \/ EndSecondScan
    \/ Warn \/ Return \/ Destroy

Next == Steps \/ (Ended /\ UNCHANGED vars)

Spec == Init /\ [][Next]_vars

-----------------------------------------------------------------------------

LineText(s, l) == SubSeq(s, l.begin, l.begin + l.length - 1)
LineTexts(s, sc) == [k \in DOMAIN sc.lines |-> LineText(s, sc.lines[k])]

\* The lines of a text under the operation's options.
Wanted(s) ==
    LET lines == Lines(s, op.keep_trailing)
    IN  IF op.omit_empty THEN NonEmpty(lines) ELSE lines

\* Every variable has its type; the scanner stays inside the text.
TypeOK ==
    /\ op \in Ops /\ handle \in BOOLEAN
    /\ pc \in {"open", "measure", "read", "split", "scan", "scan again", "finalize",
               "throw", "returned", "missing", "raised"}
    /\ size \in 0..IntMax /\ warnings \in Nat
    /\ line_begin \in 1..(Len(text) + 1) /\ i \in line_begin..(Len(text) + 1)
    /\ line_ascii \in BOOLEAN /\ pending_line \in BOOLEAN
    /\ \A l \in ToSet(scan.lines) : l.begin >= 1 /\ l.length >= 0
                                   /\ l.begin + l.length <= Len(text) + 1

\* The first scan finds the lines, the ill-formed sequences and the ASCII
\* lines of the source: CR LF is one terminator, and the text that ends in a
\* terminator has no further line unless keep_trailing_empty asks for it.
ScanIsExact ==
    pc \in {"finalize", "returned"} =>
        /\ LineTexts(source, source_scan) = Wanted(source)
        /\ \A l \in ToSet(source_scan.lines) :
              l.ascii <=> \A b \in ToSet(LineText(source, l)) : b < 128
        /\ [k \in DOMAIN source_scan.invalid |-> source_scan.invalid[k].begin]
              = [k \in DOMAIN IllFormed(source) |-> IllFormed(source)[k].first]

\* A string is split into the lines of what it says, and comes back missing, or
\* as an error, only if it is missing, or bytes or does not convert.
SplitIsOfTheString ==
    op.name # "read" =>
        /\ pc = "returned" =>
             op.kind \in {"text", "converted"} /\ LineTexts(text, scan) = Wanted(Stated(string))
        /\ pc = "missing" => op.kind = "missing"
        /\ pc = "raised" => op.kind \in {"bytes", "unconvertible"}

\* A reading that returns has the lines of the repaired text, as many as the
\* source has, none of them ill-formed, and one warning per ill-formed
\* sequence; no string holds a NUL.
ReadingIsRepaired ==
    pc = "returned" /\ op.name = "read" =>
        /\ LineTexts(text, scan) = Lines(Repaired(source), FALSE)
        /\ scan.invalid = <<>> /\ Len(scan.lines) = Len(source_scan.lines)
        /\ warnings = Len(IllFormed(source))
        /\ 0 \notin ToSet(text)

\* The array repair_utf8() allocates holds exactly what it copies.
RepairFits ==
    pc = "scan" /\ i > Len(text) =>
        repaired_length(text, scan.invalid) = Len(repair_utf8(text, scan.invalid))

\* A reading that returns consists of bytes the file held when fread() ran,
\* even if it changed size after ftell(): a file that shrank is an error.
ReadingIsOfTheFile ==
    pc \in {"finalize", "returned"} /\ op.name = "read" =>
        \E b \in {<<>>, BOM} : IsPrefix(b \o source, seen)

\* No way out of a reading leaves the handle open.
HandleIsClosed == Ended => ~handle

=============================================================================
