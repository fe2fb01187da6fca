----------------------------- MODULE LineFiles -----------------------------
(***************************************************************************)
(* str_write_lines(), then str_read_lines() on the same path: LineWriter   *)
(* and LineReader composed through the file.  The reading starts when the  *)
(* writing has ended, whichever way.                                       *)
(***************************************************************************)
EXTENDS LineWriter

CONSTANT IntMax

VARIABLES op, rpc, rhandle, size, seen, source, text,
          i, line_begin, line_ascii, pending_line, scan, source_scan, warnings

reader == <<op, rpc, rhandle, size, seen, source, text,
            i, line_begin, line_ascii, pending_line, scan, source_scan, warnings>>

Reader == INSTANCE LineReader
            WITH file <- disk, pc <- rpc, handle <- rhandle, Contents <- {}

Writes == Steps /\ UNCHANGED reader

Reads ==
    /\ Ended /\ Reader!Steps
    /\ UNCHANGED <<args, pc, row, runs, buffer, handle, stream, stdio>>

FilesNext == Writes \/ Reads \/ (Reader!Ended /\ UNCHANGED <<vars, reader>>)

\* The records are written one per line.
Plain(s) == ~\E x \in ToSet(Items(s)) : x.code \in {0, 10, 11, 12, 13, 133, 8232, 8233}
OnePerLine ==
    /\ Stated(sep) \in {<<LF>>, <<CR, LF>>}
    /\ \A k \in DOMAIN records : Plain(records[k].bytes)

\* What the line of a record says: a mark that was written at the start of the
\* file, from a text that was converted or that began with two, is the file's.
LineOf(k) ==
    Repaired(Stated([kind |-> IF k = 1 THEN "text" ELSE "converted", bytes |-> Stated(records[k])]))

\* What was written a record per line is read back a record per line, however
\* the bytes fell on the writer's buffer, with ill-formed sequences replaced
\* and nothing left to warn about; of byte order marks the one that leads a
\* record marked UTF-8 is lost, and the one that leads the file.
RoundTrip ==
    pc = "done" /\ rpc = "returned" /\ records # <<>> /\ OnePerLine =>
        /\ warnings = 0
        /\ Reader!LineTexts(text, scan) = [k \in DOMAIN records |-> LineOf(k)]

\* A write that failed part of the way leaves lines to read that are records
\* of the call, in order; only the last of them may be cut short.
CutFileReadsAsRecords ==
    pc = "error raised" /\ rpc = "returned" /\ OnePerLine =>
        LET lines == Reader!LineTexts(text, scan)
            Cut(r) == {SubSeq(r, 1, n) : n \in 0..Len(r)}
        IN  /\ Len(lines) <= Max({1, Len(records)})
            /\ \A k \in DOMAIN lines \cap DOMAIN records :
                IF k < Len(lines) THEN lines[k] = LineOf(k)
                ELSE \E c \in Cut(Repaired(Stated(records[k]))) \cup Cut(LineOf(k)) :
                       lines[k] = Repaired(c)

=============================================================================
