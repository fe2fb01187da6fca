----------------------------- MODULE LineWriter -----------------------------
(***************************************************************************)
(* ci_write_lines() and the FileWriter of src/shared/write_lines.cpp it    *)
(* owns: the arguments are examined, the file is truncated, and records    *)
(* and separators go through write_utf8(), the staging buffer and stdio to *)
(* the disk.  fopen(), fwrite() and fclose() may fail, R may unwind while  *)
(* the path is translated, and a record may not convert; the frame then    *)
(* destroys the writer.                                                    *)
(***************************************************************************)
EXTENDS LineBytes

CONSTANTS
    BufferSize,     \* the size of buffer_ (65536 in the code)
    Records,        \* the character vectors a call may be given
    Separators,     \* the values of sep
    OldContents     \* what the file may hold before the call

VARIABLES
    records, sep,   \* the arguments, strings
    old,            \* the file's contents before the call
    pc,             \* where the call is
    row,            \* the record being written
    runs,           \* write() calls write_utf8() has still to make, their data
    buffer,         \* the first used_ bytes of buffer_
    handle,         \* whether handle_ is set
    stream,         \* what happened to the FILE: "none", "open", "closed", "freed twice"
    stdio, disk     \* bytes stdio holds, and the file

args == <<records, sep, old>>
vars == <<args, pc, row, runs, buffer, handle, stream, stdio, disk>>

Init ==
    /\ records \in Records /\ sep \in Separators /\ old \in OldContents
    /\ pc = "check" /\ row = 1 /\ runs = <<>> /\ buffer = <<>>
    /\ handle = FALSE /\ stream = "none"
    /\ stdio = <<>> /\ disk = old

Unusable(v) == v.kind \in {"missing", "bytes"}

check_fails == Unusable(sep) \/ \E i \in DOMAIN records : Unusable(records[i])

\* All arguments are examined, and the path and the separator are converted,
\* before the file is opened.
Check ==
    /\ pc = "check"
    /\ pc' = IF check_fails \/ sep.kind = "unconvertible" THEN "refused" ELSE "open"
    /\ UNCHANGED <<args, row, runs, buffer, handle, stream, stdio, disk>>

\* Rf_translateChar() leaves by R's unwinding.
Unwind ==
    /\ pc = "check" /\ ~check_fails
    /\ pc' = "refused"
    /\ UNCHANGED <<args, row, runs, buffer, handle, stream, stdio, disk>>

\* fopen(path, "wb"), which empties the file, or fails and leaves it.
Open ==
    /\ pc = "open"
    /\ handle' = TRUE /\ stream' = "open" /\ disk' = <<>>
    /\ pc' = "record"
    /\ UNCHANGED <<args, row, runs, buffer, stdio>>

OpenFails ==
    /\ pc = "open"
    /\ pc' = "refused"
    /\ UNCHANGED <<args, row, runs, buffer, handle, stream, stdio, disk>>

-----------------------------------------------------------------------------
(* write_utf8(): the well-formed runs between ill-formed sequences, and a  *)
(* U+FFFD for each of these.                                               *)

RECURSIVE RunsFrom(_, _, _)
RunsFrom(data, run_begin, i) ==
    IF i > Len(data) THEN <<SubSeq(data, run_begin, Len(data))>>
    ELSE LET n == U8_NEXT(data, i)
         IN  IF n.code >= 0 THEN RunsFrom(data, run_begin, n.next)
             ELSE <<SubSeq(data, run_begin, i - 1), FFFD>> \o RunsFrom(data, n.next, n.next)

write_utf8(data) == RunsFrom(data, 1, 1)

\* The row's text, then the separator, both normalized; a record that does not
\* convert throws.
Record ==
    /\ pc = "record" /\ runs = <<>>
    /\ IF row > Len(records)
         THEN pc' = "close" /\ UNCHANGED runs
         ELSE IF records[row].kind = "unconvertible"
                THEN pc' = "failed" /\ UNCHANGED runs
                ELSE pc' = "separator" /\ runs' = write_utf8(normalize_utf8(records[row]))
    /\ UNCHANGED <<args, row, buffer, handle, stream, stdio, disk>>

Separator ==
    /\ pc = "separator" /\ runs = <<>>
    /\ runs' = write_utf8(normalize_utf8(sep))
    /\ row' = row + 1 /\ pc' = "record"
    /\ UNCHANGED <<args, buffer, handle, stream, stdio, disk>>

available == BufferSize - Len(buffer)

Writing == pc \in {"record", "separator"} /\ runs # <<>>

\* flush(), from write() when the buffer is full with bytes still to come,
\* and from close().
MustFlush ==
    \/ Writing /\ Head(runs) # <<>> /\ available = 0
    \/ pc = "close" /\ handle /\ buffer # <<>>

\* One iteration of the loop of write(): as much as the buffer still takes.
Copy ==
    /\ Writing /\ ~MustFlush
    /\ LET data == Head(runs)
           count == IF Len(data) < available THEN Len(data) ELSE available
       IN  /\ buffer' = buffer \o SubSeq(data, 1, count)
           /\ runs' = IF count = Len(data) THEN Tail(runs)
                      ELSE <<SubSeq(data, count + 1, Len(data))>> \o Tail(runs)
    /\ UNCHANGED <<args, pc, row, handle, stream, stdio, disk>>

\* fwrite() takes the whole buffer.
used_after_flush == <<>>

Flush ==
    /\ MustFlush
    /\ stdio' = stdio \o buffer
    /\ buffer' = used_after_flush
    /\ UNCHANGED <<args, pc, row, runs, handle, stream, disk>>

\* fwrite() takes fewer bytes than it was given, or sets the error
\* indicator: used_ keeps its value.
FlushFails ==
    /\ MustFlush
    /\ \E n \in 0..Len(buffer) : stdio' = stdio \o SubSeq(buffer, 1, n)
    /\ pc' = "failed"
    /\ UNCHANGED <<args, row, runs, buffer, handle, stream, disk>>

\* stdio writes some of what it holds whenever it likes.
Drain ==
    /\ stream = "open" /\ stdio # <<>>
    /\ disk' = Append(disk, Head(stdio)) /\ stdio' = Tail(stdio)
    /\ UNCHANGED <<args, pc, row, runs, buffer, handle, stream>>

Freed == IF stream = "open" THEN "closed" ELSE "freed twice"

\* close() after its flush(): handle_ is cleared before fclose() is tried.
handle_at_close == FALSE

Close ==
    /\ pc = "close" /\ ~MustFlush
    /\ handle' = handle_at_close /\ stream' = Freed
    /\ stdio' = <<>> /\ disk' = disk \o stdio
    /\ pc' = "returned"
    /\ UNCHANGED <<args, row, runs, buffer>>

CloseFails ==
    /\ pc = "close" /\ ~MustFlush
    /\ handle' = handle_at_close /\ stream' = Freed
    /\ \E n \in 0..Len(stdio) : disk' = disk \o SubSeq(stdio, 1, n)
    /\ stdio' = <<>>
    /\ pc' = "failed"
    /\ UNCHANGED <<args, row, runs, buffer>>

\* The destructor: close_noexcept().  What stdio holds may still reach the
\* disk, what is staged is discarded.
in_flight == stdio

Destroy ==
    /\ pc \in {"refused", "failed", "returned"}
    /\ IF handle
         THEN /\ handle' = FALSE /\ stream' = Freed
              /\ \E n \in 0..Len(in_flight) : disk' = disk \o SubSeq(in_flight, 1, n)
              /\ stdio' = <<>>
         ELSE UNCHANGED <<handle, stream, stdio, disk>>
    /\ buffer' = <<>>
    /\ pc' = CASE pc = "refused" -> "refusal raised"
               [] pc = "failed" -> "error raised"
               [] pc = "returned" -> "done"
    /\ UNCHANGED <<args, row, runs>>

Ended == pc \in {"refusal raised", "error raised", "done"}

Steps ==
    \/ Check \/ Unwind \/ Open \/ OpenFails \/ Record \/ Separator \/ Copy \/ Flush
    \/ FlushFails \/ Drain \/ Close \/ CloseFails \/ Destroy

Next == Steps \/ (Ended /\ UNCHANGED vars)

Spec == Init /\ [][Next]_vars /\ WF_vars(Steps)

-----------------------------------------------------------------------------

\* What the call asks to be in the file: what every record says, and the
\* separator behind it.
Expected ==
    FlattenSeq([k \in DOMAIN records |-> Repaired(Stated(records[k])) \o Repaired(Stated(sep))])

\* Every variable has its type: the staging buffer never holds more than its
\* capacity, and a run is a sequence of bytes.
TypeOK ==
    /\ pc \in {"check", "open", "record", "separator", "close", "refused", "failed",
               "returned", "refusal raised", "error raised", "done"}
    /\ row \in 1..(Len(records) + 1)
    /\ runs \in Seq(Seq(0..255))
    /\ buffer \in Seq(0..255) /\ Len(buffer) <= BufferSize
    /\ handle \in BOOLEAN
    /\ stream \in {"none", "open", "closed", "freed twice"}
    /\ stdio \in Seq(0..255) /\ disk \in Seq(0..255)

\* No byte is lost, repeated or reordered on its way through write_utf8(), the
\* buffer and stdio: whatever failed, the file is a prefix of what was asked
\* for, and the bytes in flight continue it.
FileIsAPrefix ==
    stream # "none" =>
        /\ IsPrefix(disk, Expected)
        /\ stream = "open" /\ pc # "failed" => IsPrefix(disk \o stdio \o buffer, Expected)

\* A call that returns has the whole text on the disk, nothing in flight.
ReturnedIsWritten == pc \in {"returned", "done"} => disk = Expected

\* A call with a missing or bytes-marked argument never touches the file,
\* however far into the vector the argument is ("missing strings are not
\* supported" comes before fopen() truncates), nor does one that cannot
\* convert the separator, translate the path or open the file.
RefusalKeepsFile ==
    \/ Unusable(sep) \/ (\E i \in DOMAIN records : Unusable(records[i]))
    \/ pc \in {"refused", "refusal raised"}
    => disk = old

\* Whatever happens between fopen() and the end of the frame, the FILE is
\* closed, and once: a throwing close() does not leave it to the destructor.
FileClosedOnce ==
    /\ stream # "freed twice"
    /\ Ended => stream # "open" /\ ~handle

\* Every call ends: write() makes progress whatever the buffer holds.
CallEnds == <>Ended

=============================================================================
