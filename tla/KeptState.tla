----------------------------- MODULE KeptState -----------------------------
(***************************************************************************)
(* What is kept from one element, call or session to the next, and used    *)
(* again: the slices of an arena and of the output stores, files, the      *)
(* converter of native text, a worker's regular expression matcher, the    *)
(* data of ICU and the backend of an operation.                            *)
(* One of them is in use in a behaviour; the others stay at their initial  *)
(* state.                                                                  *)
(***************************************************************************)
EXTENDS SliceArena, OutputStores, IcuInit, BackendDispatch, SequencesExt, FiniteSetsExt

CONSTANTS
    Parts,              \* the parts explored
    MaxChars,           \* characters of a converted text
    Null, Bogus         \* see RegexMatcher

VARIABLES
    part,
    \* LineFiles
    lines_records, sep, old, lines_pc, row, runs, buffer, handle, stream, stdio, disk,
    op, rpc, rhandle, size, lines_seen, source, text, lines_i, line_begin, line_ascii,
    pending_line, scan, source_scan, warnings,
    \* NativeToUtf8
    native_call, native_pc, native_i, native_phase, descriptors, native_is_utf8_,
    scratch_, input, native_used, views, error,
    \* RegexMatcher
    matcher_, pattern_identity_, options_, subject_, subject_identity_, byte_offsets_,
    subject_ascii_, byte_offsets_valid_, bound, regex_call, answer

lines == <<lines_records, sep, old, lines_pc, row, runs, buffer, handle, stream,
           stdio, disk, op, rpc, rhandle, size, lines_seen, source, text, lines_i,
           line_begin, line_ascii, pending_line, scan, source_scan, warnings>>
native == <<native_call, native_pc, native_i, native_phase, descriptors,
            native_is_utf8_, scratch_, input, native_used, views, error>>
regex == <<matcher_, pattern_identity_, options_, subject_, subject_identity_,
           byte_offsets_, subject_ascii_, byte_offsets_valid_, bound, regex_call,
           answer>>
writer_but_old == <<lines_records, sep, lines_pc, row, runs, buffer, handle, stream,
                    stdio>>
arena == <<slices, capacity, used, given>>
all_vars == <<part, arena, lines, native, stores_vars, regex, load_vars, dispatch_vars>>

-----------------------------------------------------------------------------
(* Files: vectors of up to two records that straddle a buffer of three     *)
(* bytes, ill-formed texts, texts with a byte order mark, converted ones   *)
(* and unusable ones among them; and texts of up to three pieces, among    *)
(* them terminators of one, two and three bytes, ill-formed sequences of   *)
(* one and two bytes, a NUL and a byte order mark.                         *)

Line(b) == [kind |-> "text", bytes |-> b]
FromNative(b) == [kind |-> "converted", bytes |-> b]
Other(k) == [kind |-> k, bytes |-> <<>>]
ByteOrderMark == <<239, 187, 191>>

WrittenTexts == {Line(b) : b \in {<<>>, <<97, 98>>, <<97, 195, 97>>, <<128>>, <<239, 191>>,
                                  <<195, 169>>, ByteOrderMark \o <<97>>, <<97, 13>>,
                                  ByteOrderMark \o ByteOrderMark}}
                \cup {FromNative(ByteOrderMark \o <<97>>)}
LaterTexts == {Line(b) : b \in {<<>>, <<97, 195, 97>>, <<239, 191>>, ByteOrderMark \o <<97>>}}
              \cup {FromNative(ByteOrderMark)}
Written ==
    SeqOf(WrittenTexts, 1) \cup {<<x, y>> : x \in WrittenTexts, y \in LaterTexts}
    \cup {<<x, Other(k)>> : x \in WrittenTexts, k \in {"missing", "bytes", "unconvertible"}}
LineEnds == {Line(<<10>>), Line(ByteOrderMark \o <<13, 10>>), Line(<<>>), Other("missing"),
             Other("unconvertible")}

ReadTexts ==
    {FlattenSeq(s) : s \in SeqOf({<<97>>, <<10>>, <<13>>, <<194, 133>>, <<195>>}, 3)}
    \cup {ByteOrderMark \o t : t \in {<<>>, <<97, 10>>, <<195, 13, 10>>}}
    \cup {<<239, 187>>, <<239, 191, 10>>, <<97, 239, 191>>, <<226, 128, 168, 195, 169>>,
          <<97, 0, 10>>, <<0, 97>>, <<97, 195, 10, 13, 10, 128, 13, 98>>, <<195, 195, 195, 195>>}

Files == INSTANCE LineFiles
    WITH BufferSize <- 3, IntMax <- 100, Records <- Written, Separators <- LineEnds,
         OldContents <- ReadTexts, records <- lines_records, pc <- lines_pc,
         seen <- lines_seen, i <- lines_i

Reading == INSTANCE LineReader
    WITH IntMax <- 11, Contents <- ReadTexts, file <- disk, pc <- rpc,
         handle <- rhandle, seen <- lines_seen, i <- lines_i

(* Native text: a; e, of two bytes in UTF-8; j, of three, shifted in the   *)
(* native encoding; z, which neither direction accepts; and the byte order *)
(* mark.                                                                   *)

Widths ==
    [latin1 |-> [a |-> 1, e |-> 2, j |-> 3, z |-> 0, bom |-> 3],
     native |-> [a |-> 1, e |-> 2, j |-> 3, z |-> 0, bom |-> 3],
     utf8_to_native |-> [a |-> 1, e |-> 0, j |-> 2, z |-> 0, bom |-> 2]]
Shifts == [latin1 |-> {}, native |-> {}, utf8_to_native |-> {"j"}]

NativeTexts ==
    SeqOf({"a", "j"}, MaxChars)
    \cup {<<"e">>, <<"a", "z">>, <<"j", "z">>, <<"bom", "a">>, <<"e", "e", "j">>, <<"j", "j", "j", "z">>}
Record(e, t) == [enc |-> e, chars |-> t]
Marked ==
    {Record(e, t) : e \in {"latin1", "native"}, t \in NativeTexts}
    \cup {Record("utf8", <<"bom", "a">>), Record("ascii", <<"a">>), Record("na", <<>>), Record("bytes", <<>>)}
NativeRecords == {Record("native", t) : t \in NativeTexts} \cup {Record("na", <<>>)}

NativeCall(m, r, b, u) == [mode |-> m, records |-> r, strip_bom |-> b, native_is_utf8 |-> u]
NativeCalls ==
    {NativeCall(m, <<r, s>>, TRUE, u) :
       m \in {"normalize", "transient"}, r \in Marked, s \in Marked, u \in BOOLEAN}
    \cup {NativeCall("normalize", <<r>>, FALSE, u) : r \in Marked, u \in BOOLEAN}
    \cup {NativeCall("transcode", <<r, s>>, FALSE, FALSE) : r \in NativeRecords, s \in NativeRecords}
AnyNativeCall == NativeCall("normalize", <<Record("na", <<>>)>>, FALSE, FALSE)

Native == INSTANCE NativeToUtf8
    WITH Width <- Widths, Shifted <- Shifts, Calls <- NativeCalls, R_LEN_T_MAX <- 8,
         initial_capacity <- 2, min_growth <- 1, call <- native_call, pc <- native_pc,
         i <- native_i, phase <- native_phase, used <- native_used

(* Stores: a missing record, an empty one, and two lengths that add up to  *)
(* the limit.                                                              *)

StoreLengths == {-1, 0, 1, 2}

(* The regular expression matcher of a worker: k, the Kelvin sign, which   *)
(* is its case variant, an emoji, and a stray byte, which is converted to  *)
(* U+FFFD.                                                                 *)

Subject(e, c) == [enc |-> e, chars |-> c]
RegexSubjects ==
    <<Subject("ascii", <<"k", "k", "k", "k", "k", "k", "k">>), Subject("utf8", <<"e", "K">>),
      Subject("ascii_or_utf8", <<"k">>), Subject("utf8", <<"x", "k">>), Subject("na", <<>>)>>

Pattern(n, s, g) == [kind |-> n, set |-> s, group |-> g]
RegexPatterns ==
    <<Pattern("class", {"K", "e"}, {"e"}), Pattern("star", {"K"}, {}), Pattern("behind", {}, {}),
      Pattern("broken", {}, {}), Pattern("missing", {}, {})>>

ByteWidths == [k |-> 1, K |-> 3, e |-> 4, x |-> 1]
UnitWidths == [k |-> 1, K |-> 1, e |-> 2, x |-> 1]

Regex == INSTANCE RegexMatcher
    WITH Bytes <- ByteWidths, Units <- UnitWidths, Caseless <- {{"k", "K"}},
         Subjects <- RegexSubjects, Patterns <- RegexPatterns,
         Options <- {"plain", "caseless"}, Limits <- {-1, 0, 2, 6},
         Replacements <- {Null, <<"K", "x">>}, IntMax <- 7, call <- regex_call

(* Public functions called from outside, and from a callback of one of     *)
(* them.                                                                   *)

PublicCalls ==
    <<{"str_replace_all", "str_split", "str_locate_all", "str_sub_all", "str_detect", "str_view",
       "str_write_lines"},
      {"str_replace_all", "str_write_lines"}>>

-----------------------------------------------------------------------------
ASSUME InputsAssumption ==
    /\ Parts \subseteq {"arena", "lines", "reading", "native", "stores", "regex", "icu", "backend"}
    /\ Native!ConverterAssumption /\ StoreAssumption /\ Regex!RegexAssumption
    /\ MaxLoadsAssumption /\ DispatchAssumption

\* A part that is not in use has some input.
Unused(p, v, x) == part # p => v = x

\* A file is written and then read, or read as it is found.
FilesInit ==
    /\ Unused("lines", lines_records, <<>>) /\ Unused("lines", sep, Line(<<10>>))
    /\ Unused("reading", old, <<97>>) /\ Files!Init
    /\ Unused("reading", op, [name |-> "read", omit_empty |-> FALSE, keep_trailing |-> FALSE,
                              kind |-> "text"])
    /\ Reading!ReaderInit
    /\ op.kind = "converted" => Reading!has_bom(old)
    /\ op.kind \in {"unconvertible", "bytes", "missing"} => old = <<>>

KeptInit ==
    /\ part \in Parts
    /\ Init /\ FilesInit
    /\ Unused("native", native_call, AnyNativeCall) /\ Native!Init
    /\ Unused("stores", mode, "vector") /\ StoresInit
    /\ Unused("regex", options_, "plain") /\ Regex!Init
    /\ Unused("icu", bundled, TRUE) /\ LoadInit
    /\ Unused("backend", option, "base") /\ DispatchInit

KeptNext ==
    \/ /\ part = "arena" /\ Next
       /\ UNCHANGED <<part, lines, native, stores_vars, regex, load_vars, dispatch_vars>>
    \/ /\ part = "lines" /\ Files!FilesNext
       /\ UNCHANGED <<part, arena, native, stores_vars, regex, load_vars, dispatch_vars>>
    \/ /\ part = "reading" /\ Reading!Next /\ old' = disk'
       /\ UNCHANGED <<part, writer_but_old, arena, native, stores_vars, regex, load_vars,
                      dispatch_vars>>
    \/ /\ part = "native" /\ Native!Next
       /\ UNCHANGED <<part, arena, lines, stores_vars, regex, load_vars, dispatch_vars>>
    \/ /\ part = "stores" /\ StoresNext
       /\ UNCHANGED <<part, arena, lines, native, regex, load_vars, dispatch_vars>>
    \/ /\ part = "regex" /\ Regex!Next
       /\ UNCHANGED <<part, arena, lines, native, stores_vars, load_vars, dispatch_vars>>
    \/ /\ part = "icu" /\ LoadNext
       /\ UNCHANGED <<part, arena, lines, native, stores_vars, regex, dispatch_vars>>
    \/ /\ part = "backend" /\ DispatchNext
       /\ UNCHANGED <<part, arena, lines, native, stores_vars, regex, load_vars>>

\* A call to write lines and a conversion are loops of the calling thread.
Fairness ==
    /\ WF_lines(part = "lines" /\ ~Files!Ended /\ Files!FilesNext)
    /\ WF_native(part = "native" /\ native_pc # "end" /\ Native!Next)

KeptSpec == KeptInit /\ [][KeptNext]_all_vars /\ Fairness

-----------------------------------------------------------------------------
\* Whatever fails between fopen() and the end of the call, a file holds a prefix
\* of what was to be written, all of it when the call returns, and what it held
\* before when the arguments were refused; what is read is the repaired text of
\* the file as it was when it was read, cut into its lines; records written one
\* per line are read back as they were, but for the byte order marks that lead
\* them; a string is cut into the lines of what it says; and every file is
\* closed, once
\* (str_write_lines, str_read_lines, str_split_lines).
FilesKeepRecords ==
    /\ part = "lines" =>
         /\ Files!TypeOK /\ Files!RoundTrip /\ Files!CutFileReadsAsRecords
         /\ Files!FileClosedOnce
         /\ rpc = "open" =>
              Files!FileIsAPrefix /\ Files!ReturnedIsWritten /\ Files!RefusalKeepsFile
    /\ part = "reading" =>
         Reading!TypeOK /\ Reading!ScanIsExact /\ Reading!ReadingIsRepaired
         /\ Reading!SplitIsOfTheString /\ Reading!RepairFits
         /\ Reading!ReadingIsOfTheFile /\ Reading!HandleIsClosed

\* What a converter or a matcher returns is what its input stands for, whatever
\* was converted or searched before: no shift state, view, offset or flag of an
\* earlier record is left in it, and a failure is one of the input
\* (convert_native, regex::Matcher).
TextsAreExact ==
    /\ part = "native" => Native!TypeOK /\ Native!ViewsAreExact /\ Native!FailuresAreReal
    /\ part = "regex" =>
         Regex!TypeOK /\ Regex!CacheIsSound /\ Regex!AnswersAreExact
         /\ Regex!SplitIsExact /\ Regex!PositionsAreExact

\* A call to write lines ends, whatever the buffer holds, and so does a
\* conversion, although its buffer grows until the converter is satisfied.
CallsEnd ==
    /\ part = "lines" => Files!CallEnds
    /\ part = "native" => Native!CallEnds

=============================================================================
