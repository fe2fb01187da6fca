# A TLA+ development for charr

charr is an R package: stringr's functions over three interchangeable backends,
of which the default one (`altrep`) runs most operations on several threads.
This directory models the parts of it where correctness depends on the order in
which things happen, checks them with TLC on small instances, and proves the
main results with TLAPS for every instance.

Paths below are relative to the repository; `shared/` is `src/shared/`,
`altrep/` is `src/altrep_backend/`.

## 1. The system

| Part | State | Operations | What is hard about it |
|---|---|---|---|
| Threading settings and plan (`shared/parallel.cpp`, `R/aaa-backend-core.R`) | three static settings | accessors, native setters, `parallel_plan()` | rounding and saturation at the limits |
| Parallel region (`shared/parallel.{h,cpp}`) | claim cursor, one context and one report per worker, warning counters | spawn, claim, run a task, fail, stop early, join, reduce | interleavings; thread creation that fails half way; the result must be the serial one |
| Entry point protocol (`shared/entrypoint.h`, `unwind.h`, `protect.h`, `icu_fatal.cpp`) | R's protection stack, C++ owners, captured errors | every `.Call` entry point, 143 of them | R leaves by `longjmp`, C++ by exceptions, and neither may cross the other |
| Fixed-pattern kernels (`altrep/ci_search_fixed_*.cpp`) | parked indices, output | a direct region, then a general region for the rest | resuming where a serial scan would have stopped |
| Encoding conversion (`altrep/ci_encoding_conversion.cpp`) | per-chunk warning queues, cutoffs | convert, merge, emit | serial order of warnings, two places to fail |
| Output stores (`altrep/io/utf8_output.cpp`) | per-worker rows of chunk stores, builders | open, append, concatenate, stage | task order recovered from chunk order |
| Regex, collation, class and boundary search (`altrep/ci_search_*`) | a matcher, collator or iterator per worker | bodies of regions | warnings of resources opened once per worker |
| Byte and fixed search (`shared/fixed_search.cpp`, `byte_search_matcher.h`) | search tables | find, count, backwards | agreement with a naive search |
| UTF-8 and substrings (`shared/utf8.cpp`, `substring.cpp`, `altrep/ci_sub.cpp`) | cached positions | forward, backward, range, replace | stale caches, int limits |
| Lines (`shared/line_split.cpp`, `read_lines.cpp`, `write_lines.cpp`) | file handle and buffer | read, split, write, close | partial failure of I/O |
| Wrapping (`shared/wrap.cpp`) | cost table | greedy and dynamic line breaking | optimality |
| Duplicates and ordering (`shared/index_hash_table.h`, `collation_ordering.cpp`) | open-addressing table | probe, store, second pass | a full table |
| Join, length, reverse, escape, case mapping (`altrep/ci_join.cpp`, `ci_length.cpp`, ...) | columns, one buffer, a converter | measure, write, map records | sizes measured in one pass and relied on in the next |
| Regular expressions (`shared/regex_search.cpp`, `altrep/ci_search_regex_*.cpp`) | the subject's UTF-16 text, byte offsets, compiled pattern | find, count, split, replace, match, capture names | what a call leaves in the matcher for the next |
| Native text (`shared/native_to_utf8.cpp`) | descriptors, one scratch buffer | convert | a view that the next conversion overwrites |
| Storage arena (`shared/slice_arena.h`) | slices | allocate | growth, disjointness |
| ICU start-up (`runtime/icu.cpp`), dispatch (`R/zzz-backend-dispatch.R`) | process-wide flags, an R option | load, dispatch | repeated and nested calls |
| Base backend (`src/base_backend/`) | none beyond the entry point | the same operations, serial | as above without threads |

How they interact: an R function dispatches to a backend and calls an entry
point. The entry point prepares its arguments, builds C++ owners, and inside one
`R_UnwindProtect` callback asks for a plan and runs one or more parallel regions
over bodies that write into the owners or into the result. The region joins its
workers and returns, or raises one failure. The owners are destroyed, then
warnings are raised, then the error or the result is returned.

## 2. Modules

| Module | Models | Checked by | Proved in |
|---|---|---|---|
| `ParallelPlan` | settings, accessors, `parallel_plan()` | `ParallelPlan.cfg`, `ParallelPlanSpread.cfg` | `CallPath_proofs` |
| `ParallelRegion` | `run_region()` and `SerialWarnings` | `ParallelRegion*.cfg` | `ParallelRegion_proofs`, `RegionExit_proofs`, `RegionWarnings_proofs` |
| `RegionContract` | what `run_parallel()` promises its caller | as the target of the refinement | |
| `RegionRefinement` | the refinement mapping | `RegionRefinement.cfg` | `RegionExit_proofs` |
| `EntryPoint` | the entry-point macros and `unwind_protect()` | `EntryPoint.cfg` | `CallPath_proofs` |
| `FixedKernels` | count, detect and replace by fixed patterns: direct region, refusals, general region, recycling lanes | `ThreadedCalls.cfg` | |
| `FixedExtract` | extracting all fixed matches: chunk plans, segments, merge | `ThreadedCalls.cfg` | |
| `RegexReplace`, `RegexMatch` | replacing and matching by regular expressions | `ThreadedCalls.cfg` | |
| `SubReplaceAll` | splicing several ranges into one text | `ThreadedCalls.cfg` | |
| `WrapCall` | `ci_wrap()`: normalization, region, chunk stores and their merge | `ThreadedCalls.cfg` | |
| `Joining` | `ci_join()` and `ci_flatten()` | `ThreadedCalls.cfg` | |
| `RecordMaps` | length, width, reverse, escape, case: preflight, region, serial loop | `ThreadedCalls.cfg` | `RecordMaps_proofs` |
| `ConversionWarnings` | `ci_encode_string()`: queues, cutoffs, native output, merge | `ThreadedCalls.cfg` | |
| `SubstringRanges`, `SubExtract` | windows by from and to or length; `ci_sub()` and its second pass | `TextAlgorithms.cfg` | `SubExtract_proofs` |
| `IndexerContract`, `Utf8Indexer` | an indexer without a cache; the one with two cached places | `TextAlgorithms.cfg` | `TextStorage_proofs` |
| `FixedMatcher` | fixed and byte search, case folding, splitting | `TextAlgorithms.cfg` | |
| `CaptureNames` | the scan of a pattern for the names of its groups | `TextAlgorithms.cfg`, `CaptureColumns.cfg` | |
| `WordWrap` | the wrap engine: greedy, dynamic and direct plans | `TextAlgorithms.cfg` | |
| `CollationOrdering` | duplicates through the probing table, orders and ranks | `TextAlgorithms.cfg` | |
| `SliceArena` | the storage arena | `KeptState.cfg` | `TextStorage_proofs` |
| `LineBytes`, `LineWriter`, `LineReader`, `LineFiles` | bytes of lines; writing, reading and splitting them; a file written and read | `KeptState.cfg` | |
| `NativeToUtf8` | the converter of Latin-1 and native text | `KeptState.cfg` | |
| `OutputStores` | builders, stores, packs and who owns their slices | `KeptState.cfg` | `OutputStores_proofs` |
| `RegexMatcher` | a worker's matcher over any sequence of calls | `KeptState.cfg` | |
| `IcuInit` | loading the package any number of times | `KeptState.cfg` | `CallPath_proofs` |
| `BackendDispatch` | public dispatchers, backend environments, nested calls | `KeptState.cfg` | `CallPath_proofs` |

The `MC...` modules only give constants their values. `ThreadedCalls`,
`TextAlgorithms` and `KeptState` bring the components of three kinds together,
give them their inputs, and state what the components of a kind have in common;
section 2.5 says how.

### ParallelPlan

The variables are the three statics of `parallel.cpp`, the last answer given to
R and the last plan made. Each native setter is an action and is reachable both
through its R accessor, which validates, and by a direct `.Call`, which does
not; `AccessorAborts` is the R error, `AllocationFails` an R error while the
answer is allocated. R numbers are kept in halves, so that truncation and the
test for whole numbers mean something. The limits 256, 2^52, `INT_MAX` and
`R_xlen_t` are constants.

### ParallelRegion

`main` is where the calling thread is in `run_region()`, `pc[w]` where worker
`w` is in its `run()`. `Claim` and `ClaimNothing` are the one `fetch_add` of
`ChunkQueue::claim()`, which a failing claim performs too. `EnterOwnLane` may
happen before every worker was spawned: that is thread creation being refused,
after which `RunInline` runs the missing workers on the calling thread, in
order. `SpawnWorker` never fails by itself because the code stops spawning at
the first refusal. The reports, contexts and warning counters are the fields of
the C++ objects. With `Workers = 1` the same actions are the serial plan.

What the body does is an input, fixed at the start: the tasks that warn, throw
or are refused, the workers whose setup warns or throws, the tasks that need a
resource opened on first use. `MCParallelRegion` lists the shapes the altrep
backend has. `forgetful` bodies return after one chunk: no operation does, but
`run_region()` tests for it.

A worker's step at one task is one action. It touches its own context and
report, the counter of the chunk it holds and the output element of the task,
none of which another worker touches, because chunks are disjoint. That depends
on the cursor alone (`ChunkInv`), not on how finely a task is cut into steps.

### RegionContract and RegionRefinement

The contract has tasks, writes, parked indices and an outcome, and no threads.
A task is written at most once; the region returns only if everything below the
lowest parked index is written and nothing threw below it; it raises only what a
serial run would have reached first. `RegionRefinement` maps the indices where
workers stopped early to `parked`. Operations that run several regions are to be
modelled on the contract instead of on the threads.

### EntryPoint

`pc` follows an entry point through `CHARR_ENTRYPOINT_BEGIN`, its prelude, the
owners of the `try` block, the callback, and `CHARR_ENTRYPOINT_END`. `depth` is
R's protection stack above the caller's part; `entry` and `callback` are the two
`ProtHelper` counters. `RError` is a jump out of the callback: R cuts its stack
back to where `R_UnwindProtect` began (`top`) and `call_cleanup()` turns the jump
into a C++ exception. `Throw` is an exception of the operation, which
`call_body()` captures. `icu_invariant_failure` is one or the other depending on
whether a parallel body is running. While `region = "running"` workers read the
frame; that an exception leaves a region only after the join is what
`ParallelRegion` establishes (`JoinedBeforeExit`). R itself is external.

The callback may do its steps in any order, any number of times up to the
bounds, so one model stands for all 143 entry points. Warnings that are raised
inside the callback, as the encoding conversions do, are R calls like any other.

### Components of the operations

Every component has the variables and functions of its source under the same
names, and one action per step another thread, a failure or a later call could
meet; what lies between two such steps is one action. The text of a record is
abstracted to what its operation tells apart: a kind (`"hit"`, `"bytes"`,
`"broken"`), a sequence of characters with their widths, or bytes where bytes
decide (`LineBytes`).

* `FixedKernels` runs its regions on `RegionContract`: the tasks of the direct
  region are written in any order, stop at any refused record, and the general
  region resumes at `lowest_ineligible()`. `AttemptIsDiscarded` is the replace
  path that throws the attempt away, `LanesPartition` the recycling lanes.
* `FixedExtract`, `RegexReplace`, `RegexMatch`, `WrapCall`, `RecordMaps` and
  `ConversionWarnings` have workers that claim chunks themselves, because what
  is staged by chunk (plans, stores, lanes, queues, slots) is what they are
  about. Each states what the loop over the elements gives and compares.
* `SubReplaceAll` validates rows on the calling thread and assembles them in any
  order; the reference splices range by range. `Joining` measures, computes
  offsets and writes rows in any order; sizes are limited by a small `Limit`.
* `Utf8Indexer` has a step per iteration of its walks; `IndexerContract` answers
  by counting from the start.
* `FixedMatcher` and `CollationOrdering` have a step per comparison and per
  probe; the table, the rebinding and the fallback are the code's.
* `WordWrap` computes the cost table cell by cell, and compares with the least
  cost over all plans. `CaptureNames` reads a pattern as the code does.
* `LineWriter` has a step per `fwrite` with any number of bytes reaching the
  disk; `LineReader` a step per call of the C library, between which the file
  may change. `LineFiles` composes the two on one path. A string has bytes and a
  kind: `"text"` (ASCII or UTF-8), `"converted"` (Latin-1 or native, by its UTF-8
  bytes), `"unconvertible"`, `"bytes"` or `"missing"`. `normalize_utf8()` drops
  the byte order mark that leads a `"text"`, and none from a converted one; the
  writer does so for every record and for the separator, the reader once for the
  file, and a string that is split is normalized first. The reference
  (`Stated`) works on code points instead of bytes. So `RoundTrip` does not say
  that records come back unchanged: a record written one per line is read
  back without the mark that led it, and the file's first line without one more.
* `Joining` has ASCII, UTF-8, Latin-1, native, bytes and missing values. The
  session's encoding is UTF-8 there, so that no conversion of native text
  fails; conversions that fail are what `NativeToUtf8` is about.
* `NativeToUtf8` has a step per `iconv` call: too small a buffer, an illegal
  sequence, the reset of the shift state. `RegexMatcher` has an action per
  public method, and a conversion or a compilation that throws.
* `OutputStores` follows the owner of every slice through appending,
  concatenating, staging and the R objects, with an R error at any allocation.
  `IcuInit` lets every call of `load_icu()` fail. `BackendDispatch` is a stack of
  R closures, in which user code may set the option or call again.

### 2.5 ThreadedCalls, TextAlgorithms and KeptState

R makes one call at a time, so a behaviour of these modules is a behaviour of one
component, chosen by `part` at the start; the others keep some input and do not
move. Nothing is lost by that: the components share no state, except those that
are composed (`FixedKernels` on `RegionContract`, `Utf8Indexer` on its contract,
`SubExtract` on `SubstringRanges`, reader and writer in `LineFiles`). What it
gives is one statement per promise: `ResultsAreSerial` is the same sentence for
every threaded operation, and each conjunct is the form it takes in one
component, stated and explained there. Components whose properties are proved
have no such conjunct: the run checks the very formula of the theorem
(`MapsAreSerial` and `StoresKeepText`, which contain their inductive invariants,
`LoadsKeepIcu`, `OperationKeepsBackend`, `GivenIsDisjoint`). For that the suite
extends their modules instead of instantiating them.

## 3. Runs

| Run | Distinct states | Question |
|---|---|---|
| `plan` | 5,040 | Is every plan sound after any sequence of setting calls? |
| `plan_spread` | violation | Are there never fewer chunks than threads? |
| `region` | 910,768 | Does the region end as a serial run would, with each element written at most once? |
| `region_undrained` | 51,121 | Is a body that forgets to loop noticed? |
| `region_live` | 118,308 | Does every region end? |
| `region_warning_count` | violation | Is `warnings.count()` the serial count? |
| `region_refinement` | 430,796 | Does the region keep the contract of `run_parallel()`? |
| `entry_point` | 1,055 | Are owners, protections, result and warnings handled on every way out? |
| `threaded_calls` | 606,562 | Do threaded operations return, raise and warn as a loop over their elements? |
| `text_algorithms` | 179,846 | Do the algorithms on texts and keys agree with their definitions, and end? |
| `capture_columns` | violation | Has every named group its name? |
| `kept_state` | 452,460 | Is what is kept between elements, calls and loads right, owned and released, whatever fails? |

Each property also has a mutant, a plausible mistake in the code written next to
the definition it changes, under which TLC reports the property violated.

### Bounds

* `plan`: `WorkerMaximum = 4`, `CountMaximum = 6`, `IntMax = 5`, tasks up to 13.
  R values run below and above every limit, so saturation, truncation, the
  answer that does not fit an int, and every rounding of the cut occur.
* `region`: 5 tasks in chunks of 2 give two full chunks and a short one, for 3
  workers; one worker can hold two chunks while another holds none. Two
  throwing tasks are needed for the choice of the failure to matter, and all
  sets of warning or refused tasks are taken.
* `region_undrained` has 2 workers for 3 chunks: with as many workers as chunks
  the last chunk is always claimed and the test cannot fail.
* `region_live` has one chunk fewer, for the liveness check.
* `region_refinement` allows one throw: the competing failure is a setup's.
* `entry_point`: three arguments, three callback protections, two warnings. More
  of each adds states of the same shape.
* `threaded_calls`: two or three workers, chunks of one, two or three elements,
  vectors of up to three elements, each of the kinds chosen for its operation at
  every place, and longer ones (four, five) where recycling or a third chunk matters.
  Failures and warnings below, in and above the failing chunk occur in every
  order of the workers.
* `text_algorithms`: ints of -8..7 with every pair of from and to or length,
  on missing texts and texts of 0, 3 and 7 code points; recycled calls of up to
  seven rows. Indexed texts have up to three code points of one or two bytes, so
  that a goal can lie before, between and behind the two cached places. Patterns of up
  to four letters with borders of their own; a case variant of another byte
  length. All patterns of up to four elements with groups. Records of up to three
  words for three exponents, with a second record planned by the same engine.
  Up to three strings, four where all keys are longer than their prefixes, with
  two hash functions, one of which makes all collide, and a probe limit of two.
* `kept_state`: four requests to an arena of sizes 0..9; a buffer of three bytes
  under up to two records of up to six bytes, the second from a shorter list;
  converters with a limit of eight bytes and a first buffer of two, for two
  records of up to four characters; two chunks of up to two records, which
  together exceed the two strings and three bytes of a pack; five subjects and
  five patterns for the matcher in any order, with no bound on the number of
  calls; eight loads; two levels of nested public functions.
* No symmetry is used: workers are compared by index in the reduction.

### Fairness

`FairSpec` has weak fairness of the calling thread and of each worker. A thread
that was started is scheduled by the operating system, no step waits for
another except the join, and a body's task is finite work. `EnterOwnLane` is
always possible while spawning, so no fairness of thread creation is assumed.

`LoopsEnd` and `CallsEnd` assume weak fairness of each loop they are about, while
it runs: it is sequential code, which nothing but the machine can stop. When a
matcher or an indexer is called next is left to the environment and not assumed.

### What the violations show

* `R/aaa-backend-core.R:142-144` says the chunk size is lowered "so that there
  are never fewer chunks than threads". `chunk_tasks()` lowers it to
  `ceil(tasks / workers)`, which can still give fewer: 5 tasks on 4 threads are
  3 chunks. `parallel_plan()` then starts 3 workers. `EveryWorkerCanDrawAChunk`
  and `ChunkingNeverDecidesThreading` are what does hold.
* `parallel.h:260` says `count()` "is the serial count". Resources opened per
  worker warn once per worker. Their callers test only `count() > 0`, and
  `WarnedIffSerialWarned` shows that answer to be the serial one;
  `TaskWarningsAreSerial` shows the count to be exact for warnings of tasks.
* `R/match.R:18-19` says the columns of `str_match()` are named after named
  groups. `capture_names()` reads the character after an opening parenthesis and
  does not look at it when it is no question mark, so in `((?<n>x))` the group
  `n` is missed. `NamesAreFound` is what does hold.

Five more places where the code does something else than a comment or a serial
run suggests were met while modelling. The models follow the code, and the
properties say what remains true:

* With native output a threaded conversion raises a worker's failure before it
  has looked at the output of earlier records (`ci_encoding_conversion.cpp:1057`);
  `EmissionIsSerial` excludes that case by name (`HiddenOutputFailure`).
* A list of patterns is applied chunk by chunk on workers and pattern by pattern
  serially (`ci_search_regex_replace.cpp:446`): which error is raised may differ,
  whether one is raised does not.
* The encodings of all records are looked at before the first is mapped on
  several workers (`ci_reverse.cpp:242` and its siblings): a call fails exactly
  when the serial one does, but possibly with the error of a later record.
* `ci_flatten()` tests the size before it tests for a missing element
  (`ci_join.cpp:1295`).
* `str_write_lines()` asks for the backend again after its arguments were
  evaluated (`R/write-lines.R:38`), unlike what `R/aaa-backend-core.R:36-38` says.

## 4. Proofs

All proofs are for every value of the constants under the named assumptions of
the modules (`LimitsAssumption`, `PlanAssumption`, `TextsAssumption`,
`IntMaxAssumption`, `CallsAssumption`, `WorkersAssumption`, `SizesAssumption`,
`StoreAssumption`, `MaxLoadsAssumption`, `DispatchAssumption`, `MapsAssumption`);
`EntryPoint` assumes nothing.

* **ParallelPlan** (`TypeInvariant`, `WorkersDrawChunks`, `ThreadsDecideThreading`,
  `TargetsAreRepresentable`, `SettingsAreRestored`). The type invariant is
  inductive. Soundness of a plan follows from lemmas about rounding up: the
  chunk is at most `ceil(tasks / workers)`, so it is smaller than `tasks` when
  there are two workers, and the last worker's chunk begins inside the range.
  That an answer passed back restores a setting is an action property; it needs
  `CountMaximum >= WorkerMaximum`, which the limits of the code satisfy: a
  smaller maximum would saturate a thread count on its way back.
* **ParallelRegion** (`RegionInvariant` and what follows from it). `OneWorkerPerTask`
  is not inductive: it says nothing about where the cursor is. `RegionInv` adds
  which workers have been started (`DriverInv`), that held chunks lie below the
  cursor and do not overlap (`ChunkInv`), that every task below the cursor is
  written once or pending in exactly the chunk of one worker (`TaskInv`), and
  what each report says about the task that stopped its worker (`ReportInv`).
  There is one lemma per action.
* **Exit** (`RaisesSerialFailure`, `ReturnMeansComplete`, `DirectPrefix`). After
  the join a pending task belongs to a worker that stopped at or below it. So
  the first task at which the body stops was claimed, its worker stopped exactly
  there, and every other failing worker held a higher chunk.
* **Cursor** (`CursorIsBounded`). `CursorInv` says that the cursor is a multiple of
  the chunk, at most one chunk past the last for every worker that is done, that
  a held chunk begins at a multiple of the chunk and ends a chunk later or at
  the last task, and that every task below the cursor lies below the end of a
  held chunk. A failing claim moves the cursor and ends its worker, which is why
  there is at most one for each.
* **Warnings** (`CountIsSerial`, `WarnedIsSerial`). `CountInv` says what the counters
  of `SerialWarnings` hold at any time: a worker's first counter its setup's
  warning, the counter of a chunk the tasks of that chunk that ran and warn, and
  for what a worker opens once, a count at or below the task that would have
  warned in a serial run. `CutInv` says where the counters were cut. When the
  region is over, the tasks that ran in the chunks kept are those a serial run
  reaches (`CutIsSerial`): below the first failure everything was claimed and
  written, and in the failing chunk its worker stopped there. `Total`, the loop
  of `SerialWarnings::count()`, is then shown to add up to the number of these
  tasks. The attempt to prove this showed that it is false of a body that both
  refuses tasks and warns, for a refused task does not stop the other workers;
  no body of the code does both (the direct kernels hold no `SerialWarnings`),
  which `SilentAssumption` in `ParallelRegion` states.
* **Refinement** (`Implements`). A worker's step is a write, a parked index or a
  stutter; the reduction is `Raise` or `Return` by the exit lemmas. The theorem
  assumes that no body is forgetful, without which the region may end in the
  `logic_error` that the contract does not have.
* **EntryPoint** (`EntryInvariant` and four corollaries). `EntryInv` says, for
  each stretch of the entry point, which errors may be pending, whether the
  frame is alive and that the counters add up to the stack.
* **RecordMaps** (`MapsSerial`). That a call returns what the serial loop returns is
  not inductive, for it says nothing of a call that is running. `MapsInv` says
  what the pass has put into the slots so far (`SlotIsRight`), that a worker has
  mapped its chunk without a failure up to where it is (`LaneIsRight`), that a
  report names the first failing record of its chunk (`ReportIsRight`), and that
  a record of a drawn chunk lies before a worker, is mapped, or lies behind a
  failure (`IsAccounted`). Two facts about one record carry the rest, for each of
  the five operations and every pair of encoding and text: a worker that reads a
  slot, or the record itself where the pass left it, makes of it what the serial
  loop makes (`LengthAgrees`, `WidthAgrees`, `ReverseAgrees`, `EscapeAgrees`,
  `CaseAgrees`, together `BodyIsInline`), and what the pass refuses the loop
  refuses too (`PreflightIsSerial`). After the join the least report is at the
  first record at which the loop fails (`RaisedIsFirst`): the worker of that
  record drew its chunk, because chunks are drawn in order and also after a
  failure, and nothing below it fails.
* **OutputStores** (`StoresAreExact`). `StoreInv` has two parts. `OwnInv` says that
  whoever has a record owns the slice it points into, and that every slice not
  freed has a record of its owner that points into it: without the second half
  nothing could be said about leaks. `PhaseInv` says where the texts of every
  chunk are in each phase, and which owners have nothing yet; taking a store over
  would otherwise drop the records of its new owner. There is one lemma for each
  way slices change hands (`MoveKeeps`, `CopyKeeps`, `DestroyKeeps`,
  `AppendKeeps`) and one for each action. `JoinedSteps` gives the texts of all
  chunks chunk by chunk, as `concat_stores()` joins them.
* **IcuInit** (`LoadsAreSafe`). `LoadInv` says that the buffer ICU has is the one the
  library keeps, that no buffer is alive but this one and the one being filled,
  and that ICU was started at most once; so a second try after a failed one
  reads no second buffer.
* **BackendDispatch** (`DispatchIsKept`). `DispatchInv` says that every frame on the stack
  runs in the environment of its operation's backend. It is inductive because
  every function that a cloned function calls is cloned itself
  (`TemplatesAreClosed`), so that none of them resolves to the namespace's; how deep the caller's code calls again is arbitrary.
* **Utf8Indexer** (`CacheExact`, `WalksExact`, `AnswersAreExact`). The cache alone is
  not inductive: a walk is between the two ends of the cache, so `IndexerInv` adds
  that a running walk stands at the start of a code point and on the right side of
  its goal. `U8_FWD_1` and `U8_BACK_1` are shown to move by one code point on any
  text with rising offsets. Refinement: a step of a walk stutters, its last step
  is the contract's reply.
* **SubExtract** (`WindowsAreExact`, `FilterIsExact`). Lemmas about `begin()`, `end()` and
  `length_endpoint()` show, for every width of the ints, that clamping the 64-bit
  sum selects what the unclamped sum would; the invariant is that every record
  written is exact, for every schedule of the workers. For the second pass
  `FilterInv` says that the workers' counts add up to the rows counted so far
  (`CountingInv`) and that the rows kept are those not dropped among the rows
  already visited, in the order of the walk (`OrderInv`). The sum of the counts
  is shown to be the size of a set of units (`SumCountsUnits`), to which one
  worker's increment adds one. `NextVisits` shows that `recycled_order_next()`
  steps through the rows by residue and then by position, whatever the lengths:
  the rows before its answer are those before the row it was given, and that row.
* **SliceArena** (`ArenaStaysValid`, `GivenStaysDisjoint`). Disjointness needs that
  everything given from the current slice lies below the cursor (`CurrentIsLast`)
  and that the cursor is inside its slice (`ArenaIsValid`); doubling a slice does
  not wrap because it is capped first.

Induction over data is carried out as an argument from a least counterexample
(`LeastNatural` in `ParallelRegion_proofs`, `SubExtract_proofs`,
`OutputStores_proofs` and `RecordMaps_proofs`, `UpTo`): the induction theorems of the
library take an operator as a parameter, which the provers cannot instantiate,
but the least element of a non-empty set of naturals is a fact about a set.

Only model-checked:

* every liveness property (`Terminates`, `LoopsEnd`, `CallsEnd`): fairness and
  `ENABLED` are out of the prover's reach;
* `ResultsAreSerial`, `FailuresAreSerial` and `WarningsAreSerial` of
  `ThreadedCalls`, `SearchesAreExact`, `WrapIsRight` and `OrderIsRight` of
  `TextAlgorithms`, `FilesKeepRecords` and `TextsAreExact` of `KeptState`. Their
  components build sequences element by element with the folds of the community
  modules, look for least costs, or read and write lines with recursive
  operators: what these compute for every input is an induction over data, and
  no module with a proof may reach a recursive operator.

## 5. What is not modelled

* **ICU** (bundled or system) and its data, which are most of the lines of this
  repository: what a collator, converter or break iterator computes is an input;
  `RegexMatcher` has classes, stars and look-behinds with the meaning ICU gives
  them. The models cover the package's own code only, so the share of all lines
  that they cover is small.
* **R**: its protection stack, its jumps and its closures are modelled as far as
  the package depends on them.
* **Operations of a shape that is modelled.** The other fixed, regex, class,
  collation and boundary searches run one region over a matcher of their own and
  assemble its results the way `FixedExtract`, `RegexReplace` or `RegexMatch` do.
  The base backend's loops are the serial references of the altrep components.
* **Collation search and character classes** (`collation_search.cpp`,
  `character_class_search.cpp`) wrap one ICU object each. The collation matcher and
  its cursor keep the pattern and the subject by identity, as `RegexMatcher` does,
  and are not modelled separately.
* **Splitting a vector into lines** (`ci_split_lines.cpp`): `LineReader` has the
  splitting of one string. That `ci_split_lines()` walks a vector with recycled
  options on several workers is not modelled; its region is one of
  `ParallelRegion` and its stores are those of `OutputStores`.
* **Padding, repetition, title case, replacement templates**: sequential size
  arithmetic around a copy.
* **Comparison of two vectors** (`ci_compare.cpp`) is one call of the collator per
  element.
* **Memory ordering** below the atomic cursor: everything else a worker writes is
  read by the calling thread only after `std::thread::join`.
* **Allocation failure** in `run_region()` before the first worker is started ends
  the call with nothing to join; in the components it is modelled where an owner
  is in danger (`OutputStores`, `SliceArena`, `IcuInit`).
* The stringr-level R functions are sequential argument handling; the lint, fuzz
  and benchmark tools are not part of the running system.
