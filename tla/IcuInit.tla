------------------------------ MODULE IcuInit ------------------------------
(***************************************************************************)
(* Loading charr: .onLoad() of R/backend-switch.R and the start of ICU in  *)
(* src/runtime/icu.cpp.  Any call to the system may fail.  A load that     *)
(* fails is an error in R and may be tried again in the same process, with *)
(* what the static variables of the library kept.                          *)
(***************************************************************************)
EXTENDS Integers

CONSTANT MaxLoads       \* bound on the loads tried

MaxLoadsAssumption == MaxLoads \in Nat \ {0}

VARIABLES
    bundled,            \* CHARR_BUNDLED_ICU
    loads, load_pc,
    icu_data,           \* the buffer kept, 0 for nullptr
    icu_initialized,
    file,               \* whether the data file is open
    data,               \* the buffer being filled, 0 for none
    live,               \* buffers allocated and not freed
    common,             \* the buffer ICU reads its data from (external)
    started,            \* successful u_init() calls (external)
    loaded              \* whether the package is attached

load_vars == <<bundled, loads, load_pc, icu_data, icu_initialized, file, data, live, common,
          started, loaded>>

library == <<icu_data, icu_initialized, file, data, live, common, started>>

LoadInit ==
    /\ bundled \in BOOLEAN
    /\ loads = 0 /\ load_pc = "R" /\ icu_data = 0 /\ icu_initialized = FALSE
    /\ file = FALSE /\ data = 0 /\ live = {} /\ common = 0 /\ started = 0 /\ loaded = FALSE

\* A return value of FALSE, which .onLoad() turns into an error.
Fails == load_pc' = "R"

already_initialized == icu_initialized

\* .onLoad(): the ABI, the path of the data, and C_charr_icu_init().
OnLoad ==
    /\ load_pc = "R" /\ ~loaded /\ loads < MaxLoads
    /\ loads' = loads + 1
    /\ \/ Fails
       \/ already_initialized /\ load_pc' = "done"
       \/ ~already_initialized /\ load_pc' = IF bundled /\ icu_data = 0 THEN "open" ELSE "init"
    /\ UNCHANGED <<bundled, loaded>> /\ UNCHANGED library

OpenData ==
    /\ load_pc = "open"
    /\ \/ Fails /\ UNCHANGED file
       \/ load_pc' = "size" /\ file' = TRUE
    /\ UNCHANGED <<bundled, loads, icu_data, icu_initialized, data, live, common, started, loaded>>

closed == FALSE

\* The file's size, and a buffer of that size.
SizeData ==
    /\ load_pc = "size"
    /\ \/ Fails /\ file' = closed /\ UNCHANGED <<data, live>>
       \/ load_pc' = "read" /\ data' = loads /\ live' = live \cup {loads} /\ UNCHANGED file
    /\ UNCHANGED <<bundled, loads, icu_data, icu_initialized, common, started, loaded>>

\* Fewer bytes than the file had are a failure.
ReadData ==
    /\ load_pc = "read" /\ file' = closed
    /\ \/ Fails /\ live' = live \ {data} /\ data' = 0
       \/ load_pc' = "set" /\ UNCHANGED <<data, live>>
    /\ UNCHANGED <<bundled, loads, icu_data, icu_initialized, common, started, loaded>>

keep(buffer) == buffer

\* udata_setCommonData() takes the buffer for good, or refuses it.
SetCommonData ==
    /\ load_pc = "set"
    /\ \/ Fails /\ live' = live \ {data} /\ UNCHANGED <<common, icu_data>>
       \/ load_pc' = "init" /\ common' = data /\ icu_data' = keep(data) /\ UNCHANGED live
    /\ data' = 0
    /\ UNCHANGED <<bundled, loads, icu_initialized, file, started, loaded>>

\* Mutant: a start that fails frees what the load has read.
released_all == {}

\* u_init().  A failure leaves the data with ICU.
released == live

StartIcu ==
    /\ load_pc = "init"
    /\ \/ Fails /\ live' = released /\ UNCHANGED <<icu_initialized, started>>
       \/ load_pc' = "done" /\ icu_initialized' = TRUE /\ started' = started + 1 /\ UNCHANGED live
    /\ UNCHANGED <<bundled, loads, icu_data, file, data, common, loaded>>

\* The rest of .onLoad(), which may fail too.
FinishLoad ==
    /\ load_pc = "done" /\ load_pc' = "R" /\ loaded' \in BOOLEAN
    /\ UNCHANGED <<bundled, loads>> /\ UNCHANGED library

\* The namespace is unloaded; the library stays in the process.
Unload ==
    /\ load_pc = "R" /\ loaded /\ loaded' = FALSE
    /\ UNCHANGED <<bundled, loads, load_pc>> /\ UNCHANGED library

LoadNext ==
    \/ OnLoad \/ OpenData \/ SizeData \/ ReadData \/ SetCommonData \/ StartIcu
    \/ FinishLoad \/ Unload
    \/ loads = MaxLoads /\ load_pc = "R" /\ ~loaded /\ UNCHANGED load_vars

LoadSpec == LoadInit /\ [][LoadNext]_load_vars

-----------------------------------------------------------------------------

\* Every variable has its type.
LoadTypeOK ==
    /\ loads \in 0..MaxLoads
    /\ load_pc \in {"R", "open", "size", "read", "set", "init", "done"}
    /\ {icu_data, data, common} \subseteq 0..MaxLoads
    /\ live \subseteq 1..MaxLoads
    /\ started \in 0..MaxLoads
    /\ file => load_pc \in {"size", "read"}

\* "The data buffer handed to udata_setCommonData must outlive every ICU call":
\* whatever fails after ICU took it, it is not freed.
IcuDataOutlivesCalls == common # 0 => common \in live

\* A process that has tried to load charr any number of times owns at most one
\* buffer, the one ICU reads, which the next try uses again.
LoadsLeakNothing == load_pc = "R" => live \subseteq {common}

\* A loaded package has ICU started, once in the process, with the bundled data
\* in place if there is any.
LoadedMeansStarted == loaded => icu_initialized /\ started = 1 /\ (bundled => common # 0)

\* Loading is safe however often it is tried, and whatever fails in it
\* (load_icu): the data ICU reads is never freed, no other buffer is left, and a
\* loaded package has ICU started once, with its data in place.
LoadsKeepIcu == LoadTypeOK /\ IcuDataOutlivesCalls /\ LoadsLeakNothing /\ LoadedMeansStarted

=============================================================================
