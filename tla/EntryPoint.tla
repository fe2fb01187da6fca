----------------------------- MODULE EntryPoint -----------------------------
(***************************************************************************)
(* One .Call entry point, as the macros of src/shared/entrypoint.h build   *)
(* it around unwind_protect() of src/shared/unwind.h: R objects are        *)
(* prepared first, then C++ owners are constructed (the frame), R is       *)
(* entered again inside one R_UnwindProtect callback, the owners are       *)
(* destroyed, and only then are warnings and errors raised.                *)
(*                                                                         *)
(* Any call into R may leave by longjmp, which runs no destructor; any C++ *)
(* call may throw, which must not pass through R's own frames.  R itself   *)
(* is external: what is assumed of it is the protection stack, which a     *)
(* jump cuts back to where the context it lands in began.                  *)
(***************************************************************************)
EXTENDS Integers

CONSTANTS
    MaxArguments,     \* arguments protected before the frame
    MaxProtections,   \* protections one callback holds at a time
    MaxWarnings       \* warnings one call owes

VARIABLES
    pc,
    depth,        \* R's protection stack above the caller's part of it
    top,          \* the part R_UnwindProtect would cut it back to
    entry,        \* entry_protections.count_
    callback,     \* callback_protections.count_
    slot,         \* the object at result_index of the protection stack
    result,       \* the C++ variable of that name
    frame,        \* the C++ owners of the try block
    region,       \* whether workers of a parallel region read the frame
    captured,     \* CallState::error of unwind_protect()
    thrown,       \* the C++ exception in flight in the entry point
    error,        \* EntryErrorState
    owed,         \* warnings the operation has recorded
    emitted,      \* warnings the postlude has raised
    exit          \* how control left the entry point

entry_vars == <<pc, depth, top, entry, callback, slot, result, frame, region, captured,
                thrown, error, owed, emitted, exit>>

counters == <<depth, entry, callback>>
errors   == <<captured, thrown, error>>

EntryInit ==
    /\ pc = "begin"
    /\ depth = 0 /\ top = 0 /\ entry = 0 /\ callback = 0
    /\ slot = "none" /\ result = "R_NilValue"
    /\ frame = "none" /\ region = "idle"
    /\ captured = "none" /\ thrown = "none" /\ error = "none"
    /\ owed = 0 /\ emitted = 0
    /\ exit = "none"

-----------------------------------------------------------------------------
(* R, as the entry point meets it.                                         *)

\* R leaves the entry point for a context of its caller.
LeaveByJump(how) ==
    /\ exit' = how /\ pc' = "left"
    /\ depth' = 0

\* ProtHelper::release_all()
ReleaseEntry    == depth' = depth - entry /\ entry' = 0
ReleaseCallback == depth' = depth - callback /\ callback' = 0

-----------------------------------------------------------------------------
(* Before the frame: no owner exists, and an R error may simply leave.     *)

\* CHARR_ENTRYPOINT_BEGIN: the token and the result slot.
Begin ==
    /\ pc = "begin"
    /\ pc' = "prelude"
    /\ depth' = depth + 2 /\ entry' = 2
    /\ slot' = "R_NilValue"
    /\ UNCHANGED <<top, callback, result, frame, region, errors, owed, emitted, exit>>

\* Mutant: an argument is protected and not counted.
PrepareArgumentUncounted ==
    /\ pc = "prelude" /\ entry < 2 + MaxArguments /\ depth < 2 + MaxArguments
    /\ depth' = depth + 1
    /\ UNCHANGED <<pc, top, entry, callback, slot, result, frame, region, errors, owed,
                   emitted, exit>>

\* entry_protections.protect_one() around the preparation of one argument.
PrepareArgument ==
    /\ pc = "prelude" /\ entry < 2 + MaxArguments
    /\ depth' = depth + 1 /\ entry' = entry + 1
    /\ UNCHANGED <<pc, top, callback, slot, result, frame, region, errors, owed, emitted, exit>>

PreludeRError ==
    /\ pc \in {"begin", "prelude"}
    /\ LeaveByJump("r_error")
    /\ UNCHANGED <<top, entry, callback, slot, result, frame, region, errors, owed, emitted>>

-----------------------------------------------------------------------------
(* The frame and the callback.                                             *)

ConstructOwners ==
    /\ pc = "prelude"
    /\ frame' = "alive"
    /\ \/ pc' = "callback" /\ top' = depth /\ UNCHANGED thrown   \* R_UnwindProtect
       \/ pc' = "unwind" /\ thrown' = "failure" /\ UNCHANGED top \* a constructor throws
    /\ UNCHANGED <<counters, slot, result, region, captured, error, owed, emitted, exit>>

Protect ==
    /\ pc = "callback" /\ region = "idle" /\ callback < MaxProtections
    /\ depth' = depth + 1 /\ callback' = callback + 1
    /\ UNCHANGED <<pc, top, entry, slot, result, frame, region, errors, owed, emitted, exit>>

Release ==
    /\ pc = "callback" /\ region = "idle"
    /\ \E n \in 1..callback : depth' = depth - n /\ callback' = callback - n
    /\ UNCHANGED <<pc, top, entry, slot, result, frame, region, errors, owed, emitted, exit>>

\* result = entry_protections.reprotect_one(allocation, result_index)
AllocateResult ==
    /\ pc = "callback" /\ region = "idle"
    /\ result' = "vector" /\ slot' = "vector"
    /\ UNCHANGED <<pc, counters, top, frame, region, errors, owed, emitted, exit>>

\* A warning for the postlude is recorded, not raised: Rf_warning() may jump.
\* (The encoding conversions raise theirs here, under R_UnwindProtect; a jump
\* out of one of those is RCallFails.)
OweWarning ==
    /\ pc = "callback" /\ region = "idle" /\ owed < MaxWarnings
    /\ owed' = owed + 1
    /\ UNCHANGED <<pc, counters, top, slot, result, frame, region, errors, emitted, exit>>

\* run_parallel(): workers read the frame until the region has joined them.
EnterRegion ==
    /\ pc = "callback" /\ region = "idle"
    /\ region' = "running"
    /\ UNCHANGED <<pc, counters, top, slot, result, frame, errors, owed, emitted, exit>>

RegionReturns ==
    /\ pc = "callback" /\ region = "running"
    /\ region' = "idle"
    /\ UNCHANGED <<pc, counters, top, slot, result, frame, errors, owed, emitted, exit>>

\* Mutant: call_cleanup() lets R's jump go on.
RErrorUncaught ==
    /\ LeaveByJump("r_error")
    /\ UNCHANGED <<thrown, captured, region>>

\* R jumps out of the callback.  It cuts its stack back to where
\* R_UnwindProtect began and runs call_cleanup(), which jumps into
\* unwind_protect(), which throws in the frame of the entry point.
RError ==
    /\ depth' = top
    /\ pc' = "unwind" /\ thrown' = "RUnwind"
    /\ UNCHANGED <<exit, captured, region>>

\* The operation throws; out of a region only after run_region() has joined
\* every worker (ParallelRegion).  call_body() catches everything, so that
\* nothing passes through R_UnwindProtect.
Throw ==
    /\ captured' = "failure" /\ pc' = "returned"
    /\ region' = "idle"
    /\ UNCHANGED <<exit, thrown, depth>>

RCallFails ==
    /\ pc = "callback" /\ region = "idle" /\ RError
    /\ UNCHANGED <<top, entry, callback, slot, result, frame, error, owed, emitted>>

OperationThrows ==
    /\ pc = "callback" /\ Throw
    /\ UNCHANGED <<top, entry, callback, slot, result, frame, error, owed, emitted>>

\* Mutant: the handler raises an R error wherever it is called.
icu_invariant_failure_always_r == RError

\* A bundled ICU reports a broken invariant: a C++ exception inside a
\* parallel body, an R error elsewhere.
icu_invariant_failure == IF region = "running" THEN Throw ELSE RError

IcuFails ==
    /\ pc = "callback" /\ icu_invariant_failure
    /\ UNCHANGED <<top, entry, callback, slot, result, frame, error, owed, emitted>>

\* CHARR_UNWIND_RETURN
UnwindReturn ==
    /\ pc = "callback" /\ region = "idle"
    /\ ReleaseCallback
    /\ pc' = "returned"
    /\ UNCHANGED <<top, entry, slot, result, frame, region, errors, owed, emitted, exit>>

\* R_UnwindProtect has returned: rethrow what call_body() captured, or take the
\* result and protect it again (CHARR_UNWIND_KEEP_RESULT).
AfterUnwindProtect ==
    /\ pc = "returned"
    /\ pc' = "unwind"
    /\ thrown' = captured
    /\ slot' = IF captured = "none" THEN result ELSE slot
    /\ UNCHANGED <<counters, top, result, frame, region, captured, error, owed, emitted, exit>>

-----------------------------------------------------------------------------
(* CHARR_ENTRYPOINT_END.                                                   *)

\* The try block is left, by its end or by the exception, which is caught once
\* the owners are gone.
DestroyOwners ==
    /\ pc = "unwind"
    /\ frame' = "destroyed"
    /\ error' = CASE thrown = "RUnwind" -> "r" [] thrown = "failure" -> "cpp" [] OTHER -> "none"
    /\ thrown' = "none"
    /\ pc' = "end"
    /\ UNCHANGED <<counters, top, slot, result, region, captured, owed, emitted, exit>>

ContinueUnwind ==
    /\ pc = "end" /\ error = "r"
    /\ LeaveByJump("r_error")
    /\ UNCHANGED <<top, entry, callback, slot, result, frame, region, errors, owed, emitted>>

\* Mutant: the entry protections are released before the postlude.
NativeEndReleasingEntry ==
    /\ pc = "end" /\ error # "r"
    /\ depth' = depth - callback - entry /\ callback' = 0 /\ entry' = 0
    /\ pc' = "postlude"
    /\ UNCHANGED <<top, slot, result, frame, region, errors, owed, emitted, exit>>

NativeEnd ==
    /\ pc = "end" /\ error # "r"
    /\ IF error = "cpp" THEN ReleaseCallback ELSE UNCHANGED <<depth, callback>>
    /\ pc' = "postlude"
    /\ UNCHANGED <<entry, top, slot, result, frame, region, errors, owed, emitted, exit>>

\* Rf_warning(): it returns, or jumps when warnings are errors or a handler
\* takes a restart.
EmitWarning ==
    /\ pc = "postlude" /\ emitted < owed
    /\ emitted' = emitted + 1
    /\ \/ UNCHANGED <<pc, depth, exit>>
       \/ LeaveByJump("warning")
    /\ UNCHANGED <<entry, callback, top, slot, result, frame, region, errors, owed>>

\* Mutant: a C++ error skips the postlude.
FinishEarly ==
    /\ pc = "postlude" /\ (emitted = owed \/ error = "cpp")
    /\ ReleaseEntry
    /\ exit' = IF error = "cpp" THEN "error" ELSE "return"
    /\ pc' = "left"
    /\ UNCHANGED <<top, callback, slot, result, frame, region, errors, owed, emitted>>

Finish ==
    /\ pc = "postlude" /\ emitted = owed
    /\ ReleaseEntry
    /\ exit' = IF error = "cpp" THEN "error" ELSE "return"
    /\ pc' = "left"
    /\ UNCHANGED <<top, callback, slot, result, frame, region, errors, owed, emitted>>

Left == pc = "left" /\ UNCHANGED entry_vars

-----------------------------------------------------------------------------
Callback ==
    \/ Protect \/ Release \/ AllocateResult \/ OweWarning
    \/ EnterRegion \/ RegionReturns
    \/ RCallFails \/ OperationThrows \/ IcuFails \/ UnwindReturn

EntryNext ==
    \/ Begin \/ PrepareArgument \/ PreludeRError \/ ConstructOwners
    \/ Callback \/ AfterUnwindProtect
    \/ DestroyOwners \/ ContinueUnwind \/ NativeEnd \/ EmitWarning \/ Finish
    \/ Left

EntrySpec == EntryInit /\ [][EntryNext]_entry_vars

-----------------------------------------------------------------------------
EntryTypeOK ==
    /\ pc \in {"begin", "prelude", "callback", "returned", "unwind", "end", "postlude", "left"}
    /\ depth \in Nat /\ top \in Nat /\ entry \in Nat /\ callback \in Nat
    /\ slot \in {"none", "R_NilValue", "vector"} /\ result \in {"R_NilValue", "vector"}
    /\ frame \in {"none", "alive", "destroyed"} /\ region \in {"idle", "running"}
    /\ captured \in {"none", "failure"} /\ thrown \in {"none", "failure", "RUnwind"}
    /\ error \in {"none", "r", "cpp"}
    /\ owed \in Nat /\ emitted \in Nat
    /\ exit \in {"none", "return", "error", "r_error", "warning"}

\* "The postlude may call R after all Frame owners have been destroyed": however
\* control leaves the entry point, by return or by any of R's jumps, no C++
\* owner is left behind undestroyed.
NoOwnerLeftBehind == exit # "none" => frame # "alive"

\* icu_fatal.cpp: an R error inside a parallel body "would skip the join and
\* destroy the Frame while workers still read it".  Owners are destroyed only
\* when no region is running.
FrameOutlivesRegion == region = "running" => frame = "alive"

\* ProtHelper counts what the entry point put on R's protection stack: while it
\* runs natively the two counters are the whole stack, so a release never
\* takes the caller's protections, and none is left when it returns or
\* raises its own error.  CHARR_UNWIND_KEEP_RESULT: "`result` is protected while
\* Frame owners are destroyed and the postlude runs", both of which may trigger
\* a collection.
ProtectionsBalance ==
    /\ thrown # "RUnwind" /\ error # "r" /\ exit = "none" => depth = entry + callback
    /\ exit \in {"return", "error"} => depth = 0
    /\ pc \in {"unwind", "end", "postlude"} /\ captured = "none" /\ thrown = "none" /\ error = "none"
         => slot = result /\ 2 <= entry /\ entry <= depth

\* "It runs on normal return and before a captured C++ exception becomes an R
\* error. A pending R error is always continued first": every recorded
\* warning is raised before the entry point returns or raises its own error,
\* and none when R's own error is continued.
WarningsComeFirst ==
    /\ exit \in {"return", "error"} => emitted = owed
    /\ exit = "r_error" => emitted = 0

-----------------------------------------------------------------------------
(* The inductive invariant the proofs in CallPath_proofs rest on: what     *)
(* each stretch of the entry point may count on.                           *)

NoError == captured = "none" /\ thrown = "none" /\ error = "none"

EntryInv ==
    /\ EntryTypeOK
    /\ (pc = "left") <=> (exit # "none")
    /\ region = "running" => pc = "callback"
    /\ pc \notin {"postlude", "left"} => emitted = 0
    /\ pc = "begin" => depth = 0 /\ entry = 0 /\ callback = 0
    /\ pc \in {"begin", "prelude"} =>
          frame = "none" /\ callback = 0 /\ NoError /\ result = "R_NilValue"
    /\ pc = "prelude" => slot = "R_NilValue"
    /\ pc \notin {"begin", "left"} => entry >= 2
    /\ pc \in {"callback", "returned", "unwind"} => frame = "alive" /\ error = "none"
    /\ pc \in {"callback", "returned"} => thrown = "none" /\ slot = result
    /\ pc = "callback" => captured = "none" /\ top = entry
    /\ pc \in {"end", "postlude", "left"} => frame # "alive"
    /\ pc = "postlude" => error # "r"
    /\ pc \in {"end", "postlude"} => (error = "none" => captured = "none")
    /\ pc \in {"end", "postlude"} => thrown = "none"
    /\ pc \notin {"begin", "prelude", "left"} /\ NoError => slot = result
    /\ pc = "unwind" /\ thrown = "none" => captured = "none"
    /\ pc \in {"returned", "unwind", "end", "postlude"} /\ captured = "none"
          /\ thrown # "RUnwind" /\ error # "r" => callback = 0
    /\ pc # "left" /\ thrown # "RUnwind" /\ error # "r" => depth = entry + callback
    /\ pc = "postlude" => callback = 0
    /\ exit \in {"return", "error"} => depth = 0 /\ emitted = owed
    /\ exit = "r_error" => emitted = 0

=============================================================================
