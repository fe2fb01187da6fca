----------------------------- MODULE SliceArena -----------------------------
(***************************************************************************)
(* SliceArena of src/shared/slice_arena.h, which holds the converted texts *)
(* an operation reads to its end.  Memory given out stays in place: an     *)
(* arena only adds slices.  A size is in 0..SizeMax and its arithmetic     *)
(* wraps.                                                                  *)
(***************************************************************************)
EXTENDS Integers, Sequences

CONSTANTS
    SizeMax,
    initial_slice_bytes,
    maximum_regular_slice_bytes,
    MaxGiven        \* bound on the number of allocations

ASSUME SizesAssumption ==
    /\ SizeMax \in Nat /\ initial_slice_bytes \in Nat \ {0}
    /\ maximum_regular_slice_bytes \in Nat \ {0}
    /\ initial_slice_bytes <= SizeMax /\ maximum_regular_slice_bytes <= SizeMax

ASSUME MaxGivenAssumption == MaxGiven \in Nat

VARIABLES
    slices,         \* capacities of the slices; the last one is current_
    capacity,       \* current_capacity_
    used,           \* current_used_
    given           \* what allocate() has returned: slice, offset and bytes

vars == <<slices, capacity, used, given>>

Sizes == 0..SizeMax

Init == slices = <<>> /\ capacity = 0 /\ used = 0 /\ given = <<>>

\* current_capacity_ - current_used_
remaining == IF used <= capacity THEN capacity - used ELSE capacity - used + SizeMax + 1

needs_slice(bytes) == slices = <<>> \/ bytes > remaining

regular ==
    IF capacity = 0 THEN initial_slice_bytes
    ELSE IF capacity >= maximum_regular_slice_bytes \div 2 THEN maximum_regular_slice_bytes
    ELSE capacity * 2

slice_bytes(required) == IF required > regular THEN required ELSE regular

\* current_used_ behind an allocation.
used_behind_start(offset, bytes) == offset
used_behind(offset, bytes) == offset + bytes

AllocateInSlice(bytes) ==
    /\ Len(given) < MaxGiven /\ ~needs_slice(bytes)
    /\ given' = Append(given, [slice |-> Len(slices), offset |-> used, bytes |-> bytes])
    /\ used' = used_behind(used, bytes)
    /\ UNCHANGED <<slices, capacity>>

\* start_slice(), and the allocation at its start.
AllocateNewSlice(bytes) ==
    /\ Len(given) < MaxGiven /\ needs_slice(bytes)
    /\ slices' = Append(slices, slice_bytes(bytes))
    /\ capacity' = slice_bytes(bytes)
    /\ given' = Append(given, [slice |-> Len(slices) + 1, offset |-> 0, bytes |-> bytes])
    /\ used' = used_behind(0, bytes)

\* Without memory for the slice, or for the vector that owns it, the arena
\* stays as it was.
AllocationFails(bytes) == needs_slice(bytes) /\ UNCHANGED vars

Next ==
    \E bytes \in Sizes :
        AllocateInSlice(bytes) \/ AllocateNewSlice(bytes) \/ AllocationFails(bytes)

Spec == Init /\ [][Next]_vars

-----------------------------------------------------------------------------

\* Every variable has its type; no size has wrapped.
TypeOK ==
    /\ slices \in Seq(Sizes) /\ capacity \in Sizes /\ used \in Sizes
    /\ given \in Seq([slice : Nat, offset : Sizes, bytes : Sizes])

\* valid(), the arena's own consistency: the current slice is not overdrawn,
\* and there is one just when it has a capacity.  Without it the subtraction
\* in allocate() would wrap, and anything would fit.
ArenaIsValid == used <= capacity /\ ((slices = <<>>) <=> (capacity = 0))

\* What allocate() returns lies in a slice the arena owns and overlaps nothing
\* it returned before: the texts an operation has parked in the arena are
\* intact when it reads them, whatever was allocated since.
GivenIsDisjoint ==
    /\ \A i \in 1..Len(given) :
          /\ given[i].slice \in 1..Len(slices)
          /\ given[i].offset + given[i].bytes <= slices[given[i].slice]
    /\ \A i, j \in 1..Len(given) :
          i < j => \/ given[i].slice < given[j].slice
                   \/ /\ given[i].slice = given[j].slice
                      /\ given[i].offset + given[i].bytes <= given[j].offset

=============================================================================
