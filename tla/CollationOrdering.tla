-------------------------- MODULE CollationOrdering --------------------------
(***************************************************************************)
(* ci_duplicated(), ci_order() and ci_rank() of src/altrep_backend over    *)
(* src/shared/collation_ordering.cpp and index_hash_table.h: abbreviated   *)
(* collation keys, duplicates marked in two passes through an open-        *)
(* addressing table and a sort, and the stable order and minimum ranks.    *)
(*                                                                         *)
(* A string is what the algorithm can tell of it: its bytes, its place in  *)
(* ICU's collation without and with the case level (strings with the same  *)
(* place collate equal), the first bytes of its sort key, whether they are *)
(* the whole key, and the bytes that the hash samples.                     *)
(***************************************************************************)
EXTENDS Integers, SequencesExt, FiniteSetsExt

CONSTANTS
    Strings,    \* the strings explored, see KeyLaw
    Calls,      \* the calls explored, see IsCall
    Hashes,     \* functions mix_hash64() may be, from what is hashed
    ProbeLimit  \* probe_limit, 8 in the code

VARIABLES
    call,       \* the arguments
    hash,       \* mix_hash64(), one of Hashes
    phase,      \* where the entry point is
    keys,       \* the vector of CollationPrefix entries
    slots,      \* slots_, -1 where empty
    step,       \* elements of the first pass that are done
    slot, mismatches, probing,  \* the walk of the element at hand
    output,     \* the marks or ranks, by source index
    order       \* what ci_order() returns

walk == <<slot, mismatches, probing>>
vars == <<call, hash, phase, keys, slots, step, walk, output, order>>

NA == [bytes |-> "NA"]
BytesMarked == [bytes |-> "bytes"]      \* marked as bytes, which is refused

IsString(s) ==
    /\ {s.place, s.cased, s.prefix} \subseteq Nat /\ s.complete \in BOOLEAN

\* What ICU guarantees of sort keys: equal places have equal keys, the order of
\* prefixes never contradicts the order of places, and whole keys tell places
\* apart, from each other and from longer keys.  With the case level on ICU's
\* keys do not follow its collation, so nothing is said of s.cased.
KeyLaw(s, t) ==
    /\ s.bytes = t.bytes => s = t
    /\ s.place = t.place => s.prefix = t.prefix /\ s.complete = t.complete
    /\ s.place < t.place => s.prefix <= t.prefix
    /\ s.prefix = t.prefix /\ (s.complete \/ t.complete) => s.place = t.place

IsCall(c) ==
    /\ c.op \in {"duplicated", "order", "rank"}
    /\ c.reversed \in BOOLEAN               \* from_last or decreasing
    /\ c.na_last \in {"first", "last", "omit"}
    /\ c.values \in Seq(Strings \cup {NA, BytesMarked})
    /\ c.case_level \in BOOLEAN             \* UCOL_CASE_LEVEL is on
    /\ c.fails \in BOOLEAN                  \* ucol_strcollUTF8() fails

OrderingAssumption ==
    /\ \A s \in Strings : IsString(s) /\ \A t \in Strings : KeyLaw(s, t)
    /\ \A c \in Calls : IsCall(c)
    /\ ProbeLimit \in Nat \ {0}

n == Len(call.values)
Index == 0..(n - 1)
value(i) == call.values[i + 1]
place(i) == IF call.case_level THEN value(i).cased ELSE value(i).place
Present == {i \in Index : value(i) # NA}

-----------------------------------------------------------------------------
(* Entries and their comparison.                                           *)

\* compute_collation_prefixes(): no prefix is trusted with the case level on.
prefix_entry(i) ==
    IF call.case_level \/ value(i) = NA
    THEN [prefix |-> 0, complete |-> FALSE, index |-> i]
    ELSE [prefix |-> value(i).prefix, complete |-> value(i).complete, index |-> i]

\* Whether the comparison of two entries asks ICU.
asks_icu(a, b) ==
    /\ a.prefix = b.prefix /\ ~(a.complete /\ b.complete)
    /\ value(a.index) # value(b.index)

compare_entries(a, b) ==
    IF a.prefix # b.prefix THEN a.prefix - b.prefix
    ELSE IF ~asks_icu(a, b) THEN 0
    ELSE place(a.index) - place(b.index)

EntryLess(a, b, decreasing) ==
    LET r == compare_entries(a, b)
    IN IF r # 0 THEN (IF decreasing THEN r > 0 ELSE r < 0) ELSE a.index < b.index

\* std::stable_sort() of entries with different indices
sorted(S, decreasing) == SetToSortSeq(S, LAMBDA a, b : EntryLess(a, b, decreasing))

\* Any sort compares neighbours of its result, and may compare the others.
MayAsk(S) == \E a, b \in S : asks_icu(a, b)
MustAsk(q) == \E k \in 1..(Len(q) - 1) : asks_icu(q[k], q[k + 1])

same_entry(a, b) ==
    /\ a.prefix = b.prefix /\ a.complete = b.complete
    /\ a.complete \/ value(a.index) = value(b.index)

\* An incomplete entry adds the length and some bytes; -1 stands for none.
hash_of(a) == hash[<<a.prefix, IF a.complete THEN -1 ELSE value(a.index).sample>>]

-----------------------------------------------------------------------------
(* The entry points.                                                       *)

Init ==
    /\ call \in Calls /\ hash \in Hashes
    /\ phase = "normalize"
    /\ keys = <<>> /\ slots = <<>> /\ step = 0
    /\ slot = 0 /\ mismatches = 0 /\ probing = FALSE
    /\ output = [i \in Index |-> -1] /\ order = <<>>

\* A string marked as bytes ends the call; otherwise the keys are computed, in
\* parallel, each at its own element.
Normalize ==
    /\ phase = "normalize"
    /\ IF \E i \in Index : value(i) = BytesMarked
       THEN phase' = "raised" /\ UNCHANGED keys
       ELSE /\ phase' = IF call.op = "duplicated" THEN "reset" ELSE "order"
            /\ keys' = [k \in 1..n |-> prefix_entry(k - 1)]
    /\ UNCHANGED <<call, hash, slots, step, walk, output, order>>

\* IndexHashTable::reset()
capacity(count) == Min({2^k : k \in {j \in 0..(count + 1) : 2^j >= 2 * count}})

ResetTable ==
    /\ phase = "reset"
    /\ slots' = [s \in 0..(capacity(Cardinality(Present)) - 1) |-> -1]
    /\ phase' = "walk"
    /\ UNCHANGED <<call, hash, keys, step, walk, output, order>>

Mask == Cardinality(DOMAIN slots)

next_slot(s) == (s + 1) % Mask

current == IF call.reversed THEN n - 1 - step ELSE step
entry == keys[current + 1]
missing_seen ==
    \E j \in Index : value(j) = NA /\ (IF call.reversed THEN j > current ELSE j < current)

Missing ==
    /\ phase = "walk" /\ step < n /\ value(current) = NA
    /\ output' = [output EXCEPT ![current] = IF missing_seen THEN 1 ELSE 0]
    /\ step' = step + 1
    /\ UNCHANGED <<call, hash, phase, keys, slots, walk, order>>

FirstSlot ==
    /\ phase = "walk" /\ step < n /\ value(current) # NA /\ ~probing
    /\ output' = [output EXCEPT ![current] = 0]
    /\ slot' = hash_of(entry) % Mask /\ mismatches' = 0 /\ probing' = TRUE
    /\ UNCHANGED <<call, hash, phase, keys, slots, step, order>>

gives_up == ~entry.complete /\ mismatches + 1 = ProbeLimit

\* One slot of the probe sequence: empty, equal, or neither.
Probe ==
    /\ phase = "walk" /\ probing
    /\ LET held == slots[slot]
           found == held >= 0 /\ same_entry(keys[held + 1], entry)
           ends == held < 0 \/ found \/ gives_up
       IN /\ slots' = IF held < 0 THEN [slots EXCEPT ![slot] = current] ELSE slots
          /\ output' = IF found THEN [output EXCEPT ![current] = 1] ELSE output
          /\ mismatches' = IF held < 0 \/ found \/ entry.complete THEN mismatches
                           ELSE mismatches + 1
          /\ slot' = IF ends THEN slot ELSE next_slot(slot)
          /\ probing' = ~ends
          /\ step' = IF ends THEN step + 1 ELSE step
    /\ UNCHANGED <<call, hash, phase, keys, order>>

\* Mutant: what the table holds is taken for the first of its class.
CompactUnheld ==
    /\ phase = "walk" /\ step = n
    /\ keys' = SelectSeq(keys, LAMBDA k : value(k.index) # NA /\ ~k.complete
                                            /\ output[k.index] = 0
                                            /\ \A s \in DOMAIN slots : slots[s] # k.index)
    /\ phase' = "sort"
    /\ UNCHANGED <<call, hash, slots, step, walk, output, order>>

\* The elements left to the second pass, in place.
Compact ==
    /\ phase = "walk" /\ step = n
    /\ keys' = SelectSeq(keys, LAMBDA k : value(k.index) # NA /\ ~k.complete
                                            /\ output[k.index] = 0)
    /\ phase' = "sort"
    /\ UNCHANGED <<call, hash, slots, step, walk, output, order>>

\* build_collation_order() drops the missing elements.
Partition ==
    /\ phase = "order"
    /\ keys' = SelectSeq(keys, LAMBDA k : value(k.index) # NA)
    /\ phase' = "sort"
    /\ UNCHANGED <<call, hash, slots, step, walk, output, order>>

Sort ==
    /\ phase = "sort"
    /\ keys' = sorted(ToSet(keys), call.op = "order" /\ call.reversed)
    /\ ~(call.fails /\ MustAsk(keys'))
    /\ phase' = "finish"
    /\ UNCHANGED <<call, hash, slots, step, walk, output, order>>

\* A failing comparison ends the sort with a C++ exception.
SortFails ==
    /\ phase = "sort" /\ call.fails /\ MayAsk(ToSet(keys))
    /\ phase' = "raised"
    /\ UNCHANGED <<call, hash, keys, slots, step, walk, output, order>>

\* The runs of equal entries in the sorted keys.
Run(k) == {j \in 1..Len(keys) :
             \A h \in (Min({j, k}) + 1)..Max({j, k}) :
               compare_entries(keys[h - 1], keys[h]) = 0}

kept(k) == IF call.reversed THEN Max(Run(k)) ELSE Min(Run(k))

MarkRuns ==
    /\ phase = "finish" /\ call.op = "duplicated"
    /\ output' = [i \in Index |->
                    IF \E k \in 1..Len(keys) : keys[k].index = i
                    THEN LET k == CHOOSE h \in 1..Len(keys) : keys[h].index = i
                         IN IF kept(k) = k THEN 0 ELSE 1
                    ELSE output[i]]
    /\ phase' = "returned"
    /\ UNCHANGED <<call, hash, keys, slots, step, walk, order>>

\* ci_order(): missing values first, last or nowhere; indices are one-based.
Order ==
    /\ phase = "finish" /\ call.op = "order"
    /\ LET found == [k \in 1..Len(keys) |-> keys[k].index + 1]
           missing == SelectSeq([k \in 1..n |-> k], LAMBDA k : value(k - 1) = NA)
       IN order' = CASE call.na_last = "first" -> missing \o found
                     [] call.na_last = "last"  -> found \o missing
                     [] call.na_last = "omit"  -> found
    /\ phase' = "returned"
    /\ UNCHANGED <<call, hash, keys, slots, step, walk, output>>

\* assign_min_collation_ranks(): the place of the first entry of the run.
min_rank(k) == Min(Run(k))

\* ci_rank(): -1 stands for NA_INTEGER.
Rank ==
    /\ phase = "finish" /\ call.op = "rank"
    /\ output' = [i \in Index |->
                    IF \E k \in 1..Len(keys) : keys[k].index = i
                    THEN min_rank(CHOOSE h \in 1..Len(keys) : keys[h].index = i)
                    ELSE -1]
    /\ phase' = "returned"
    /\ UNCHANGED <<call, hash, keys, slots, step, walk, order>>

Finished == phase \in {"returned", "raised"} /\ UNCHANGED vars

Steps ==
    \/ Normalize \/ ResetTable \/ Missing \/ FirstSlot \/ Probe \/ Compact
    \/ Partition \/ Sort \/ SortFails \/ MarkRuns \/ Order \/ Rank

Next == Steps \/ Finished

\* Sequential code runs until it returns.
Spec == Init /\ [][Next]_vars /\ WF_vars(Steps)

-----------------------------------------------------------------------------
(* Properties.                                                             *)

\* Every variable has its type, and the walk stays inside the table.
TypeOK ==
    /\ IsCall(call) /\ hash \in Hashes
    /\ \A k \in 1..Len(keys) : keys[k].index \in Index
    /\ \A s \in DOMAIN slots : slots[s] \in Present \cup {-1}
    /\ step \in 0..n /\ probing \in BOOLEAN
    /\ probing => slot \in DOMAIN slots /\ mismatches < ProbeLimit
    /\ \A i \in Index : output[i] \in -1..n
    /\ phase \in {"normalize", "reset", "walk", "order", "sort", "finish",
                  "returned", "raised"}

Same(i, j) == IF NA \in {value(i), value(j)} THEN value(i) = value(j)
              ELSE place(i) = place(j)
Earlier(i, j) == IF call.reversed THEN i > j ELSE i < j

\* ci_duplicated() marks exactly the elements that collate equal to an earlier
\* one: what the hash table misses, because prefixes tie, samples collide or a
\* walk gives up, the sorting pass finds, and it never clears a right mark.
DuplicatesAreExact ==
    phase = "returned" /\ call.op = "duplicated" =>
      \A i \in Index :
        output[i] = IF \E j \in Index : Earlier(j, i) /\ Same(i, j) THEN 1 ELSE 0

\* A walk that ends at an empty slot has passed every equal entry: from the
\* first slot of an entry's hash to the slot that holds it none is empty, no
\* two entries held are equal, and half of the table stays empty.
TableIsSound ==
    LET Used == {s \in DOMAIN slots : slots[s] >= 0} IN
      /\ 2 * Cardinality(Used) <= Max({2, Mask})
      /\ phase = "walk" => \A s \in Used :
           LET k == keys[slots[s] + 1]
               first == hash_of(k) % Mask
           IN /\ \A d \in 0..((s - first) % Mask) : (first + d) % Mask \in Used
              /\ \A t \in Used : s # t => ~same_entry(k, keys[slots[t] + 1])

\* The first pass marks only what is a duplicate, whatever collides.
MarksAreRight ==
    call.op = "duplicated" =>
      \A i \in Index : output[i] = 1 => \E j \in Index : Earlier(j, i) /\ Same(i, j)

\* ci_order() returns every index once (missing ones where asked), in the
\* direction asked, and ties in source order in either direction.
OrderIsStable ==
    phase = "returned" /\ call.op = "order" =>
      /\ ToSet(order) = {i + 1 : i \in IF call.na_last = "omit" THEN Present ELSE Index}
      /\ \A k \in 1..(Len(order) - 1) :
           LET i == order[k] - 1
               j == order[k + 1] - 1
           IN IF Same(i, j) THEN i < j
              ELSE IF value(j) = NA THEN call.na_last = "last"
              ELSE IF value(i) = NA THEN call.na_last = "first"
              ELSE (place(i) > place(j)) = call.reversed

\* ci_rank() gives an element one more than the number of elements below it.
RanksAreMinimal ==
    phase = "returned" /\ call.op = "rank" =>
      \A i \in Index :
        output[i] = IF value(i) = NA THEN -1
                    ELSE 1 + Cardinality({j \in Present : place(j) < place(i)})

\* Every walk through the table ends, so every call returns or raises.
CallsReturn == <>(phase \in {"returned", "raised"})

=============================================================================
