---------------------------- MODULE OutputStores ----------------------------
(***************************************************************************)
(* Who owns the text of a result: the builders, stores and finalize() of   *)
(* src/altrep_backend/io/utf8_output.cpp, as ci_wrap() uses them.  Records *)
(* point into slices of memory; a store owns slices and has records.  A    *)
(* result is built as one vector (to_sexp() of the growable builder), as a *)
(* list of chunks, each a vector of its own, or as one vector concatenated *)
(* from chunks.  finalize() copies a small store and hands over a large    *)
(* one, and calls R, which may leave the entry point by an error: what the *)
(* frame's owners hold then is freed when it is unwound.                   *)
(*                                                                         *)
(* The stores themselves are charport's; they are known by their use here. *)
(***************************************************************************)
EXTENDS Integers, Sequences, Functions, FiniteSetsExt

CONSTANTS
    Chunks,                 \* how many chunks a call has
    MaxRecords,             \* bound: the records of a chunk
    Lengths,                \* the lengths of records, -1 for a missing one
    charpack_max_strings, charpack_max_bytes

StoreAssumption == Chunks \in Nat \ {0} /\ MaxRecords \in Nat /\ Lengths \subseteq Int

VARIABLES
    mode,       \* "vector", "list" or "concat"
    phase,      \* where the call is
    at,         \* the chunk it is at
    owner,      \* the owner of every slice ever made
    records,    \* the records of every owner
    wanted      \* what was appended, per chunk

stores_vars == <<mode, phase, at, owner, records, wanted>>

\* The frame's owners, the R objects, and nobody.
Builder == <<"builder_", 0>>
Staged  == <<"store_", 0>>
Flat    == <<"flat_store", 0>>
Chunk(k) == <<"chunk", k>>
Object(k) == <<"object", k>>
Freed   == <<"freed", 0>>
Frame == {Builder, Staged, Flat} \cup {Chunk(k) : k \in 1..Chunks}
Objects == {Object(k) : k \in 1..Chunks}

Slices(h) == {s \in 1..Len(owner) : owner[s] = h}
texts(rs) == [k \in 1..Len(rs) |-> rs[k].len]

-----------------------------------------------------------------------------
(* Moving and freeing.                                                     *)

\* The slices of the owners in F become h's.
handed(F, h) == [s \in 1..Len(owner) |-> IF owner[s] \in F THEN h ELSE owner[s]]

\* The builder's release_store(): records and slices move, the builder is empty.
release(h) ==
    /\ owner' = handed({Builder}, h)
    /\ records' = [records EXCEPT ![Builder] = <<>>, ![h] = records[Builder]]

Destroyed(F) ==
    /\ owner' = handed(F, Freed)
    /\ records' = [h \in DOMAIN records |-> IF h \in F THEN <<>> ELSE records[h]]

-----------------------------------------------------------------------------
(* Building.                                                               *)

StoresInit ==
    /\ mode \in {"vector", "list", "concat"}
    /\ phase = "build" /\ at = 1
    /\ owner = <<>>
    /\ records = [h \in Frame \cup Objects |-> <<>>]
    /\ wanted = [k \in 1..Chunks |-> <<>>]

\* append(): text is copied into a slice of the builder, an open one with room
\* or a new one; missing and empty records need none.
Append_(len, new) ==
    /\ phase = "build" /\ Len(records[Builder]) < MaxRecords
    /\ new => len > 0
    /\ ~new /\ len > 0 => Slices(Builder) # {}
    /\ LET slice == IF len <= 0 THEN 0
                    ELSE IF new THEN Len(owner) + 1 ELSE Max(Slices(Builder))
       IN /\ records' = [records EXCEPT ![Builder] =
                           Append(@, [slice |-> slice, len |-> len])]
          /\ owner' = IF new THEN Append(owner, Builder) ELSE owner
    /\ wanted' = [wanted EXCEPT ![at] = Append(@, len)]
    /\ UNCHANGED <<mode, phase, at>>

\* The next chunk, or the first for the loop that follows.
after_chunk == IF at = Chunks THEN 1 ELSE at + 1

\* The chunk's store is the builder's.
ReleaseChunk ==
    /\ phase = "build" /\ mode # "vector"
    /\ release(Chunk(at))
    /\ at' = after_chunk
    /\ phase' = IF at < Chunks THEN "build"
                ELSE IF mode = "list" THEN "finalize" ELSE "concat"
    /\ UNCHANGED <<mode, wanted>>

\* to_sexp() stages the store with the builder's owner before it calls R.
Stage ==
    /\ phase = "build" /\ mode = "vector"
    /\ release(Staged)
    /\ phase' = "finalize"
    /\ UNCHANGED <<mode, at, wanted>>

\* The records point where they pointed; prepend() takes the slices over.  What
\* is left of the chunk's store is dropped with concatenate()'s vector.
join(k) ==
    /\ owner' = handed({Chunk(k)}, Flat)
    /\ records' = [records EXCEPT ![Flat] = @ \o records[Chunk(k)], ![Chunk(k)] = <<>>]

Concat ==
    /\ phase = "concat"
    /\ join(at)
    /\ at' = after_chunk
    /\ phase' = IF at = Chunks THEN "finalize" ELSE "concat"
    /\ UNCHANGED <<mode, wanted>>

\* Building throws, or the joined store cannot be allocated.
BuildingThrows ==
    /\ phase = "build" \/ (phase = "concat" /\ at = 1)
    /\ phase' = "unwind"
    /\ UNCHANGED <<mode, at, owner, records, wanted>>

-----------------------------------------------------------------------------
(* finalize()                                                              *)

store ==
    CASE mode = "vector" -> Staged
      [] mode = "concat" -> Flat
      [] OTHER -> Chunk(at)

fits_charpack(rs) ==
    /\ Len(rs) <= charpack_max_strings
    /\ SumFunction([k \in 1..Len(rs) |-> IF rs[k].len <= 0 THEN 0 ELSE rs[k].len])
         <= charpack_max_bytes

Finalized ==
    /\ phase' = IF mode = "list" /\ at < Chunks THEN "finalize" ELSE "end"
    /\ at' = IF mode = "list" /\ at < Chunks THEN at + 1 ELSE at
    /\ UNCHANGED <<mode, wanted>>

\* charpack: the text is copied into the object, and discard() frees the store.
FinalizePack ==
    /\ phase = "finalize" /\ fits_charpack(records[store])
    /\ owner' = handed({store}, Freed)
    /\ records' = [records EXCEPT ![store] = <<>>, ![Object(at)] =
                     [k \in 1..Len(records[store]) |->
                        [slice |-> 0, len |-> records[store][k].len]]]
    /\ Finalized

\* charvec: the object takes the store over.
wrap ==
    /\ owner' = handed({store}, Object(at))
    /\ records' = [records EXCEPT ![store] = <<>>, ![Object(at)] = records[store]]

FinalizeWrap ==
    /\ phase = "finalize" /\ ~fits_charpack(records[store])
    /\ wrap
    /\ Finalized

\* R cannot allocate the object: nothing has moved.
FinalizeFails ==
    /\ phase = "finalize"
    /\ phase' = "unwind"
    /\ UNCHANGED <<mode, at, owner, records, wanted>>

\* Mutant: the destructors miss the store that is staged.
frame_owners_unstaged == Frame \ {Staged}

frame_owners == Frame

\* The destructors of the frame's owners, after a return or an error.
Leave ==
    /\ phase \in {"end", "unwind"}
    /\ Destroyed(frame_owners)
    /\ phase' = IF phase = "end" THEN "returned" ELSE "raised"
    /\ UNCHANGED <<mode, at, wanted>>

Finished == phase \in {"returned", "raised"} /\ UNCHANGED stores_vars

StoresNext ==
    \/ \E len \in Lengths, new \in BOOLEAN : Append_(len, new)
    \/ ReleaseChunk \/ Stage \/ Concat \/ BuildingThrows
    \/ FinalizePack \/ FinalizeWrap \/ FinalizeFails \/ Leave \/ Finished

StoresSpec == StoresInit /\ [][StoresNext]_stores_vars

-----------------------------------------------------------------------------
(* Properties.                                                             *)

\* Every variable has its type, and every slice an owner.
StoresTypeOK ==
    /\ mode \in {"vector", "list", "concat"} /\ at \in 1..Chunks
    /\ phase \in {"build", "concat", "finalize", "end", "unwind", "returned", "raised"}
    /\ \A s \in 1..Len(owner) : owner[s] \in Frame \cup Objects \cup {Freed}
    /\ \A h \in DOMAIN records : \A k \in 1..Len(records[h]) :
         records[h][k].slice \in 0..Len(owner) /\ records[h][k].len \in Lengths

\* Text can be read as long as its record can: the owner of a record owns the
\* slice the record points into, through release, concatenation and finalize().
RecordsAreBacked ==
    \A h \in DOMAIN records : \A k \in 1..Len(records[h]) :
      LET s == records[h][k].slice IN s # 0 => owner[s] = h

\* Every slice ends up freed or in the object that needs it, also when R leaves
\* finalize() by an error half-way through a list.
NothingLeaks ==
    phase \in {"returned", "raised"} =>
      \A s \in 1..Len(owner) :
        owner[s] = Freed \/ (owner[s] \in Objects /\ \E k \in 1..Len(records[owner[s]]) :
                                                       records[owner[s]][k].slice = s)

\* The texts of the first chunks, in order, and of all.
Upto(W) ==
    LET upto[k \in 0..Chunks] == IF k = 0 THEN <<>> ELSE upto[k - 1] \o W[k]
    IN  upto
Joined(W) == Upto(W)[Chunks]

Complete ==
    IF mode = "list"
    THEN \A k \in 1..Chunks : texts(records[Object(k)]) = wanted[k]
    ELSE texts(records[Object(1)]) = Joined(wanted)

\* The objects hold the records of their chunks, or of all chunks in order,
\* whichever of the two forms each of them got.
ObjectsAreComplete == phase = "returned" => Complete

-----------------------------------------------------------------------------
(* The inductive invariant of the proofs.                                  *)

Handles == Frame \cup Objects
Recs == [slice : Nat, len : Lengths]

\* Whoever has a record owns the slice it points into, and every slice that is
\* not freed has a record of its owner that points into it.
OwnInv ==
    /\ owner \in Seq(Handles \cup {Freed})
    /\ records \in [Handles -> Seq(Recs)]
    /\ \A h \in Handles : \A k \in 1..Len(records[h]) :
          LET s == records[h][k].slice IN s = 0 \/ (s \in 1..Len(owner) /\ owner[s] = h)
    /\ \A s \in 1..Len(owner) : owner[s] # Freed =>
          \E k \in 1..Len(records[owner[s]]) : records[owner[s]][k].slice = s

\* Where the texts of the chunks are when the call is at chunk j of a phase.
Building(j) ==
    /\ records[Staged] = <<>> /\ records[Flat] = <<>>
    /\ \A k \in 1..Chunks : records[Object(k)] = <<>>
    /\ \A k \in 1..Chunks : k < j => texts(records[Chunk(k)]) = wanted[k]
    /\ \A k \in 1..Chunks : k >= j => records[Chunk(k)] = <<>>
    /\ \A k \in 1..Chunks : k > j => wanted[k] = <<>>
    /\ texts(records[Builder]) = wanted[j]
    /\ mode = "vector" => j = 1

Concatenating(j) ==
    /\ mode = "concat"
    /\ \A k \in 1..Chunks : records[Object(k)] = <<>>
    /\ \A k \in 1..Chunks : k >= j => texts(records[Chunk(k)]) = wanted[k]
    /\ texts(records[Flat]) = Upto(wanted)[j - 1]

Finalizing(j) ==
    /\ \A k \in 1..Chunks : k >= j => records[Object(k)] = <<>>
    /\ mode = "list" =>
         \A k \in 1..Chunks : texts(records[IF k < j THEN Object(k) ELSE Chunk(k)]) = wanted[k]
    /\ mode # "list" => j = 1 /\ texts(records[store]) = Joined(wanted)

PhaseInv ==
    /\ mode \in {"vector", "list", "concat"} /\ at \in 1..Chunks
    /\ phase \in {"build", "concat", "finalize", "end", "unwind", "returned", "raised"}
    /\ wanted \in [1..Chunks -> Seq(Lengths)]
    /\ phase = "build" => Building(at)
    /\ phase = "concat" => Concatenating(at)
    /\ phase = "finalize" => Finalizing(at)
    /\ phase \in {"end", "returned"} => Complete
    /\ phase \in {"returned", "raised"} => \A h \in Frame : records[h] = <<>>

StoreInv == OwnInv /\ PhaseInv

\* Whatever throws, the text of a result has one owner until it is freed, and is
\* freed once (release_store, concatenate, finalize): records point into slices
\* that are alive, what is left when the call has ended belongs to the R objects,
\* and those have the texts appended, in order.
StoresKeepText ==
    StoresTypeOK /\ StoreInv /\ RecordsAreBacked /\ NothingLeaks /\ ObjectsAreComplete

=============================================================================
