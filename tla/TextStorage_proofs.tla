------------------------ MODULE TextStorage_proofs -------------------------
(***************************************************************************)
(* The shared code that keeps text and finds its way in it.  What an arena *)
(* has given out is disjoint, for every size of size_t and of the slices   *)
(* and any sequence of requests.  The answers of Utf8Indexer are exact,    *)
(* for texts of every length and every sequence of calls: the cached       *)
(* places are exact, a running walk is exact, and so every step is one of  *)
(* IndexerContract or changes nothing it sees.                             *)
(***************************************************************************)
EXTENDS SliceArena, Utf8Indexer, TLAPS

\* A leaf that names no prover is tried with these, in this order.
USE SMTT(20), ZenonT(20), SMTT(60), Z3T(60)

(* The arena.  The invariant adds to the statement where the current slice *)
(* ends: what was given from it lies below current_used_, so the next      *)
(* allocation starts behind it.                                            *)

\* The sizes a slice may ask for count bytes.
LEMMA SizesAreNatural == Sizes \subseteq Nat
BY SizesAssumption DEF Sizes

\* The arena's fields describe its last slice.
CurrentIsLast ==
    /\ slices # <<>> => slices[Len(slices)] = capacity
    /\ \A i \in 1..Len(given) :
          given[i].slice = Len(slices) => given[i].offset + given[i].bytes <= used

Inv == TypeOK /\ ArenaIsValid /\ GivenIsDisjoint /\ CurrentIsLast

\* A new slice holds the request that starts it, and its size does not wrap
\* though start_slice() doubles the last one.
LEMMA SliceFits ==
    ASSUME TypeOK, NEW bytes \in Sizes
    PROVE  slice_bytes(bytes) \in Sizes \ {0} /\ bytes <= slice_bytes(bytes)
<1>1. regular \in Sizes \ {0}
  BY SizesAssumption DEF TypeOK, Sizes, regular
<1> QED BY <1>1 DEF Sizes, slice_bytes

\* An allocation in the current slice starts behind all that was given from it.
LEMMA InSliceKeepsInv ==
    ASSUME Inv, NEW bytes \in Sizes, AllocateInSlice(bytes)
    PROVE  Inv'
<1> DEFINE new == [slice |-> Len(slices), offset |-> used, bytes |-> bytes]
<1>1. /\ given' = Append(given, new) /\ used' = used + bytes
      /\ slices' = slices /\ capacity' = capacity
  BY DEF AllocateInSlice, used_behind
<1>2. /\ slices \in Seq(Sizes) /\ capacity \in Sizes /\ used \in Sizes
      /\ given \in Seq([slice : Nat, offset : Sizes, bytes : Sizes])
      /\ used <= capacity /\ SizeMax \in Nat
  BY SizesAssumption DEF Inv, TypeOK, ArenaIsValid
<1>3. slices # <<>> /\ used + bytes <= capacity
  BY <1>2 DEF AllocateInSlice, needs_slice, remaining, Sizes
<1>4. Len(slices) \in Nat \ {0}
  BY <1>2, <1>3
<1>5. new \in [slice : Nat, offset : Sizes, bytes : Sizes]
  BY <1>2, <1>4
<1>6. TypeOK'
  <2>1. used + bytes \in Sizes
    BY <1>2, <1>3 DEF Sizes
  <2>2. Append(given, new) \in Seq([slice : Nat, offset : Sizes, bytes : Sizes])
    BY <1>2, <1>5
  <2> QED BY <1>1, <1>2, <2>1, <2>2 DEF TypeOK
<1>7. ArenaIsValid'
  BY <1>1, <1>2, <1>3 DEF Inv, ArenaIsValid
<1>8. /\ Len(given') = Len(given) + 1 /\ given'[Len(given) + 1] = new
      /\ \A i \in 1..Len(given) : given'[i] = given[i]
  BY <1>1, <1>2
<1>9. \A i \in 1..Len(given') : i \in 1..Len(given) \/ i = Len(given) + 1
  BY <1>2, <1>8
<1>10. CurrentIsLast'
  <2>1. \A i \in 1..Len(given') :
           given'[i].slice = Len(slices) => given'[i].offset + given'[i].bytes <= used + bytes
    <3> SUFFICES ASSUME NEW i \in 1..Len(given'), given'[i].slice = Len(slices)
                 PROVE  given'[i].offset + given'[i].bytes <= used + bytes
      OBVIOUS
    <3>1. CASE i \in 1..Len(given)
      <4>1. \A S, q : \A k : q \in Seq(S) /\ k \in 1..Len(q) => q[k] \in S
        OBVIOUS
      <4>2. given[i] \in [slice : Nat, offset : Sizes, bytes : Sizes]
        BY Zenon, <1>2, <3>1, <4>1
      <4>3. given[i].offset \in Nat /\ given[i].bytes \in Nat
        <5>1. given[i].offset \in Sizes /\ given[i].bytes \in Sizes
          BY <4>2
        <5> QED BY Zenon, <5>1, SizesAreNatural
      <4>4. given[i].offset + given[i].bytes <= used
        BY <1>8, <3>1 DEF Inv, CurrentIsLast
      <4>5. used \in Nat /\ bytes \in Nat
        BY <1>2, SizesAreNatural
      <4>6. given'[i] = given[i]
        BY <1>8, <3>1
      <4> QED BY <4>3, <4>4, <4>5, <4>6
    <3>2. CASE i = Len(given) + 1
      BY <1>2, <1>8, <3>2 DEF Sizes
    <3> QED BY <1>9, <3>1, <3>2
  <2> QED BY <1>1, <2>1 DEF Inv, CurrentIsLast
<1>11. GivenIsDisjoint'
  <2>1. ASSUME NEW i \in 1..Len(given')
        PROVE  /\ given'[i].slice \in 1..Len(slices)
               /\ given'[i].offset + given'[i].bytes <= slices[given'[i].slice]
    <3>1. CASE i \in 1..Len(given)
      BY <1>8, <3>1 DEF Inv, GivenIsDisjoint
    <3>2. CASE i = Len(given) + 1
      BY <1>3, <1>4, <1>8, <3>2 DEF Inv, CurrentIsLast
    <3> QED BY <1>9, <2>1, <3>1, <3>2
  <2>2. ASSUME NEW i \in 1..Len(given'), NEW j \in 1..Len(given'), i < j
        PROVE  \/ given'[i].slice < given'[j].slice
               \/ /\ given'[i].slice = given'[j].slice
                  /\ given'[i].offset + given'[i].bytes <= given'[j].offset
    <3>1. CASE j \in 1..Len(given)
      <4>1. i \in 1..Len(given)
        BY <1>2, <1>8, <2>2, <3>1
      <4> QED BY <1>8, <2>2, <3>1, <4>1 DEF Inv, GivenIsDisjoint
    <3>2. CASE j = Len(given) + 1
      <4>1. i \in 1..Len(given)
        BY <1>2, <1>8, <2>2, <3>2
      <4>2. given[i].slice \in 1..Len(slices)
        BY <4>1 DEF Inv, GivenIsDisjoint
      <4>3. given[i].slice = Len(slices) => given[i].offset + given[i].bytes <= used
        BY <4>1 DEF Inv, CurrentIsLast
      <4> QED BY <1>4, <1>8, <3>2, <4>1, <4>2, <4>3
    <3> QED BY <1>9, <2>2, <3>1, <3>2
  <2> QED BY Zenon, <1>1, <2>1, <2>2 DEF GivenIsDisjoint
<1> QED BY <1>6, <1>7, <1>10, <1>11 DEF Inv

\* A new slice leaves the others as they are, and nothing was given from it.
LEMMA NewSliceKeepsInv ==
    ASSUME Inv, NEW bytes \in Sizes, AllocateNewSlice(bytes)
    PROVE  Inv'
<1> DEFINE size == slice_bytes(bytes)
           new == [slice |-> Len(slices) + 1, offset |-> 0, bytes |-> bytes]
<1>1. /\ given' = Append(given, new) /\ used' = bytes
      /\ slices' = Append(slices, size) /\ capacity' = size
  BY DEF AllocateNewSlice, used_behind, Sizes
<1>2. /\ slices \in Seq(Sizes) /\ capacity \in Sizes /\ used \in Sizes
      /\ given \in Seq([slice : Nat, offset : Sizes, bytes : Sizes])
      /\ SizeMax \in Nat
  BY SizesAssumption DEF Inv, TypeOK
<1>3. size \in Sizes \ {0} /\ bytes <= size
  BY SliceFits DEF Inv
<1> HIDE DEF size
<1>4. Len(slices) \in Nat
  BY <1>2
<1>5. new \in [slice : Nat, offset : Sizes, bytes : Sizes]
  BY <1>2, <1>4 DEF Sizes
<1>6. TypeOK'
  <2>1. Append(given, new) \in Seq([slice : Nat, offset : Sizes, bytes : Sizes])
    BY <1>2, <1>5
  <2>2. Append(slices, size) \in Seq(Sizes)
    BY <1>2, <1>3
  <2> QED BY <1>1, <1>2, <1>3, <2>1, <2>2 DEF TypeOK
<1>7. /\ Len(given') = Len(given) + 1 /\ given'[Len(given) + 1] = new
      /\ \A i \in 1..Len(given) : given'[i] = given[i]
  BY <1>1, <1>2
<1>8. /\ Len(slices') = Len(slices) + 1 /\ slices'[Len(slices) + 1] = size
      /\ \A k \in 1..Len(slices) : slices'[k] = slices[k]
  BY <1>1, <1>2
<1>9. \A i \in 1..Len(given') : i \in 1..Len(given) \/ i = Len(given) + 1
  BY <1>2, <1>7
<1>10. ArenaIsValid'
  <2>1. slices' # <<>>
    BY <1>4, <1>8
  <2> QED BY <1>1, <1>3, <2>1 DEF ArenaIsValid
<1>11. \A i \in 1..Len(given) : given[i].slice \in 1..Len(slices)
  BY DEF Inv, GivenIsDisjoint
<1>12. CurrentIsLast'
  <2>1. ASSUME NEW i \in 1..Len(given'), given'[i].slice = Len(slices')
        PROVE  given'[i].offset + given'[i].bytes <= bytes
    <3>1. i = Len(given) + 1
      BY <1>4, <1>7, <1>8, <1>9, <1>11, <2>1
    <3> QED BY <1>7, <3>1 DEF Sizes
  <2> QED BY <1>1, <1>8, <2>1 DEF CurrentIsLast
<1>13. GivenIsDisjoint'
  <2>1. ASSUME NEW i \in 1..Len(given')
        PROVE  /\ given'[i].slice \in 1..Len(slices')
               /\ given'[i].offset + given'[i].bytes <= slices'[given'[i].slice]
    <3>1. CASE i \in 1..Len(given)
      <4>1. given[i].offset + given[i].bytes <= slices[given[i].slice]
        BY <3>1 DEF Inv, GivenIsDisjoint
      <4> QED BY <1>4, <1>7, <1>8, <1>11, <3>1, <4>1
    <3>2. CASE i = Len(given) + 1
      BY <1>3, <1>4, <1>7, <1>8, <3>2 DEF Sizes
    <3> QED BY <1>9, <2>1, <3>1, <3>2
  <2>2. ASSUME NEW i \in 1..Len(given'), NEW j \in 1..Len(given'), i < j
        PROVE  \/ given'[i].slice < given'[j].slice
               \/ /\ given'[i].slice = given'[j].slice
                  /\ given'[i].offset + given'[i].bytes <= given'[j].offset
    <3>1. CASE j \in 1..Len(given)
      <4>1. i \in 1..Len(given)
        BY <1>2, <1>7, <2>2, <3>1
      <4> QED BY <1>7, <2>2, <3>1, <4>1 DEF Inv, GivenIsDisjoint
    <3>2. CASE j = Len(given) + 1
      <4>1. i \in 1..Len(given)
        BY <1>2, <1>7, <2>2, <3>2
      <4> QED BY <1>4, <1>7, <1>11, <3>2, <4>1
    <3> QED BY <1>9, <2>2, <3>1, <3>2
  <2> QED BY Zenon, <1>1, <2>1, <2>2 DEF GivenIsDisjoint
<1> QED BY <1>6, <1>10, <1>12, <1>13 DEF Inv

\* The invariant holds from the empty arena on, through every request.
LEMMA InvIsInvariant == Spec => []Inv
<1>1. Init => Inv
  <2>1. <<>> \in Seq(Sizes) /\ <<>> \in Seq([slice : Nat, offset : Sizes, bytes : Sizes])
        /\ Len(<<>>) = 0
    OBVIOUS
  <2> QED BY <2>1, SizesAssumption DEF Init, Inv, TypeOK, ArenaIsValid, GivenIsDisjoint,
                                       CurrentIsLast, Sizes
<1>2. Inv /\ [Next]_vars => Inv'
  <2> SUFFICES ASSUME Inv, [Next]_vars PROVE Inv'
    OBVIOUS
  <2>1. ASSUME NEW bytes \in Sizes, AllocateInSlice(bytes) PROVE Inv'
    BY <2>1, InSliceKeepsInv
  <2>2. ASSUME NEW bytes \in Sizes, AllocateNewSlice(bytes) PROVE Inv'
    BY <2>2, NewSliceKeepsInv
  <2>3. CASE UNCHANGED vars
    BY <2>3 DEF vars, Inv, TypeOK, ArenaIsValid, GivenIsDisjoint, CurrentIsLast
  <2> QED BY <2>1, <2>2, <2>3 DEF Next, AllocationFails
<1> QED BY <1>1, <1>2, PTL DEF Spec

\* The arena never overdraws its slice, so no subtraction in allocate() wraps:
\* what the comment above allocate() claims, for every size.
THEOREM ArenaStaysValid == Spec => []ArenaIsValid
<1>1. Inv => ArenaIsValid
  BY DEF Inv
<1> QED BY <1>1, InvIsInvariant, PTL

\* What allocate() has returned is never overlapped by what it returns later,
\* and stays inside memory the arena owns.
THEOREM GivenStaysDisjoint == Spec => []GivenIsDisjoint
<1>1. Inv => GivenIsDisjoint
  BY DEF Inv
<1> QED BY <1>1, InvIsInvariant, PTL

-----------------------------------------------------------------------------
(* Utf8Indexer.                                                            *)

\* The inductive invariant, with the types the walks need.
IndexerInv ==
    /\ Contract!IsText(text)
    /\ query \in Contract!Call \cup {Idle}
    /\ walking \in {"no", "out", "back"}
    /\ \E c \in 0..text.count : last_forward = Place(c, text.offset[c])
    /\ \E c \in 0..text.count :
         last_backward = Place(c, text.offset[text.count - c])
    /\ walking # "no" => at \in [codepoint : 0..text.count, byte : Nat]
    /\ WalkIsExact

\* Later code points start at higher bytes.
LEMMA OffsetsRise ==
    ASSUME Contract!IsText(text),
           NEW i \in 0..text.count, NEW j \in 0..text.count
    PROVE  /\ i \in Nat /\ j \in Nat /\ text.count \in Nat
           /\ text.offset[i] \in Nat /\ text.offset[j] \in Nat
           /\ i <= j <=> text.offset[i] <= text.offset[j]
<1>1. /\ text.count \in Nat /\ text.offset \in [0..text.count -> Nat]
      /\ \A k, l \in 0..text.count : k < l => text.offset[k] < text.offset[l]
  BY DEF Contract!IsText
<1>2. i \in Nat /\ j \in Nat /\ text.offset[i] \in Nat /\ text.offset[j] \in Nat
  BY <1>1
<1>3. (i < j => text.offset[i] < text.offset[j])
      /\ (j < i => text.offset[j] < text.offset[i])
      /\ (i = j => text.offset[i] = text.offset[j])
  BY <1>1
<1>4. QED
  BY <1>1, <1>2, <1>3

\* U8_FWD_1 moves from the start of a code point to the start of the next.
LEMMA ForwardStep ==
    ASSUME Contract!IsText(text), NEW i \in 0..text.count, i < text.count
    PROVE  U8_FWD_1(text.offset[i]) = text.offset[i + 1]
<1> DEFINE b == text.offset[i]
           P(x) == x > b /\ \A y \in Starts : y > b => x <= y
<1>1. /\ text.count \in Nat /\ text.offset \in [0..text.count -> Nat]
      /\ \A k, j \in 0..text.count : k < j => text.offset[k] < text.offset[j]
  BY DEF Contract!IsText
<1>2. i + 1 \in 0..text.count
  BY <1>1
<1>3. text.offset[i + 1] \in Starts
  BY <1>2 DEF Starts
<1>4. ASSUME NEW y \in Starts, y > b
      PROVE  text.offset[i + 1] <= y
  <2>1. PICK j \in 0..text.count : y = text.offset[j]
    BY DEF Starts
  <2>2. ~(j <= i)
    BY <1>4, <2>1, OffsetsRise
  <2>3. i + 1 <= j
    BY <2>2, OffsetsRise
  <2>4. QED
    BY <1>2, <2>1, <2>3, OffsetsRise
<1>5. P(text.offset[i + 1])
  BY <1>1, <1>2, <1>4
<1> HIDE DEF P
<1>6. PICK x : x = CHOOSE z \in Starts : P(z)
  OBVIOUS
<1>7. x \in Starts /\ P(x)
  BY <1>3, <1>5, <1>6
<1>8. x = text.offset[i + 1]
  <2>1. x \in Nat /\ text.offset[i + 1] \in Nat
    BY <1>1, <1>2, <1>7 DEF Starts
  <2>2. x <= text.offset[i + 1] /\ text.offset[i + 1] <= x
    BY <1>3, <1>4, <1>5, <1>7 DEF P
  <2>3. QED
    BY <2>1, <2>2
<1>9. QED
  BY <1>6, <1>8 DEF P, U8_FWD_1

\* U8_BACK_1 moves to the start of the code point before.
LEMMA BackStep ==
    ASSUME Contract!IsText(text), NEW i \in 0..text.count, i > 0
    PROVE  U8_BACK_1(text.offset[i]) = text.offset[i - 1]
<1> DEFINE b == text.offset[i]
           P(x) == x < b /\ \A y \in Starts : y < b => y <= x
<1>1. /\ text.count \in Nat /\ text.offset \in [0..text.count -> Nat]
      /\ \A k, j \in 0..text.count : k < j => text.offset[k] < text.offset[j]
  BY DEF Contract!IsText
<1>2. i - 1 \in 0..text.count
  BY <1>1
<1>3. text.offset[i - 1] \in Starts
  BY <1>2 DEF Starts
<1>4. ASSUME NEW y \in Starts, y < b
      PROVE  y <= text.offset[i - 1]
  <2>1. PICK j \in 0..text.count : y = text.offset[j]
    BY DEF Starts
  <2>2. ~(i <= j)
    BY <1>4, <2>1, OffsetsRise
  <2>3. j <= i - 1
    BY <2>2, OffsetsRise
  <2>4. QED
    BY <1>2, <2>1, <2>3, OffsetsRise
<1>5. P(text.offset[i - 1])
  BY <1>1, <1>2, <1>4
<1> HIDE DEF P
<1>6. PICK x : x = CHOOSE z \in Starts : P(z)
  OBVIOUS
<1>7. x \in Starts /\ P(x)
  BY <1>3, <1>5, <1>6
<1>8. x = text.offset[i - 1]
  <2>1. x \in Nat /\ text.offset[i - 1] \in Nat
    BY <1>1, <1>2, <1>7 DEF Starts
  <2>2. x <= text.offset[i - 1] /\ text.offset[i - 1] <= x
    BY <1>3, <1>4, <1>5, <1>7 DEF P
  <2>3. QED
    BY <2>1, <2>2
<1>9. QED
  BY <1>6, <1>8 DEF P, U8_BACK_1

\* In a text a code point starts at byte 0, or at the length, only if it is
\* the first, or the end.
LEMMA Ends ==
    ASSUME Contract!IsText(text), NEW i \in 0..text.count
    PROVE  /\ text.offset[i] \in Nat /\ length \in Nat
           /\ text.offset[i] > 0 <=> i > 0
           /\ text.offset[i] < length <=> i < text.count
           /\ text.ascii => text.offset[i] = i /\ length = text.count
BY DEF Contract!IsText, length

-----------------------------------------------------------------------------
(* What a finished call answers.                                           *)

\* The early returns agree with the contract.
LEMMA EarlyReturnsExact ==
    ASSUME IndexerInv, ReturnAtOnce
    PROVE  answer' = Contract!Answer(text, query)
<1>1. /\ Contract!IsText(text) /\ query \in Contract!Call
      /\ text.count \in Nat /\ 0 \in 0..text.count
  BY DEF IndexerInv, ReturnAtOnce, Contract!IsText
<1>2. query.position \in Int
  BY Zenon, <1>1, TextsAssumption DEF Contract!Call
<1>3. length \in Nat /\ length = text.offset[text.count] /\ text.offset[0] = 0
  BY <1>1, Ends DEF length, Contract!IsText
<1>4. CASE ~text.ascii
  BY <1>1, <1>2, <1>3, <1>4
     DEF ReturnAtOnce, Return, Contract!Answer, Contract!clamped
<1>5. CASE text.ascii
  <2>1. length = text.count /\ \A i \in 0..text.count : text.offset[i] = i
    BY <1>1, <1>3, <1>5 DEF Contract!IsText
  <2>2. QED
    BY <1>1, <1>2, <1>3, <2>1
       DEF ReturnAtOnce, Return, Contract!Answer, Contract!clamped
<1>6. QED
  BY <1>4, <1>5

\* A walk that has ended stands where the contract says.
LEMMA WalksEndExactly ==
    ASSUME IndexerInv, EndWalk
    PROVE  /\ answer' = Contract!Answer(text, query)
           /\ query.kind # "count" =>
                /\ cached = Place(Contract!clamped(text, query.position), at.byte)
                /\ at.codepoint = Contract!clamped(text, query.position)
<1>1. /\ Contract!IsText(text) /\ walking \in {"out", "back"}
      /\ query \in Contract!Call
      /\ at.codepoint \in 0..text.count /\ text.count \in Nat
      /\ at \in [codepoint : 0..text.count, byte : Nat]
      /\ WalkIsExact
  BY DEF IndexerInv, EndWalk, WalkIsExact, Contract!IsText
<1>2. query.position \in Int /\ query.kind \in {"forward", "backward", "count"}
  BY Zenon, <1>1, TextsAssumption DEF Contract!Call
<1>3. /\ at.byte = text.offset[IF query.kind = "backward"
                               THEN text.count - at.codepoint
                               ELSE at.codepoint]
      /\ answer' = IF query.kind = "count" THEN at.codepoint ELSE at.byte
  BY <1>1 DEF WalkIsExact, EndWalk, Return
<1>4. CASE query.kind = "count"
  <2>1. ~(at.byte < length) /\ at.byte = text.offset[at.codepoint]
    BY <1>1, <1>3, <1>4 DEF EndWalk, more_out, WalkIsExact
  <2>2. at.codepoint = text.count
    BY <1>1, <2>1, Ends
  <2>3. QED
    BY <1>3, <1>4, <2>2 DEF Contract!Answer
<1>5. CASE query.kind = "forward"
  <2>1. /\ query.position > 0 /\ at.byte = text.offset[at.codepoint]
        /\ (walking = "out" => at.codepoint <= query.position)
        /\ (walking = "back" => at.codepoint >= query.position)
    BY <1>1, <1>3, <1>5 DEF WalkIsExact
  <2>2. /\ walking = "out" => ~(at.codepoint < query.position /\ at.byte < length)
        /\ walking = "back" => ~(at.codepoint > query.position /\ at.byte > 0)
    BY <1>1, <1>5 DEF EndWalk, more_out, more_back
  <2>3. /\ at.byte < length <=> at.codepoint < text.count
        /\ at.byte > 0 <=> at.codepoint > 0
    BY <1>1, <2>1, Ends
  <2>4. at.codepoint = Contract!clamped(text, query.position)
    BY <1>1, <1>2, <2>1, <2>2, <2>3 DEF Contract!clamped
  <2>5. cached = Place(at.codepoint, at.byte)
    <3>1. CASE walking = "out"
      BY <1>1, <3>1 DEF cached, Place
    <3>2. CASE walking = "back"
      <4>1. at.codepoint = query.position
        BY <1>1, <1>2, <2>1, <2>2, <2>3, <3>2
      <4>2. QED
        BY <3>2, <4>1 DEF cached
    <3>3. QED
      BY <1>1, <3>1, <3>2
  <2>6. QED
    BY <1>3, <1>5, <2>1, <2>4, <2>5 DEF Contract!Answer
<1>6. CASE query.kind = "backward"
  <2> DEFINE back == text.count - at.codepoint
  <2>1. /\ query.position > 0 /\ at.byte = text.offset[back]
        /\ (walking = "out" => at.codepoint <= query.position)
        /\ (walking = "back" => at.codepoint >= query.position)
    BY <1>1, <1>3, <1>6 DEF WalkIsExact
  <2>2. /\ walking = "out" => ~(at.codepoint < query.position /\ at.byte > 0)
        /\ walking = "back" => ~(at.codepoint > query.position /\ at.byte < length)
    BY <1>1, <1>6 DEF EndWalk, more_out, more_back
  <2>3. /\ at.byte < length <=> back < text.count
        /\ at.byte > 0 <=> back > 0
    <3>1. back \in 0..text.count
      BY <1>1
    <3>2. QED
      BY <1>1, <2>1, <3>1, Ends
  <2>4. at.codepoint = Contract!clamped(text, query.position)
    BY <1>1, <1>2, <2>1, <2>2, <2>3 DEF Contract!clamped
  <2>5. cached = Place(at.codepoint, at.byte)
    <3>1. CASE walking = "out"
      BY <1>1, <3>1 DEF cached, Place
    <3>2. CASE walking = "back"
      <4>1. at.codepoint = query.position
        BY <1>1, <1>2, <2>1, <2>2, <2>3, <3>2
      <4>2. QED
        BY <3>2, <4>1 DEF cached
    <3>3. QED
      BY <1>1, <3>1, <3>2
  <2>6. QED
    BY <1>3, <1>6, <2>1, <2>4, <2>5 DEF Contract!Answer
<1>7. QED
  BY <1>2, <1>4, <1>5, <1>6

-----------------------------------------------------------------------------
(* The invariant.                                                          *)

\* A new indexer has an exact cache: both places are ends of the text.
LEMMA InvInit == IndexerInit => IndexerInv
<1> SUFFICES ASSUME IndexerInit PROVE IndexerInv
  OBVIOUS
<1>1. Contract!IsText(text)
  BY TextsAssumption DEF IndexerInit
<1>2. text.count \in Nat /\ text.offset[0] = 0 /\ length = text.offset[text.count - 0]
  BY <1>1 DEF Contract!IsText, length
<1>3. last_forward = Place(0, text.offset[0])
      /\ last_backward = Place(0, text.offset[text.count - 0])
  BY <1>2 DEF IndexerInit
<1>4. QED
  BY <1>1, <1>2, <1>3 DEF IndexerInit, IndexerInv, WalkIsExact

\* A new text replaces both cached places.
LEMMA ResetKeepsInv ==
    ASSUME IndexerInv, NEW t \in Texts, Reset(t)
    PROVE  IndexerInv'
<1>1. /\ text' = t /\ query' = query /\ walking' = walking /\ at' = at
      /\ query = Idle /\ walking = "no"
      /\ last_forward' = Place(0, 0)
      /\ last_backward' = Place(0, t.offset[t.count])
  BY DEF Reset, IndexerInv, WalkIsExact
<1>2. Contract!IsText(t) /\ t.count \in Nat /\ t.offset[0] = 0
      /\ t.offset[t.count] = t.offset[t.count - 0]
  BY TextsAssumption DEF Contract!IsText
<1>3. Contract!IsText(text)'
  BY <1>1, <1>2 DEF Contract!IsText
<1>4. QED
  BY <1>1, <1>2, <1>3 DEF IndexerInv, WalkIsExact

\* Asking and the early returns move no cached place.
LEMMA AskKeepsInv ==
    ASSUME IndexerInv, NEW c \in Contract!Call, Ask(c)
    PROVE  IndexerInv'
<1>1. walking = "no"
  BY DEF Ask, IndexerInv, WalkIsExact
<1>2. QED
  BY Zenon, <1>1 DEF Ask, IndexerInv, WalkIsExact, Contract!IsText

\* An early return answers without touching the cache.
LEMMA ReturnAtOnceKeepsInv ==
    ASSUME IndexerInv, ReturnAtOnce
    PROVE  IndexerInv'
<1>1. /\ text' = text /\ query' = Idle /\ walking' = "no"
      /\ last_forward' = last_forward /\ last_backward' = last_backward
  BY DEF ReturnAtOnce, Return
<1>2. QED
  BY Zenon, <1>1 DEF IndexerInv, WalkIsExact, Contract!IsText

\* A step of a walk that leads to an exact place keeps the invariant.
LEMMA ExactStepKeepsInv ==
    ASSUME IndexerInv, query # Idle, ~text.ascii,
           text' = text, query' = query,
           last_forward' = last_forward, last_backward' = last_backward,
           walking' \in {"out", "back"},
           NEW c \in 0..text.count,
           at' = Place(c, text.offset[IF query.kind = "backward"
                                      THEN text.count - c ELSE c]),
           walking' = "back" => query.kind # "count",
           query.kind # "count" =>
             /\ query.position > 0
             /\ walking' = "out" => c <= query.position
             /\ walking' = "back" => c >= query.position
    PROVE  IndexerInv'
<1>1. /\ Contract!IsText(text)' /\ query' \in Contract!Call \cup {Idle}
      /\ \E k \in 0..text'.count : last_forward' = Place(k, text'.offset[k])
      /\ \E k \in 0..text'.count :
           last_backward' = Place(k, text'.offset[text'.count - k])
  BY DEF IndexerInv, Contract!IsText
<1>2. /\ at'.codepoint = c
      /\ at'.byte = text.offset[IF query.kind = "backward"
                                THEN text.count - c ELSE c]
  BY DEF Place
<1>3. at' \in [codepoint : 0..text'.count, byte : Nat]
  <2>1. text.count \in Nat /\ text.offset \in [0..text.count -> Nat]
    BY DEF IndexerInv, Contract!IsText
  <2>2. (IF query.kind = "backward" THEN text.count - c ELSE c) \in 0..text.count
    BY <2>1
  <2>3. QED
    BY <2>1, <2>2 DEF Place
<1>4. WalkIsExact'
  BY <1>2 DEF WalkIsExact, Idle, Contract!Idle
<1>5. QED
  BY <1>1, <1>3, <1>4 DEF IndexerInv

\* A walk starts at an exact place, on the right side of its goal.
LEMMA StartWalkKeepsInv ==
    ASSUME IndexerInv, StartWalk
    PROVE  IndexerInv'
<1>1. /\ text' = text /\ query' = query /\ query # Idle /\ ~text.ascii
      /\ last_forward' = last_forward /\ last_backward' = last_backward
      /\ Contract!IsText(text) /\ query \in Contract!Call
  BY DEF StartWalk, IndexerInv
<1>2. PICK f \in 0..text.count : last_forward = Place(f, text.offset[f])
  BY DEF IndexerInv
<1>3. PICK b \in 0..text.count :
        last_backward = Place(b, text.offset[text.count - b])
  BY DEF IndexerInv
<1>4. /\ text.count \in Nat /\ text.offset[0] = 0
      /\ text.offset \in [0..text.count -> Nat]
      /\ length = text.offset[text.count - 0]
      /\ query.position \in Int
  <2>1. query.position \in Positions
    BY <1>1 DEF Contract!Call
  <2>2. query.position \in Int
    BY Zenon, <2>1, TextsAssumption
  <2>3. /\ text.count \in Nat /\ text.offset[0] = 0
        /\ text.offset \in [0..text.count -> Nat]
    BY <1>1 DEF Contract!IsText
  <2>4. length = text.offset[text.count - 0]
    BY <2>3 DEF length
  <2>5. QED
    BY <2>2, <2>3, <2>4
<1>5. CASE query.kind = "count"
  <2>1. walking' = "out" /\ at' = Place(0, 0)
    BY <1>5 DEF StartWalk
  <2>2. 0 \in 0..text.count
    BY <1>4
  <2>3. QED
    BY <1>1, <1>4, <1>5, <2>1, <2>2, ExactStepKeepsInv
<1>6. CASE query.kind = "forward"
  <2>1. /\ query.position > 0
        /\ at' = start(last_forward, query.position, Place(0, 0))
        /\ walking' = IF nearer(last_forward, query.position)
                      THEN "back" ELSE "out"
    BY <1>6 DEF StartWalk
  <2>2. \E c \in 0..text.count :
          /\ at' = Place(c, text.offset[c])
          /\ walking' = "out" => c <= query.position
          /\ walking' = "back" => c >= query.position
    <3>1. last_forward.codepoint = f
      BY <1>2 DEF Place
    <3>2. CASE nearer(last_forward, query.position) \/ (f > 0 /\ query.position >= f)
      <4>1. at' = last_forward
        BY <2>1, <3>1, <3>2 DEF start, nearer
      <4>2. QED
        BY <1>2, <1>4, <2>1, <3>1, <3>2, <4>1 DEF nearer
    <3>3. CASE ~(nearer(last_forward, query.position) \/ (f > 0 /\ query.position >= f))
      <4>1. at' = Place(0, text.offset[0]) /\ walking' = "out" /\ 0 \in 0..text.count
        BY <1>4, <2>1, <3>1, <3>3 DEF start
      <4>2. QED
        BY <1>4, <2>1, <4>1
    <3>4. QED
      BY <3>2, <3>3
  <2>3. walking' \in {"out", "back"}
    BY <2>1
  <2>4. QED
    BY <1>1, <1>6, <2>1, <2>2, <2>3, ExactStepKeepsInv
<1>7. CASE query.kind = "backward"
  <2>1. /\ query.position > 0
        /\ at' = start(last_backward, query.position, Place(0, length))
        /\ walking' = IF nearer(last_backward, query.position)
                      THEN "back" ELSE "out"
    BY <1>7 DEF StartWalk
  <2>2. \E c \in 0..text.count :
          /\ at' = Place(c, text.offset[text.count - c])
          /\ walking' = "out" => c <= query.position
          /\ walking' = "back" => c >= query.position
    <3>1. last_backward.codepoint = b
      BY <1>3 DEF Place
    <3>2. CASE nearer(last_backward, query.position) \/ (b > 0 /\ query.position >= b)
      <4>1. at' = last_backward
        BY <2>1, <3>1, <3>2 DEF start, nearer
      <4>2. QED
        BY <1>3, <1>4, <2>1, <3>1, <3>2, <4>1 DEF nearer
    <3>3. CASE ~(nearer(last_backward, query.position) \/ (b > 0 /\ query.position >= b))
      <4>1. at' = Place(0, text.offset[text.count - 0]) /\ walking' = "out" /\ 0 \in 0..text.count
        BY <1>4, <2>1, <3>1, <3>3 DEF start
      <4>2. QED
        BY <1>4, <2>1, <4>1
    <3>4. QED
      BY <3>2, <3>3
  <2>3. walking' \in {"out", "back"}
    BY <2>1
  <2>4. QED
    BY <1>1, <1>7, <2>1, <2>2, <2>3, ExactStepKeepsInv
<1>8. QED
  BY <1>1, <1>5, <1>6, <1>7 DEF Contract!Call

\* One step of a loop moves by one code point.
LEMMA StepOutKeepsInv ==
    ASSUME IndexerInv, StepOut
    PROVE  IndexerInv'
<1>1. /\ text' = text /\ query' = query /\ walking' = walking /\ walking = "out"
      /\ last_forward' = last_forward /\ last_backward' = last_backward
      /\ at' = Place(at.codepoint + 1,
                     IF query.kind = "backward" THEN U8_BACK_1(at.byte)
                     ELSE U8_FWD_1(at.byte))
      /\ more_out
  BY DEF StepOut
<1>2. /\ Contract!IsText(text) /\ WalkIsExact /\ text.count \in Nat
      /\ at.codepoint \in 0..text.count
      /\ text.offset \in [0..text.count -> Nat]
  BY <1>1 DEF IndexerInv, Contract!IsText
<1>3. query \in Contract!Call /\ query.position \in Int
  BY Zenon, <1>1, <1>2, TextsAssumption DEF IndexerInv, WalkIsExact, Contract!Call
<1>4. CASE query.kind = "backward"
  <2> DEFINE k == text.count - at.codepoint
  <2>1. k \in 0..text.count /\ at.byte = text.offset[k] /\ at.byte > 0
        /\ at.codepoint < query.position
    BY <1>1, <1>2, <1>4 DEF WalkIsExact, more_out
  <2>2. k > 0
    BY <1>2, <2>1, Ends
  <2>3. U8_BACK_1(at.byte) = text.offset[k - 1]
    BY <1>2, <2>1, <2>2, BackStep
  <2>4. /\ at.codepoint + 1 \in 0..text.count
        /\ text.offset[k - 1] = text.offset[text.count - (at.codepoint + 1)]
    BY <1>2, <2>1, <2>2
  <2>5. at' = Place(at.codepoint + 1, text.offset[text.count - (at.codepoint + 1)])
    BY <1>1, <1>4, <2>3, <2>4
  <2>6. at.codepoint + 1 <= query.position /\ query.position > 0
    BY <1>1, <1>2, <1>3, <1>4, <2>1 DEF WalkIsExact
  <2>7. QED
    BY <1>1, <1>2, <1>4, <2>4, <2>5, <2>6, ExactStepKeepsInv DEF WalkIsExact
<1>5. CASE query.kind # "backward"
  <2>1. at.byte = text.offset[at.codepoint] /\ at.byte < length
        /\ (query.kind # "count" => at.codepoint < query.position)
    BY <1>1, <1>2, <1>3, <1>5 DEF WalkIsExact, more_out, Contract!Call
  <2>2. at.codepoint < text.count
    BY <1>2, <2>1, Ends
  <2>3. U8_FWD_1(at.byte) = text.offset[at.codepoint + 1]
    BY <1>2, <2>1, <2>2, ForwardStep
  <2>4. at.codepoint + 1 \in 0..text.count
    BY <1>2, <2>2
  <2>5. at' = Place(at.codepoint + 1, text.offset[at.codepoint + 1])
    BY <1>1, <1>5, <2>3
  <2>6. query.kind # "count" =>
          at.codepoint + 1 <= query.position /\ query.position > 0
    BY <1>1, <1>2, <1>3, <2>1 DEF WalkIsExact
  <2>7. QED
    BY <1>1, <1>2, <1>5, <2>4, <2>5, <2>6, ExactStepKeepsInv DEF WalkIsExact
<1>6. QED
  BY <1>4, <1>5

\* The same for the loops that walk back to their goal.
LEMMA StepBackKeepsInv ==
    ASSUME IndexerInv, StepBack
    PROVE  IndexerInv'
<1>1. /\ text' = text /\ query' = query /\ walking' = walking /\ walking = "back"
      /\ last_forward' = last_forward /\ last_backward' = last_backward
      /\ at' = Place(at.codepoint - 1,
                     IF query.kind = "forward" THEN U8_BACK_1(at.byte)
                     ELSE U8_FWD_1(at.byte))
      /\ more_back
  BY DEF StepBack
<1>2. /\ Contract!IsText(text) /\ WalkIsExact /\ text.count \in Nat
      /\ at.codepoint \in 0..text.count
      /\ text.offset \in [0..text.count -> Nat]
      /\ at.codepoint > query.position
  BY <1>1 DEF IndexerInv, Contract!IsText, more_back
<1>3. query \in Contract!Call /\ query.position \in Int /\ query.position > 0
      /\ query.kind \in {"forward", "backward"}
  BY Zenon, <1>1, <1>2, TextsAssumption DEF IndexerInv, WalkIsExact, Contract!Call
<1>4. CASE query.kind = "backward"
  <2> DEFINE k == text.count - at.codepoint
  <2>1. k \in 0..text.count /\ at.byte = text.offset[k] /\ at.byte < length
    BY <1>1, <1>2, <1>4 DEF WalkIsExact, more_back
  <2>2. k < text.count
    BY <1>2, <2>1, Ends
  <2>3. U8_FWD_1(at.byte) = text.offset[k + 1]
    BY <1>2, <2>1, <2>2, ForwardStep
  <2>4. /\ at.codepoint - 1 \in 0..text.count
        /\ text.offset[k + 1] = text.offset[text.count - (at.codepoint - 1)]
    BY <1>2, <2>1, <2>2
  <2>5. at' = Place(at.codepoint - 1, text.offset[text.count - (at.codepoint - 1)])
    BY <1>1, <1>4, <2>3, <2>4
  <2>6. at.codepoint - 1 >= query.position
    BY <1>2, <1>3
  <2>7. QED
    BY <1>1, <1>2, <1>3, <1>4, <2>4, <2>5, <2>6, ExactStepKeepsInv DEF WalkIsExact
<1>5. CASE query.kind = "forward"
  <2>1. at.byte = text.offset[at.codepoint] /\ at.byte > 0
    BY <1>1, <1>2, <1>5 DEF WalkIsExact, more_back
  <2>2. at.codepoint > 0
    BY <1>2, <2>1, Ends
  <2>3. U8_BACK_1(at.byte) = text.offset[at.codepoint - 1]
    BY <1>2, <2>1, <2>2, BackStep
  <2>4. at.codepoint - 1 \in 0..text.count
    BY <1>2, <2>2
  <2>5. at' = Place(at.codepoint - 1, text.offset[at.codepoint - 1])
    BY <1>1, <1>5, <2>3
  <2>6. at.codepoint - 1 >= query.position
    BY <1>2, <1>3
  <2>7. QED
    BY <1>1, <1>2, <1>3, <1>5, <2>4, <2>5, <2>6, ExactStepKeepsInv DEF WalkIsExact
<1>6. QED
  BY <1>3, <1>4, <1>5

\* The place a walk leaves in the cache is exact.
LEMMA EndWalkKeepsInv ==
    ASSUME IndexerInv, EndWalk
    PROVE  IndexerInv'
<1>1. /\ text' = text /\ query' = Idle /\ walking' = "no" /\ at' = Place(0, 0)
      /\ last_forward' = IF query.kind = "forward" THEN cached ELSE last_forward
      /\ last_backward' = IF query.kind = "backward" THEN cached ELSE last_backward
  BY DEF EndWalk, Return
<1>2. /\ Contract!IsText(text) /\ WalkIsExact /\ walking # "no"
      /\ at.codepoint \in 0..text.count
  BY DEF IndexerInv, EndWalk
<1>3. query.kind # "count" => cached = Place(at.codepoint, at.byte)
  BY WalksEndExactly
<1>4. \E c \in 0..text.count : last_forward' = Place(c, text.offset[c])
  <2>1. CASE query.kind = "forward"
    BY <1>1, <1>2, <1>3, <2>1 DEF WalkIsExact
  <2>2. CASE query.kind # "forward"
    BY <1>1, <2>2 DEF IndexerInv
  <2>3. QED
    BY <2>1, <2>2
<1>5. \E c \in 0..text.count :
        last_backward' = Place(c, text.offset[text.count - c])
  <2>1. CASE query.kind = "backward"
    BY <1>1, <1>2, <1>3, <2>1 DEF WalkIsExact
  <2>2. CASE query.kind # "backward"
    BY <1>1, <2>2 DEF IndexerInv
  <2>3. QED
    BY <2>1, <2>2
<1>6. QED
  BY Zenon, <1>1, <1>2, <1>4, <1>5 DEF IndexerInv, WalkIsExact, Contract!IsText

\* Every step of the indexer keeps the invariant.
LEMMA InvNext == IndexerInv /\ [IndexerNext]_indexer_vars => IndexerInv'
<1> SUFFICES ASSUME IndexerInv, [IndexerNext]_indexer_vars PROVE IndexerInv'
  OBVIOUS
<1>1. CASE UNCHANGED indexer_vars
  BY Zenon, <1>1 DEF indexer_vars, IndexerInv, WalkIsExact, Contract!IsText
<1>2. CASE IndexerNext
  BY <1>2, ResetKeepsInv, AskKeepsInv, ReturnAtOnceKeepsInv,
     StartWalkKeepsInv, StepOutKeepsInv, StepBackKeepsInv, EndWalkKeepsInv
     DEF IndexerNext
<1>3. QED
  BY <1>1, <1>2

\* Whatever was asked before, the cached places of forward() and backward()
\* are starts of code points of the current text.
THEOREM CacheExact == IndexerSpec => []CacheIsExact
<1>1. IndexerInv => CacheIsExact
  BY DEF IndexerInv, CacheIsExact, Place
<1>2. QED
  BY InvInit, InvNext, <1>1, PTL DEF IndexerSpec

\* Every running walk is exact.
THEOREM WalksExact == IndexerSpec => []WalkIsExact
<1>1. IndexerInv => WalkIsExact
  BY DEF IndexerInv
<1>2. QED
  BY InvInit, InvNext, <1>1, PTL DEF IndexerSpec

\* Utf8Indexer implements the indexer without a cache, for every set of texts
\* and positions.
THEOREM AnswersAreExact == IndexerSpec => IndexerImplementsContract
<1>1. IndexerInit => Contract!Init
  BY DEF IndexerInit, Contract!Init, Idle
<1>2. IndexerInv /\ [IndexerNext]_indexer_vars => [Contract!Next]_(Contract!vars)
  <2> SUFFICES ASSUME IndexerInv, [IndexerNext]_indexer_vars
               PROVE  [Contract!Next]_(Contract!vars)
    OBVIOUS
  <2>1. CASE UNCHANGED indexer_vars
    BY <2>1 DEF indexer_vars, Contract!vars
  <2>2. ASSUME NEW t \in Texts, Reset(t) PROVE Contract!Next
    BY <2>2 DEF Reset, Contract!Next, Contract!Reset, Idle
  <2>3. ASSUME NEW c \in Contract!Call, Ask(c) PROVE Contract!Next
    BY <2>3 DEF Ask, Contract!Next, Contract!Ask, Idle
  <2>4. CASE ReturnAtOnce
    <3>1. Contract!Reply
      BY <2>4, EarlyReturnsExact DEF ReturnAtOnce, Return, Contract!Reply, Idle
    <3>2. QED
      BY <3>1 DEF Contract!Next
  <2>5. CASE EndWalk
    <3>1. query # Idle
      BY <2>5 DEF EndWalk, IndexerInv, WalkIsExact
    <3>2. Contract!Reply
      BY <2>5, <3>1, WalksEndExactly DEF EndWalk, Return, Contract!Reply, Idle
    <3>3. QED
      BY <3>2 DEF Contract!Next
  <2>6. CASE StartWalk \/ StepOut \/ StepBack
    BY <2>6 DEF StartWalk, StepOut, StepBack, Contract!vars
  <2>7. QED
    BY <2>1, <2>2, <2>3, <2>4, <2>5, <2>6 DEF IndexerNext
<1>3. QED
  BY <1>1, <1>2, InvInit, InvNext, PTL DEF IndexerSpec, IndexerImplementsContract, Contract!Spec

=============================================================================
