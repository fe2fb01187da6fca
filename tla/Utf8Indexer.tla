----------------------------- MODULE Utf8Indexer -----------------------------
(***************************************************************************)
(* Utf8Indexer of src/shared/substring.cpp, statement by statement: the    *)
(* walks of forward() and backward() start from the position an earlier    *)
(* call cached, from either side of it, or from the end of the text.       *)
(* ICU's U8_FWD_1 and U8_BACK_1 move between the starts of code points.    *)
(***************************************************************************)
EXTENDS Integers

CONSTANTS Texts, Positions

VARIABLES
    text, query, answer,    \* as in IndexerContract, query its call
    last_forward,           \* last_forward_codepoint_ and last_forward_byte_
    last_backward,          \* last_backward_codepoint_ and last_backward_byte_
    walking,                \* is a loop running, and in which direction
    at                      \* codepoint and byte, the loop's locals

indexer_vars == <<text, query, answer, last_forward, last_backward, walking, at>>

Contract == INSTANCE IndexerContract WITH call <- query
Idle == Contract!Idle

ASSUME TextsAssumption ==
    Positions \subseteq Int /\ \A t \in Texts : Contract!IsText(t)

Place(c, b) == [codepoint |-> c, byte |-> b]
length == text.offset[text.count]
Starts == {text.offset[i] : i \in 0..text.count}

U8_FWD_1(b) ==
    CHOOSE x \in Starts : x > b /\ \A y \in Starts : y > b => x <= y
U8_BACK_1(b) ==
    CHOOSE x \in Starts : x < b /\ \A y \in Starts : y < b => y <= x

IndexerInit ==
    /\ text \in Texts /\ query = Idle /\ answer = 0
    /\ last_forward = Place(0, 0) /\ last_backward = Place(0, length)
    /\ walking = "no" /\ at = Place(0, 0)

Reset(t) ==
    /\ query = Idle
    /\ text' = t /\ answer' = 0
    /\ last_forward' = Place(0, 0)
    /\ last_backward' = Place(0, t.offset[t.count])
    /\ UNCHANGED <<query, walking, at>>

Ask(c) ==
    /\ query = Idle
    /\ query' = c
    /\ UNCHANGED <<text, answer, last_forward, last_backward, walking, at>>

Return(byte) ==
    /\ answer' = byte /\ query' = Idle /\ walking' = "no"
    /\ UNCHANGED text

\* Positions that need no walk: before the text, or in ASCII text.
ReturnAtOnce ==
    LET p == query.position
    IN /\ query # Idle /\ walking = "no"
       /\ \/ /\ query.kind = "count" /\ text.ascii
             /\ Return(length)
          \/ /\ query.kind = "forward" /\ (p <= 0 \/ text.ascii)
             /\ Return(IF p <= 0 THEN 0 ELSE IF p < length THEN p ELSE length)
          \/ /\ query.kind = "backward" /\ (p <= 0 \/ text.ascii)
             /\ Return(IF p <= 0 THEN length
                       ELSE IF length > p THEN length - p ELSE 0)
       /\ UNCHANGED <<last_forward, last_backward, at>>

\* Where a walk to position p starts, and whether it has to come back.
nearer(last, p) == last.codepoint > 0 /\ p < last.codepoint
                     /\ last.codepoint - p < p
start_always(last, p, origin) == IF last.codepoint > 0 THEN last ELSE origin

start(last, p, origin) ==
    IF last.codepoint > 0 /\ (nearer(last, p) \/ p >= last.codepoint)
    THEN last ELSE origin

StartWalk ==
    LET p == query.position
    IN /\ query # Idle /\ walking = "no" /\ ~text.ascii
       /\ \/ /\ query.kind = "count"
             /\ walking' = "out" /\ at' = Place(0, 0)
          \/ /\ query.kind = "forward" /\ p > 0
             /\ at' = start(last_forward, p, Place(0, 0))
             /\ walking' = IF nearer(last_forward, p) THEN "back" ELSE "out"
          \/ /\ query.kind = "backward" /\ p > 0
             /\ at' = start(last_backward, p, Place(0, length))
             /\ walking' = IF nearer(last_backward, p) THEN "back" ELSE "out"
       /\ UNCHANGED <<text, query, answer, last_forward, last_backward>>

more_out ==
    IF query.kind = "count" THEN at.byte < length
    ELSE at.codepoint < query.position
           /\ (IF query.kind = "forward" THEN at.byte < length ELSE at.byte > 0)
more_back_one_further ==
    at.codepoint >= query.position
      /\ (IF query.kind = "forward" THEN at.byte > 0 ELSE at.byte < length)

more_back ==
    at.codepoint > query.position
      /\ (IF query.kind = "forward" THEN at.byte > 0 ELSE at.byte < length)

StepOut ==
    /\ walking = "out" /\ more_out
    /\ at' = Place(at.codepoint + 1,
                   IF query.kind = "backward" THEN U8_BACK_1(at.byte)
                   ELSE U8_FWD_1(at.byte))
    /\ UNCHANGED <<text, query, answer, last_forward, last_backward, walking>>

StepBack ==
    /\ walking = "back" /\ more_back
    /\ at' = Place(at.codepoint - 1,
                   IF query.kind = "forward" THEN U8_BACK_1(at.byte)
                   ELSE U8_FWD_1(at.byte))
    /\ UNCHANGED <<text, query, answer, last_forward, last_backward, walking>>

\* A walk outwards caches the code point it reached, which the end of the
\* text may have cut short; a walk back caches the position asked for.
cached == IF walking = "back" THEN Place(query.position, at.byte) ELSE at

EndWalk ==
    /\ \/ walking = "out" /\ ~more_out
       \/ walking = "back" /\ ~more_back
    /\ Return(IF query.kind = "count" THEN at.codepoint ELSE at.byte)
    /\ last_forward' = IF query.kind = "forward" THEN cached ELSE last_forward
    /\ last_backward' = IF query.kind = "backward" THEN cached ELSE last_backward
    /\ at' = Place(0, 0)

IndexerNext ==
    \/ \E t \in Texts : Reset(t)
    \/ \E c \in Contract!Call : Ask(c)
    \/ ReturnAtOnce \/ StartWalk \/ StepOut \/ StepBack \/ EndWalk

IndexerSpec == IndexerInit /\ [][IndexerNext]_indexer_vars

-----------------------------------------------------------------------------

\* The cached pairs belong to the current text: a code point and the byte it
\* starts at, counted from the end they are measured from.
CacheIsExact ==
    /\ last_forward.byte = text.offset[last_forward.codepoint]
    /\ last_backward.byte = text.offset[text.count - last_backward.codepoint]

\* A walk stands at the start of the code point it has counted to and has not
\* passed the position asked for; with the cache, the inductive invariant.
WalkIsExact ==
    walking # "no" =>
        /\ query # Idle /\ ~text.ascii
        /\ at.byte = text.offset[IF query.kind = "backward"
                                 THEN text.count - at.codepoint
                                 ELSE at.codepoint]
        /\ walking = "back" => query.kind # "count"
        /\ query.kind # "count" =>
             /\ query.position > 0
             /\ walking = "out" => at.codepoint <= query.position
             /\ walking = "back" => at.codepoint >= query.position

\* Every sequence of calls gets the answers of an indexer without a cache.
IndexerImplementsContract == Contract!Spec

=============================================================================
