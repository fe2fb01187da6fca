--------------------------- MODULE IndexerContract ---------------------------
(***************************************************************************)
(* What Utf8Indexer of src/shared/substring.cpp promises, without a cache: *)
(* the byte at which a code point starts, counted from either end of the   *)
(* text and clamped to it, whatever was asked before.                      *)
(***************************************************************************)
EXTENDS Integers

CONSTANTS Texts, Positions

VARIABLES
    text,       \* the text last given to reset()
    call,       \* the call in progress
    answer      \* what the last call returned

vars == <<text, call, answer>>

\* Where each code point starts, and where the text ends.
IsText(t) ==
    /\ t.count \in Nat /\ t.ascii \in BOOLEAN
    /\ t.offset \in [0..t.count -> Nat] /\ t.offset[0] = 0
    /\ \A i, j \in 0..t.count : i < j => t.offset[i] < t.offset[j]
    /\ t.ascii => \A i \in 0..t.count : t.offset[i] = i

Idle == [kind |-> "idle", position |-> 0]
Call == [kind : {"forward", "backward", "count"}, position : Positions]

clamped(t, p) == IF p <= 0 THEN 0 ELSE IF p > t.count THEN t.count ELSE p

Answer(t, c) ==
    IF c.kind = "forward" THEN t.offset[clamped(t, c.position)]
    ELSE IF c.kind = "backward" THEN t.offset[t.count - clamped(t, c.position)]
    ELSE t.count

Init == text \in Texts /\ call = Idle /\ answer = 0

Reset(t) ==
    /\ call = Idle
    /\ text' = t /\ answer' = 0
    /\ UNCHANGED call

Ask(c) ==
    /\ call = Idle
    /\ call' = c
    /\ UNCHANGED <<text, answer>>

Reply ==
    /\ call # Idle
    /\ answer' = Answer(text, call)
    /\ call' = Idle
    /\ UNCHANGED text

Next ==
    \/ \E t \in Texts : Reset(t)
    \/ \E c \in Call : Ask(c)
    \/ Reply

Spec == Init /\ [][Next]_vars

=============================================================================
