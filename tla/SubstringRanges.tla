-------------------------- MODULE SubstringRanges --------------------------
(***************************************************************************)
(* The index arithmetic of src/shared/substring.cpp: windows given by from *)
(* and to, or from and length, counted from either end, and the order in   *)
(* which recycled arguments are visited.  Positions are code points; the   *)
(* Utf8Indexer module relates them to bytes.  Every int is in              *)
(* -IntMax-1..IntMax, the least of them is NA_INTEGER.                     *)
(***************************************************************************)
EXTENDS Integers, Sequences

CONSTANT IntMax

ASSUME IntMaxAssumption == IntMax \in Nat \ {0}

NA_INTEGER == -IntMax - 1
Int32 == (-IntMax - 1)..IntMax

\* The answers of Utf8Indexer for a text of n code points.
forward(n, k) == IF k < n THEN k ELSE n
backward(n, k) == n - forward(n, k)

nonnegative_index(v) == IF v <= 0 THEN 0 ELSE IF v >= IntMax THEN IntMax ELSE v

begin(n, from) ==
    IF from >= 0 THEN forward(n, nonnegative_index(from - 1))
    ELSE backward(n, nonnegative_index(-from))

end(n, to) ==
    IF to >= 0 THEN forward(n, to) ELSE backward(n, nonnegative_index(-to - 1))

length_endpoint_wrapping(from, length) ==
    LET endpoint == from + length - 1
    IN  IF endpoint >= IntMax THEN IntMax
        ELSE IF endpoint <= -IntMax THEN -IntMax ELSE endpoint
length_endpoint(from, length) ==
    LET endpoint == from + length - 1
    IN  IF from < 0 /\ endpoint >= 0 THEN -1
        ELSE IF endpoint >= IntMax THEN IntMax
        ELSE IF endpoint <= -IntMax THEN -IntMax ELSE endpoint

replacement_all_from(from, n) ==
    LET signed == IF from < 0 THEN n + from + 1 ELSE from
        position == (IF signed <= 0 THEN 1 ELSE signed) - 1
    IN  IF position >= n THEN n ELSE position

replacement_all_to(to, is_length, from, n) ==
    LET signed == IF to < 0 THEN n + to + 1 ELSE to
        position == IF is_length THEN from + (IF to > 0 THEN to ELSE 0)
                    ELSE IF signed < from THEN from ELSE signed
    IN  IF position >= n THEN n ELSE position

recycled_order_next(index, source_length, output_length) ==
    IF source_length <= 0 \/ index = output_length - 1 - (output_length % source_length)
      THEN output_length
      ELSE IF source_length >= output_length - index
             THEN (index % source_length) + 1
             ELSE index + source_length

\* The length of the result, 0 if an argument is empty, and whether R warns.
recycling_length(lengths) ==
    IF \E k \in DOMAIN lengths : lengths[k] <= 0 THEN 0
    ELSE CHOOSE m \in {lengths[k] : k \in DOMAIN lengths} :
            \A k \in DOMAIN lengths : lengths[k] <= m
recycling_warning(lengths) ==
    \E k \in DOMAIN lengths : lengths[k] > 0 /\ recycling_length(lengths) % lengths[k] # 0

-----------------------------------------------------------------------------
(* The reference: positions 1..n, negative ones counted from the end, and  *)
(* no limit on integers.                                                   *)

Signed(n, p) == IF p < 0 THEN n + p + 1 ELSE p

InWindow(n, from, to, p) == p \in 1..n /\ Signed(n, from) <= p /\ p <= Signed(n, to)

\* length code points from from on, those before the text counted as well.
InLengthWindow(n, from, length, p) ==
    p \in 1..n /\ Signed(n, from) <= p /\ p <= Signed(n, from) + length - 1

=============================================================================
