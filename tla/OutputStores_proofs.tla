------------------------ MODULE OutputStores_proofs ------------------------
(***************************************************************************)
(* OutputStores for any number of chunks and records of any lengths:       *)
(* StoreInv is inductive.  Its first part says who owns every slice, its   *)
(* second where the texts of every chunk are in each phase of a call.      *)
(***************************************************************************)
EXTENDS OutputStores, WellFoundedInduction, NaturalsInduction, TLAPS

\* A leaf that names no prover is tried with these, in this order.
USE SMTT(20), ZenonT(20), SMTT(60), Z3T(60)

\* The owners are different from one another.
LEMMA HandlesDiffer ==
    /\ Builder \in Frame /\ Staged \in Frame /\ Flat \in Frame
    /\ \A k \in 1..Chunks : Chunk(k) \in Frame /\ Object(k) \in Objects
    /\ Builder # Staged /\ Builder # Flat /\ Staged # Flat
    /\ \A k : Chunk(k) \notin {Builder, Staged, Flat} /\ Object(k) \notin {Builder, Staged, Flat}
    /\ \A j, k : Chunk(j) # Object(k)
    /\ \A j, k : (Chunk(j) = Chunk(k) => j = k) /\ (Object(j) = Object(k) => j = k)
    /\ Freed \notin Handles /\ Frame \cap Objects = {}
  BY DEF Builder, Staged, Flat, Chunk, Object, Freed, Frame, Objects, Handles

\* What OwnInv says of one record and of one slice.
LEMMA OwnFacts ==
    ASSUME OwnInv
    PROVE  /\ Len(owner) \in Nat /\ owner \in [1..Len(owner) -> Handles \cup {Freed}]
           /\ records \in [Handles -> Seq(Recs)]
           /\ \A h \in Handles : records[h] \in Seq(Recs) /\ Len(records[h]) \in Nat
           /\ \A h \in Handles : \A k \in 1..Len(records[h]) :
                 /\ records[h][k] \in Recs /\ records[h][k].slice \in Nat
                 /\ records[h][k].slice # 0 =>
                       records[h][k].slice \in 1..Len(owner) /\ owner[records[h][k].slice] = h
           /\ \A s \in 1..Len(owner) : owner[s] # Freed =>
                 /\ owner[s] \in Handles
                 /\ \E k \in 1..Len(records[owner[s]]) : records[owner[s]][k].slice = s
  <1>1. Len(owner) \in Nat /\ owner \in [1..Len(owner) -> Handles \cup {Freed}]
    BY DEF OwnInv
  <1>2. records \in [Handles -> Seq(Recs)]
    BY DEF OwnInv
  <1>3. \A h \in Handles : records[h] \in Seq(Recs) /\ Len(records[h]) \in Nat
    BY <1>2
  <1>4. \A h \in Handles : \A k \in 1..Len(records[h]) : records[h][k] \in Recs
    BY <1>3
  <1>5. \A r \in Recs : r.slice \in Nat
    BY DEF Recs
  <1>6. \A h \in Handles : \A k \in 1..Len(records[h]) : records[h][k].slice # 0 =>
           records[h][k].slice \in 1..Len(owner) /\ owner[records[h][k].slice] = h
    BY DEF OwnInv
  <1>7. \A s \in 1..Len(owner) : owner[s] # Freed =>
           \E k \in 1..Len(records[owner[s]]) : records[owner[s]][k].slice = s
    BY DEF OwnInv
  <1> QED
    BY <1>1, <1>2, <1>3, <1>4, <1>5, <1>6, <1>7

\* Slices that change hands.
LEMMA GivenSlices ==
    ASSUME OwnInv, NEW F \in SUBSET Handles, NEW h \in Handles \cup {Freed}, owner' = handed(F, h)
    PROVE  /\ Len(owner') = Len(owner) /\ owner' \in Seq(Handles \cup {Freed})
           /\ \A s \in 1..Len(owner) : owner'[s] = IF owner[s] \in F THEN h ELSE owner[s]
  <1>1. Len(owner) \in Nat /\ owner \in [1..Len(owner) -> Handles \cup {Freed}]
    BY OwnFacts
  <1>2. owner' = [s \in 1..Len(owner) |-> IF owner[s] \in F THEN h ELSE owner[s]]
    BY DEF handed
  <1>3. owner' \in [1..Len(owner) -> Handles \cup {Freed}]
    BY <1>1, <1>2
  <1>4. owner' \in Seq(Handles \cup {Freed}) /\ Len(owner') = Len(owner)
    BY <1>1, <1>3
  <1> QED
    BY <1>2, <1>4

\* release_store(), prepend() and the hand-over to R: the records and the slices
\* of one owner become another's, behind what that one has.
LEMMA MoveKeeps ==
    ASSUME OwnInv, NEW a \in Handles, NEW b \in Handles, a # b, owner' = handed({a}, b),
           records' = [records EXCEPT ![a] = <<>>, ![b] = records[b] \o records[a]]
    PROVE  OwnInv'
  <1> DEFINE n == Len(records[b])
             m == Len(records[a])
  <1>1. /\ Len(owner) \in Nat /\ records \in [Handles -> Seq(Recs)]
        /\ n \in Nat /\ m \in Nat /\ records[a] \in Seq(Recs) /\ records[b] \in Seq(Recs)
    BY OwnFacts
  <1>2. /\ Len(owner') = Len(owner) /\ owner' \in Seq(Handles \cup {Freed})
        /\ \A s \in 1..Len(owner) : owner'[s] = IF owner[s] = a THEN b ELSE owner[s]
    <2>1. {a} \in SUBSET Handles /\ b \in Handles \cup {Freed}
      OBVIOUS
    <2>2. /\ Len(owner') = Len(owner) /\ owner' \in Seq(Handles \cup {Freed})
          /\ \A s \in 1..Len(owner) : owner'[s] = IF owner[s] \in {a} THEN b ELSE owner[s]
      BY <2>1, GivenSlices, Zenon
    <2> QED BY Zenon, <2>2
  <1>3. /\ records'[a] = <<>> /\ records'[b] = records[b] \o records[a]
        /\ \A h \in Handles : h # a /\ h # b => records'[h] = records[h]
    BY <1>1
  <1>4. /\ records[b] \o records[a] \in Seq(Recs) /\ Len(records[b] \o records[a]) = n + m
        /\ \A k \in 1..n : (records[b] \o records[a])[k] = records[b][k]
        /\ \A k \in 1..m : (records[b] \o records[a])[n + k] = records[a][k]
    BY <1>1
  <1>5. records' \in [Handles -> Seq(Recs)]
    <2>1. <<>> \in Seq(Recs)
      OBVIOUS
    <2> QED BY Zenon, <1>1, <1>4, <2>1
  <1>6. ASSUME NEW h \in Handles, NEW k \in 1..Len(records'[h]), records'[h][k].slice # 0
        PROVE  records'[h][k].slice \in 1..Len(owner) /\ owner'[records'[h][k].slice] = h
    <2>1. CASE h = a
      BY <1>3, <1>6, <2>1
    <2>2. CASE h = b /\ k \in 1..n
      <3>1. records'[h][k] = records[b][k]
        BY ZenonT(60), <1>3, <1>4, <2>2
      <3>2. records[b][k].slice \in 1..Len(owner) /\ owner[records[b][k].slice] = b
        BY <1>6, <2>2, <3>1, OwnFacts
      <3> QED BY Zenon, <1>2, <2>2, <3>1, <3>2
    <2>3. CASE h = b /\ k \notin 1..n
      <3>1. k - n \in 1..m /\ n + (k - n) = k
        BY <1>1, <1>3, <1>4, <1>6, <2>3
      <3>2. records'[h][k] = records[a][k - n]
        <4>1. (records[b] \o records[a])[n + (k - n)] = records[a][k - n]
          BY Zenon, <1>4, <3>1
        <4>2. records'[h][k] = (records[b] \o records[a])[k]
          BY Zenon, <1>3, <2>3
        <4> QED BY Zenon, <3>1, <4>1, <4>2
      <3>3. records[a][k - n].slice \in 1..Len(owner) /\ owner[records[a][k - n].slice] = a
        BY <1>6, <3>1, <3>2, OwnFacts
      <3> QED BY Zenon, <1>2, <2>3, <3>2, <3>3
    <2>4. CASE h # a /\ h # b
      <3>1. records'[h] = records[h]
        BY Zenon, <1>3, <2>4
      <3>2. records[h][k].slice \in 1..Len(owner) /\ owner[records[h][k].slice] = h
        BY <1>6, <3>1, OwnFacts
      <3> QED BY Zenon, <1>2, <2>4, <3>1, <3>2
    <2> QED BY Zenon, <2>1, <2>2, <2>3, <2>4
  <1>7. ASSUME NEW s \in 1..Len(owner), owner'[s] # Freed
        PROVE  \E k \in 1..Len(records'[owner'[s]]) : records'[owner'[s]][k].slice = s
    <2>1. owner[s] # Freed
      BY Zenon, <1>2, <1>7, HandlesDiffer
    <2>2. owner[s] \in Handles
      BY <2>1, OwnFacts
    <2>3. PICK k \in 1..Len(records[owner[s]]) : records[owner[s]][k].slice = s
      BY <2>1, OwnFacts
    <2>4. CASE owner[s] = a
      <3>1. owner'[s] = b /\ k \in 1..m /\ records[a][k].slice = s
        BY Zenon, <1>2, <2>3, <2>4
      <3>2. n + k \in 1..Len(records'[b]) /\ records'[b][n + k] = records[a][k]
        BY <1>1, <1>3, <1>4, <3>1
      <3> QED BY Zenon, <3>1, <3>2
    <2>5. CASE owner[s] = b
      <3>1. owner'[s] = b /\ k \in 1..n /\ records[b][k].slice = s
        BY Zenon, <1>2, <2>3, <2>5
      <3>2. k \in 1..Len(records'[b]) /\ records'[b][k] = records[b][k]
        BY <1>1, <1>3, <1>4, <3>1
      <3> QED BY Zenon, <3>1, <3>2
    <2>6. CASE owner[s] # a /\ owner[s] # b
      BY ZenonT(60), <1>2, <1>3, <2>2, <2>3, <2>6
    <2> QED BY Zenon, <2>4, <2>5, <2>6
  <1> QED
    BY ZenonT(60), <1>2, <1>5, <1>6, <1>7 DEF OwnInv

\* A text that is copied: the store is discarded, the object needs no slice.
LEMMA CopyKeeps ==
    ASSUME OwnInv, NEW a \in Handles, NEW b \in Handles, a # b, records[b] = <<>>,
           NEW copy \in Seq(Recs), \A k \in 1..Len(copy) : copy[k].slice = 0,
           owner' = handed({a}, Freed),
           records' = [records EXCEPT ![a] = <<>>, ![b] = copy]
    PROVE  OwnInv'
  <1>1. Len(owner) \in Nat /\ records \in [Handles -> Seq(Recs)]
    BY OwnFacts
  <1>2. /\ Len(owner') = Len(owner) /\ owner' \in Seq(Handles \cup {Freed})
        /\ \A s \in 1..Len(owner) : owner'[s] = IF owner[s] = a THEN Freed ELSE owner[s]
    <2>1. {a} \in SUBSET Handles /\ Freed \in Handles \cup {Freed}
      OBVIOUS
    <2>2. /\ Len(owner') = Len(owner) /\ owner' \in Seq(Handles \cup {Freed})
          /\ \A s \in 1..Len(owner) : owner'[s] = IF owner[s] \in {a} THEN Freed ELSE owner[s]
      BY <2>1, GivenSlices, Zenon
    <2> QED BY Zenon, <2>2
  <1>3. /\ records'[a] = <<>> /\ records'[b] = copy
        /\ \A h \in Handles : h # a /\ h # b => records'[h] = records[h]
    BY <1>1
  <1>4. records' \in [Handles -> Seq(Recs)]
    <2>1. <<>> \in Seq(Recs)
      OBVIOUS
    <2> QED BY Zenon, <1>1, <2>1
  <1>5. ASSUME NEW h \in Handles, NEW k \in 1..Len(records'[h]), records'[h][k].slice # 0
        PROVE  records'[h][k].slice \in 1..Len(owner) /\ owner'[records'[h][k].slice] = h
    <2>1. h # a /\ h # b
      BY <1>3, <1>5
    <2>2. records'[h] = records[h]
      BY Zenon, <1>3, <2>1
    <2>3. records[h][k].slice \in 1..Len(owner) /\ owner[records[h][k].slice] = h
      BY <1>5, <2>2, OwnFacts
    <2> QED BY Zenon, <1>2, <2>1, <2>2, <2>3
  <1>6. ASSUME NEW s \in 1..Len(owner), owner'[s] # Freed
        PROVE  \E k \in 1..Len(records'[owner'[s]]) : records'[owner'[s]][k].slice = s
    <2>1. owner'[s] = owner[s] /\ owner[s] # a /\ owner[s] # Freed
      BY Zenon, <1>2, <1>6
    <2>2. owner[s] \in Handles
      BY <2>1, OwnFacts
    <2>3. PICK k \in 1..Len(records[owner[s]]) : records[owner[s]][k].slice = s
      BY <2>1, OwnFacts
    <2>4. owner[s] # b
      BY <2>3
    <2>5. records'[owner[s]] = records[owner[s]]
      BY Zenon, <1>3, <2>1, <2>2, <2>4
    <2> QED BY <2>1, <2>3, <2>5
  <1> QED
    BY ZenonT(60), <1>2, <1>4, <1>5, <1>6 DEF OwnInv

\* The destructors of the frame's owners.
LEMMA DestroyKeeps ==
    ASSUME OwnInv, Destroyed(Frame)
    PROVE  OwnInv' /\ \A h \in Frame : records'[h] = <<>>
  <1>1. Len(owner) \in Nat /\ records \in [Handles -> Seq(Recs)] /\ Frame \subseteq Handles
    BY OwnFacts DEF Handles
  <1>2. /\ Len(owner') = Len(owner) /\ owner' \in Seq(Handles \cup {Freed})
        /\ \A s \in 1..Len(owner) : owner'[s] = IF owner[s] \in Frame THEN Freed ELSE owner[s]
    BY <1>1, GivenSlices DEF Destroyed
  <1>3. records' = [h \in Handles |-> IF h \in Frame THEN <<>> ELSE records[h]]
    BY <1>1 DEF Destroyed
  <1>4. \A h \in Handles : records'[h] = IF h \in Frame THEN <<>> ELSE records[h]
    BY <1>3
  <1>5. records' \in [Handles -> Seq(Recs)]
    <2>1. <<>> \in Seq(Recs)
      OBVIOUS
    <2> QED BY <1>1, <1>3, <2>1
  <1>6. ASSUME NEW h \in Handles, NEW k \in 1..Len(records'[h]), records'[h][k].slice # 0
        PROVE  records'[h][k].slice \in 1..Len(owner) /\ owner'[records'[h][k].slice] = h
    <2>1. h \notin Frame /\ records'[h] = records[h]
      BY <1>4, <1>6
    <2>2. records[h][k].slice \in 1..Len(owner) /\ owner[records[h][k].slice] = h
      BY <1>6, <2>1, OwnFacts
    <2> QED BY <1>2, <2>1, <2>2
  <1>7. ASSUME NEW s \in 1..Len(owner), owner'[s] # Freed
        PROVE  \E k \in 1..Len(records'[owner'[s]]) : records'[owner'[s]][k].slice = s
    <2>1. owner'[s] = owner[s] /\ owner[s] \notin Frame /\ owner[s] # Freed
      BY <1>2, <1>7
    <2>2. owner[s] \in Handles
      BY <2>1, OwnFacts
    <2>3. PICK k \in 1..Len(records[owner[s]]) : records[owner[s]][k].slice = s
      BY <2>1, OwnFacts
    <2>4. records'[owner[s]] = records[owner[s]]
      BY <1>4, <2>1, <2>2
    <2> QED BY <2>1, <2>3, <2>4
  <1> QED
    BY Zenon, <1>1, <1>2, <1>4, <1>5, <1>6, <1>7 DEF OwnInv

\* A set of naturals that is not empty has a least element.
LEMMA LeastNatural ==
    ASSUME NEW T, T \subseteq Nat, T # {}
    PROVE  \E x \in T : \A y \in T : x <= y
  <1> DEFINE R == {ss \in Nat \X Nat : ss[1] < ss[2]}
  <1>1. IsWellFoundedOn(R, Nat)
    BY Zenon, NatLessThanWellFounded DEF OpToRel
  <1>2. ASSUME NEW x \in Nat, NEW y \in Nat, y < x PROVE <<y, x>> \in R
    BY <1>2
  <1> HIDE DEF R
  <1>3. PICK x \in T : \A y \in T : ~(<<y, x>> \in R)
    BY <1>1, WFMin, Zenon
  <1>4. ASSUME NEW y \in T PROVE x <= y
    <2>1. x \in Nat /\ y \in Nat /\ ~(y < x)
      BY Zenon, <1>2, <1>3
    <2> QED BY <2>1
  <1> QED
    BY <1>4

\* The newest of a builder's slices is one of them.
LEMMA NewestSlice ==
    ASSUME NEW n \in Nat, NEW S \in SUBSET (1..n), S # {}
    PROVE  Max(S) \in S
  <1> DEFINE T == {n - x : x \in S}
  <1>0. ASSUME NEW x \in S PROVE x \in Int /\ n - x \in Nat
    <2>1. x \in 1..n
      OBVIOUS
    <2> QED BY <2>1
  <1>1. T \subseteq Nat /\ T # {}
    BY Zenon, <1>0
  <1>2. PICK t \in T : \A u \in T : t <= u
    BY Zenon, <1>1, LeastNatural
  <1>3. PICK x \in S : t = n - x
    OBVIOUS
  <1>4. ASSUME NEW y \in S PROVE x >= y
    <2>1. n - y \in T
      OBVIOUS
    <2>2. n - x <= n - y
      BY <1>2, <1>3, <2>1
    <2>3. x \in Nat /\ y \in Nat
      OBVIOUS
    <2> QED BY <2>2, <2>3
  <1>5. \E z \in S : \A y \in S : z >= y
    BY <1>4
  <1> QED
    BY <1>5, Zenon DEF Max

\* append(): a text goes into a slice of the builder.
LEMMA AppendKeeps ==
    ASSUME StoreAssumption, OwnInv, NEW len \in Lengths, NEW new \in BOOLEAN, Append_(len, new)
    PROVE  /\ OwnInv'
           /\ \E slice \in Nat : records' = [records EXCEPT ![Builder] =
                                   Append(records[Builder], [slice |-> slice, len |-> len])]
  <1> DEFINE slice == IF len <= 0 THEN 0
                      ELSE IF new THEN Len(owner) + 1 ELSE Max(Slices(Builder))
             rec == [slice |-> slice, len |-> len]
             n == Len(owner)
             m == Len(records[Builder])
  <1>1. /\ new => len > 0
        /\ ~new /\ len > 0 => Slices(Builder) # {}
        /\ records' = [records EXCEPT ![Builder] = Append(records[Builder], rec)]
        /\ owner' = IF new THEN Append(owner, Builder) ELSE owner
    BY DEF Append_
  <1>2. /\ len \in Int /\ Builder \in Handles
        /\ n \in Nat /\ m \in Nat /\ owner \in Seq(Handles \cup {Freed})
        /\ owner \in [1..n -> Handles \cup {Freed}]
        /\ records \in [Handles -> Seq(Recs)] /\ records[Builder] \in Seq(Recs)
    BY Zenon, HandlesDiffer, OwnFacts DEF StoreAssumption, OwnInv, Handles
  <1>3. /\ slice \in Nat
        /\ slice # 0 => slice \in 1..Len(owner') /\ owner'[slice] = Builder
        /\ new => slice = n + 1
    <2>1. CASE len <= 0
      BY <1>1, <1>2, <2>1
    <2>2. CASE len > 0 /\ new
      <3>1. slice = n + 1 /\ owner' = Append(owner, Builder)
        BY <1>1, <1>2, <2>2
      <3>2. Len(owner') = n + 1 /\ owner'[n + 1] = Builder
        BY <1>2, <3>1
      <3> HIDE DEF slice
      <3> QED BY <1>2, <3>1, <3>2
    <2>3. CASE len > 0 /\ ~new
      <3>1. Slices(Builder) # {} /\ Slices(Builder) \in SUBSET (1..n)
        BY <1>1, <2>3 DEF Slices
      <3>2. Max(Slices(Builder)) \in Slices(Builder)
        BY Zenon, <1>2, <3>1, NewestSlice
      <3>3. slice = Max(Slices(Builder))
        BY <1>2, <2>3
      <3> HIDE DEF slice
      <3>4. slice \in 1..n /\ owner[slice] = Builder
        BY <3>2, <3>3 DEF Slices
      <3> QED BY <1>1, <1>2, <2>3, <3>4
    <2> QED BY <1>2, <2>1, <2>2, <2>3
  <1>4. rec \in Recs /\ rec.slice = slice
    <2> HIDE DEF slice
    <2> QED BY <1>3 DEF Recs
  <1> HIDE DEF slice, rec
  <1>5. /\ Len(owner') = n + (IF new THEN 1 ELSE 0) /\ owner' \in Seq(Handles \cup {Freed})
        /\ \A s \in 1..n : owner'[s] = owner[s]
    BY <1>1, <1>2
  <1>6. /\ Append(records[Builder], rec) \in Seq(Recs) /\ Len(Append(records[Builder], rec)) = m + 1
        /\ \A k \in 1..m : Append(records[Builder], rec)[k] = records[Builder][k]
        /\ Append(records[Builder], rec)[m + 1] = rec
    BY <1>2, <1>4
  <1>7. /\ records' \in [Handles -> Seq(Recs)]
        /\ records'[Builder] = Append(records[Builder], rec)
        /\ \A h \in Handles : h # Builder => records'[h] = records[h]
    BY <1>1, <1>2, <1>6
  <1>8. ASSUME NEW h \in Handles, NEW k \in 1..Len(records'[h]), records'[h][k].slice # 0
        PROVE  records'[h][k].slice \in 1..Len(owner') /\ owner'[records'[h][k].slice] = h
    <2>1. CASE h = Builder /\ k = m + 1
      BY <1>3, <1>4, <1>6, <1>7, <1>8, <2>1
    <2>2. CASE ~(h = Builder /\ k = m + 1)
      <3>1. k \in 1..Len(records[h]) /\ records'[h][k] = records[h][k]
        <4>1. CASE h = Builder
          <5>1. k \in 1..m
            BY <1>2, <1>6, <1>7, <2>2, <4>1
          <5> QED BY <1>6, <1>7, <4>1, <5>1
        <4>2. CASE h # Builder
          BY <1>7, <4>2
        <4> QED BY <4>1, <4>2
      <3>2. records[h][k].slice \in 1..n /\ owner[records[h][k].slice] = h
        BY <1>8, <3>1, OwnFacts
      <3> QED BY <1>2, <1>5, <3>1, <3>2
    <2> QED BY <2>1, <2>2
  <1>9. ASSUME NEW s \in 1..Len(owner'), owner'[s] # Freed
        PROVE  \E k \in 1..Len(records'[owner'[s]]) : records'[owner'[s]][k].slice = s
    <2>1. CASE s \in 1..n
      <3>1. owner'[s] = owner[s] /\ owner[s] # Freed
        BY <1>5, <1>9, <2>1
      <3>2. PICK k \in 1..Len(records[owner[s]]) : records[owner[s]][k].slice = s
        BY <2>1, <3>1, OwnFacts
      <3>3. owner[s] \in Handles
        BY <2>1, <3>1, OwnFacts
      <3>4. k \in 1..Len(records'[owner[s]]) /\ records'[owner[s]][k] = records[owner[s]][k]
        <4>1. CASE owner[s] = Builder
          <5>1. k \in 1..m /\ k \in 1..(m + 1)
            BY <1>2, <3>2, <4>1
          <5> QED BY <1>6, <1>7, <4>1, <5>1
        <4>2. CASE owner[s] # Builder
          BY <1>7, <3>2, <3>3, <4>2
        <4> QED BY <4>1, <4>2
      <3> QED BY <3>1, <3>2, <3>4
    <2>2. CASE s \notin 1..n
      <3>1. new /\ s = n + 1
        BY <1>2, <1>5, <2>2
      <3>2. slice = s /\ s # 0
        BY <1>2, <1>3, <3>1
      <3>3. owner'[s] = Builder
        BY <1>3, <3>2
      <3>4. m + 1 \in 1..Len(records'[Builder]) /\ records'[Builder][m + 1].slice = s
        BY <1>2, <1>4, <1>6, <1>7, <3>2
      <3> QED BY <3>3, <3>4
    <2> QED BY <2>1, <2>2
  <1>10. OwnInv'
    BY <1>5, <1>7, <1>8, <1>9 DEF OwnInv
  <1> QED
    BY Zenon, <1>1, <1>3, <1>10 DEF rec

\* The texts of the first chunks, chunk by chunk.
LEMMA JoinedSteps ==
    ASSUME StoreAssumption, NEW W \in [1..Chunks -> Seq(Lengths)]
    PROVE  /\ Joined(W) = Upto(W)[Chunks]
           /\ Upto(W)[0] = <<>>
           /\ \A k \in 1..Chunks : Upto(W)[k] = Upto(W)[k - 1] \o W[k]
  <1> DEFINE Good(f, m) == f[0] = <<>> /\ \A k \in 1..m : f[k] = f[k - 1] \o W[k]
             Bad == {m \in 0..Chunks : ~\E f \in [0..m -> Seq(Lengths)] : Good(f, m)}
  <1>1. Chunks \in Nat
    BY DEF StoreAssumption
  <1>2. Bad = {}
    <2> SUFFICES ASSUME Bad # {} PROVE FALSE
      BY Zenon
    <2> HIDE DEF Good
    <2>1. Bad \subseteq Nat
      OBVIOUS
    <2>2. PICK m \in Bad : \A j \in Bad : m <= j
      <3> HIDE DEF Bad
      <3> QED BY Zenon, <2>1, LeastNatural
    <2>3. m # 0
      <3>1. <<>> \in Seq(Lengths)
        OBVIOUS
      <3>2. [k \in 0..0 |-> <<>>] \in [0..0 -> Seq(Lengths)] /\ Good([k \in 0..0 |-> <<>>], 0)
        BY <3>1 DEF Good
      <3> QED BY Zenon, <2>2, <3>2
    <2>4. m - 1 \in 0..Chunks /\ m - 1 \notin Bad /\ m \in 1..Chunks
      <3>1. m \in 0..Chunks
        BY <2>2
      <3>2. m \in 1..Chunks /\ m - 1 \in 0..Chunks /\ ~(m <= m - 1)
        BY <1>1, <2>3, <3>1
      <3> HIDE DEF Bad
      <3> QED BY <2>2, <3>2
    <2>5. PICK f \in [0..(m - 1) -> Seq(Lengths)] : Good(f, m - 1)
      BY <2>4
    <2> DEFINE g == [k \in 0..m |-> IF k = m THEN f[m - 1] \o W[m] ELSE f[k]]
    <2>6. f[m - 1] \in Seq(Lengths) /\ W[m] \in Seq(Lengths)
      BY <1>1, <2>4
    <2>7. f[m - 1] \o W[m] \in Seq(Lengths)
      BY <2>6
    <2>8. g \in [0..m -> Seq(Lengths)]
      BY <1>1, <2>4, <2>5, <2>7
    <2>9. Good(g, m)
      <3>1. g[0] = f[0] /\ g[m] = f[m - 1] \o W[m] /\ g[m - 1] = f[m - 1]
        BY <1>1, <2>4
      <3>2. ASSUME NEW k \in 1..(m - 1) PROVE g[k] = g[k - 1] \o W[k]
        <4>1. g[k] = f[k] /\ g[k - 1] = f[k - 1]
          BY <1>1, <2>4
        <4> QED BY Zenon, <2>5, <4>1 DEF Good
      <3> HIDE DEF g
      <3>3. g[0] = <<>>
        BY <2>5, <3>1 DEF Good
      <3>4. ASSUME NEW k \in 1..m PROVE g[k] = g[k - 1] \o W[k]
        <4>1. k = m \/ k \in 1..(m - 1)
          BY <1>1, <2>4
        <4> QED BY Zenon, <3>1, <3>2, <4>1
      <3> QED BY Zenon, <3>3, <3>4 DEF Good
    <2> QED BY Zenon, <2>2, <2>8, <2>9
  <1>3. PICK f \in [0..Chunks -> Seq(Lengths)] : Good(f, Chunks)
    <2>1. Chunks \in 0..Chunks
      BY <1>1
    <2> HIDE DEF Good
    <2> QED BY <1>2, <2>1
  <1>4. f = [k \in 0..Chunks |-> IF k = 0 THEN <<>> ELSE f[k - 1] \o W[k]]
    <2>1. ASSUME NEW k \in 0..Chunks PROVE f[k] = IF k = 0 THEN <<>> ELSE f[k - 1] \o W[k]
      <3>1. k = 0 \/ k \in 1..Chunks
        BY <1>1
      <3> QED BY Zenon, <1>3, <3>1
    <2> QED BY Zenon, <2>1
  <1>5. Upto(W) = [k \in 0..Chunks |-> IF k = 0 THEN <<>> ELSE Upto(W)[k - 1] \o W[k]]
    BY <1>4, Zenon DEF Upto
  <1> HIDE DEF Good, Bad
  <1>6. \A k \in 0..Chunks : Upto(W)[k] = IF k = 0 THEN <<>> ELSE Upto(W)[k - 1] \o W[k]
    BY Zenon, <1>5
  <1>7. Joined(W) = Upto(W)[Chunks]
    BY DEF Joined
  <1>8. 0 \in 0..Chunks /\ \A k \in 1..Chunks : k \in 0..Chunks /\ k # 0
    BY <1>1
  <1> QED
    BY Zenon, <1>6, <1>7, <1>8

\* Chunks that are empty add nothing to the first.
LEMMA JoinedOfOne ==
    ASSUME StoreAssumption, NEW W \in [1..Chunks -> Seq(Lengths)],
           \A k \in 2..Chunks : W[k] = <<>>
    PROVE  Joined(W) = W[1]
  <1> DEFINE J == Upto(W)
             Bad == {k \in 1..Chunks : J[k] # W[1]}
  <1>0. Chunks \in Nat \ {0}
    BY DEF StoreAssumption
  <1>1. Joined(W) = J[Chunks] /\ J[0] = <<>> /\ \A k \in 1..Chunks : J[k] = J[k - 1] \o W[k]
    BY Zenon, JoinedSteps
  <1> HIDE DEF J
  <1>2. W[1] \in Seq(Lengths)
    BY <1>0
  <1>3. <<>> \o W[1] = W[1] /\ W[1] \o <<>> = W[1]
    BY <1>2
  <1>4. Bad = {}
    <2> SUFFICES ASSUME Bad # {} PROVE FALSE
      OBVIOUS
    <2>1. PICK m \in Bad : \A j \in Bad : m <= j
      <3>1. Bad \subseteq Nat
        OBVIOUS
      <3> HIDE DEF Bad
      <3> QED BY Zenon, <3>1, LeastNatural
    <2>2. m \in 1..Chunks /\ J[m] # W[1]
      OBVIOUS
    <2>3. J[m] = J[m - 1] \o W[m]
      BY <1>1, <2>2
    <2>4. m # 1
      <3> SUFFICES ASSUME m = 1 PROVE FALSE
        OBVIOUS
      <3>1. J[1] = J[0] \o W[1]
        BY <2>3
      <3> QED BY <1>1, <1>3, <2>2, <3>1
    <2>5. m \in 2..Chunks /\ m - 1 \in 1..Chunks /\ ~(m <= m - 1)
      BY <1>0, <2>2, <2>4
    <2>6. m - 1 \notin Bad
      <3> HIDE DEF Bad
      <3> QED BY <2>1, <2>5
    <2>7. J[m - 1] = W[1]
      BY <2>5, <2>6
    <2> QED BY Zenon, <1>3, <2>2, <2>3, <2>5, <2>7
  <1>5. Chunks \in 1..Chunks
    BY <1>0
  <1> QED
    BY <1>1, <1>4, <1>5

\* The texts of records that are appended, joined and copied.
LEMMA TextsOfRecords ==
    /\ texts(<<>>) = <<>>
    /\ \A rs \in Seq(Recs) : texts(rs) \in Seq(Lengths) /\ Len(texts(rs)) = Len(rs)
    /\ \A rs \in Seq(Recs), slice \in Nat, len \in Lengths :
         texts(Append(rs, [slice |-> slice, len |-> len])) = Append(texts(rs), len)
    /\ \A ra, rb \in Seq(Recs) : texts(ra \o rb) = texts(ra) \o texts(rb)
  <1>1. texts(<<>>) = <<>>
    BY DEF texts
  <1>2. ASSUME NEW rs \in Seq(Recs) PROVE texts(rs) \in Seq(Lengths) /\ Len(texts(rs)) = Len(rs)
    <2>1. Len(rs) \in Nat /\ \A k \in 1..Len(rs) : rs[k] \in Recs
      OBVIOUS
    <2>2. \A k \in 1..Len(rs) : rs[k].len \in Lengths
      BY <2>1 DEF Recs
    <2> QED BY <2>1, <2>2 DEF texts
  <1>3. ASSUME NEW rs \in Seq(Recs), NEW slice \in Nat, NEW len \in Lengths
        PROVE  texts(Append(rs, [slice |-> slice, len |-> len])) = Append(texts(rs), len)
    <2> DEFINE rec == [slice |-> slice, len |-> len]
               new == Append(rs, rec)
    <2>1. rec \in Recs /\ rec.len = len
      BY DEF Recs
    <2>2. Len(rs) \in Nat /\ texts(rs) \in Seq(Lengths) /\ Len(texts(rs)) = Len(rs)
      BY <1>2
    <2> HIDE DEF rec
    <2>3. /\ new \in Seq(Recs) /\ Len(new) = Len(rs) + 1 /\ new[Len(rs) + 1] = rec
          /\ \A k \in 1..Len(rs) : new[k] = rs[k]
      BY <2>1, <2>2
    <2> HIDE DEF new
    <2>4. texts(new) \in Seq(Lengths) /\ Len(texts(new)) = Len(rs) + 1
      BY <1>2, <2>3
    <2>5. /\ Append(texts(rs), len) \in Seq(Lengths) /\ Len(Append(texts(rs), len)) = Len(rs) + 1
          /\ Append(texts(rs), len)[Len(rs) + 1] = len
          /\ \A k \in 1..Len(rs) : Append(texts(rs), len)[k] = texts(rs)[k]
      BY <2>2
    <2>6. ASSUME NEW k \in 1..(Len(rs) + 1) PROVE texts(new)[k] = Append(texts(rs), len)[k]
      <3>1. texts(new)[k] = new[k].len
        BY <2>3 DEF texts
      <3>2. CASE k = Len(rs) + 1
        BY <2>1, <2>3, <2>5, <3>1, <3>2
      <3>3. CASE k \in 1..Len(rs)
        <4>1. texts(rs)[k] = rs[k].len
          BY <3>3 DEF texts
        <4> QED BY <2>3, <2>5, <3>1, <3>3, <4>1
      <3> QED BY <2>2, <3>2, <3>3
    <2>7. texts(new) = Append(texts(rs), len)
      BY <2>2, <2>4, <2>5, <2>6
    <2> QED BY <2>7 DEF new, rec
  <1>4. ASSUME NEW ra \in Seq(Recs), NEW rb \in Seq(Recs)
        PROVE  texts(ra \o rb) = texts(ra) \o texts(rb)
    <2> DEFINE new == ra \o rb
               n == Len(ra)
               m == Len(rb)
               ta == texts(ra)
               tb == texts(rb)
    <2>1. n \in Nat /\ m \in Nat /\ ta \in Seq(Lengths) /\ tb \in Seq(Lengths) /\ Len(ta) = n /\ Len(tb) = m
      BY <1>2
    <2>2. /\ new \in Seq(Recs) /\ Len(new) = n + m
          /\ \A k \in 1..n : new[k] = ra[k]
          /\ \A k \in (n + 1)..(n + m) : new[k] = rb[k - n]
      BY <2>1
    <2> HIDE DEF new
    <2>3. texts(new) \in Seq(Lengths) /\ Len(texts(new)) = n + m
      BY <1>2, <2>2
    <2>4. /\ \A k \in 1..n : ta[k] = ra[k].len
          /\ \A k \in 1..m : tb[k] = rb[k].len
          /\ \A k \in 1..(n + m) : texts(new)[k] = new[k].len
      BY <2>2 DEF texts
    <2> HIDE DEF ta, tb
    <2>5. /\ ta \o tb \in Seq(Lengths) /\ Len(ta \o tb) = n + m
          /\ \A k \in 1..n : (ta \o tb)[k] = ta[k]
          /\ \A k \in (n + 1)..(n + m) : (ta \o tb)[k] = tb[k - n]
      BY <2>1
    <2>6. ASSUME NEW k \in 1..(n + m) PROVE texts(new)[k] = (ta \o tb)[k]
      <3>1. CASE k \in 1..n
        BY ZenonT(60), <2>2, <2>4, <2>5, <3>1
      <3>2. CASE k \in (n + 1)..(n + m)
        <4>1. k - n \in 1..m
          BY <2>1, <3>2
        <4> QED BY ZenonT(60), <2>2, <2>4, <2>5, <3>2, <4>1
      <3>3. k \in 1..n \/ k \in (n + 1)..(n + m)
        <4> HIDE DEF n, m
        <4> QED BY <2>1
      <3> QED BY Zenon, <3>1, <3>2, <3>3
    <2>7. texts(new) = ta \o tb
      BY <2>1, <2>3, <2>5, <2>6
    <2> QED BY <2>7 DEF new, ta, tb
  <1> QED
    BY Zenon, <1>1, <1>2, <1>3, <1>4

\* The records of an owner that takes over what another had.
LEMMA TakenOver ==
    ASSUME records \in [Handles -> Seq(Recs)], NEW a \in Handles, NEW b \in Handles, a # b, NEW c,
           \/ records' = [records EXCEPT ![a] = <<>>, ![b] = c]
           \/ records' = [records EXCEPT ![b] = c, ![a] = <<>>]
    PROVE  /\ records' = [records EXCEPT ![a] = <<>>, ![b] = c]
           /\ records'[a] = <<>> /\ records'[b] = c
           /\ \A h \in Handles : h # a /\ h # b => records'[h] = records[h]
  OBVIOUS

\* release_store(), to an owner that has nothing yet.
LEMMA ReleaseKeeps ==
    ASSUME OwnInv, NEW h \in Handles, h # Builder, records[h] = <<>>, release(h)
    PROVE  /\ OwnInv' /\ records'[Builder] = <<>> /\ records'[h] = records[Builder]
           /\ \A g \in Handles : g # Builder /\ g # h => records'[g] = records[g]
  <1>1. Builder \in Handles /\ records \in [Handles -> Seq(Recs)] /\ records[Builder] \in Seq(Recs)
    BY HandlesDiffer, OwnFacts DEF Handles
  <1>2. records[h] \o records[Builder] = records[Builder]
    BY <1>1
  <1>3. /\ owner' = handed({Builder}, h)
        /\ records' = [records EXCEPT ![Builder] = <<>>, ![h] = records[Builder]]
    BY DEF release
  <1>4. OwnInv'
    BY Zenon, <1>1, <1>2, <1>3, MoveKeeps
  <1> QED
    BY <1>1, <1>3, <1>4, TakenOver

\* A call starts with nothing built.
LEMMA InitInv == ASSUME StoreAssumption, StoresInit PROVE StoreInv
  <1>1. Chunks \in Nat \ {0} /\ 1 \in 1..Chunks
    BY DEF StoreAssumption
  <1>2. records = [h \in Handles |-> <<>>] /\ owner = <<>>
    BY DEF StoresInit, Handles
  <1>3. \A h \in Handles : records[h] = <<>> /\ Len(records[h]) = 0
    BY <1>2
  <1>4. records \in [Handles -> Seq(Recs)]
    <2>1. <<>> \in Seq(Recs)
      OBVIOUS
    <2> QED BY <1>2, <2>1
  <1>5. OwnInv
    BY <1>2, <1>3, <1>4 DEF OwnInv
  <1>6. wanted \in [1..Chunks -> Seq(Lengths)] /\ \A k \in 1..Chunks : wanted[k] = <<>>
    <2>1. <<>> \in Seq(Lengths)
      OBVIOUS
    <2> QED BY <2>1 DEF StoresInit
  <1>7. Building(1)
    <2>1. \A h \in {Builder, Staged, Flat} : h \in Handles
      BY HandlesDiffer DEF Handles
    <2>2. \A k \in 1..Chunks : Chunk(k) \in Handles /\ Object(k) \in Handles
      BY HandlesDiffer DEF Handles
    <2>3. \A k \in 1..Chunks : ~(k < 1)
      OBVIOUS
    <2> QED BY <1>1, <1>3, <1>6, <2>1, <2>2, <2>3, TextsOfRecords DEF Building
  <1>8. PhaseInv
    BY <1>1, <1>6, <1>7 DEF PhaseInv, StoresInit
  <1> QED
    BY <1>5, <1>8 DEF StoreInv

\* append() puts the text both into the builder and at the end of its chunk.
LEMMA AppendInv ==
    ASSUME StoreAssumption, StoreInv, NEW len \in Lengths, NEW new \in BOOLEAN, Append_(len, new)
    PROVE  StoreInv'
  <1>1. /\ OwnInv /\ PhaseInv /\ phase = "build" /\ phase' = "build" /\ at' = at /\ mode' = mode
        /\ wanted' = [wanted EXCEPT ![at] = Append(wanted[at], len)]
    BY DEF StoreInv, Append_
  <1>2. PICK slice \in Nat : records' = [records EXCEPT ![Builder] =
                               Append(records[Builder], [slice |-> slice, len |-> len])]
    BY <1>1, AppendKeeps
  <1>3. OwnInv'
    BY <1>1, AppendKeeps
  <1>4. at \in 1..Chunks /\ wanted \in [1..Chunks -> Seq(Lengths)] /\ Building(at)
    BY <1>1 DEF PhaseInv
  <1>5. /\ records \in [Handles -> Seq(Recs)] /\ Builder \in Handles /\ records[Builder] \in Seq(Recs)
    BY <1>1, HandlesDiffer, OwnFacts DEF Handles
  <1>6. /\ records'[Builder] = Append(records[Builder], [slice |-> slice, len |-> len])
        /\ \A h \in Handles : h # Builder => records'[h] = records[h]
    BY <1>2, <1>5
  <1>7. texts(records'[Builder]) = Append(texts(records[Builder]), len)
    BY <1>5, <1>6, TextsOfRecords
  <1>8. /\ wanted' \in [1..Chunks -> Seq(Lengths)] /\ wanted'[at] = Append(wanted[at], len)
        /\ \A k \in 1..Chunks : k # at => wanted'[k] = wanted[k]
    <2>1. Append(wanted[at], len) \in Seq(Lengths)
      BY <1>4
    <2> QED BY <1>1, <1>4, <2>1
  <1>9. /\ Staged \in Handles /\ Staged # Builder /\ Flat \in Handles /\ Flat # Builder
        /\ \A k \in 1..Chunks : /\ Chunk(k) \in Handles /\ Chunk(k) # Builder
                                /\ Object(k) \in Handles /\ Object(k) # Builder
    BY HandlesDiffer DEF Handles
  <1>10. \A k \in 1..Chunks : (k < at => k # at) /\ (k > at => k # at)
    BY <1>4
  <1>11. Building(at)'
    BY ZenonT(60), <1>1, <1>4, <1>6, <1>7, <1>8, <1>9, <1>10 DEF Building
  <1>12. PhaseInv'
    BY <1>1, <1>4, <1>8, <1>11 DEF PhaseInv
  <1> QED
    BY <1>3, <1>12 DEF StoreInv

\* to_sexp() stages what is the whole result, as there is one chunk.
LEMMA StageInv == ASSUME StoreAssumption, StoreInv, Stage PROVE StoreInv'
  <1>1. /\ OwnInv /\ PhaseInv /\ phase = "build" /\ mode = "vector" /\ release(Staged)
        /\ phase' = "finalize" /\ mode' = mode /\ at' = at /\ wanted' = wanted
    BY DEF StoreInv, Stage
  <1>2. wanted \in [1..Chunks -> Seq(Lengths)] /\ Building(1) /\ at = 1 /\ at \in 1..Chunks
    BY <1>1 DEF PhaseInv, Building
  <1>3. Staged \in Handles /\ Staged # Builder /\ records[Staged] = <<>>
    BY <1>2, HandlesDiffer DEF Handles, Building
  <1>4. /\ OwnInv' /\ records'[Staged] = records[Builder]
        /\ \A h \in Handles : h # Builder /\ h # Staged => records'[h] = records[h]
    BY <1>1, <1>3, ReleaseKeeps
  <1>5. \A k \in 1..Chunks : records'[Object(k)] = <<>>
    <2>1. \A k \in 1..Chunks : Object(k) \in Handles /\ Object(k) # Builder /\ Object(k) # Staged
      BY HandlesDiffer DEF Handles
    <2> QED BY <1>2, <1>4, <2>1 DEF Building
  <1>6. Joined(wanted) = wanted[1]
    <2>1. \A k \in 2..Chunks : k \in 1..Chunks /\ k > 1
      OBVIOUS
    <2>2. \A k \in 2..Chunks : wanted[k] = <<>>
      BY <1>2, <2>1 DEF Building
    <2> QED BY Zenon, <1>2, <2>2, JoinedOfOne
  <1>7. texts(records'[Staged]) = Joined(wanted)
    BY <1>2, <1>4, <1>6 DEF Building
  <1>8. store' = Staged
    BY <1>1 DEF store
  <1>9. Finalizing(at)'
    BY <1>1, <1>2, <1>5, <1>7, <1>8 DEF Finalizing
  <1>10. PhaseInv'
    BY <1>1, <1>2, <1>9 DEF PhaseInv
  <1> QED
    BY <1>4, <1>10 DEF StoreInv

\* A loop over the chunks starts again at the first.
LEMMA AfterChunk ==
    ASSUME StoreAssumption, at \in 1..Chunks
    PROVE  /\ at < Chunks => after_chunk = at + 1 /\ at + 1 \in 1..Chunks
           /\ ~(at < Chunks) => at = Chunks /\ after_chunk = 1
           /\ after_chunk \in 1..Chunks
  BY DEF StoreAssumption, after_chunk

\* release_store(): the chunk is complete, and the builder ready for the next.
LEMMA ReleaseChunkInv == ASSUME StoreAssumption, StoreInv, ReleaseChunk PROVE StoreInv'
  <1>1. /\ OwnInv /\ PhaseInv /\ phase = "build" /\ mode \in {"list", "concat"} /\ release(Chunk(at))
        /\ at' = after_chunk /\ mode' = mode /\ wanted' = wanted
        /\ phase' = IF at < Chunks THEN "build" ELSE IF mode = "list" THEN "finalize" ELSE "concat"
    BY DEF StoreInv, ReleaseChunk, PhaseInv
  <1>2. wanted \in [1..Chunks -> Seq(Lengths)] /\ Building(at) /\ at \in 1..Chunks
    BY <1>1 DEF PhaseInv
  <1>3. Chunk(at) \in Handles /\ Chunk(at) # Builder /\ records[Chunk(at)] = <<>>
    BY <1>2, HandlesDiffer DEF Handles, Building
  <1>4. /\ OwnInv' /\ records'[Builder] = <<>> /\ records'[Chunk(at)] = records[Builder]
        /\ \A h \in Handles : h # Builder /\ h # Chunk(at) => records'[h] = records[h]
    BY <1>1, <1>3, ReleaseKeeps
  <1>5. /\ \A k \in 1..Chunks : /\ Chunk(k) \in Handles /\ Chunk(k) # Builder
                                /\ Object(k) \in Handles /\ Object(k) # Builder
                                /\ Object(k) # Chunk(at) /\ (k # at => Chunk(k) # Chunk(at))
        /\ Staged \in Handles /\ Staged # Builder /\ Staged # Chunk(at)
        /\ Flat \in Handles /\ Flat # Builder /\ Flat # Chunk(at)
    BY HandlesDiffer DEF Handles
  <1>6. /\ records'[Staged] = <<>> /\ records'[Flat] = <<>>
        /\ \A k \in 1..Chunks : records'[Object(k)] = <<>>
    BY <1>2, <1>4, <1>5 DEF Building
  <1>7. ASSUME NEW k \in 1..Chunks, k <= at PROVE texts(records'[Chunk(k)]) = wanted[k]
    <2>1. CASE k = at
      BY <1>2, <1>4, <2>1 DEF Building
    <2>2. CASE k < at
      <3>1. k # at
        BY <1>2, <2>2
      <3> QED BY <1>2, <1>4, <1>5, <2>2, <3>1 DEF Building
    <2> QED BY <1>2, <1>7, <2>1, <2>2
  <1>8. ASSUME NEW k \in 1..Chunks, k > at PROVE records'[Chunk(k)] = <<>> /\ wanted[k] = <<>>
    <2>1. k # at /\ k >= at
      BY <1>2, <1>8
    <2> QED BY <1>2, <1>4, <1>5, <1>8, <2>1 DEF Building
  <1>9. CASE at < Chunks
    <2>1. phase' = "build" /\ at' = at + 1 /\ at' \in 1..Chunks
      BY <1>1, <1>2, <1>9, AfterChunk
    <2>2. \A k \in 1..Chunks : (k < at + 1 => k <= at) /\ (k >= at + 1 => k > at) /\ (k > at + 1 => k > at)
      BY <1>2
    <2>3. at + 1 \in 1..Chunks /\ at + 1 > at
      BY <1>2, <2>1
    <2>4. texts(records'[Builder]) = wanted[at + 1]
      BY <1>4, <1>8, <2>3, TextsOfRecords
    <2>5. mode' # "vector"
      BY <1>1
    <2>6. Building(at)'
      BY <1>1, <1>6, <1>7, <1>8, <2>1, <2>2, <2>4, <2>5 DEF Building
    <2>7. PhaseInv'
      BY <1>1, <1>2, <2>1, <2>6 DEF PhaseInv
    <2> QED BY <1>4, <2>7 DEF StoreInv
  <1>10. CASE ~(at < Chunks)
    <2>1. at = Chunks /\ at' = 1 /\ at' \in 1..Chunks /\ \A k \in 1..Chunks : k <= at /\ k >= 1 /\ ~(k < 1)
      BY <1>1, <1>2, <1>10, AfterChunk
    <2>2. CASE mode = "list"
      <3>1. phase' = "finalize" /\ mode' = "list"
        BY <1>1, <1>10, <2>2
      <3>2. Finalizing(at)'
        BY <1>1, <1>6, <1>7, <2>1, <3>1 DEF Finalizing
      <3>3. PhaseInv'
        BY <1>1, <1>2, <2>1, <3>1, <3>2 DEF PhaseInv
      <3> QED BY <1>4, <3>3 DEF StoreInv
    <2>3. CASE mode = "concat"
      <3>1. phase' = "concat" /\ mode' = "concat"
        BY <1>1, <1>10, <2>3
      <3>2. Upto(wanted)[0] = <<>>
        BY Zenon, <1>2, JoinedSteps
      <3>3. texts(records'[Flat]) = Upto(wanted)[0]
        BY <1>6, <3>2, TextsOfRecords
      <3>4. Concatenating(1)'
        BY <1>1, <1>6, <1>7, <2>1, <3>1, <3>2, <3>3 DEF Concatenating
      <3>5. Concatenating(at)'
        BY <2>1, <3>4
      <3>6. PhaseInv'
        BY <1>1, <1>2, <2>1, <3>1, <3>5 DEF PhaseInv
      <3> QED BY <1>4, <3>6 DEF StoreInv
    <2> QED BY <1>1, <2>2, <2>3
  <1> QED
    BY <1>9, <1>10

\* concat_stores(): the joined store has one chunk more.
LEMMA ConcatInv == ASSUME StoreAssumption, StoreInv, Concat PROVE StoreInv'
  <1>1. /\ OwnInv /\ PhaseInv /\ phase = "concat" /\ join(at)
        /\ at' = after_chunk /\ mode' = mode /\ wanted' = wanted
        /\ phase' = IF at = Chunks THEN "finalize" ELSE "concat"
    BY DEF StoreInv, Concat
  <1>2. /\ wanted \in [1..Chunks -> Seq(Lengths)] /\ Concatenating(at) /\ at \in 1..Chunks
        /\ mode = "concat"
    BY <1>1 DEF PhaseInv, Concatenating
  <1>3. /\ Chunk(at) \in Handles /\ Flat \in Handles /\ Flat # Chunk(at) /\ Chunk(at) # Flat
        /\ \A k \in 1..Chunks : /\ Chunk(k) \in Handles /\ Chunk(k) # Flat
                                /\ Object(k) \in Handles /\ Object(k) # Flat
                                /\ Object(k) # Chunk(at) /\ (k # at => Chunk(k) # Chunk(at))
    BY <1>2, HandlesDiffer DEF Handles
  <1>4. /\ records \in [Handles -> Seq(Recs)]
        /\ records[Flat] \in Seq(Recs) /\ records[Chunk(at)] \in Seq(Recs)
    BY <1>1, <1>3, OwnFacts
  <1>5. /\ owner' = handed({Chunk(at)}, Flat)
        /\ records' = [records EXCEPT ![Flat] = records[Flat] \o records[Chunk(at)], ![Chunk(at)] = <<>>]
    BY <1>1, <1>3, <1>4 DEF join
  <1>6. /\ records' = [records EXCEPT ![Chunk(at)] = <<>>, ![Flat] = records[Flat] \o records[Chunk(at)]]
        /\ records'[Flat] = records[Flat] \o records[Chunk(at)]
        /\ \A h \in Handles : h # Chunk(at) /\ h # Flat => records'[h] = records[h]
    <2> DEFINE c == records[Flat] \o records[Chunk(at)]
    <2>1. \/ records' = [records EXCEPT ![Chunk(at)] = <<>>, ![Flat] = c]
          \/ records' = [records EXCEPT ![Flat] = c, ![Chunk(at)] = <<>>]
      BY <1>5, Zenon
    <2> HIDE DEF c
    <2>2. /\ records' = [records EXCEPT ![Chunk(at)] = <<>>, ![Flat] = c]
          /\ records'[Flat] = c
          /\ \A h \in Handles : h # Chunk(at) /\ h # Flat => records'[h] = records[h]
      BY <1>3, <1>4, <2>1
    <2> QED BY <2>2, Zenon DEF c
  <1>7. OwnInv'
    BY Zenon, <1>1, <1>3, <1>5, <1>6, MoveKeeps
  <1>8. \A k \in 1..Chunks : records'[Object(k)] = <<>>
    BY Zenon, <1>2, <1>3, <1>6 DEF Concatenating
  <1>9. ASSUME NEW k \in 1..Chunks, k > at PROVE texts(records'[Chunk(k)]) = wanted[k]
    <2>1. k # at /\ k >= at
      BY <1>2, <1>9
    <2> QED BY Zenon, <1>2, <1>3, <1>6, <2>1 DEF Concatenating
  <1>10. texts(records'[Flat]) = Upto(wanted)[at]
    <2>1. texts(records'[Flat]) = texts(records[Flat]) \o texts(records[Chunk(at)])
      BY Zenon, <1>4, <1>6, TextsOfRecords
    <2>2. texts(records[Flat]) = Upto(wanted)[at - 1] /\ texts(records[Chunk(at)]) = wanted[at]
      BY <1>2 DEF Concatenating
    <2>3. Upto(wanted)[at] = Upto(wanted)[at - 1] \o wanted[at]
      BY Zenon, <1>2, JoinedSteps
    <2> QED BY <2>1, <2>2, <2>3
  <1>11. CASE at = Chunks
    <2>1. phase' = "finalize" /\ at' = 1 /\ at' \in 1..Chunks /\ mode' = "concat"
      BY <1>1, <1>2, <1>11, AfterChunk
    <2>2. store' = Flat
      BY <2>1 DEF store
    <2>3. texts(records'[Flat]) = Joined(wanted)
      BY <1>10, <1>11 DEF Joined
    <2>4. Finalizing(at)'
      BY <1>1, <1>8, <2>1, <2>2, <2>3 DEF Finalizing
    <2>5. PhaseInv'
      BY <1>1, <1>2, <2>1, <2>4 DEF PhaseInv
    <2> QED BY <1>7, <2>5 DEF StoreInv
  <1>12. CASE at # Chunks
    <2>1. phase' = "concat" /\ at' = at + 1 /\ at' \in 1..Chunks /\ mode' = "concat"
      BY <1>1, <1>2, <1>12, AfterChunk DEF StoreAssumption
    <2>2. (at + 1) - 1 = at /\ \A k \in 1..Chunks : k >= at + 1 => k > at
      BY <1>2
    <2>4. Concatenating(at)'
      BY <1>1, <1>8, <1>9, <1>10, <2>1, <2>2 DEF Concatenating
    <2>5. PhaseInv'
      BY <1>1, <1>2, <2>1, <2>4 DEF PhaseInv
    <2> QED BY <1>7, <2>5 DEF StoreInv
  <1> QED
    BY <1>11, <1>12

\* finalize() is called with a store that is not the object it makes.
LEMMA StoreIsInFrame ==
    ASSUME at \in 1..Chunks
    PROVE  /\ store \in Handles /\ Object(at) \in Handles /\ store # Object(at)
           /\ \A k \in 1..Chunks : Object(k) \in Handles /\ Object(k) # store
           /\ mode = "list" => store = Chunk(at)
  <1>1. store \in {Staged, Flat, Chunk(at)} /\ (mode = "list" => store = Chunk(at))
    BY DEF store
  <1> HIDE DEF store
  <1> QED
    BY <1>1, HandlesDiffer DEF Handles

\* Once an object has the texts of its store, finalize() goes on to the next
\* chunk or has made all.
LEMMA FinalizedInv ==
    ASSUME StoreAssumption, StoreInv, phase = "finalize", Finalized, OwnInv',
           texts(records'[Object(at)]) = texts(records[store]),
           \A h \in Handles : h # store /\ h # Object(at) => records'[h] = records[h]
    PROVE  StoreInv'
  <1>1. /\ OwnInv /\ PhaseInv /\ mode' = mode /\ wanted' = wanted
        /\ phase' = IF mode = "list" /\ at < Chunks THEN "finalize" ELSE "end"
        /\ at' = IF mode = "list" /\ at < Chunks THEN at + 1 ELSE at
    BY DEF StoreInv, Finalized
  <1>2. /\ wanted \in [1..Chunks -> Seq(Lengths)] /\ Finalizing(at) /\ at \in 1..Chunks
        /\ mode \in {"vector", "list", "concat"} /\ Chunks \in Nat
    BY <1>1 DEF PhaseInv, StoreAssumption
  <1>3. CASE mode = "list"
    <2>1. store = Chunk(at)
      BY <1>2, <1>3, StoreIsInFrame
    <2>2. \A k \in 1..Chunks :
             /\ Chunk(k) \in Handles /\ Object(k) \in Handles
             /\ Object(k) # store /\ Chunk(k) # Object(at)
             /\ k # at => Object(k) # Object(at) /\ Chunk(k) # store
      BY <2>1, HandlesDiffer DEF Handles
    <2>3. texts(records'[Object(at)]) = wanted[at]
      BY <1>2, <1>3, <2>1 DEF Finalizing
    <2>4. ASSUME NEW k \in 1..Chunks, k < at PROVE texts(records'[Object(k)]) = wanted[k]
      <3>1. k # at
        BY <1>2, <2>4
      <3>2. texts(records[Object(k)]) = wanted[k]
        BY <1>2, <1>3, <2>4 DEF Finalizing
      <3> QED BY <2>2, <3>1, <3>2
    <2>5. ASSUME NEW k \in 1..Chunks, k > at
          PROVE  texts(records'[Chunk(k)]) = wanted[k] /\ records'[Object(k)] = <<>>
      <3>1. k # at /\ k >= at /\ ~(k < at)
        BY <1>2, <2>5
      <3>2. texts(records[Chunk(k)]) = wanted[k] /\ records[Object(k)] = <<>>
        BY <1>2, <1>3, <3>1 DEF Finalizing
      <3> QED BY <2>2, <3>1, <3>2
    <2>6. CASE at < Chunks
      <3>1. phase' = "finalize" /\ at' = at + 1 /\ at + 1 \in 1..Chunks /\ mode' = "list"
        BY <1>1, <1>2, <1>3, <2>6
      <3>2. ASSUME NEW k \in 1..Chunks
            PROVE  /\ k >= at + 1 => records'[Object(k)] = <<>>
                   /\ texts(records'[IF k < at + 1 THEN Object(k) ELSE Chunk(k)]) = wanted[k]
        <4>1. k < at \/ k = at \/ k > at
          BY <1>2
        <4>2. (k < at \/ k = at => k < at + 1) /\ (k > at <=> k >= at + 1) /\ (k > at => ~(k < at + 1))
          BY <1>2
        <4> QED BY <2>3, <2>4, <2>5, <4>1, <4>2
      <3>3. Finalizing(at)'
        BY <1>1, <3>1, <3>2 DEF Finalizing
      <3>4. PhaseInv'
        BY <1>1, <1>2, <3>1, <3>3 DEF PhaseInv
      <3> QED BY <3>4 DEF StoreInv
    <2>7. CASE ~(at < Chunks)
      <3>1. phase' = "end" /\ at' = at /\ at = Chunks /\ mode' = "list"
        BY <1>1, <1>2, <1>3, <2>7
      <3>2. \A k \in 1..Chunks : k < at \/ k = at
        BY <1>2, <3>1
      <3>3. Complete'
        BY <1>1, <2>3, <2>4, <3>1, <3>2 DEF Complete
      <3>4. PhaseInv'
        BY <1>1, <1>2, <3>1, <3>3 DEF PhaseInv
      <3> QED BY <3>4 DEF StoreInv
    <2> QED BY <2>6, <2>7
  <1>4. CASE mode # "list"
    <2>1. phase' = "end" /\ at' = at /\ mode' = mode /\ at = 1
      BY <1>1, <1>2, <1>4 DEF Finalizing
    <2>2. texts(records'[Object(1)]) = Joined(wanted)
      BY <1>2, <1>4, <2>1 DEF Finalizing
    <2>3. Complete'
      BY <1>1, <1>4, <2>1, <2>2 DEF Complete
    <2>4. PhaseInv'
      BY <1>1, <1>2, <2>1, <2>3 DEF PhaseInv
    <2> QED BY <2>4 DEF StoreInv
  <1> QED
    BY <1>3, <1>4

\* finalize() finds no object in its way.
LEMMA ObjectIsNew ==
    ASSUME StoreAssumption, StoreInv, phase = "finalize"
    PROVE  /\ OwnInv /\ at \in 1..Chunks /\ records[Object(at)] = <<>>
           /\ store \in Handles /\ Object(at) \in Handles /\ store # Object(at)
           /\ records \in [Handles -> Seq(Recs)] /\ records[store] \in Seq(Recs)
           /\ records[Object(at)] \o records[store] = records[store]
  <1>1. OwnInv /\ at \in 1..Chunks /\ Finalizing(at)
    BY DEF StoreInv, PhaseInv
  <1>2. at >= at
    BY <1>1
  <1>3. records[Object(at)] = <<>>
    BY <1>1, <1>2 DEF Finalizing
  <1>4. store \in Handles /\ Object(at) \in Handles /\ store # Object(at)
    BY <1>1, StoreIsInFrame
  <1>5. records \in [Handles -> Seq(Recs)] /\ records[store] \in Seq(Recs)
    BY <1>1, <1>4, OwnFacts
  <1>6. <<>> \o records[store] = records[store]
    BY <1>5
  <1> QED
    BY <1>1, <1>3, <1>4, <1>5, <1>6

\* A charvec takes over the slices together with the records.
LEMMA FinalizeWrapInv == ASSUME StoreAssumption, StoreInv, FinalizeWrap PROVE StoreInv'
  <1>1. /\ phase = "finalize" /\ Finalized /\ owner' = handed({store}, Object(at))
        /\ records' = [records EXCEPT ![store] = <<>>, ![Object(at)] = records[store]]
    BY DEF FinalizeWrap, wrap
  <1> USE ObjectIsNew, <1>1
  <1> HIDE DEF store
  <1>2. OwnInv'
    BY Zenon, MoveKeeps
  <1>3. /\ records'[Object(at)] = records[store]
        /\ \A h \in Handles : h # store /\ h # Object(at) => records'[h] = records[h]
    BY TakenOver
  <1> QED
    BY <1>2, <1>3, FinalizedInv

\* A charpack has the same texts, and needs none of the slices.
LEMMA FinalizePackInv == ASSUME StoreAssumption, StoreInv, FinalizePack PROVE StoreInv'
  <1> DEFINE rs == records[store]
             copy == [k \in 1..Len(rs) |-> [slice |-> 0, len |-> rs[k].len]]
  <1>1. /\ phase = "finalize" /\ Finalized /\ owner' = handed({store}, Freed)
        /\ records' = [records EXCEPT ![store] = <<>>, ![Object(at)] = copy]
    BY DEF FinalizePack
  <1>2. /\ OwnInv /\ at \in 1..Chunks /\ records[Object(at)] = <<>>
        /\ store \in Handles /\ Object(at) \in Handles /\ store # Object(at)
        /\ records \in [Handles -> Seq(Recs)] /\ rs \in Seq(Recs)
    BY <1>1, ObjectIsNew
  <1> HIDE DEF rs
  <1>3. Len(rs) \in Nat /\ \A k \in 1..Len(rs) : rs[k].len \in Lengths
    <2>1. Len(rs) \in Nat /\ \A k \in 1..Len(rs) : rs[k] \in Recs
      BY <1>2
    <2> QED BY <2>1 DEF Recs
  <1>4. \A k \in 1..Len(rs) : [slice |-> 0, len |-> rs[k].len] \in Recs
    BY <1>3 DEF Recs
  <1>5. /\ copy \in Seq(Recs) /\ Len(copy) = Len(rs)
        /\ \A k \in 1..Len(rs) : copy[k].slice = 0 /\ copy[k].len = rs[k].len
    BY <1>3, <1>4
  <1> HIDE DEF copy
  <1>6. texts(copy) = texts(rs)
    BY <1>3, <1>5 DEF texts
  <1>7. OwnInv'
    BY Zenon, <1>1, <1>2, <1>5, CopyKeeps
  <1>8. /\ records'[Object(at)] = copy
        /\ \A h \in Handles : h # store /\ h # Object(at) => records'[h] = records[h]
    BY <1>1, <1>2, TakenOver
  <1>9. texts(records'[Object(at)]) = texts(records[store])
    BY <1>6, <1>8 DEF rs
  <1> QED
    BY Zenon, <1>1, <1>7, <1>8, <1>9, FinalizedInv

\* The destructors leave the objects alone.
LEMMA LeaveInv == ASSUME StoreAssumption, StoreInv, Leave PROVE StoreInv'
  <1>1. /\ OwnInv /\ PhaseInv /\ phase \in {"end", "unwind"} /\ Destroyed(Frame)
        /\ phase' = IF phase = "end" THEN "returned" ELSE "raised"
        /\ mode' = mode /\ at' = at /\ wanted' = wanted
    BY DEF StoreInv, Leave, frame_owners
  <1>2. OwnInv' /\ \A h \in Frame : records'[h] = <<>>
    BY <1>1, DestroyKeeps
  <1>3. \A k \in 1..Chunks : records'[Object(k)] = records[Object(k)]
    <2>1. records \in [Handles -> Seq(Recs)]
      BY <1>1, OwnFacts
    <2>2. records' = [h \in Handles |-> IF h \in Frame THEN <<>> ELSE records[h]]
      BY <1>1, <2>1 DEF Destroyed
    <2>3. \A k \in 1..Chunks : Object(k) \in Handles /\ Object(k) \notin Frame
      BY HandlesDiffer DEF Handles
    <2> QED BY <2>2, <2>3
  <1>4. 1 \in 1..Chunks
    BY DEF StoreAssumption
  <1>5. Complete => Complete'
    BY <1>1, <1>3, <1>4 DEF Complete
  <1>6. PhaseInv'
    BY <1>1, <1>2, <1>5 DEF PhaseInv
  <1> QED
    BY <1>2, <1>6 DEF StoreInv

\* A step that only goes to the unwinding, or none.
LEMMA UnchangedStoresInv ==
    ASSUME StoreInv, UNCHANGED <<mode, at, owner, records, wanted>>, phase' = phase \/ phase' = "unwind"
    PROVE  StoreInv'
  <1>1. mode' = mode /\ at' = at /\ owner' = owner /\ records' = records /\ wanted' = wanted
    OBVIOUS
  <1>2. OwnInv'
    BY ZenonT(60), <1>1 DEF StoreInv, OwnInv
  <1>3. CASE phase' = phase
    BY <1>1, <1>2, <1>3 DEF StoreInv, PhaseInv, Building, Concatenating, Finalizing, Complete, store
  <1>4. CASE phase' = "unwind"
    BY <1>1, <1>2, <1>4 DEF StoreInv, PhaseInv
  <1> QED
    BY <1>3, <1>4

\* OutputStores for any number of chunks and records of any lengths: text can be
\* read through release_store(), concatenate() and finalize() as long as a
\* record points to it; nothing is left to the frame's owners, nor forgotten,
\* when the call returns or leaves by an error of R; and the objects it returns
\* have the texts appended, in order.
THEOREM StoresAreExact ==
    ASSUME StoreAssumption
    PROVE  StoresSpec => []StoresKeepText
  <1>1. StoresInit => StoreInv
    BY InitInv
  <1>2. StoreInv /\ [StoresNext]_stores_vars => StoreInv'
    <2> SUFFICES ASSUME StoreInv, [StoresNext]_stores_vars PROVE StoreInv'
      OBVIOUS
    <2>1. ASSUME NEW len \in Lengths, NEW new \in BOOLEAN, Append_(len, new) PROVE StoreInv'
      BY <2>1, AppendInv
    <2>2. CASE ReleaseChunk
      BY <2>2, ReleaseChunkInv
    <2>3. CASE Stage
      BY <2>3, StageInv
    <2>4. CASE Concat
      BY <2>4, ConcatInv
    <2>5. CASE BuildingThrows
      BY <2>5, UnchangedStoresInv DEF BuildingThrows
    <2>6. CASE FinalizePack
      BY <2>6, FinalizePackInv
    <2>7. CASE FinalizeWrap
      BY <2>7, FinalizeWrapInv
    <2>8. CASE FinalizeFails
      BY <2>8, UnchangedStoresInv DEF FinalizeFails
    <2>9. CASE Leave
      BY <2>9, LeaveInv
    <2>10. CASE UNCHANGED stores_vars
      BY <2>10, UnchangedStoresInv DEF stores_vars
    <2> QED
      BY <2>1, <2>2, <2>3, <2>4, <2>5, <2>6, <2>7, <2>8, <2>9, <2>10 DEF StoresNext, Finished
  <1>3. StoreInv => StoresKeepText
    <2> SUFFICES ASSUME StoreInv PROVE StoresKeepText
      OBVIOUS
    <2>1. OwnInv /\ PhaseInv
      BY DEF StoreInv
    <2>2. RecordsAreBacked
      <3>1. DOMAIN records = Handles
        BY <2>1, OwnFacts
      <3> QED BY <2>1, <3>1, OwnFacts DEF RecordsAreBacked
    <2>3. NothingLeaks
      <3> SUFFICES ASSUME phase \in {"returned", "raised"}, NEW s \in 1..Len(owner), owner[s] # Freed
                   PROVE  owner[s] \in Objects /\ \E k \in 1..Len(records[owner[s]]) :
                                                    records[owner[s]][k].slice = s
        BY DEF NothingLeaks
      <3>1. /\ owner[s] \in Handles
            /\ \E k \in 1..Len(records[owner[s]]) : records[owner[s]][k].slice = s
        BY <2>1, OwnFacts
      <3>2. \A h \in Frame : Len(records[h]) = 0
        BY <2>1 DEF PhaseInv
      <3>3. owner[s] \notin Frame
        BY <3>1, <3>2
      <3> QED BY <3>1, <3>3 DEF Handles
    <2>4. ObjectsAreComplete
      BY <2>1 DEF PhaseInv, ObjectsAreComplete
    <2>5. StoresTypeOK
      <3>1. DOMAIN records = Handles /\ \A s \in 1..Len(owner) : owner[s] \in Handles \cup {Freed}
        BY <2>1, OwnFacts
      <3>2. \A h \in Handles : \A k \in 1..Len(records[h]) :
              records[h][k].slice \in 0..Len(owner) /\ records[h][k].len \in Lengths
        <4> SUFFICES ASSUME NEW h \in Handles, NEW k \in 1..Len(records[h])
                     PROVE  records[h][k].slice \in 0..Len(owner) /\ records[h][k].len \in Lengths
          OBVIOUS
        <4>1. /\ Len(owner) \in Nat /\ records[h][k] \in Recs /\ records[h][k].slice \in Nat
              /\ records[h][k].slice # 0 => records[h][k].slice \in 1..Len(owner)
          BY <2>1, OwnFacts
        <4>2. records[h][k].len \in Lengths
          BY <4>1 DEF Recs
        <4> QED BY <4>1, <4>2
      <3> QED BY <2>1, <3>1, <3>2 DEF StoresTypeOK, PhaseInv, Handles
    <2> QED BY <2>2, <2>3, <2>4, <2>5 DEF StoresKeepText
  <1> QED
    BY <1>1, <1>2, <1>3, PTL DEF StoresSpec

=============================================================================
