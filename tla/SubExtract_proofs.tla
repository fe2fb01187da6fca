------------------------- MODULE SubExtract_proofs -------------------------
(***************************************************************************)
(* ci_sub(), for every width of the ints, every vector and every schedule. *)
(* The windows that are extracted are the ones the arguments describe: the *)
(* 64-bit sums and the clamping of nonnegative_index() and                 *)
(* length_endpoint() lose nothing.  The second pass fills the vector that  *)
(* the workers' counts have sized.                                         *)
(***************************************************************************)
EXTENDS SubExtract, FiniteSetTheorems, TLAPS

\* A leaf that names no prover is tried with these, in this order.
USE SMTT(20), ZenonT(20), SMTT(60), Z3T(60)

\* Where begin() lies: the code points behind it are those from "from" on.
LEMMA BeginIsExact ==
    ASSUME NEW n \in 0..IntMax, NEW from \in Int32, from # NA_INTEGER, NEW p \in 1..IntMax
    PROVE  /\ begin(n, from) \in 0..IntMax
           /\ p <= n => (begin(n, from) < p <=> Signed(n, from) <= p)
<1>1. IntMax \in Nat \ {0}
  BY IntMaxAssumption
<1>2. from \in -IntMax..IntMax
  BY <1>1 DEF Int32, NA_INTEGER
<1>3. CASE from >= 0
  BY <1>1, <1>2, <1>3 DEF begin, forward, nonnegative_index, Signed
<1>4. CASE from < 0
  BY <1>1, <1>2, <1>4 DEF begin, forward, backward, nonnegative_index, Signed
<1>. QED
  BY <1>2, <1>3, <1>4

\* Where end() lies: the code points up to it are those up to "to".
LEMMA EndIsExact ==
    ASSUME NEW n \in 0..IntMax, NEW to \in Int32, to # NA_INTEGER, NEW p \in 1..IntMax
    PROVE  /\ end(n, to) \in 0..IntMax
           /\ p <= end(n, to) <=> p <= n /\ p <= Signed(n, to)
<1>1. IntMax \in Nat \ {0}
  BY IntMaxAssumption
<1>2. to \in -IntMax..IntMax
  BY <1>1 DEF Int32, NA_INTEGER
<1>3. CASE to >= 0
  BY <1>1, <1>2, <1>3 DEF end, forward, Signed
<1>4. CASE to < 0
  BY <1>1, <1>2, <1>4 DEF end, forward, backward, nonnegative_index, Signed
<1>. QED
  BY <1>2, <1>3, <1>4

\* The endpoint of a length, clamped to the ints, selects what the unclamped
\* sum would have, also when the sum crosses from the end-counted indices to
\* the others.
LEMMA LengthEndpointIsExact ==
    ASSUME NEW n \in 0..IntMax, NEW from \in Int32, from # NA_INTEGER,
           NEW len \in 1..IntMax, NEW p \in 1..IntMax
    PROVE  /\ length_endpoint(from, len) \in Int32
           /\ length_endpoint(from, len) # NA_INTEGER
           /\ p <= n => (p <= Signed(n, length_endpoint(from, len))
                            <=> p <= Signed(n, from) + len - 1)
<1>1. IntMax \in Nat \ {0}
  BY IntMaxAssumption
<1>2. from \in -IntMax..IntMax
  BY <1>1 DEF Int32, NA_INTEGER
<1>3. CASE from < 0 /\ from + len - 1 >= 0
  BY <1>1, <1>2, <1>3 DEF length_endpoint, Int32, NA_INTEGER, Signed
<1>4. CASE from < 0 /\ from + len - 1 < 0
  BY <1>1, <1>2, <1>4 DEF length_endpoint, Int32, NA_INTEGER, Signed
<1>5. CASE from >= 0
  BY <1>1, <1>2, <1>5 DEF length_endpoint, Int32, NA_INTEGER, Signed
<1>. QED
  BY <1>2, <1>3, <1>4, <1>5

\* A row of the result has a text, a from and an endpoint.
LEMMA RowsHaveArguments ==
    ASSUME IsCall(call), NEW i \in Rows
    PROVE  Text(i) \in -1..IntMax /\ From(i) \in Int32 /\ Endpoint(i) \in Int32
<1> DEFINE lengths == <<Len(call.texts), Len(call.from), Len(call.endpoint)>>
<1>1. /\ call.texts \in Seq(-1..IntMax) /\ call.from \in Seq(Int32)
      /\ call.endpoint \in Seq(Int32)
  BY DEF IsCall
<1>2. recycling_length(lengths) # 0
  BY DEF Rows, vectorize_len
<1>3. \A k \in DOMAIN lengths : ~(lengths[k] <= 0)
  <2> HIDE DEF lengths
  <2>. QED
    BY Zenon, <1>2 DEF recycling_length
<1>4. /\ Len(call.texts) \in Nat \ {0} /\ Len(call.from) \in Nat \ {0}
      /\ Len(call.endpoint) \in Nat \ {0}
  <2>1. 1 \in DOMAIN lengths /\ 2 \in DOMAIN lengths /\ 3 \in DOMAIN lengths
    OBVIOUS
  <2>. QED
    BY <1>1, <1>3, <2>1
<1>5. i \in Int
  BY DEF Rows
<1>6. \A m \in Nat \ {0} : (i % m) + 1 \in 1..m
  BY <1>5
<1>7. /\ (i % Len(call.texts)) + 1 \in 1..Len(call.texts)
      /\ (i % Len(call.from)) + 1 \in 1..Len(call.from)
      /\ (i % Len(call.endpoint)) + 1 \in 1..Len(call.endpoint)
  BY Zenon, <1>4, <1>6
<1>8. \A S, q : \A k : q \in Seq(S) /\ k \in 1..Len(q) => q[k] \in S
  OBVIOUS
<1>9. Text(i) \in -1..IntMax
  BY Zenon, <1>1, <1>7, <1>8 DEF Text, At
<1>10. From(i) \in Int32
  BY <1>1, <1>7, <1>8 DEF From, At
<1>11. Endpoint(i) \in Int32
  BY <1>1, <1>7, <1>8 DEF Endpoint, At
<1>. QED
  BY <1>9, <1>10, <1>11

\* What a row's record must be.
Exact(i, r) ==
    r.kind = "text" =>
        \A p \in 1..IntMax :
            r.begin < p /\ p <= r.end <=>
                IF call.by_length THEN InLengthWindow(Text(i), From(i), Endpoint(i), p)
                                  ELSE InWindow(Text(i), From(i), Endpoint(i), p)

\* Cutting off an empty window changes nothing.
LEMMA WindowSelects ==
    ASSUME NEW n, NEW b \in 0..IntMax, NEW e \in 0..IntMax, NEW p \in 1..IntMax
    PROVE  Window(n, b, e).begin < p /\ p <= Window(n, b, e).end <=> b < p /\ p <= e
<1>1. IntMax \in Nat
  BY IntMaxAssumption
<1>2. CASE e > b
  BY <1>1, <1>2 DEF Window
<1>3. CASE ~(e > b)
  BY <1>1, <1>3 DEF Window, Empty
<1>. QED
  BY <1>2, <1>3

\* extract_one() writes the window its arguments describe.
LEMMA ExtractIsExact ==
    ASSUME IsCall(call), NEW i \in Rows
    PROVE  Exact(i, extract_one(Text(i), From(i), Endpoint(i)))
<1> DEFINE n == Text(i)
           f == From(i)
           t == Endpoint(i)
           r == extract_one(n, f, t)
<1>1. n \in -1..IntMax /\ f \in Int32 /\ t \in Int32 /\ IntMax \in Nat \ {0}
  BY RowsHaveArguments, IntMaxAssumption
<1> HIDE DEF n, f, t
<1>2. CASE is_missing(n, f, t)
  BY <1>2 DEF Exact, extract_one, Missing, n, f, t
<1>3. CASE ~is_missing(n, f, t) /\ ~call.by_length
  <2>1. n \in 0..IntMax /\ f # NA_INTEGER /\ t # NA_INTEGER
    BY <1>1, <1>3 DEF is_missing
  <2>2. r = Window(n, begin(n, f), end(n, t))
    BY <1>3 DEF extract_one
  <2>3. ASSUME NEW p \in 1..IntMax
        PROVE  r.begin < p /\ p <= r.end <=> InWindow(n, f, t, p)
    <3>1. /\ begin(n, f) \in 0..IntMax
          /\ p <= n => (begin(n, f) < p <=> Signed(n, f) <= p)
      BY <1>1, <2>1, BeginIsExact
    <3>2. /\ end(n, t) \in 0..IntMax
          /\ p <= end(n, t) <=> p <= n /\ p <= Signed(n, t)
      BY <1>1, <2>1, EndIsExact
    <3>3. r.begin < p /\ p <= r.end <=> begin(n, f) < p /\ p <= end(n, t)
      BY <2>2, <3>1, <3>2, WindowSelects
    <3>4. p \in 1..n <=> p <= n
      BY <1>1, <2>1
    <3>. QED
      BY <3>1, <3>2, <3>3, <3>4 DEF InWindow
  <2>. QED
    BY <1>3, <2>3 DEF Exact, n, f, t
<1>4. CASE ~is_missing(n, f, t) /\ call.by_length /\ t = 0
  <2>1. n \in 0..IntMax /\ f \in Int
    BY <1>1, <1>4 DEF is_missing, Int32
  <2>2. r = Empty
    BY <1>4 DEF extract_one
  <2>3. ASSUME NEW p \in 1..IntMax
        PROVE  ~(r.begin < p /\ p <= r.end) /\ ~InLengthWindow(n, f, t, p)
    BY <1>1, <1>4, <2>1, <2>2 DEF Empty, InLengthWindow, Signed
  <2>. QED
    BY <1>4, <2>3 DEF Exact, n, f, t
<1>5. CASE ~is_missing(n, f, t) /\ call.by_length /\ t < 0
  <2>1. r = Missing
    BY <1>1, <1>5 DEF extract_one, Int32
  <2>. QED
    BY <2>1 DEF Exact, Missing, n, f, t
<1>6. CASE ~is_missing(n, f, t) /\ call.by_length /\ t > 0
  <2>1. n \in 0..IntMax /\ f # NA_INTEGER /\ t \in 1..IntMax
    BY <1>1, <1>6 DEF is_missing, Int32
  <2>2. r = Window(n, begin(n, f), end(n, length_endpoint(f, t)))
    BY <1>1, <1>6, <2>1 DEF extract_one
  <2>3. ASSUME NEW p \in 1..IntMax
        PROVE  r.begin < p /\ p <= r.end <=> InLengthWindow(n, f, t, p)
    <3>1. /\ begin(n, f) \in 0..IntMax
          /\ p <= n => (begin(n, f) < p <=> Signed(n, f) <= p)
      BY <1>1, <2>1, BeginIsExact
    <3>2. /\ length_endpoint(f, t) \in Int32 /\ length_endpoint(f, t) # NA_INTEGER
          /\ p <= n => (p <= Signed(n, length_endpoint(f, t)) <=> p <= Signed(n, f) + t - 1)
      BY <1>1, <2>1, LengthEndpointIsExact
    <3>3. /\ end(n, length_endpoint(f, t)) \in 0..IntMax
          /\ p <= end(n, length_endpoint(f, t))
                <=> p <= n /\ p <= Signed(n, length_endpoint(f, t))
      BY <2>1, <3>2, EndIsExact
    <3>4. r.begin < p /\ p <= r.end
            <=> begin(n, f) < p /\ p <= end(n, length_endpoint(f, t))
      BY <2>2, <3>1, <3>3, WindowSelects
    <3>5. p \in 1..n <=> p <= n
      BY <1>1, <2>1
    <3>. QED
      BY <3>1, <3>2, <3>3, <3>4, <3>5 DEF InLengthWindow
  <2>. QED
    BY <1>6, <2>3 DEF Exact, n, f, t
<1>7. t \in Int
  BY <1>1 DEF Int32
<1>8. call.by_length \in BOOLEAN
  BY DEF IsCall
<1>. QED
  BY <1>2, <1>3, <1>4, <1>5, <1>6, <1>7, <1>8

\* The inductive invariant: the call is one, and every record written is exact.
WindowInv == IsCall(call) /\ DOMAIN out = Rows /\ \A i \in Rows : Exact(i, out[i])

\* A worker writes the exact window of one row and touches no other.
LEMMA ExtractKeepsInv ==
    ASSUME WindowInv, NEW w \in crew, NEW i \in Rows, Extract(w, i)
    PROVE  WindowInv'
<1>1. call' = call /\ Rows' = Rows
  BY DEF Extract, Rows, vectorize_len
<1>2. out' = [out EXCEPT ![i] = extract_one(Text(i), From(i), Endpoint(i))]
  BY DEF Extract
<1>3. IsCall(call) /\ DOMAIN out = Rows
  BY DEF WindowInv
<1>4. DOMAIN out' = Rows
  BY <1>2, <1>3
<1>5. ASSUME NEW j \in Rows PROVE Exact(j, out'[j])
  <2>1. CASE j = i
    BY <1>2, <1>3, <2>1, ExtractIsExact
  <2>2. CASE j # i
    BY <1>2, <1>3, <2>2 DEF WindowInv
  <2>. QED
    BY <2>1, <2>2
<1>6. ASSUME NEW j \in Rows PROVE Exact(j, out[j])' <=> Exact(j, out'[j])
  BY <1>1 DEF Exact, Text, From, Endpoint, At
<1>7. ASSUME NEW j \in Rows' PROVE Exact(j, out[j])'
  BY <1>1, <1>5, <1>6
<1>. QED
  BY <1>1, <1>3, <1>4, <1>7 DEF WindowInv

\* The second pass and the return write no window.
LEMMA OthersKeepInv ==
    ASSUME WindowInv, UNCHANGED <<call, out>>
    PROVE  WindowInv'
<1>1. call' = call /\ out' = out /\ Rows' = Rows
  BY DEF Rows, vectorize_len
<1>2. ASSUME NEW j \in Rows PROVE Exact(j, out[j])' <=> Exact(j, out[j])
  BY <1>1 DEF Exact, Text, From, Endpoint, At
<1>3. ASSUME NEW j \in Rows' PROVE Exact(j, out[j])'
  BY <1>1, <1>2 DEF WindowInv
<1>. QED
  BY <1>1, <1>3 DEF WindowInv

\* A call begins with no record written.
LEMMA WindowInvInit == Init => WindowInv
<1> SUFFICES ASSUME Init PROVE WindowInv
  OBVIOUS
<1>1. IsCall(call)
  BY CallsAssumption DEF Init
<1>2. DOMAIN out = Rows /\ \A i \in Rows : out[i] = NoRecord
  BY DEF Init
<1>. QED
  BY <1>1, <1>2 DEF WindowInv, Exact, NoRecord

\* Every step of ci_sub() keeps the records exact.
LEMMA WindowInvNext == WindowInv /\ [Next]_vars => WindowInv'
<1> SUFFICES ASSUME WindowInv, [Next]_vars PROVE WindowInv'
  OBVIOUS
<1>1. CASE \E w \in crew, i \in Rows : Extract(w, i)
  BY <1>1, ExtractKeepsInv
<1>2. CASE EndExtract \/ Filter \/ EndFilter
  BY <1>2, OthersKeepInv DEF EndExtract, Filter, EndFilter
<1>3. CASE UNCHANGED vars
  BY <1>3, OthersKeepInv DEF vars
<1>. QED
  BY <1>1, <1>2, <1>3 DEF Next, Steps

\* ci_sub()'s windows are the ones its arguments describe, for every width of
\* the ints, every vector and every schedule of the workers.
THEOREM WindowsAreExact == Spec => []WindowIsExact
<1>1. WindowInv => WindowIsExact
  BY DEF WindowInv, WindowIsExact, Exact
<1>. QED
  BY <1>1, WindowInvInit, WindowInvNext, PTL DEF Spec

\* A set of naturals that is not empty has a least element.
LEMMA LeastNatural ==
    ASSUME NEW T, T \subseteq Nat, T # {}
    PROVE  \E x \in T : \A y \in T : x <= y
  <1> DEFINE R == {ss \in Nat \X Nat : ss[1] < ss[2]}
  <1>1. IsWellFoundedOn(R, Nat)
    BY Zenon, NatLessThanWellFounded DEF OpToRel
  <1>2. ASSUME NEW x \in Nat, NEW y \in Nat, y < x PROVE <<y, x>> \in R
    BY <1>2
  <1> HIDE DEF R
  <1>3. PICK x \in T : \A y \in T : ~(<<y, x>> \in R)
    BY <1>1, WFMin, Zenon
  <1>4. ASSUME NEW y \in T PROVE x <= y
    <2>1. x \in Nat /\ y \in Nat /\ ~(y < x)
      BY Zenon, <1>2, <1>3
    <2> QED BY <2>1
  <1> QED
    BY <1>4

\* The units that the values of f count.
Units(f, T, m) == {p \in T \X (0..m) : p[2] < f[p[1]]}

\* The values of a function add up to the number of their units.
LEMMA SumCountsUnits ==
    ASSUME NEW C, IsFiniteSet(C), NEW m \in Nat, NEW f \in [C -> 0..m]
    PROVE  SumFunction(f) = Cardinality(Units(f, C, m))
  <1> DEFINE Choice(T) == CHOOSE x \in T : TRUE
             Defines(u) == u = [T \in SUBSET C |->
                                  IF T = {} THEN 0 ELSE f[Choice(T)] + u[T \ {Choice(T)}]]
             iter == CHOOSE u : Defines(u)
             g == [T \in SUBSET C |-> Cardinality(Units(f, T, m))]
  <1>1. SumFunction(f) = iter[C]
    BY Zenon DEF SumFunction, SumFunctionOnSet, FoldFunctionOnSet, MapThenFoldSet
  <1>2. \A T \in SUBSET C : IsFiniteSet(T) /\ IsFiniteSet(Units(f, T, m))
    <2> TAKE T \in SUBSET C
    <2>1. IsFiniteSet(T) /\ IsFiniteSet(0..m)
      BY FS_Subset, FS_Interval
    <2>2. IsFiniteSet(T \X (0..m))
      BY Zenon, <2>1, FS_Product
    <2>3. Units(f, T, m) \in SUBSET (T \X (0..m))
      BY DEF Units
    <2> QED BY <2>1, <2>2, <2>3, FS_Subset
  <1>3. g[{}] = 0
    <2>1. Units(f, {}, m) = {}
      BY DEF Units
    <2> QED BY <2>1, FS_EmptySet
  <1>4. ASSUME NEW T \in SUBSET C, T # {}
        PROVE  /\ Choice(T) \in T /\ T \ {Choice(T)} \in SUBSET C
               /\ g[T] = f[Choice(T)] + g[T \ {Choice(T)}]
    <2>1. Choice(T) \in T
      BY <1>4
    <2> HIDE DEF Choice
    <2> DEFINE x == Choice(T)
               A == Units(f, T \ {x}, m)
               B == {x} \X (0..(f[x] - 1))
    <2>2. x \in C /\ f[x] \in 0..m /\ T \ {x} \in SUBSET C /\ x \in T
      BY <2>1
    <2> HIDE DEF x
    <2>3. Units(f, T, m) = A \cup B
      <3>1. ASSUME NEW p \in Units(f, T, m) PROVE p \in A \cup B
        <4>1. p \in T \X (0..m) /\ p[2] < f[p[1]]
          BY DEF Units
        <4>2. CASE p[1] = x
          BY <2>2, <4>1, <4>2
        <4>3. CASE p[1] # x
          BY <4>1, <4>3 DEF Units
        <4> QED BY <4>2, <4>3
      <3>2. ASSUME NEW p \in A PROVE p \in Units(f, T, m)
        BY DEF Units
      <3>3. ASSUME NEW p \in B PROVE p \in Units(f, T, m)
        BY <2>2 DEF Units
      <3> QED BY <3>1, <3>2, <3>3
    <2>4. A \cap B = {}
      BY DEF Units
    <2>5. IsFiniteSet(B) /\ Cardinality(B) = f[x]
      <3>1. IsFiniteSet(0..(f[x] - 1)) /\ Cardinality(0..(f[x] - 1)) = f[x]
        <4>1. \A b \in Int : /\ IsFiniteSet(0..b)
                             /\ Cardinality(0..b) = IF 0 > b THEN 0 ELSE b - 0 + 1
          BY FS_Interval
        <4>2. f[x] - 1 \in Int /\ f[x] \in Nat
          BY <2>2
        <4>3. Cardinality(0..(f[x] - 1)) = IF 0 > f[x] - 1 THEN 0 ELSE (f[x] - 1) - 0 + 1
          BY Zenon, <4>1, <4>2
        <4>4. (IF 0 > f[x] - 1 THEN 0 ELSE (f[x] - 1) - 0 + 1) = f[x]
          BY <4>2
        <4> QED BY <4>1, <4>2, <4>3, <4>4
      <3>2. IsFiniteSet({x}) /\ Cardinality({x}) = 1
        BY Zenon, FS_Singleton
      <3>3. IsFiniteSet(B) /\ Cardinality(B) = 1 * f[x]
        BY ZenonT(60), <3>1, <3>2, FS_Product
      <3> QED BY <2>2, <3>3
    <2>6. IsFiniteSet(A) /\ Cardinality(A) \in Nat /\ Cardinality(A) = g[T \ {x}]
      BY <1>2, <2>2, FS_CardinalityType
    <2>7. Cardinality(A \cup B) = Cardinality(A) + Cardinality(B) - Cardinality(A \cap B)
      BY Zenon, <2>5, <2>6, FS_Union
    <2>8. Cardinality(A \cap B) = 0
      BY Zenon, <2>4, FS_EmptySet
    <2>9. g[T] = Cardinality(A \cup B)
      BY Zenon, <2>3
    <2> HIDE DEF A, B, g
    <2>10. g[T] = f[x] + g[T \ {x}]
      BY <2>2, <2>5, <2>6, <2>7, <2>8, <2>9
    <2> QED BY <2>1, <2>2, <2>10 DEF x
  <1>5. Defines(g)
    <2>1. \A T \in SUBSET C : g[T] = IF T = {} THEN 0 ELSE f[Choice(T)] + g[T \ {Choice(T)}]
      <3> HIDE DEF Choice, g
      <3> QED BY Zenon, <1>3, <1>4
    <2>2. g = [T \in SUBSET C |-> g[T]]
      OBVIOUS
    <2> HIDE DEF g, Choice
    <2> QED BY Zenon, <2>1, <2>2
  <1>6. Defines(iter)
    <2> HIDE DEF g
    <2> QED BY <1>5, ZenonT(60)
  <1> HIDE DEF iter
  <1>7. \A T \in SUBSET C : iter[T] = IF T = {} THEN 0 ELSE f[Choice(T)] + iter[T \ {Choice(T)}]
    <2> HIDE DEF Choice
    <2> QED BY Zenon, <1>6
  <1> HIDE DEF Defines
  <1> DEFINE Bad == {T \in SUBSET C : iter[T] # g[T]}
             Lengths == {Cardinality(T) : T \in Bad}
  <1>8. Bad = {}
    <2> SUFFICES ASSUME Bad # {} PROVE FALSE
      OBVIOUS
    <2>1. \A T \in SUBSET C : Cardinality(T) \in Nat
      BY <1>2, FS_CardinalityType
    <2>2. Lengths \subseteq Nat /\ Lengths # {}
      <3> HIDE DEF g
      <3> QED BY <2>1
    <2> HIDE DEF g
    <2>3. PICK k \in Lengths : \A l \in Lengths : k <= l
      <3> HIDE DEF Lengths
      <3> QED BY <2>2, LeastNatural
    <2>4. PICK T \in Bad : \A U \in Bad : Cardinality(T) <= Cardinality(U)
      BY <2>3
    <2>5. T \in SUBSET C /\ iter[T] # g[T] /\ T # {}
      BY Zenon, <1>3, <1>7, <2>4
    <2> DEFINE U == T \ {Choice(T)}
    <2>6. U \in SUBSET C /\ g[T] = f[Choice(T)] + g[U] /\ Choice(T) \in T
      BY <1>4, <2>5
    <2>7. iter[T] = f[Choice(T)] + iter[U]
      BY <1>7, <2>5
    <2>8. U \in Bad
      <3> HIDE DEF Choice, U
      <3> QED BY <2>5, <2>6, <2>7
    <2>9. Cardinality(U) = Cardinality(T) - 1
      <3> HIDE DEF Choice
      <3> QED BY Zenon, <1>2, <2>5, <2>6, FS_RemoveElement
    <2> HIDE DEF U
    <2> QED BY <2>1, <2>4, <2>5, <2>6, <2>8, <2>9
  <1>9. iter[C] = g[C]
    BY Zenon, <1>8
  <1> QED
    BY <1>1, <1>9

\* Counts of zero, as ci_sub() begins with, add up to zero.
LEMMA SumOfZeros ==
    ASSUME NEW C, IsFiniteSet(C), NEW f, f = [c \in C |-> 0]
    PROVE  SumFunction(f) = 0
  <1>1. f \in [C -> 0..0] /\ 0 \in Nat
    OBVIOUS
  <1>2. Units(f, C, 0) = {}
    BY DEF Units
  <1> QED
    BY <1>1, <1>2, SumCountsUnits, FS_EmptySet

\* One worker's increment is one more in the sum that sizes the result.
LEMMA SumOfOneMore ==
    ASSUME NEW C, IsFiniteSet(C), NEW m \in Nat, NEW f \in [C -> 0..m], NEW w \in C
    PROVE  SumFunction([f EXCEPT ![w] = @ + 1]) = SumFunction(f) + 1
  <1> DEFINE h == [f EXCEPT ![w] = @ + 1]
             p == <<w, f[w]>>
  <1>1. /\ m + 1 \in Nat /\ f \in [C -> 0..(m + 1)] /\ h \in [C -> 0..(m + 1)]
        /\ f[w] \in 0..m /\ h[w] = f[w] + 1 /\ \A c \in C : c # w => h[c] = f[c]
    OBVIOUS
  <1> HIDE DEF h
  <1>2. Units(h, C, m + 1) = Units(f, C, m + 1) \cup {p}
    <2>1. ASSUME NEW q \in Units(h, C, m + 1) PROVE q \in Units(f, C, m + 1) \cup {p}
      <3>1. q \in C \X (0..(m + 1)) /\ q[2] < h[q[1]] /\ q = <<q[1], q[2]>>
        BY DEF Units
      <3>2. CASE q[1] = w /\ q[2] = f[w]
        BY <3>1, <3>2
      <3>3. CASE q[1] = w /\ q[2] # f[w]
        BY <1>1, <3>1, <3>3 DEF Units
      <3>4. CASE q[1] # w
        BY <1>1, <3>1, <3>4 DEF Units
      <3> QED BY <3>2, <3>3, <3>4
    <2>2. ASSUME NEW q \in Units(f, C, m + 1) PROVE q \in Units(h, C, m + 1)
      <3>1. q \in C \X (0..(m + 1)) /\ q[2] < f[q[1]] /\ q[2] \in Int /\ f[q[1]] \in Int
        BY <1>1 DEF Units
      <3>2. q[2] < h[q[1]]
        BY <1>1, <3>1
      <3> QED BY <3>1, <3>2 DEF Units
    <2>3. p \in Units(h, C, m + 1)
      BY <1>1 DEF Units
    <2> QED BY <2>1, <2>2, <2>3
  <1>3. p \notin Units(f, C, m + 1)
    BY <1>1 DEF Units
  <1>4. IsFiniteSet(Units(f, C, m + 1))
    <2>1. IsFiniteSet(0..(m + 1))
      BY <1>1, FS_Interval
    <2>2. IsFiniteSet(C \X (0..(m + 1)))
      BY Zenon, <2>1, FS_Product
    <2>3. Units(f, C, m + 1) \in SUBSET (C \X (0..(m + 1)))
      BY DEF Units
    <2> QED BY <2>2, <2>3, FS_Subset
  <1>5. SumFunction(f) = Cardinality(Units(f, C, m + 1)) /\ SumFunction(h) = Cardinality(Units(h, C, m + 1))
    BY <1>1, SumCountsUnits
  <1>6. Cardinality(Units(f, C, m + 1) \cup {p}) = Cardinality(Units(f, C, m + 1)) + 1
    BY Zenon, <1>3, <1>4, FS_AddElement
  <1> QED
    BY Zenon, <1>2, <1>5, <1>6 DEF h

\* Division with a remainder.
LEMMA Remainder ==
    ASSUME NEW a \in Nat, NEW b \in Nat \ {0}
    PROVE  /\ a \div b \in Nat
           /\ a % b \in 0..(b - 1)
           /\ a = b * (a \div b) + (a % b)
  BY SMT

\* The quotient and the remainder are the only ones.
LEMMA RemainderIsUnique ==
    ASSUME NEW s \in Nat \ {0}, NEW p \in Int, NEW q \in Int,
           NEW r \in 0..(s - 1), NEW t \in 0..(s - 1), s * p + r = s * q + t
    PROVE  p = q /\ r = t
  <1>1. ASSUME NEW x \in Int, x >= 1 PROVE s * x >= s
    BY <1>1
  <1>2. s * (p - q) = t - r /\ s * (q - p) = r - t
    OBVIOUS
  <1>3. ~(p - q >= 1)
    BY <1>1, <1>2
  <1>4. ~(q - p >= 1)
    BY <1>1, <1>2
  <1>5. p = q
    BY <1>3, <1>4
  <1> QED
    BY <1>5

\* A quotient and a remainder in range are what division returns.
LEMMA ResidueOf ==
    ASSUME NEW a \in Nat, NEW s \in Nat \ {0}, NEW q \in Int, NEW r \in 0..(s - 1), a = s * q + r
    PROVE  a % s = r /\ a \div s = q
  <1>1. a \div s \in Nat /\ a % s \in 0..(s - 1) /\ a = s * (a \div s) + (a % s)
    BY Zenon, Remainder
  <1> DEFINE p == a \div s
             t == a % s
  <1>2. p \in Int /\ t \in 0..(s - 1) /\ s * p + t = s * q + r
    BY <1>1
  <1> HIDE DEF p, t
  <1>3. p = q /\ t = r
    BY <1>2, RemainderIsUnique
  <1> QED
    BY <1>3 DEF p, t

\* Two numbers of one residue are at least s apart.
LEMMA ResiduesAreApart ==
    ASSUME NEW i \in Nat, NEW j \in Nat, NEW s \in Nat \ {0}, i % s = j % s, i < j
    PROVE  i + s <= j
  <1> DEFINE p == i \div s
             q == j \div s
             r == i % s
  <1>1. p \in Nat /\ q \in Nat /\ r \in 0..(s - 1) /\ i = s * p + r /\ j = s * q + r
    BY Zenon, Remainder
  <1> HIDE DEF p, q, r
  <1>2. s * (q - p) = j - i
    BY <1>1
  <1>3. q - p >= 1
    <2> SUFFICES ASSUME q - p <= 0 PROVE FALSE
      BY <1>1
    <2>1. s * (q - p) <= 0
      BY <1>1
    <2> QED BY <1>2, <2>1
  <1>4. s * (q - p) >= s
    BY <1>1, <1>3
  <1> QED
    BY <1>2, <1>4

\* No row is before row 0 or before itself.
LEMMA OrderIsStrict ==
    ASSUME NEW s \in Nat \ {0}, NEW i \in Nat
    PROVE  /\ ~(i % s < 0 % s) /\ ~(i < 0)
           /\ ~(i % s < i % s) /\ ~(i < i)
  <1>1. i % s \in Nat
    <2>1. i % s \in 0..(s - 1)
      BY Remainder
    <2> QED BY <2>1
  <1>2. 0 = s * 0 + 0 /\ 0 \in 0..(s - 1) /\ 0 \in Nat /\ 0 \in Int
    OBVIOUS
  <1>3. 0 % s = 0
    BY <1>2, ResidueOf
  <1> QED
    BY <1>1, <1>3

\* The order of the second pass over a source of s rows.
Precedes(i, j, s) == i % s < j % s \/ (i % s = j % s /\ i < j)

\* recycled_order_next() steps through the rows source by source: the rows
\* before its answer are those before the row it was given, and that row.
LEMMA NextVisits ==
    ASSUME NEW n \in Nat \ {0}, NEW s \in 1..n, NEW at \in 0..(n - 1), NEW i \in 0..(n - 1),
           NEW next, next = recycled_order_next(at, s, n)
    PROVE  /\ next \in 0..n
           /\ next >= n \/ Precedes(i, next, s) <=> Precedes(i, at, s) \/ i = at
  <1> DEFINE c == at % s
             d == at \div s
             q == n \div s
             r == n % s
             e == i % s
  <1>1. s \in Nat \ {0} /\ at \in Nat /\ i \in Nat /\ n \in Nat
    OBVIOUS
  <1>2. /\ c \in 0..(s - 1) /\ d \in Nat /\ at = s * d + c
        /\ r \in 0..(s - 1) /\ q \in Nat /\ n = s * q + r
        /\ e \in 0..(s - 1) /\ e <= i
    <2>1. c \in 0..(s - 1) /\ d \in Nat /\ at = s * d + c
      BY Zenon, <1>1, Remainder
    <2>2. r \in 0..(s - 1) /\ q \in Nat /\ n = s * q + r
      BY <1>1, Remainder
    <2> DEFINE k == i \div s
    <2>3. e \in 0..(s - 1) /\ k \in Nat /\ i = s * k + e
      BY Zenon, <1>1, Remainder
    <2> HIDE DEF e, k
    <2>4. s * k >= 0
      BY <1>1, <2>3
    <2>5. e <= i
      BY <1>1, <2>3, <2>4
    <2> QED BY <2>1, <2>2, <2>3, <2>5
  <1>3. e = c /\ i < at => i + s <= at
    BY Zenon, <1>1, ResiduesAreApart
  <1>4. e = c /\ at < i => at + s <= i
    BY Zenon, <1>1, ResiduesAreApart
  <1>5. i = at => e = c
    OBVIOUS
  <1>6. at = n - 1 - r <=> c = s - 1 /\ at + s >= n
    <2>1. ASSUME at = n - 1 - r PROVE c = s - 1 /\ at + s >= n
      <3>1. at = s * (q - 1) + (s - 1) /\ q - 1 \in Int /\ s - 1 \in 0..(s - 1)
        <4> HIDE DEF q, r, c, d
        <4> QED BY <1>1, <1>2, <2>1
      <3>2. c = s - 1
        BY Zenon, <1>1, <3>1, ResidueOf
      <3> HIDE DEF q, r, c, d
      <3> QED BY <1>1, <1>2, <2>1, <3>2
    <2>2. ASSUME c = s - 1, at + s >= n PROVE at = n - 1 - r
      <3> HIDE DEF q, r, c, d, e
      <3>1. s * (d + 1) = at + 1
        BY <1>1, <1>2, <2>2
      <3>2. ~(d + 1 > q)
        <4>1. ASSUME d + 1 >= q + 1 PROVE FALSE
          <5>1. s * (d + 1) >= s * (q + 1)
            BY <1>1, <1>2, <4>1
          <5>2. s * (q + 1) = s * q + s
            BY <1>1, <1>2
          <5> QED BY <1>1, <1>2, <3>1, <5>1, <5>2
        <4> QED BY <1>2, <4>1
      <3>3. ~(d + 1 < q)
        <4>1. ASSUME d + 2 <= q PROVE FALSE
          <5>1. s * (d + 2) <= s * q
            BY <1>1, <1>2, <4>1
          <5>2. s * (d + 2) = s * (d + 1) + s
            BY <1>1, <1>2
          <5> QED BY <1>1, <1>2, <2>2, <3>1, <5>1, <5>2
        <4> QED BY <1>2, <4>1
      <3>4. d + 1 = q
        BY <1>2, <3>2, <3>3
      <3> QED BY <1>1, <1>2, <3>1, <3>4
    <2> QED BY <2>1, <2>2
  <1>7. CASE at = n - 1 - r
    <2>1. next = n
      BY <1>7 DEF recycled_order_next
    <2>2. c = s - 1 /\ at + s >= n
      BY <1>6, <1>7
    <2> HIDE DEF q, r, c, d, e
    <2>3. e < c \/ (e = c /\ i < at) \/ i = at
      BY <1>1, <1>2, <1>4, <2>2
    <2> QED BY <1>1, <2>1, <2>3 DEF c, e, Precedes
  <1>8. CASE at # n - 1 - r /\ s >= n - at
    <2>1. next = c + 1
      BY <1>1, <1>8 DEF recycled_order_next
    <2>2. c # s - 1
      BY <1>1, <1>6, <1>8
    <2>3. c + 1 \in 0..(s - 1) /\ c + 1 \in Nat /\ c + 1 = s * 0 + (c + 1)
      <3> HIDE DEF c, d, q, r, e
      <3> QED BY <1>1, <1>2, <2>2
    <2>4. (c + 1) % s = c + 1
      BY <1>1, <2>3, ResidueOf
    <2>5. next % s = c + 1
      BY <2>1, <2>4
    <2> HIDE DEF q, r, c, d, e
    <2>6. (next >= n \/ e < c + 1 \/ (e = c + 1 /\ i < next)) <=> (e < c \/ (e = c /\ i < at) \/ i = at)
      BY <1>1, <1>2, <1>4, <1>5, <1>8, <2>1, <2>3
    <2>7. next \in 0..n
      BY <1>1, <2>1, <2>3
    <2> QED BY <2>5, <2>6, <2>7 DEF c, e, Precedes
  <1>9. CASE at # n - 1 - r /\ ~(s >= n - at)
    <2>1. next = at + s
      BY <1>1, <1>9 DEF recycled_order_next
    <2>2. at + s = s * (d + 1) + c /\ at + s \in Nat /\ d + 1 \in Int /\ c \in 0..(s - 1)
      <3> HIDE DEF q, r, c, d, e
      <3> QED BY <1>1, <1>2
    <2>3. (at + s) % s = c
      <3> HIDE DEF c, d
      <3> QED BY <1>1, <2>2, ResidueOf
    <2>4. next % s = c
      BY <2>1, <2>3
    <2> HIDE DEF q, r, c, d, e
    <2>5. (next >= n \/ e < c \/ (e = c /\ i < next)) <=> (e < c \/ (e = c /\ i < at) \/ i = at)
      BY <1>1, <1>2, <1>4, <1>5, <1>9, <2>1
    <2>6. next \in 0..n
      BY <1>1, <1>9, <2>1
    <2> QED BY <2>4, <2>5, <2>6 DEF c, e, Precedes
  <1> QED
    BY <1>7, <1>8, <1>9

\* The length of the result is that of the longest argument, and no text is
\* behind it.
LEMMA LengthOfResult ==
    ASSUME IsCall(call)
    PROVE  /\ vectorize_len \in Nat
           /\ vectorize_len # 0 => Len(call.texts) \in 1..vectorize_len
  <1> DEFINE a == Len(call.texts)
             b == Len(call.from)
             c == Len(call.endpoint)
             lengths == <<a, b, c>>
             values == {lengths[k] : k \in DOMAIN lengths}
  <1>1. a \in Nat /\ b \in Nat /\ c \in Nat
    BY DEF IsCall
  <1> HIDE DEF a, b, c
  <1>2. DOMAIN lengths = {1, 2, 3} /\ lengths[1] = a /\ lengths[2] = b /\ lengths[3] = c
    OBVIOUS
  <1>3. vectorize_len = recycling_length(lengths)
    BY DEF vectorize_len, a, b, c
  <1> HIDE DEF lengths
  <1>4. CASE \E k \in DOMAIN lengths : lengths[k] <= 0
    BY <1>3, <1>4 DEF recycling_length
  <1>5. CASE ~\E k \in DOMAIN lengths : lengths[k] <= 0
    <2>1. \E m \in values : \A k \in DOMAIN lengths : lengths[k] <= m
      <3>1. a \in values /\ b \in values /\ c \in values
        BY <1>2
      <3>2. CASE b <= a /\ c <= a
        BY <1>1, <1>2, <3>1, <3>2
      <3>3. CASE a <= b /\ c <= b
        BY <1>1, <1>2, <3>1, <3>3
      <3>4. CASE a <= c /\ b <= c
        BY <1>1, <1>2, <3>1, <3>4
      <3> QED BY <1>1, <3>2, <3>3, <3>4
    <2>2. vectorize_len = CHOOSE m \in values : \A k \in DOMAIN lengths : lengths[k] <= m
      BY <1>3, <1>5 DEF recycling_length
    <2>3. vectorize_len \in values /\ \A k \in DOMAIN lengths : lengths[k] <= vectorize_len
      BY <2>1, <2>2
    <2>4. vectorize_len \in Nat
      BY <1>1, <1>2, <2>3
    <2>5. 1 <= a /\ a <= vectorize_len
      BY <1>1, <1>2, <1>5, <2>3
    <2> QED BY <1>1, <2>4, <2>5 DEF a
  <1> QED
    BY <1>4, <1>5

\* Rows and the sets of rows are finite.
LEMMA RowsAreFinite ==
    ASSUME IsCall(call)
    PROVE  /\ IsFiniteSet(Rows) /\ Cardinality(Rows) = vectorize_len
           /\ IsFiniteSet(Counted) /\ Cardinality(Counted) \in Nat
  <1>1. vectorize_len \in Nat
    BY LengthOfResult
  <1>2. \A e \in Int : /\ IsFiniteSet(0..e)
                       /\ Cardinality(0..e) = IF 0 > e THEN 0 ELSE e - 0 + 1
    BY FS_Interval
  <1>3. vectorize_len - 1 \in Int
    BY <1>1
  <1>4. IsFiniteSet(Rows) /\ Cardinality(Rows) = vectorize_len
    <2>1. Cardinality(Rows) = IF 0 > vectorize_len - 1 THEN 0 ELSE (vectorize_len - 1) - 0 + 1
      BY <1>2, <1>3 DEF Rows
    <2>2. Cardinality(Rows) = vectorize_len
      BY <1>1, <2>1
    <2> QED BY <1>2, <1>3, <2>2 DEF Rows
  <1>5. Counted \in SUBSET Rows
    BY DEF Counted
  <1> QED
    BY <1>4, <1>5, FS_Subset, FS_CardinalityType

\* The inductive invariant of the two passes.
PassInv == WindowInv /\ crew \subseteq Workers /\ FilterInv

\* No row is counted, none is kept, when a call begins.
LEMMA PassInvInit ==
    ASSUME Init, WindowInv
    PROVE  PassInv
  <1>1. /\ crew \subseteq Workers /\ pc = "extract" /\ index = 0 /\ kept = <<>>
        /\ out = [i \in Rows |-> NoRecord] /\ negatives = [w \in crew |-> 0]
    BY DEF Init
  <1>2. IsCall(call) /\ vectorize_len \in Nat
    BY LengthOfResult DEF WindowInv
  <1>3. Counted = {}
    BY <1>1 DEF Counted
  <1>4. Cardinality(Counted) = 0
    BY <1>3, FS_EmptySet
  <1>5. IsFiniteSet(crew)
    BY <1>1, WorkersAssumption, FS_Subset
  <1>6. SumFunction(negatives) = 0
    BY <1>1, <1>5, SumOfZeros
  <1>7. CountingInv
    BY <1>1, <1>4, <1>6 DEF CountingInv, negative_lengths
  <1>8. OrderInv
    BY <1>1, <1>2 DEF OrderInv
  <1> QED
    BY <1>1, <1>7, <1>8 DEF PassInv, FilterInv

\* What no step of a call changes.
LEMMA CallStays ==
    ASSUME call' = call
    PROVE  /\ Rows' = Rows /\ vectorize_len' = vectorize_len
           /\ \A i : (Text(i))' = Text(i) /\ (From(i))' = From(i) /\ (Endpoint(i))' = Endpoint(i)
           /\ \A i : Dropped(i)' = Dropped(i)
           /\ \A i, j : Before(i, j)' = Before(i, j)
           /\ \A i : counts_negative(Text(i), From(i), Endpoint(i))'
                       = counts_negative(Text(i), From(i), Endpoint(i))
  BY DEF Rows, vectorize_len, Text, From, Endpoint, At, Dropped, is_missing, Before, counts_negative

\* A worker's row is counted if its length is negative, by that worker and once.
LEMMA ExtractKeepsCounts ==
    ASSUME PassInv, NEW w \in crew, NEW i \in Rows, Extract(w, i)
    PROVE  CountingInv'
  <1> DEFINE counts == counts_negative(Text(i), From(i), Endpoint(i))
             record == extract_one(Text(i), From(i), Endpoint(i))
             m == Cardinality(Counted)
  <1>1. /\ call' = call /\ crew' = crew /\ out[i] = NoRecord
        /\ out' = [out EXCEPT ![i] = record]
        /\ negatives' = [negatives EXCEPT ![w] = @ + IF counts THEN 1 ELSE 0]
    BY Zenon DEF Extract
  <1>2. /\ DOMAIN out = Rows /\ IsCall(call) /\ IsFiniteSet(crew)
        /\ negatives \in [crew -> 0..m]
        /\ negative_lengths = m
    <2>1. IsFiniteSet(crew)
      BY WorkersAssumption, FS_Subset DEF PassInv
    <2> QED BY <2>1, Zenon DEF PassInv, WindowInv, FilterInv, CountingInv
  <1>3. IsFiniteSet(Counted) /\ m \in Nat
    BY <1>2, RowsAreFinite
  <1>4. record # NoRecord
    BY DEF extract_one, Missing, Empty, Window, NoRecord
  <1> HIDE DEF record
  <1>5. out'[i] = record /\ \A j \in Rows : j # i => out'[j] = out[j]
    BY <1>1, <1>2
  <1>6. Counted' = {j \in Rows : out'[j] # NoRecord /\ counts_negative(Text(j), From(j), Endpoint(j))}
    BY <1>1, CallStays DEF Counted
  <1>7. Counted' = IF counts THEN Counted \cup {i} ELSE Counted
    BY <1>1, <1>4, <1>5, <1>6 DEF Counted
  <1>8. i \notin Counted
    BY <1>1 DEF Counted
  <1>9. CASE counts
    <2>1. negatives' = [negatives EXCEPT ![w] = @ + 1] /\ Counted' = Counted \cup {i}
      BY <1>1, <1>7, <1>9
    <2>2. Cardinality(Counted') = m + 1
      <3>1. Cardinality(Counted \cup {i}) = Cardinality(Counted) + 1
        BY Zenon, <1>3, <1>8, FS_AddElement
      <3> QED BY <2>1, <3>1
    <2>3. SumFunction(negatives') = SumFunction(negatives) + 1
      <3> HIDE DEF m
      <3> QED BY Zenon, <1>2, <1>3, <2>1, SumOfOneMore
    <2> HIDE DEF m
    <2>4. negatives' \in [crew -> 0..(m + 1)]
      BY <1>2, <1>3, <2>1
    <2> QED BY <1>1, <1>2, <2>2, <2>3, <2>4 DEF CountingInv, negative_lengths
  <1>10. CASE ~counts
    <2>1. Counted' = Counted
      BY <1>7, <1>10
    <2>2. negatives' = negatives
      <3> HIDE DEF m, counts
      <3> QED BY <1>1, <1>2, <1>3, <1>10
    <2> QED BY Zenon, <1>1, <1>2, <2>1, <2>2 DEF CountingInv, negative_lengths
  <1> QED
    BY <1>9, <1>10

\* Nothing else depends on the rows while they are extracted.
LEMMA ExtractKeepsPass ==
    ASSUME PassInv, NEW w \in crew, NEW i \in Rows, Extract(w, i)
    PROVE  FilterInv'
  <1>1. /\ call' = call /\ pc = "extract" /\ pc' = "extract"
        /\ index' = index /\ kept' = kept
    BY Zenon DEF Extract
  <1>2. index = 0 /\ kept = <<>> /\ IsCall(call)
    BY <1>1 DEF PassInv, FilterInv, WindowInv
  <1>3. vectorize_len' \in Nat
    BY <1>1, <1>2, CallStays, LengthOfResult
  <1>4. OrderInv'
    BY <1>1, <1>2, <1>3 DEF OrderInv
  <1>5. CountingInv'
    BY ExtractKeepsCounts
  <1> QED
    BY <1>1, <1>2, <1>4, <1>5 DEF FilterInv

\* A step that leaves the records and the counts alone keeps what they say.
LEMMA CountsStay ==
    ASSUME UNCHANGED <<call, crew, out, negatives>>
    PROVE  /\ CountingInv => CountingInv'
           /\ Filtering' = Filtering /\ negative_lengths' = negative_lengths
  <1>1. call' = call /\ crew' = crew /\ out' = out /\ negatives' = negatives
    OBVIOUS
  <1>2. Counted' = Counted
    BY <1>1, CallStays DEF Counted
  <1> QED
    BY <1>1, <1>2, Zenon DEF CountingInv, negative_lengths, Filtering

\* The second pass begins at row 0, with nothing before it, and only when
\* there is something to drop.
LEMMA EndExtractKeepsPass ==
    ASSUME PassInv, EndExtract
    PROVE  FilterInv'
  <1>1. /\ call' = call /\ crew' = crew /\ out' = out /\ negatives' = negatives
        /\ kept' = kept /\ pc = "extract" /\ \A i \in Rows : out[i] # NoRecord
    BY DEF EndExtract
  <1>2. index = 0 /\ kept = <<>> /\ IsCall(call) /\ CountingInv
    BY <1>1 DEF PassInv, FilterInv, WindowInv
  <1>3. /\ index' = 0 /\ pc' \in {"filter", "done"}
        /\ pc' = "filter" <=> Filtering
    BY <1>2 DEF EndExtract, Filtering
  <1>4. CountingInv' /\ Filtering' = Filtering
    BY <1>1, <1>2, CountsStay
  <1>5. vectorize_len \in Nat /\ (vectorize_len # 0 => Len(call.texts) \in 1..vectorize_len)
    BY <1>2, LengthOfResult
  <1>6. vectorize_len' = vectorize_len /\ Rows' = Rows /\ Len(call'.texts) = Len(call.texts)
    BY <1>1, CallStays
  <1>7. ASSUME NEW i \in Rows PROVE ~Visited(i)'
    <2>1. i \in Nat /\ vectorize_len # 0 /\ i < vectorize_len
      BY <1>5 DEF Rows
    <2>2. Len(call.texts) \in Nat \ {0}
      BY <1>5, <2>1
    <2> DEFINE s == Len(call.texts)
    <2>3. ~(i % s < 0 % s) /\ ~(i < 0)
      <3> HIDE DEF s
      <3> QED BY Zenon, <2>1, <2>2, OrderIsStrict DEF s
    <2>5. ~Before(i, 0)
      BY <2>3, Zenon DEF Before
    <2>6. Visited(i)' <=> 0 >= vectorize_len \/ Before(i, 0)
      BY <1>1, <1>3, <1>6 DEF Visited, Before
    <2> QED BY <1>5, <2>1, <2>5, <2>6
  <1>8. OrderInv'
    BY <1>1, <1>2, <1>3, <1>5, <1>6, <1>7 DEF OrderInv
  <1>9. \A i \in Rows' : out'[i] # NoRecord
    BY <1>1, <1>6
  <1> QED
    BY <1>1, <1>2, <1>3, <1>4, <1>8, <1>9 DEF FilterInv

\* The second pass keeps a row that is not dropped, behind the ones before it.
LEMMA FilterKeepsOrder ==
    ASSUME PassInv, Filter
    PROVE  OrderInv'
  <1> DEFINE n == vectorize_len
             s == Len(call.texts)
             Held(q) == {q[k] : k \in DOMAIN q}
  <1>1. /\ call' = call /\ pc = "filter" /\ pc' = "filter" /\ index < n
        /\ kept' = IF Dropped(index) THEN kept ELSE Append(kept, index)
        /\ index' = next_row(index)
    BY DEF Filter, Dropped
  <1>2. /\ IsCall(call) /\ Filtering
        /\ index \in 0..n /\ kept \in Seq(Rows)
        /\ Held(kept) = {i \in Rows : ~Dropped(i) /\ Visited(i)}
        /\ \A j, k \in DOMAIN kept : j < k => Before(kept[j], kept[k])
    <2>1. WindowInv /\ OrderInv /\ Filtering
      BY <1>1 DEF PassInv, FilterInv
    <2> QED BY <1>1, <2>1 DEF OrderInv, WindowInv
  <1>3. n \in Nat \ {0} /\ s \in 1..n /\ index \in Rows /\ Rows = 0..(n - 1) /\ index \in 0..(n - 1)
    BY <1>1, <1>2, LengthOfResult DEF Rows
  <1>4. index' = recycled_order_next(index, s, n)
    BY <1>1 DEF next_row
  <1> HIDE DEF n, s
  <1>5. index' \in 0..n
    BY <1>3, <1>4, NextVisits
  <1>6. vectorize_len' = n /\ Rows' = Rows /\ Len(call'.texts) = s
    BY <1>1, CallStays DEF n, s
  <1>7. ASSUME NEW i \in Rows PROVE Visited(i)' <=> Visited(i) \/ i = index
    <2> DEFINE next == index'
    <2>1. i \in 0..(n - 1)
      BY <1>3
    <2>2. next >= n \/ Precedes(i, next, s) <=> Precedes(i, index, s) \/ i = index
      <3>1. n \in Nat \ {0} /\ s \in 1..n /\ index \in 0..(n - 1)
        BY <1>3
      <3>2. next = recycled_order_next(index, s, n)
        BY <1>4
      <3> HIDE DEF next
      <3> QED BY <2>1, <3>1, <3>2, NextVisits
    <2>3. Visited(i)' <=> next >= n \/ Precedes(i, next, s)
      BY <1>6 DEF Visited, Before, Precedes
    <2>4. Visited(i) <=> Precedes(i, index, s)
      <3>1. ~(index >= vectorize_len)
        BY <1>1, <1>3 DEF n
      <3>2. Visited(i) <=> Before(i, index)
        BY <3>1 DEF Visited
      <3> QED BY <3>2, Zenon DEF Before, Precedes, s
    <2> QED BY <2>2, <2>3, <2>4
  <1>8. /\ Dropped(index) => Held(kept') = Held(kept)
        /\ ~Dropped(index) => Held(kept') = Held(kept) \cup {index}
    <2>1. CASE Dropped(index)
      BY <1>1, <2>1
    <2>2. CASE ~Dropped(index)
      <3>1. kept' = Append(kept, index)
        BY <1>1, <2>2
      <3>2. /\ DOMAIN kept' = 1..(Len(kept) + 1) /\ DOMAIN kept = 1..Len(kept) /\ Len(kept) \in Nat
            /\ kept'[Len(kept) + 1] = index /\ \A k \in 1..Len(kept) : kept'[k] = kept[k]
        BY <1>2, <1>3, <3>1
      <3>3. ASSUME NEW v \in Held(kept') PROVE v \in Held(kept) \cup {index}
        BY <3>2
      <3>4. ASSUME NEW v \in Held(kept) \cup {index} PROVE v \in Held(kept')
        BY <3>2
      <3> QED BY <2>2, <3>3, <3>4
    <2> QED BY <2>1, <2>2
  <1> HIDE DEF Held
  <1>9. Held(kept') = {i \in Rows : ~Dropped(i) /\ Visited(i)'}
    BY <1>2, <1>3, <1>7, <1>8
  <1>10. kept' \in Seq(Rows)
    <2>1. Append(kept, index) \in Seq(Rows)
      <3>1. index \in Rows /\ kept \in Seq(Rows)
        BY <1>2, <1>3
      <3> QED BY <3>1
    <2>2. kept' = kept \/ kept' = Append(kept, index)
      BY <1>1
    <2> QED BY <1>2, <2>1, <2>2
  <1>11. \A j, k \in DOMAIN kept' : j < k => Before(kept'[j], kept'[k])
    <2>1. CASE Dropped(index)
      BY <1>1, <1>2, <2>1
    <2>2. CASE ~Dropped(index)
      <3>1. kept' = Append(kept, index)
        BY <1>1, <2>2
      <3>2. /\ DOMAIN kept' = 1..(Len(kept) + 1) /\ DOMAIN kept = 1..Len(kept) /\ Len(kept) \in Nat
            /\ kept'[Len(kept) + 1] = index /\ \A k \in 1..Len(kept) : kept'[k] = kept[k]
        BY <1>2, <1>3, <3>1
      <3>3. ASSUME NEW j \in 1..Len(kept) PROVE Before(kept[j], index)
        <4>1. kept[j] \in Held(kept)
          BY <3>2 DEF Held
        <4>2. Visited(kept[j])
          BY <1>2, <4>1
        <4> QED BY <1>1, <1>3, <4>2 DEF Visited, n
      <3> SUFFICES ASSUME NEW j \in DOMAIN kept', NEW k \in DOMAIN kept', j < k
                   PROVE  Before(kept'[j], kept'[k])
        OBVIOUS
      <3>4. CASE k = Len(kept) + 1
        BY <3>2, <3>3, <3>4
      <3>5. CASE k # Len(kept) + 1
        <4>1. k \in DOMAIN kept /\ j \in DOMAIN kept
          BY <3>2, <3>5
        <4> QED BY <1>2, <3>2, <4>1
      <3> QED BY <3>4, <3>5
    <2> QED BY <2>1, <2>2
  <1>12. /\ (\A i : Dropped(i)' = Dropped(i)) /\ \A i, j : Before(i, j)' = Before(i, j)
    BY <1>1, CallStays
  <1>13. Held(kept') = {i \in Rows' : ~Dropped(i)' /\ Visited(i)'}
    BY <1>6, <1>9, <1>12
  <1>14. \A j, k \in DOMAIN kept' : j < k => Before(kept[j], kept[k])'
    BY <1>1, <1>11 DEF Before
  <1> QED
    BY <1>5, <1>6, <1>10, <1>13, <1>14 DEF OrderInv, Held

\* One row of the second pass keeps the invariant.
LEMMA FilterKeepsPass ==
    ASSUME PassInv, Filter
    PROVE  FilterInv'
  <1>1. /\ call' = call /\ crew' = crew /\ out' = out /\ negatives' = negatives
        /\ pc = "filter" /\ pc' = "filter"
    BY DEF Filter
  <1>2. CountingInv /\ Filtering /\ \A i \in Rows : out[i] # NoRecord
    BY <1>1 DEF PassInv, FilterInv
  <1>3. CountingInv' /\ Filtering' /\ Rows' = Rows
    BY <1>1, <1>2, CountsStay, CallStays
  <1>4. OrderInv'
    BY FilterKeepsOrder
  <1> QED
    BY <1>1, <1>2, <1>3, <1>4 DEF FilterInv

\* The end of the second pass, and a step that changes nothing.
LEMMA OthersKeepPass ==
    ASSUME PassInv, UNCHANGED <<call, crew, out, negatives, index, kept>>,
           pc' = pc \/ (pc = "filter" /\ pc' = "done" /\ index >= vectorize_len)
    PROVE  FilterInv'
  <1>1. /\ call' = call /\ crew' = crew /\ out' = out /\ negatives' = negatives
        /\ index' = index /\ kept' = kept
    OBVIOUS
  <1>2. CountingInv /\ OrderInv /\ FilterInv
    BY DEF PassInv, FilterInv
  <1>3. /\ CountingInv' /\ Filtering' = Filtering /\ Rows' = Rows /\ vectorize_len' = vectorize_len
        /\ (\A i : Dropped(i)' = Dropped(i)) /\ \A i, j : Before(i, j)' = Before(i, j)
    BY <1>1, <1>2, CountsStay, CallStays
  <1>4. \A i : Visited(i)' = Visited(i)
    BY <1>1 DEF Visited, vectorize_len, Before
  <1>5. \A j, k \in DOMAIN kept' : Before(kept[j], kept[k])' = Before(kept[j], kept[k])
    BY <1>1 DEF Before
  <1>6. pc' # "extract" => pc # "extract"
    OBVIOUS
  <1>7. OrderInv'
    BY <1>1, <1>2, <1>3, <1>4, <1>5, <1>6 DEF OrderInv
  <1> QED
    BY <1>1, <1>2, <1>3, <1>7 DEF FilterInv

\* Rows kept in the recycled order are kept once: as many as are kept fit
\* behind the rows that the workers have counted.
LEMMA PassFillsExactly ==
    ASSUME PassInv
    PROVE  FilterFillsExactly
  <1> DEFINE n == vectorize_len
             Held == {kept[k] : k \in DOMAIN kept}
             Stays == {i \in Rows : ~Dropped(i)}
  <1>1. /\ IsCall(call) /\ FilterInv /\ CountingInv /\ OrderInv
    BY DEF PassInv, WindowInv, FilterInv
  <1>2. n \in Nat /\ IsFiniteSet(Rows) /\ Cardinality(Rows) = n /\ IsFiniteSet(Counted)
        /\ Cardinality(Counted) \in Nat /\ negative_lengths = Cardinality(Counted)
    BY <1>1, LengthOfResult, RowsAreFinite DEF CountingInv
  <1>3. /\ kept \in Seq(Rows) /\ Held \subseteq Stays
        /\ \A j, k \in DOMAIN kept : j < k => Before(kept[j], kept[k])
    BY <1>1 DEF OrderInv
  <1>4. Stays = {i \in Rows : Endpoint(i) < 0 => -1 = Text(i) \/ NA_INTEGER \in {From(i), Endpoint(i)}}
    BY DEF Dropped, is_missing
  <1>5. ASSUME pc # "extract", Filtering
        PROVE  /\ Len(kept) <= n - negative_lengths
               /\ Held = Stays => Len(kept) = n - negative_lengths
    <2>1. \A i \in Rows : out[i] # NoRecord
      BY <1>1, <1>5 DEF FilterInv
    <2>2. Counted # {}
      BY <1>2, <1>5, FS_EmptySet DEF Filtering
    <2>3. call.by_length
      BY <2>2 DEF Counted, counts_negative
    <2>4. Counted = {i \in Rows : Dropped(i)}
      BY <2>1, <2>3 DEF Counted, counts_negative, Dropped
    <2>5. Stays = Rows \ Counted /\ Rows \cap Counted = Counted
      BY <2>4
    <2> HIDE DEF Stays
    <2>6. IsFiniteSet(Stays) /\ Cardinality(Stays) = n - negative_lengths
      <3>1. /\ IsFiniteSet(Rows \ Counted)
            /\ Cardinality(Rows \ Counted) = Cardinality(Rows) - Cardinality(Rows \cap Counted)
        BY Zenon, <1>2, FS_Difference
      <3> HIDE DEF n
      <3> QED BY <1>2, <2>5, <3>1
    <2>7. Len(kept) \in Nat /\ DOMAIN kept = 1..Len(kept) /\ kept \in [1..Len(kept) -> Rows]
      BY <1>3
    <2>8. IsFiniteSet(1..Len(kept)) /\ Cardinality(1..Len(kept)) = Len(kept)
      <3>1. \A e \in Int : Cardinality(1..e) = (IF 1 > e THEN 0 ELSE e - 1 + 1) /\ IsFiniteSet(1..e)
        BY FS_Interval
      <3>2. Cardinality(1..Len(kept)) = IF 1 > Len(kept) THEN 0 ELSE Len(kept) - 1 + 1
        BY <2>7, <3>1
      <3>3. Cardinality(1..Len(kept)) = Len(kept)
        BY <2>7, <3>2
      <3> QED BY <2>7, <3>1, <3>3
    <2>9. ASSUME NEW j \in 1..Len(kept), NEW k \in 1..Len(kept), kept[j] = kept[k]
          PROVE  j = k
      <3>1. kept[j] \in Nat /\ kept[k] \in Nat
        BY <2>7 DEF Rows
      <3>2. ~Before(kept[j], kept[k]) /\ ~Before(kept[k], kept[j])
        <4>1. n # 0
          BY <1>2, <2>7 DEF Rows
        <4>2. Len(call.texts) \in Nat \ {0}
          BY <1>1, <4>1, LengthOfResult
        <4> DEFINE s == Len(call.texts)
                   x == kept[j]
        <4>3. ~(x % s < x % s) /\ ~(x < x)
          <5> HIDE DEF s, x
          <5> QED BY <3>1, <4>2, OrderIsStrict DEF s, x
        <4>4. ~Before(x, x)
          BY <4>3, Zenon DEF Before
        <4> QED BY <2>9, <4>4
      <3>3. ~(j < k) /\ ~(k < j)
        BY <1>3, <2>7, <3>2
      <3> QED BY <2>7, <3>3
    <2>10. kept \in [1..Len(kept) -> Stays]
      BY <1>3, <2>7
    <2>11. kept \in Injection(1..Len(kept), Stays)
      BY <2>9, <2>10 DEF Injection, IsInjective
    <2>12. Len(kept) <= n - negative_lengths
      BY <2>6, <2>8, <2>11, FS_Injection
    <2>13. ASSUME Held = Stays PROVE Len(kept) = n - negative_lengths
      <3>1. kept \in Surjection(1..Len(kept), Stays)
        BY <2>7, <2>10, <2>13 DEF Surjection
      <3> QED BY <2>6, <2>8, <2>11, <3>1, FS_Injection
    <2> QED BY <2>12, <2>13
  <1>6. kept # <<>> => Filtering /\ pc # "extract"
    BY <1>1 DEF FilterInv
  <1>7. ASSUME pc = "done", call.ignore_negative, negative_lengths > 0
        PROVE  Filtering /\ Held = Stays
    <2>1. Filtering
      BY <1>7 DEF Filtering
    <2>2. index >= vectorize_len
      BY <1>1, <1>7, <2>1 DEF FilterInv
    <2>3. {i \in Rows : ~Dropped(i) /\ Visited(i)} = Stays
      BY <2>2 DEF Visited
    <2> QED BY <1>1, <1>3, <1>7, <2>1, <2>3 DEF OrderInv
  <1>8. kept # <<>> => Len(kept) <= vectorize_len - negative_lengths
    BY <1>5, <1>6
  <1>9. ASSUME pc = "done", call.ignore_negative, negative_lengths > 0
        PROVE  Len(kept) = vectorize_len - negative_lengths /\ Held = Stays
    BY <1>5, <1>7, <1>9
  <1> HIDE DEF Held, Stays, n
  <1> QED
    BY <1>3, <1>4, <1>8, <1>9 DEF FilterFillsExactly, Before, Held

\* The second pass of ci_sub() fills the vector that the workers' counts have
\* sized, to its last element and never behind it: for every schedule of the
\* workers, every vector and every width of the ints.
THEOREM FilterIsExact == Spec => []FilterFillsExactly
  <1>1. Init => PassInv
    BY WindowInvInit, PassInvInit
  <1>2. PassInv /\ [Next]_vars => PassInv'
    <2> SUFFICES ASSUME PassInv, [Next]_vars PROVE PassInv'
      OBVIOUS
    <2>1. WindowInv'
      BY WindowInvNext DEF PassInv
    <2>2. crew' = crew
      BY DEF Next, Steps, Extract, EndExtract, Filter, EndFilter, vars
    <2>3. FilterInv'
      <3>1. CASE \E w \in crew, i \in Rows : Extract(w, i)
        BY <3>1, ExtractKeepsPass
      <3>2. CASE EndExtract
        BY <3>2, EndExtractKeepsPass
      <3>3. CASE Filter
        BY <3>3, FilterKeepsPass
      <3>4. CASE EndFilter
        BY <3>4, OthersKeepPass DEF EndFilter
      <3>5. CASE UNCHANGED vars
        BY <3>5, OthersKeepPass DEF vars
      <3> QED BY <3>1, <3>2, <3>3, <3>4, <3>5 DEF Next, Steps
    <2> QED BY <2>1, <2>2, <2>3 DEF PassInv
  <1>3. PassInv => FilterFillsExactly
    BY PassFillsExactly
  <1> QED
    BY <1>1, <1>2, <1>3, PTL DEF Spec

=============================================================================
