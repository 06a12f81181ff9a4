---------------------------- MODULE HelperProofs ----------------------------
(***************************************************************************)
(* The pure functions of ElbHelpers and Settings for every input: lists of *)
(* any length, any timeout, all annotations, any length at which names are *)
(* cut.  The invariants of HelperCases follow.                             *)
(*                                                                         *)
(* What a loop computes needs induction over the list.  Induction is       *)
(* proved here for sets of numbers, from the pigeonhole principle: the     *)
(* induction theorems of the library are about operators, which the        *)
(* provers cannot instantiate.                                             *)
(***************************************************************************)
EXTENDS HelperCases, FiniteSetTheorems, SequenceTheorems, TLAPS

\* If t were missing in P, n |-> n + 1 would take the elements of P up to t
\* into those without 0, one to one.
LEMMA Induction ==
    ASSUME NEW P \in SUBSET Nat, 0 \in P, \A n \in P : n + 1 \in P
    PROVE  P = Nat
<1> SUFFICES ASSUME NEW t \in Nat, t \notin P
             PROVE  FALSE
  OBVIOUS
<1> DEFINE L == {n \in P : n <= t}
           next == [n \in L |-> n + 1]
<1>1. IsFiniteSet(L)
  <2>1. IsFiniteSet(0 .. t)
    BY FS_Interval
  <2>2. \A n \in L : n \in Nat /\ n <= t
    OBVIOUS
  <2> HIDE DEF L
  <2>3. L \subseteq 0 .. t
    BY <2>2
  <2> QED BY <2>1, <2>3, FS_Subset
<1>2. /\ IsFiniteSet(L \ {0})
      /\ Cardinality(L \ {0}) = Cardinality(L) - 1
      /\ Cardinality(L) \in Nat
  <2>1. 0 \in L
    OBVIOUS
  <2> QED BY <1>1, <2>1, FS_RemoveElement, FS_CardinalityType
<1>3. next \in [L -> L \ {0}]
  <2> SUFFICES ASSUME NEW n \in L
               PROVE  n + 1 \in L \ {0}
    OBVIOUS
  <2>1. n # t /\ n \in Nat
    OBVIOUS
  <2> QED BY <2>1
<1>4. \E m, n \in L : m # n /\ next[m] = next[n]
  <2> HIDE DEF L, next
  <2> QED BY <1>1, <1>2, <1>3, FS_PigeonHole
<1> QED BY <1>4

\* A loop that starts with a and takes one step for each i has a value for each i.
IsStep(step, n, V) == \A i \in 1 .. n, v \in V : step[<<i, v>>] \in V
IsLoop(f, n, a, step) == f[0] = a /\ \A i \in 1 .. n : f[i] = step[<<i, f[i - 1]>>]

LEMMA Loop ==
    ASSUME NEW n \in Nat, NEW V, NEW a \in V, NEW step, IsStep(step, n, V)
    PROVE  \E f \in [0 .. n -> V] : IsLoop(f, n, a, step)
<1> DEFINE Solved(m) == \E f \in [0 .. m -> V] : IsLoop(f, m, a, step)
           P == {m \in Nat : m <= n => Solved(m)}
<1>1. Solved(0)
  <2> DEFINE f == [i \in 0 .. 0 |-> a]
  <2>1. f \in [0 .. 0 -> V] /\ IsLoop(f, 0, a, step)
    BY DEF IsLoop
  <2> QED BY <2>1
<1>2. ASSUME NEW m \in Nat, m + 1 <= n, Solved(m)
      PROVE  Solved(m + 1)
  <2>1. PICK f \in [0 .. m -> V] : IsLoop(f, m, a, step)
    BY <1>2
  <2>2. step[<<m + 1, f[m]>>] \in V
    BY <1>2 DEF IsStep
  <2> DEFINE g == [i \in 0 .. m + 1 |-> IF i = m + 1 THEN step[<<m + 1, f[m]>>] ELSE f[i]]
  <2>3. g \in [0 .. m + 1 -> V]
    <3> SUFFICES ASSUME NEW i \in 0 .. m + 1, i # m + 1
                 PROVE  f[i] \in V
      BY <2>2
    <3>1. i \in 0 .. m
      OBVIOUS
    <3> QED BY <3>1
  <2>4. ASSUME NEW i \in 1 .. m + 1
        PROVE  g[i] = step[<<i, g[i - 1]>>]
    <3>1. CASE i = m + 1
      <4>1. i - 1 = m /\ m # m + 1 /\ m \in 0 .. m + 1
        BY <3>1
      <4>2. g[i - 1] = f[m] /\ g[i] = step[<<m + 1, f[m]>>]
        BY <3>1, <4>1
      <4> HIDE DEF g
      <4> QED BY <3>1, <4>2
    <3>2. CASE i \in 1 .. m
      <4>1. g[i] = f[i] /\ g[i - 1] = f[i - 1]
        BY <3>2
      <4> QED BY <2>1, <3>2, <4>1 DEF IsLoop
    <3> QED BY <3>1, <3>2
  <2>5. g[0] = a
    BY <2>1 DEF IsLoop
  <2>6. IsLoop(g, m + 1, a, step)
    BY <2>4, <2>5 DEF IsLoop
  <2> QED BY <2>3, <2>6
<1> HIDE DEF Solved
<1>3. P = Nat
  <2>1. 0 \in P /\ \A m \in P : m + 1 \in P
    BY <1>1, <1>2
  <2> HIDE DEF P
  <2> QED BY <2>1, Induction DEF P
<1>4. Solved(n)
  BY <1>3
<1> QED BY <1>4 DEF Solved

\* Every set of numbers that is not empty has a least element, and Min is that.
LEMMA LeastNumber ==
    ASSUME NEW T \in SUBSET Nat, T # {}
    PROVE  Min(T) \in T /\ \A t \in T : Min(T) <= t
<1>1. \E m \in T : \A t \in T : m <= t
  <2> SUFFICES ASSUME \A m \in T : \E t \in T : ~(m <= t)
               PROVE  FALSE
    OBVIOUS
  <2> DEFINE P == {n \in Nat : \A t \in T : n < t}
  <2>1. 0 \in P
    <3>1. 0 \notin T
      OBVIOUS
    <3> QED BY <3>1
  <2>2. ASSUME NEW n \in P PROVE n + 1 \in P
    <3>1. n + 1 \notin T
      <4> SUFFICES ASSUME n + 1 \in T
                   PROVE  FALSE
        OBVIOUS
      <4>1. PICK t \in T : ~(n + 1 <= t)
        OBVIOUS
      <4> QED BY <4>1
    <3> QED BY <3>1
  <2> HIDE DEF P
  <2>3. P = Nat
    BY <2>1, <2>2, Induction DEF P
  <2>4. PICK t \in T : TRUE
    OBVIOUS
  <2> QED BY <2>3, <2>4 DEF P
<1> QED BY <1>1 DEF Min

-----------------------------------------------------------------------------
\* The loop of normalizeRanges.
LEMMA RangesLoop ==
    ASSUME NEW S, NEW ranges \in Seq(S)
    PROVE  \E out : /\ out[0] = <<>>
                    /\ \A i \in 1 .. Len(ranges) :
                          out[i] = IF ranges[i] = "" THEN out[i - 1] ELSE Append(out[i - 1], ranges[i])
                    /\ normalizeRanges(ranges) = out[Len(ranges)]
<1>1. /\ Len(ranges) \in Nat /\ <<>> \in Seq(S)
      /\ \A i \in 1 .. Len(ranges), v \in Seq(S) : Append(v, ranges[i]) \in Seq(S)
  OBVIOUS
<1> DEFINE n == Len(ranges)
           V == Seq(S)
           a == <<>>
           next(i, v) == IF ranges[i] = "" THEN v ELSE Append(v, ranges[i])
           step == [p \in (1 .. n) \X V |-> next(p[1], p[2])]
           Is(f) == f = [i \in 0 .. n |-> IF i = 0 THEN <<>>
                                          ELSE IF ranges[i] = "" THEN f[i - 1]
                                          ELSE Append(f[i - 1], ranges[i])]
<1>2. \A i \in 1 .. n, v \in V : next(i, v) \in V
  BY <1>1
<1>3. n \in Nat /\ a \in V
  BY <1>1
<1> HIDE DEF n, V, a, next
<1>4. IsStep(step, n, V) /\ \A i \in 1 .. n, v \in V : step[<<i, v>>] = next(i, v)
  BY <1>2 DEF IsStep
<1> HIDE DEF step
<1>5. PICK f \in [0 .. n -> V] : IsLoop(f, n, a, step)
  BY <1>3, <1>4, Loop
<1>6. ASSUME NEW i \in 1 .. n
      PROVE  f[i] = next(i, f[i - 1])
  <2>1. i - 1 \in 0 .. n
    BY <1>3
  <2>2. f[i - 1] \in V
    BY <2>1
  <2> QED BY <1>4, <1>5, <2>2 DEF IsLoop
<1>7. f[0] = <<>>
  BY <1>5 DEF IsLoop, a
<1>8. f = [i \in 0 .. n |-> IF i = 0 THEN <<>> ELSE next(i, f[i - 1])]
  BY <1>3, <1>6, <1>7
<1>9. Is(f)
  BY <1>8 DEF next
<1> DEFINE out == CHOOSE g : Is(g)
<1>10. Is(out) /\ normalizeRanges(ranges) = out[n]
  BY <1>9 DEF normalizeRanges, n
<1> HIDE DEF out
<1>11. \A i \in 0 .. n : out[i] = IF i = 0 THEN <<>> ELSE next(i, out[i - 1])
  <2> DEFINE body(i) == IF i = 0 THEN <<>> ELSE next(i, out[i - 1])
  <2>1. out = [i \in 0 .. n |-> body(i)]
    BY <1>10 DEF next
  <2> HIDE DEF body
  <2>2. \A i \in 0 .. n : out[i] = body(i)
    BY <2>1
  <2> QED BY <2>2 DEF body
<1>12. out[0] = <<>> /\ \A i \in 1 .. n : out[i] = next(i, out[i - 1])
  BY <1>3, <1>11
<1> QED BY <1>10, <1>12 DEF n, next

LEMMA AppendRange ==
    ASSUME NEW S, NEW s \in Seq(S), NEW e \in S
    PROVE  Range(Append(s, e)) = Range(s) \cup {e}
<1> DEFINE t == Append(s, e)
<1>1. /\ Len(s) \in Nat /\ DOMAIN s = 1 .. Len(s)
      /\ DOMAIN t = 1 .. Len(s) + 1
      /\ \A i \in 1 .. Len(s) : t[i] = s[i]
      /\ t[Len(s) + 1] = e
  OBVIOUS
<1> HIDE DEF t
<1>2. ASSUME NEW x \in Range(t) PROVE x \in Range(s) \cup {e}
  BY <1>1 DEF Range
<1>3. ASSUME NEW x \in Range(s) \cup {e} PROVE x \in Range(t)
  <2>1. CASE x = e
    <3>1. Len(s) + 1 \in DOMAIN t
      BY <1>1
    <3> QED BY <1>1, <2>1, <3>1 DEF Range
  <2>2. CASE x \in Range(s)
    <3>1. PICK i \in 1 .. Len(s) : x = s[i]
      BY <1>1, <2>2 DEF Range
    <3>2. i \in DOMAIN t /\ x = t[i]
      BY <1>1, <3>1
    <3> QED BY <3>2 DEF Range
  <2> QED BY <1>3, <2>1, <2>2
<1> QED BY <1>2, <1>3 DEF t

\* The blank ranges are gone, all others are there, in a list.
LEMMA NormalizedRanges ==
    ASSUME NEW S, NEW ranges \in Seq(S)
    PROVE  /\ normalizeRanges(ranges) \in Seq(S)
           /\ Range(normalizeRanges(ranges)) = Range(ranges) \ {""}
<1> DEFINE n == Len(ranges)
           upTo(i) == {ranges[j] : j \in 1 .. i} \ {""}
<1>1. PICK out : /\ out[0] = <<>>
                 /\ \A i \in 1 .. n : out[i] = IF ranges[i] = "" THEN out[i - 1]
                                               ELSE Append(out[i - 1], ranges[i])
                 /\ normalizeRanges(ranges) = out[n]
  BY RangesLoop
<1>2. n \in Nat
  OBVIOUS
<1>3. DOMAIN ranges = 1 .. n /\ \A i \in 1 .. n : ranges[i] \in S
  OBVIOUS
<1> HIDE DEF n
<1> DEFINE Right(i) == out[i] \in Seq(S) /\ Range(out[i]) = upTo(i)
           P == {i \in Nat : i <= n => Right(i)}
<1>5. Right(0)
  <2>1. <<>> \in Seq(S) /\ DOMAIN <<>> = {}
    OBVIOUS
  <2>2. Range(<<>>) = {} /\ upTo(0) = {}
    BY <2>1 DEF Range
  <2> QED BY <1>1, <2>1, <2>2
<1>6. ASSUME NEW i \in Nat, i + 1 <= n, Right(i)
      PROVE  Right(i + 1)
  <2>1. i + 1 \in 1 .. n /\ (i + 1) - 1 = i
    <3> HIDE DEF Right
    <3> QED BY <1>2, <1>6
  <2>2. out[i + 1] = IF ranges[i + 1] = "" THEN out[i] ELSE Append(out[i], ranges[i + 1])
    BY <1>1, <2>1
  <2>3. upTo(i + 1) = upTo(i) \cup ({ranges[i + 1]} \ {""})
    <3>1. 1 .. i + 1 = 1 .. i \cup {i + 1}
      OBVIOUS
    <3> QED BY <3>1
  <2>4. CASE ranges[i + 1] = ""
    BY <1>6, <2>2, <2>3, <2>4
  <2>5. CASE ranges[i + 1] # ""
    <3>1. out[i + 1] = Append(out[i], ranges[i + 1])
      BY <2>2, <2>5
    <3>2. ranges[i + 1] \in S
      BY <1>3, <2>1
    <3>3. out[i + 1] \in Seq(S) /\ Range(out[i + 1]) = Range(out[i]) \cup {ranges[i + 1]}
      <4> DEFINE s == out[i]
                 e == ranges[i + 1]
      <4>1. s \in Seq(S) /\ e \in S
        BY <1>6, <3>2
      <4> HIDE DEF s, e
      <4>2. Append(s, e) \in Seq(S) /\ Range(Append(s, e)) = Range(s) \cup {e}
        BY <4>1, AppendRange
      <4> QED BY <3>1, <4>2 DEF s, e
    <3> QED BY <1>6, <2>3, <2>5, <3>3
  <2> QED BY <2>4, <2>5
<1> HIDE DEF Right
<1>7. P = Nat
  <2>1. 0 \in P /\ \A i \in P : i + 1 \in P
    BY <1>2, <1>5, <1>6
  <2> HIDE DEF P
  <2> QED BY <2>1, Induction DEF P
<1>8. Right(n)
  BY <1>2, <1>7
<1>9. upTo(n) = Range(ranges) \ {""}
  BY <1>3 DEF Range
<1> QED BY <1>1, <1>8, <1>9 DEF Right

\* Lists have finitely many entries.
LEMMA RangeFinite ==
    ASSUME NEW S, NEW s \in Seq(S)
    PROVE  IsFiniteSet(Range(s)) /\ Cardinality(Range(s)) \in Nat
<1>1. IsFiniteSet(1 .. Len(s))
  BY FS_Interval
<1>2. s \in Surjection(1 .. Len(s), Range(s))
  BY DEF Surjection, Range
<1> QED BY <1>1, <1>2, FS_Surjection, FS_CardinalityType

\* ipListEqual on lists of any length that repeat nothing: the comparison of lengths
\* and one inclusion amount to the equality of sets (ipListEqual).
THEOREM ComparesSets ==
    ASSUME NEW S, NEW current \in Seq(S), NEW ranges \in Seq(S),
           Cardinality(Range(ranges)) = Len(ranges), Cardinality(Range(current)) = Len(current)
    PROVE  ipListEqual(current, ranges) <=> Range(current) = Range(ranges)
<1>1. /\ IsFiniteSet(Range(current)) /\ IsFiniteSet(Range(ranges))
      /\ Len(current) \in Nat /\ Len(ranges) \in Nat
  BY RangeFinite
<1>2. (\A i \in DOMAIN ranges : ranges[i] \in Range(current)) <=> Range(ranges) \subseteq Range(current)
  BY DEF Range
<1>3. ASSUME Len(current) = Len(ranges), Range(ranges) \subseteq Range(current)
      PROVE  Range(current) = Range(ranges)
  <2> DEFINE A == Range(ranges)
             B == Range(current)
  <2>1. IsFiniteSet(A) /\ IsFiniteSet(B) /\ A \subseteq B /\ Cardinality(A) = Cardinality(B)
    BY <1>1, <1>3
  <2> HIDE DEF A, B
  <2>2. A = B
    BY <2>1, FS_Subset
  <2> QED BY <2>2 DEF A, B
<1> QED BY <1>2, <1>3 DEF ipListEqual

-----------------------------------------------------------------------------
\* Lists of bounded length are lists.
LEMMA ListsAreLists ==
    ASSUME NEW S, NEW T, S \subseteq T, NEW s \in Lists(S)
    PROVE  s \in Seq(T)
BY DEF Lists

\* Whatever ranges a Service lists, with blanks or without, and whatever a group
\* holds: ipListEqual tells whether they are the same, if neither repeats an entry
\* (ipListEqual, normalizeRanges).
THEOREM ListsEqual == Spec => []ListsEqualAsSets
<1>1. Init => ListsEqualAsSets
  <2> SUFFICES ASSUME case = "ranges",
                      input \in [current : Lists(Entries), wanted : Lists(Entries \cup {""})],
                      Cardinality(Range(normalizeRanges(input.wanted))) = Len(normalizeRanges(input.wanted)),
                      Cardinality(Range(input.current)) = Len(input.current)
               PROVE  ipListEqual(input.current, normalizeRanges(input.wanted))
                        <=> Range(input.current) = Range(input.wanted) \ {""}
    BY DEF Init, ListsEqualAsSets
  <2> DEFINE S == Entries \cup {""}
             w == normalizeRanges(input.wanted)
  <2>1. input.current \in Lists(Entries) /\ input.wanted \in Lists(S)
    OBVIOUS
  <2>2. input.current \in Seq(S) /\ input.wanted \in Seq(S)
    BY <2>1, ListsAreLists
  <2>3. w \in Seq(S) /\ Range(w) = Range(input.wanted) \ {""}
    BY <2>2, NormalizedRanges
  <2>4. ipListEqual(input.current, w) <=> Range(input.current) = Range(w)
    BY <2>2, <2>3, ComparesSets
  <2> QED BY <2>3, <2>4
<1>2. ListsEqualAsSets /\ [Next]_vars => ListsEqualAsSets'
  BY DEF ListsEqualAsSets, Next, vars
<1> QED BY <1>1, <1>2, PTL DEF Spec

-----------------------------------------------------------------------------
\* The larger and the smaller of two numbers.
LEMMA MaxMinOfTwo ==
    ASSUME NEW a \in Int, NEW b \in Int
    PROVE  /\ Max({a, b}) = IF a <= b THEN b ELSE a
           /\ Min({a, b}) = IF a <= b THEN a ELSE b
<1>1. (\E x \in {a, b} : \A y \in {a, b} : x >= y) /\ (\E x \in {a, b} : \A y \in {a, b} : x <= y)
  OBVIOUS
<1>2. Max({a, b}) \in {a, b} /\ \A y \in {a, b} : Max({a, b}) >= y
  BY <1>1 DEF Max
<1>3. Min({a, b}) \in {a, b} /\ \A y \in {a, b} : Min({a, b}) <= y
  BY <1>1 DEF Min
<1> QED BY <1>2, <1>3

\* Rounding up: the minutes cover the seconds, and one less does not.
LEMMA MinutesRoundUp ==
    ASSUME NEW seconds \in Nat
    PROVE  /\ Minutes(seconds) \in Nat
           /\ Minutes(seconds) * 60 >= seconds
           /\ seconds > 0 => (Minutes(seconds) - 1) * 60 < seconds
BY DEF Minutes

\* For any timeout the persistence covers it as far as the cloud allows, and no more
\* than rounding takes (desiredPersistence).
LEMMA PersistenceOf ==
    ASSUME NEW svc, svc.affinity \in {"None", "ClientIP"}, svc.timeout \in {Unset} \cup (Nat \ {0})
    PROVE  LET minutes == desiredPersistence(svc)
           IN  /\ (svc.affinity = "None") <=> (minutes = Unset)
               /\ minutes > 0 => /\ minutes <= 60
                                 /\ minutes * 60 >= svc.timeout \/ minutes = 60
                                 /\ (minutes - 1) * 60 < svc.timeout
<1>1. CASE svc.affinity = "None"
  BY <1>1 DEF desiredPersistence, Unset
<1>2. CASE svc.affinity = "ClientIP" /\ svc.timeout = Unset
  BY <1>2 DEF desiredPersistence, Unset
<1>3. CASE svc.affinity = "ClientIP" /\ svc.timeout # Unset
  <2> DEFINE m == Minutes(svc.timeout)
             p == IF m <= 60 THEN m ELSE 60
  <2>1. svc.timeout \in Nat /\ svc.timeout > 0
    BY <1>3
  <2>2. m \in Nat /\ m * 60 >= svc.timeout /\ (m - 1) * 60 < svc.timeout
    BY <2>1, MinutesRoundUp
  <2>3. desiredPersistence(svc) = Max({1, Min({60, m})})
    BY <1>3 DEF desiredPersistence
  <2> HIDE DEF m
  <2>4. m \in Nat /\ m >= 1
    BY <2>1, <2>2
  <2>5. Min({60, m}) = p
    <3>1. Min({60, m}) = IF 60 <= m THEN 60 ELSE m
      BY <2>4, MaxMinOfTwo
    <3> QED BY <2>4, <3>1
  <2>6. p \in 1 .. 60
    BY <2>4
  <2>7. desiredPersistence(svc) = p
    <3> HIDE DEF p
    <3>1. Max({1, p}) = IF 1 <= p THEN p ELSE 1
      BY <2>6, MaxMinOfTwo
    <3> QED BY <2>3, <2>5, <2>6, <3>1
  <2> QED BY <1>3, <2>1, <2>2, <2>4, <2>6, <2>7 DEF Unset
<1> QED BY <1>1, <1>2, <1>3

\* Session affinity lasts as long as the Service asks, up to an hour, for any
\* timeout (desiredPersistence).
THEOREM PersistenceLastsEnough == Spec => []PersistenceCovers
<1>1. Init => PersistenceCovers
  <2> SUFFICES ASSUME input \in [affinity : {"None", "ClientIP"}, timeout : {Unset} \cup 1 .. MaxSeconds]
               PROVE  PersistenceCovers
    BY DEF Init, PersistenceCovers
  <2>1. input.affinity \in {"None", "ClientIP"} /\ input.timeout \in {Unset} \cup (Nat \ {0})
    OBVIOUS
  <2> QED BY <2>1, PersistenceOf DEF PersistenceCovers
<1>2. PersistenceCovers /\ [Next]_vars => PersistenceCovers'
  BY DEF PersistenceCovers, Next, vars
<1> QED BY <1>1, <1>2, PTL DEF Spec

-----------------------------------------------------------------------------
\* The entries of a node's status that count: a type and an address.
Of(node, type) == {i \in DOMAIN node : node[i].type = type /\ node[i].address # ""}

\* The loop of First.
LEMMA FirstLoop ==
    ASSUME NEW E, NEW A, \A e \in E : e.address \in A, NEW node \in Seq(E), NEW type
    PROVE  \E found : /\ found[0] = ""
                      /\ \A i \in 1 .. Len(node) :
                            found[i] = IF found[i - 1] = "" /\ node[i].type = type THEN node[i].address
                                       ELSE found[i - 1]
                      /\ First(node, type) = found[Len(node)]
<1>1. Len(node) \in Nat /\ \A i \in 1 .. Len(node) : node[i].address \in A
  <2>1. Len(node) \in Nat /\ \A i \in 1 .. Len(node) : node[i] \in E
    OBVIOUS
  <2> QED BY <2>1
<1> DEFINE n == Len(node)
           V == A \cup {""}
           a == ""
           next(i, v) == IF v = "" /\ node[i].type = type THEN node[i].address ELSE v
           step == [p \in (1 .. n) \X V |-> next(p[1], p[2])]
           Is(f) == f = [i \in 0 .. n |-> IF i = 0 THEN ""
                                          ELSE IF f[i - 1] = "" /\ node[i].type = type THEN node[i].address
                                          ELSE f[i - 1]]
<1>2. \A i \in 1 .. n, v \in V : next(i, v) \in V
  BY <1>1
<1>3. n \in Nat /\ a \in V
  BY <1>1
<1> HIDE DEF n, V, a, next
<1>4. IsStep(step, n, V) /\ \A i \in 1 .. n, v \in V : step[<<i, v>>] = next(i, v)
  BY <1>2 DEF IsStep
<1> HIDE DEF step
<1>5. PICK f \in [0 .. n -> V] : IsLoop(f, n, a, step)
  BY <1>3, <1>4, Loop
<1>6. ASSUME NEW i \in 1 .. n
      PROVE  f[i] = next(i, f[i - 1])
  <2>1. i - 1 \in 0 .. n
    BY <1>3
  <2>2. f[i - 1] \in V
    BY <2>1
  <2> QED BY <1>4, <1>5, <2>2 DEF IsLoop
<1>7. f[0] = a
  BY <1>5 DEF IsLoop
<1>8. f = [i \in 0 .. n |-> IF i = 0 THEN a ELSE next(i, f[i - 1])]
  BY <1>3, <1>6, <1>7
<1>9. Is(f)
  BY <1>8 DEF next, a
<1> DEFINE found == CHOOSE g : Is(g)
<1>10. Is(found) /\ First(node, type) = found[n]
  BY <1>9 DEF First, n
<1> HIDE DEF found
<1>11. \A i \in 0 .. n : found[i] = IF i = 0 THEN a ELSE next(i, found[i - 1])
  <2> DEFINE body(i) == IF i = 0 THEN a ELSE next(i, found[i - 1])
  <2>1. found = [i \in 0 .. n |-> body(i)]
    BY <1>10 DEF next, a
  <2> HIDE DEF body
  <2>2. \A i \in 0 .. n : found[i] = body(i)
    BY <2>1
  <2> QED BY <2>2 DEF body
<1>12. found[0] = a /\ \A i \in 1 .. n : found[i] = next(i, found[i - 1])
  BY <1>3, <1>11
<1> QED BY <1>10, <1>12 DEF n, next, a

\* It finds the first entry that counts.
LEMMA FirstIsLeast ==
    ASSUME NEW E, NEW A, \A e \in E : e.address \in A, NEW node \in Seq(E), NEW type
    PROVE  First(node, type) = IF Of(node, type) = {} THEN "" ELSE node[Min(Of(node, type))].address
<1> DEFINE n == Len(node)
           upTo(i) == {j \in Of(node, type) : j <= i}
<1>1. PICK found : /\ found[0] = ""
                   /\ \A i \in 1 .. n :
                         found[i] = IF found[i - 1] = "" /\ node[i].type = type THEN node[i].address
                                    ELSE found[i - 1]
                   /\ First(node, type) = found[n]
  BY FirstLoop
<1>2. n \in Nat
  OBVIOUS
<1>3. DOMAIN node = 1 .. n
  OBVIOUS
<1> HIDE DEF n
<1>4. \A i \in Of(node, type) : i \in 1 .. n
  BY <1>3 DEF Of
<1>11. \A i \in 1 .. n : i \in Of(node, type) <=> node[i].type = type /\ node[i].address # ""
  BY <1>3 DEF Of
<1> DEFINE Right(i) == \/ upTo(i) = {} /\ found[i] = ""
                       \/ \E j \in upTo(i) : /\ \A k \in upTo(i) : j <= k
                                             /\ found[i] = node[j].address
           P == {i \in Nat : i <= n => Right(i)}
<1>5. Right(0)
  <2>1. upTo(0) = {}
    BY <1>2, <1>4
  <2> QED BY <1>1, <2>1
<1>6. ASSUME NEW i \in Nat, i + 1 <= n, Right(i)
      PROVE  Right(i + 1)
  <2>1. i + 1 \in 1 .. n /\ (i + 1) - 1 = i
    <3> HIDE DEF Right
    <3> QED BY <1>2, <1>6
  <2>2. found[i + 1] = IF found[i] = "" /\ node[i + 1].type = type THEN node[i + 1].address ELSE found[i]
    BY <1>1, <2>1
  <2>3. \A k \in upTo(i + 1) : k \in upTo(i) \/ (k = i + 1 /\ i + 1 \in Of(node, type))
    BY <1>2, <1>4
  <2>4. \A k \in upTo(i) : k \in upTo(i + 1) /\ k <= i + 1
    BY <1>2, <1>4
  <2>5. i + 1 \in Of(node, type) => i + 1 \in upTo(i + 1)
    OBVIOUS
  <2>6. i + 1 \in Of(node, type) <=> node[i + 1].type = type /\ node[i + 1].address # ""
    BY <1>11, <2>1
  <2>7. CASE upTo(i) = {} /\ found[i] = "" /\ i + 1 \notin Of(node, type)
    <3>1. upTo(i + 1) = {}
      BY <2>3, <2>7
    <3>2. found[i + 1] = ""
      BY <2>2, <2>6, <2>7
    <3> QED BY <3>1, <3>2
  <2>8. CASE upTo(i) = {} /\ found[i] = "" /\ i + 1 \in Of(node, type)
    <3>1. found[i + 1] = node[i + 1].address
      BY <2>2, <2>6, <2>8
    <3>2. \A k \in upTo(i + 1) : i + 1 <= k
      BY <2>3, <2>8
    <3> QED BY <2>5, <2>8, <3>1, <3>2
  <2>9. CASE \E j \in upTo(i) : (\A k \in upTo(i) : j <= k) /\ found[i] = node[j].address
    <3>1. PICK j \in upTo(i) : (\A k \in upTo(i) : j <= k) /\ found[i] = node[j].address
      BY <2>9
    <3>2. node[j].address # ""
      BY DEF Of
    <3>3. found[i + 1] = node[j].address
      BY <2>2, <3>1, <3>2
    <3>4. \A k \in upTo(i + 1) : j <= k
      BY <2>3, <2>4, <3>1
    <3> QED BY <2>4, <3>3, <3>4
  <2> QED BY <1>6, <2>7, <2>8, <2>9
<1> HIDE DEF Right
<1>7. P = Nat
  <2>1. 0 \in P /\ \A i \in P : i + 1 \in P
    BY <1>2, <1>5, <1>6
  <2> HIDE DEF P
  <2> QED BY <2>1, Induction DEF P
<1>8. Right(n)
  BY <1>2, <1>7
<1>9. upTo(n) = Of(node, type)
  BY <1>2, <1>4
<1>10. ASSUME NEW j \in Of(node, type), \A k \in Of(node, type) : j <= k
       PROVE  Min(Of(node, type)) = j
  <2> DEFINE O == Of(node, type)
  <2>1. \A k \in O : k \in Nat
    BY <1>2, <1>4
  <2>2. j \in O /\ \A k \in O : j <= k
    BY <1>10
  <2> HIDE DEF O
  <2>3. Min(O) \in O /\ \A k \in O : Min(O) <= k
    BY <2>1, <2>2, LeastNumber
  <2>4. Min(O) <= j /\ j <= Min(O) /\ j \in Nat /\ Min(O) \in Nat
    BY <2>1, <2>2, <2>3
  <2> QED BY <2>4 DEF O
<1> QED BY <1>1, <1>8, <1>9, <1>10 DEF Right

\* nodeAddress finds what the scan finds, for any list of addresses.
LEMMA AddressOf ==
    ASSUME NEW E, NEW A, \A e \in E : e.address \in A, NEW node \in Seq(E)
    PROVE  nodeAddress(node) = Scan(node)
<1> DEFINE In == Of(node, "InternalIP")
           Ex == Of(node, "ExternalIP")
<1>1. /\ First(node, "InternalIP") = IF In = {} THEN "" ELSE node[Min(In)].address
      /\ First(node, "ExternalIP") = IF Ex = {} THEN "" ELSE node[Min(Ex)].address
  BY FirstIsLeast
<1>2. In # {} => node[Min(In)].address # ""
  <2>1. DOMAIN node \subseteq Nat
    OBVIOUS
  <2>2. In \in SUBSET Nat
    BY <2>1 DEF Of
  <2> HIDE DEF In
  <2>3. In # {} => Min(In) \in In
    BY <2>2, LeastNumber
  <2> QED BY <2>3 DEF In, Of
<1>3. nodeAddress(node) = CASE In # {} -> node[Min(In)].address
                            [] In = {} /\ Ex # {} -> node[Min(Ex)].address
                            [] OTHER -> ""
  BY DEF nodeAddress, Of
<1> HIDE DEF In, Ex
<1> QED BY <1>1, <1>2, <1>3 DEF Scan, In, Ex

\* A member's address is the first internal one that is not empty, or else the first
\* external one, for any list of addresses (nodeAddress).
THEOREM AddressIsScanned == Spec => []AddressScanned
<1>1. Init => AddressScanned
  <2> SUFFICES ASSUME case = "address", input \in Lists(AddressEntries)
               PROVE  nodeAddress(input) = Scan(input)
    BY DEF Init, AddressScanned
  <2>1. input \in Seq(AddressEntries)
    BY ListsAreLists
  <2>2. \A e \in AddressEntries : e.address \in {"", "a", "b"}
    BY DEF AddressEntries
  <2> QED BY <2>1, <2>2, AddressOf
<1>2. AddressScanned /\ [Next]_vars => AddressScanned'
  BY DEF AddressScanned, Next, vars
<1> QED BY <1>1, <1>2, PTL DEF Spec

-----------------------------------------------------------------------------
\* The provider made of a configuration that is accepted.
Provider(opts) == [method |-> AuthMethod(opts), with |-> Restrict(opts, CredentialsOf(AuthMethod(opts)))]

\* What validate accepts is enough for the constructor.
LEMMA ProviderOf ==
    ASSUME NEW file, NEW env
    PROVE  /\ NewOTC(file, env) = IF validate(applyEnvFallbacks(file, env))
                                    THEN {Provider(applyEnvFallbacks(file, env))} ELSE {}
           /\ ReadConfig(file, env) = IF validate(applyEnvFallbacks(file, env))
                                        THEN {applyEnvFallbacks(file, env)} ELSE {}
<1> DEFINE opts == applyEnvFallbacks(file, env)
<1>1. ReadConfig(file, env) = IF validate(opts) THEN {opts} ELSE {}
  BY Zenon DEF ReadConfig
<1>2. validate(opts) => \A f \in CredentialsOf(AuthMethod(opts)) : opts[f] # ""
  <2> HIDE DEF opts
  <2>1. CASE opts["access-key"] # "" /\ opts["secret-key"] # ""
    BY <2>1 DEF validate, CredentialsOf, AuthMethod
  <2>2. CASE ~(opts["access-key"] # "" /\ opts["secret-key"] # "")
    BY <2>2 DEF validate, CredentialsOf, AuthMethod
  <2> QED BY <2>1, <2>2
<1>3. NewOTC(file, env) = { Provider(o) : o \in {o \in ReadConfig(file, env) :
                                                   \A f \in CredentialsOf(AuthMethod(o)) : o[f] # ""} }
  BY Zenon DEF NewOTC, Provider
<1> HIDE DEF opts
<1>4. NewOTC(file, env) = IF validate(opts) THEN {Provider(opts)} ELSE {}
  <2>1. CASE validate(opts)
    <3>1. {o \in ReadConfig(file, env) : \A f \in CredentialsOf(AuthMethod(o)) : o[f] # ""} = {opts}
      BY <1>1, <1>2, <2>1
    <3> QED BY <1>3, <2>1, <3>1
  <2>2. CASE ~validate(opts)
    BY <1>1, <1>3, <2>2
  <2> QED BY <2>1, <2>2
<1> QED BY <1>1, <1>4 DEF opts

\* The environment completes a configuration, and takes nothing from it; what is
\* accepted does not fail later (applyEnvFallbacks, validate, NewIdentityProvider).
THEOREM EnvironmentCompletes == Spec => []EnvOnlyCompletes
<1>1. Init => EnvOnlyCompletes
  <2> SUFFICES ASSUME case = "config", input \in [file : [Fields -> {"", "f"}], env : [Fields -> {"", "e"}]]
               PROVE  EnvOnlyCompletes
    BY DEF Init, EnvOnlyCompletes
  <2> DEFINE file == input.file
             env == input.env
             nothing == [f \in Fields |-> ""]
             opts == applyEnvFallbacks(file, env)
  <2>1. file \in [Fields -> {"", "f"}] /\ env \in [Fields -> {"", "e"}]
    OBVIOUS
  <2>2. applyEnvFallbacks(file, nothing) = file
    BY <2>1 DEF applyEnvFallbacks, annString
  <2>3. \A f \in Fields : opts[f] = IF file[f] # "" THEN file[f] ELSE env[f]
    BY DEF applyEnvFallbacks, annString
  <2>4. {"auth-url", "username", "password", "access-key", "secret-key"} \subseteq Fields
    BY DEF Fields
  <2> HIDE DEF opts, file, env, nothing
  <2>5. /\ NewOTC(file, nothing) = IF validate(file) THEN {Provider(file)} ELSE {}
        /\ NewOTC(file, env) = IF validate(opts) THEN {Provider(opts)} ELSE {}
        /\ ReadConfig(file, env) = IF validate(opts) THEN {opts} ELSE {}
    <3>1. NewOTC(file, nothing) = IF validate(applyEnvFallbacks(file, nothing))
                                    THEN {Provider(applyEnvFallbacks(file, nothing))} ELSE {}
      BY ProviderOf
    <3>2. /\ NewOTC(file, env) = IF validate(applyEnvFallbacks(file, env))
                                    THEN {Provider(applyEnvFallbacks(file, env))} ELSE {}
          /\ ReadConfig(file, env) = IF validate(applyEnvFallbacks(file, env))
                                       THEN {applyEnvFallbacks(file, env)} ELSE {}
      BY ProviderOf
    <3> QED BY <2>2, <3>1, <3>2 DEF opts
  <2>6. ASSUME validate(file)
        PROVE  validate(opts)
    BY <2>3, <2>4, <2>6 DEF validate, AuthMethod
  <2>7. ASSUME validate(file), AuthMethod(opts) = AuthMethod(file)
        PROVE  Provider(opts) = Provider(file)
    <3>1. \A f \in CredentialsOf(AuthMethod(file)) : opts[f] = file[f]
      BY <2>3, <2>4, <2>7 DEF validate, AuthMethod, CredentialsOf
    <3> QED BY <2>7, <3>1 DEF Provider, Restrict
  <2>8. ASSUME validate(file), AuthMethod(opts) # AuthMethod(file)
        PROVE  /\ AuthMethod(opts) = "aksk" /\ AuthMethod(file) = "password"
               /\ opts["access-key"] = "e" \/ opts["secret-key"] = "e"
    BY <2>1, <2>3, <2>4, <2>8 DEF validate, AuthMethod
  <2>9. ASSUME AuthMethod(opts) = "aksk"
        PROVE  opts["access-key"] \in Range(Provider(opts).with) /\ opts["secret-key"] \in Range(Provider(opts).with)
    BY <2>9 DEF Provider, Restrict, CredentialsOf, Range
  <2>10. Provider(opts).method = AuthMethod(opts) /\ Provider(file).method = AuthMethod(file)
    BY DEF Provider
  <2>11. EnvOnlyCompletes <=>
           /\ (NewOTC(file, env) = {}) <=> (ReadConfig(file, env) = {})
           /\ NewOTC(file, nothing) # {} =>
                \/ NewOTC(file, env) = NewOTC(file, nothing)
                \/ \A p \in NewOTC(file, env), q \in NewOTC(file, nothing) :
                      p.method = "aksk" /\ q.method = "password" /\ "e" \in Range(p.with)
           /\ NewOTC(file, nothing) # {} => NewOTC(file, env) # {}
    BY DEF EnvOnlyCompletes, file, env, nothing
  <2>12. (NewOTC(file, env) = {}) <=> (ReadConfig(file, env) = {})
    BY <2>5
  <2>13. CASE ~validate(file)
    BY <2>5, <2>11, <2>12, <2>13
  <2>14. CASE validate(file)
    <3>1. NewOTC(file, nothing) = {Provider(file)} /\ NewOTC(file, env) = {Provider(opts)}
      BY <2>5, <2>6, <2>14
    <3>2. CASE AuthMethod(opts) = AuthMethod(file)
      BY <2>7, <2>11, <2>12, <2>14, <3>1, <3>2
    <3>3. CASE AuthMethod(opts) # AuthMethod(file)
      <4>1. "e" \in Range(Provider(opts).with)
        BY <2>8, <2>9, <2>14, <3>3
      <4> QED BY <2>8, <2>10, <2>11, <2>12, <2>14, <3>1, <3>3, <4>1
    <3> QED BY <3>2, <3>3
  <2> QED BY <2>13, <2>14
<1>2. EnvOnlyCompletes /\ [Next]_vars => EnvOnlyCompletes'
  BY DEF EnvOnlyCompletes, Next, vars
<1> QED BY <1>1, <1>2, PTL DEF Spec

-----------------------------------------------------------------------------
\* An annotation that is absent, or empty, leaves the default.
LEMMA Absent ==
    ASSUME NEW text, NEW default, text = ""
    PROVE  /\ annInt(text, default) = {default}
           /\ annBool(text, default) = {default}
           /\ annList(text, default) = default
BY Zenon DEF annInt, annBool, annList

\* A number read from an annotation is a number.
LEMMA NumberRead ==
    ASSUME NEW text, NEW n \in annInt(text, 0)
    PROVE  n \in Int
<1>1. CASE text = ""
  <2>1. annInt(text, 0) = {0}
    BY <1>1, Absent
  <2> QED BY <2>1
<1>2. CASE text # ""
  <2>1. n \in Atoi(text)
    BY <1>2 DEF annInt
  <2>2. CASE text \in {"0", "7", "-1"}
    BY <2>1, <2>2 DEF Atoi
  <2>3. CASE text \notin {"0", "7", "-1"}
    <3>1. Atoi(text) = {}
      BY <2>3 DEF Atoi
    <3> QED BY <2>1, <3>1
  <2> QED BY <2>2, <2>3
<1> QED BY <1>1, <1>2

\* What the numbers and the texts of a Service's settings are, if it has any.
Usable(s) == s.alg # "" /\ s.idle >= 0 /\ (s.eipIDs = <<>> \/ s.eipBandwidth = 0)

LEMMA SettingsOf ==
    ASSUME NEW defaults, NEW ann, NEW s \in settingsForService(defaults, ann)
    PROVE  Usable(s) /\ s.protocol \in {"", "HTTP"}
<1>1. /\ s.alg = algorithm(ann["lb-algorithm"], defaults.alg)
      /\ s.eipBandwidth \in annInt(ann["eip-bandwidth"], 0)
      /\ s.protocol \in IF ann["protocol"] \in {"", "http"}
                          THEN {IF ann["protocol"] = "http" THEN "HTTP" ELSE ""} ELSE {}
      /\ s.path \in {ann["url-path"]} \cap {"", "/x"}
      /\ s.eipBandwidth >= 0 /\ ~(s.eipBandwidth > 0 /\ s.eipIDs # <<>>)
      /\ s.idle >= 0
  BY DEF settingsForService
<1>2. s.alg # ""
  BY <1>1 DEF algorithm, annString
<1>3. s.eipBandwidth \in Int
  BY <1>1, NumberRead
<1>4. s.protocol \in {"", "HTTP"}
  BY <1>1
<1>5. s.eipIDs = <<>> \/ s.eipBandwidth = 0
  <2>1. s.eipBandwidth >= 0
    BY <1>1, Zenon
  <2>2. s.eipBandwidth > 0 \/ s.eipBandwidth = 0
    BY <1>3, <2>1
  <2> QED BY <1>1, <2>2, Zenon
<1>6. s.idle >= 0
  BY <1>1, Zenon
<1> QED BY <1>2, <1>4, <1>5, <1>6, Zenon DEF Usable

\* The monitor a health check annotation asks for, on a Service with policy Cluster.
Fit(monitor, protocol) ==
    /\ monitor.type \in (IF protocol = "UDP" THEN {"UDP_CONNECT"} ELSE {"TCP", "HTTP"})
    /\ (monitor.type = "HTTP") <=> (monitor.path # "" /\ monitor.method # "")

MonitorFor(hc, protocol) == desiredMonitor([policy |-> "Cluster", hc |-> hc], [protocol |-> protocol])

LEMMA MonitorOf ==
    ASSUME NEW hc, NEW protocol \in {"TCP", "UDP"}, hc.protocol \in {"", "HTTP"}, hc.method = ""
    PROVE  Fit(MonitorFor(hc, protocol), protocol)
<1>1. CASE protocol = "UDP"
  BY <1>1 DEF MonitorFor, desiredMonitor, Fit
<1>2. CASE protocol = "TCP" /\ hc.protocol = ""
  BY <1>2 DEF MonitorFor, desiredMonitor, Fit
<1>3. CASE protocol = "TCP" /\ hc.protocol = "HTTP" /\ hc.path = ""
  BY <1>3 DEF MonitorFor, desiredMonitor, Fit
<1>4. CASE protocol = "TCP" /\ hc.protocol = "HTTP" /\ hc.path # ""
  BY <1>4 DEF MonitorFor, desiredMonitor, Fit
<1> QED BY <1>1, <1>2, <1>3, <1>4

\* Settings that are accepted are fit for every port (settingsForService,
\* reconcileMonitor, createLoadBalancer).
THEOREM AcceptedSettingsUsable == Spec => []SettingsUsable
<1>1. Init => SettingsUsable
  <2> SUFFICES ASSUME NEW s \in settingsForService(input.defaults, input.ann), NEW protocol \in {"TCP", "UDP"}
               PROVE  LET hc == [protocol |-> s.protocol, path |-> s.path, method |-> "", params |-> s.delay]
                      IN  Usable(s) /\ Fit(MonitorFor(hc, protocol), protocol)
    BY Zenon DEF SettingsUsable, Usable, Fit, MonitorFor
  <2> DEFINE hc == [protocol |-> s.protocol, path |-> s.path, method |-> "", params |-> s.delay]
  <2>1. Usable(s) /\ s.protocol \in {"", "HTTP"}
    BY SettingsOf
  <2>2. hc.protocol \in {"", "HTTP"} /\ hc.method = ""
    BY <2>1
  <2> HIDE DEF hc
  <2>3. Fit(MonitorFor(hc, protocol), protocol)
    BY <2>2, MonitorOf
  <2> QED BY <2>1, <2>3 DEF hc
<1>2. SettingsUsable /\ [Next]_vars => SettingsUsable'
  BY DEF SettingsUsable, Next, vars
<1> QED BY <1>1, <1>2, PTL DEF Spec

\* When a Service can be read: each annotation by itself, and the two that say where
\* the EIPs come from together.
Legible(defaults, ann) ==
    /\ \E bandwidth \in annInt(ann["eip-bandwidth"], 0) :
          bandwidth >= 0 /\ ~(bandwidth > 0 /\ annList(ann["eip-ids"], <<>>) # <<>>)
    /\ annBool(ann["eip-keep"], FALSE) # {}
    /\ \E idle \in annInt(ann["idle-timeout"], 0) : idle >= 0
    /\ annBool(ann["enabled"], defaults.enabled) # {}
    /\ annInt(ann["delay"], defaults.delay) # {}
    /\ ann["protocol"] \in {"", "http"}
    /\ ann["url-path"] \in {"", "/x"}

LEMMA ReadableIfLegible ==
    ASSUME NEW defaults, NEW ann
    PROVE  settingsForService(defaults, ann) # {} <=> Legible(defaults, ann)
<1>1. ASSUME settingsForService(defaults, ann) # {} PROVE Legible(defaults, ann)
  <2>1. PICK s \in settingsForService(defaults, ann) : TRUE
    BY <1>1
  <2>2. /\ s.eipIDs = annList(ann["eip-ids"], <<>>)
        /\ s.eipBandwidth \in annInt(ann["eip-bandwidth"], 0)
        /\ s.eipKeep \in annBool(ann["eip-keep"], FALSE)
        /\ s.idle \in annInt(ann["idle-timeout"], 0)
        /\ s.enabled \in annBool(ann["enabled"], defaults.enabled)
        /\ s.delay \in annInt(ann["delay"], defaults.delay)
        /\ ann["protocol"] \in {"", "http"}
        /\ ann["url-path"] \in {"", "/x"}
        /\ s.eipBandwidth >= 0 /\ ~(s.eipBandwidth > 0 /\ s.eipIDs # <<>>)
        /\ s.idle >= 0
    BY DEF settingsForService
  <2> QED BY <2>2 DEF Legible
<1>2. ASSUME Legible(defaults, ann) PROVE settingsForService(defaults, ann) # {}
  <2>1. PICK bandwidth \in annInt(ann["eip-bandwidth"], 0) :
                bandwidth >= 0 /\ ~(bandwidth > 0 /\ annList(ann["eip-ids"], <<>>) # <<>>)
    BY <1>2 DEF Legible
  <2>2. PICK idle \in annInt(ann["idle-timeout"], 0) : idle >= 0
    BY <1>2 DEF Legible
  <2>3. PICK keep \in annBool(ann["eip-keep"], FALSE) : TRUE
    BY <1>2 DEF Legible
  <2>4. PICK enabled \in annBool(ann["enabled"], defaults.enabled) : TRUE
    BY <1>2 DEF Legible
  <2>5. PICK delay \in annInt(ann["delay"], defaults.delay) : TRUE
    BY <1>2 DEF Legible
  <2>6. ann["protocol"] \in {"", "http"} /\ ann["url-path"] \in {"", "/x"}
    BY <1>2 DEF Legible
  <2> DEFINE s == [ flavor |-> annString(ann["flavor"], defaults.flavor),
                    alg |-> algorithm(ann["lb-algorithm"], defaults.alg),
                    zones |-> annList(ann["zones"], defaults.zones),
                    eipIDs |-> annList(ann["eip-ids"], <<>>),
                    eipBandwidth |-> bandwidth, eipKeep |-> keep, idle |-> idle,
                    enabled |-> enabled, delay |-> delay,
                    protocol |-> IF ann["protocol"] = "http" THEN "HTTP" ELSE "",
                    path |-> ann["url-path"] ]
  <2>7. s \in settingsForService(defaults, ann)
    BY <2>1, <2>2, <2>3, <2>4, <2>5, <2>6 DEF settingsForService
  <2> QED BY <2>7
<1> QED BY <1>1, <1>2

\* Taking annotations away leaves a Service readable, and taking all away makes it
\* so (settingsForService).
THEOREM RemovalLeavesReadable == Spec => []RemovalReadable
<1>1. Init => RemovalReadable
  <2> DEFINE ann == input.ann
             defaults == input.defaults
             Without(K) == [k \in Annotations |-> IF k \in K THEN "" ELSE ann[k]]
  <2>1. ASSUME NEW K
        PROVE  /\ \A k \in Annotations : Without(K)[k] = IF k \in K THEN "" ELSE ann[k]
               /\ {"eip-ids", "eip-bandwidth", "eip-keep", "idle-timeout", "enabled", "delay",
                   "protocol", "url-path"} \subseteq Annotations
    BY DEF Annotations
  <2> HIDE DEF Without
  <2>2. ASSUME NEW K, Legible(defaults, ann)
        PROVE  Legible(defaults, Without(K))
    <3> DEFINE new == Without(K)
    <3>1. \A k \in {"eip-ids", "eip-bandwidth", "eip-keep", "idle-timeout", "enabled", "delay",
                    "protocol", "url-path"} : new[k] = "" \/ new[k] = ann[k]
      BY <2>1
    <3> HIDE DEF new
    <3>2. \E bandwidth \in annInt(new["eip-bandwidth"], 0) :
             bandwidth >= 0 /\ ~(bandwidth > 0 /\ annList(new["eip-ids"], <<>>) # <<>>)
      <4>1. CASE new["eip-bandwidth"] = ""
        <5>1. annInt(new["eip-bandwidth"], 0) = {0}
          BY <4>1, Absent
        <5> QED BY <5>1
      <4>2. CASE new["eip-bandwidth"] = ann["eip-bandwidth"]
        <5>1. annList(new["eip-ids"], <<>>) \in {<<>>, annList(ann["eip-ids"], <<>>)}
          BY <3>1 DEF annList
        <5> QED BY <2>2, <4>2, <5>1 DEF Legible
      <4> QED BY <3>1, <4>1, <4>2
    <3>3. \E idle \in annInt(new["idle-timeout"], 0) : idle >= 0
      <4>1. CASE new["idle-timeout"] = ""
        <5>1. annInt(new["idle-timeout"], 0) = {0}
          BY <4>1, Absent
        <5> QED BY <5>1
      <4>2. CASE new["idle-timeout"] = ann["idle-timeout"]
        BY <2>2, <4>2 DEF Legible
      <4> QED BY <3>1, <4>1, <4>2
    <3>4. annBool(new["eip-keep"], FALSE) # {} /\ annBool(new["enabled"], defaults.enabled) # {}
      BY <2>2, <3>1 DEF Legible, annBool
    <3>5. annInt(new["delay"], defaults.delay) # {}
      BY <2>2, <3>1 DEF Legible, annInt
    <3>6. new["protocol"] \in {"", "http"} /\ new["url-path"] \in {"", "/x"}
      BY <2>2, <3>1 DEF Legible
    <3> QED BY <3>2, <3>3, <3>4, <3>5, <3>6 DEF Legible, new
  <2>3. Legible(defaults, Without(Annotations))
    <3> DEFINE new == Without(Annotations)
    <3>1. /\ new["eip-ids"] = "" /\ new["eip-bandwidth"] = "" /\ new["eip-keep"] = ""
          /\ new["idle-timeout"] = "" /\ new["enabled"] = "" /\ new["delay"] = ""
          /\ new["protocol"] = "" /\ new["url-path"] = ""
      BY <2>1
    <3> HIDE DEF new
    <3>2. /\ annInt(new["eip-bandwidth"], 0) = {0} /\ annInt(new["idle-timeout"], 0) = {0}
          /\ annInt(new["delay"], defaults.delay) # {}
          /\ annBool(new["eip-keep"], FALSE) # {} /\ annBool(new["enabled"], defaults.enabled) # {}
      <4>1. /\ annInt(new["eip-bandwidth"], 0) = {0} /\ annInt(new["idle-timeout"], 0) = {0}
            /\ annInt(new["delay"], defaults.delay) = {defaults.delay}
        BY <3>1, Absent
      <4>2. annBool(new["eip-keep"], FALSE) = {FALSE}
        BY <3>1, Absent
      <4>3. annBool(new["enabled"], defaults.enabled) = {defaults.enabled}
        BY <3>1, Absent
      <4> QED BY <4>1, <4>2, <4>3
    <3>3. \E bandwidth \in annInt(new["eip-bandwidth"], 0) :
             bandwidth >= 0 /\ ~(bandwidth > 0 /\ annList(new["eip-ids"], <<>>) # <<>>)
      BY <3>2
    <3>4. \E idle \in annInt(new["idle-timeout"], 0) : idle >= 0
      BY <3>2
    <3>5. new["protocol"] \in {"", "http"} /\ new["url-path"] \in {"", "/x"}
      BY <3>1
    <3> QED BY <3>2, <3>3, <3>4, <3>5, Zenon DEF Legible, new
  <2> QED BY <2>2, <2>3, ReadableIfLegible DEF RemovalReadable, Without
<1>2. RemovalReadable /\ [Next]_vars => RemovalReadable'
  BY DEF RemovalReadable, Next, vars
<1> QED BY <1>1, <1>2, PTL DEF Spec

-----------------------------------------------------------------------------
\* A name before it is cut, letter by letter: namespace and name, written in A,
\* which has no u.
Spells(full, c, u, ns, nm) ==
    /\ Len(full) = 3 + Len(ns) + Len(nm)
    /\ full[1] = c /\ full[2] = u /\ full[3 + Len(ns)] = u
    /\ \A i \in 1 .. Len(ns) : full[2 + i] = ns[i]
    /\ \A i \in 1 .. Len(nm) : full[3 + Len(ns) + i] = nm[i]

Joins(whole, s, t) ==
    /\ Len(whole) = Len(s) + Len(t)
    /\ \A i \in 1 .. Len(s) : whole[i] = s[i]
    /\ \A i \in 1 .. Len(t) : whole[Len(s) + i] = t[i]

LEMMA Joined ==
    ASSUME NEW S, NEW s \in Seq(S), NEW t \in Seq(S)
    PROVE  s \o t \in Seq(S) /\ Joins(s \o t, s, t)
<1> DEFINE whole == s \o t
<1>1. /\ whole \in Seq(S) /\ Len(whole) = Len(s) + Len(t)
      /\ \A i \in 1 .. Len(s) + Len(t) : whole[i] = IF i <= Len(s) THEN s[i] ELSE t[i - Len(s)]
  BY ConcatProperties
<1>2. Len(s) \in Nat /\ Len(t) \in Nat
  OBVIOUS
<1> HIDE DEF whole
<1>3. \A i \in 1 .. Len(s) : whole[i] = s[i]
  BY <1>1, <1>2
<1>4. \A i \in 1 .. Len(t) : whole[Len(s) + i] = t[i]
  <2> SUFFICES ASSUME NEW i \in 1 .. Len(t)
               PROVE  whole[Len(s) + i] = t[i]
    OBVIOUS
  <2>1. Len(s) + i \in 1 .. Len(s) + Len(t) /\ ~(Len(s) + i <= Len(s)) /\ (Len(s) + i) - Len(s) = i
    BY <1>2
  <2> QED BY <1>1, <2>1
<1>5. Joins(whole, s, t)
  BY <1>1, <1>3, <1>4 DEF Joins
<1> QED BY <1>1, <1>5 DEF whole

LEMMA SpelledOut ==
    ASSUME NEW A, NEW c, NEW u, NEW ns \in Seq(A), NEW nm \in Seq(A)
    PROVE  LET full == <<c, u>> \o ns \o <<u>> \o nm
           IN  full \in Seq(A \cup {c, u}) /\ Spells(full, c, u, ns, nm)
<1> DEFINE S == A \cup {c, u}
           p == <<c, u>>
           q == <<u>>
           pn == p \o ns
           pnq == pn \o q
           full == pnq \o nm
<1>1. /\ p \in Seq(S) /\ q \in Seq(S) /\ ns \in Seq(S) /\ nm \in Seq(S)
      /\ Len(p) = 2 /\ p[1] = c /\ p[2] = u /\ Len(q) = 1 /\ q[1] = u
      /\ Len(ns) \in Nat /\ Len(nm) \in Nat
  OBVIOUS
<1> HIDE DEF S, p, q
<1>2. pn \in Seq(S) /\ Joins(pn, p, ns)
  BY <1>1, Joined
<1> HIDE DEF pn
<1>3. pnq \in Seq(S) /\ Joins(pnq, pn, q)
  BY <1>1, <1>2, Joined
<1> HIDE DEF pnq
<1>4. full \in Seq(S) /\ Joins(full, pnq, nm)
  BY <1>1, <1>3, Joined
<1> HIDE DEF full
<1>5. Len(pn) = 2 + Len(ns) /\ Len(pnq) = 3 + Len(ns) /\ Len(full) = 3 + Len(ns) + Len(nm)
  BY <1>1, <1>2, <1>3, <1>4 DEF Joins
<1>6. \A i \in 1 .. 3 + Len(ns) : full[i] = pnq[i]
  BY <1>4, <1>5 DEF Joins
<1>7. \A i \in 1 .. 2 + Len(ns) : full[i] = pn[i]
  <2>1. \A i \in 1 .. 2 + Len(ns) : pnq[i] = pn[i] /\ i \in 1 .. 3 + Len(ns)
    BY <1>1, <1>3, <1>5 DEF Joins
  <2> QED BY <1>6, <2>1
<1>8. full[1] = c /\ full[2] = u
  <2>1. pn[1] = c /\ pn[2] = u
    BY <1>1, <1>2 DEF Joins
  <2>2. 1 \in 1 .. 2 + Len(ns) /\ 2 \in 1 .. 2 + Len(ns)
    BY <1>1
  <2>3. full[1] = pn[1] /\ full[2] = pn[2]
    BY <1>7, <2>2
  <2> QED BY <2>1, <2>3
<1>9. \A i \in 1 .. Len(ns) : full[2 + i] = ns[i]
  <2>1. \A i \in 1 .. Len(ns) : pn[2 + i] = ns[i] /\ 2 + i \in 1 .. 2 + Len(ns)
    BY <1>1, <1>2 DEF Joins
  <2> QED BY <1>7, <2>1
<1>10. full[3 + Len(ns)] = u
  <2>1. pnq[(2 + Len(ns)) + 1] = u /\ (2 + Len(ns)) + 1 = 3 + Len(ns) /\ 3 + Len(ns) \in 1 .. 3 + Len(ns)
    BY <1>1, <1>3, <1>5 DEF Joins
  <2> QED BY <1>6, <2>1
<1>11. \A i \in 1 .. Len(nm) : full[3 + Len(ns) + i] = nm[i]
  BY <1>4, <1>5 DEF Joins
<1>12. Spells(full, c, u, ns, nm)
  BY <1>5, <1>8, <1>9, <1>10, <1>11 DEF Spells
<1> QED BY <1>4, <1>12 DEF full, pnq, pn, p, q, S

\* From its third letter on, a name has one u, between namespace and name.
OneSeparator(full, u, ns, nm) ==
    \A i \in 3 .. 3 + Len(ns) + Len(nm) : full[i] = u <=> i = 3 + Len(ns)

LEMMA Separator ==
    ASSUME NEW A, NEW c, NEW u, NEW ns \in Seq(A), NEW nm \in Seq(A), NEW full,
           u \notin A, Spells(full, c, u, ns, nm)
    PROVE  OneSeparator(full, u, ns, nm)
<1> SUFFICES ASSUME NEW i \in 3 .. 3 + Len(ns) + Len(nm)
             PROVE  full[i] = u <=> i = 3 + Len(ns)
  BY DEF OneSeparator
<1>1. /\ Len(ns) \in Nat /\ \A j \in 1 .. Len(ns) : ns[j] \in A
      /\ Len(nm) \in Nat /\ \A j \in 1 .. Len(nm) : nm[j] \in A
  OBVIOUS
<1>2. CASE i < 3 + Len(ns)
  <2>1. i - 2 \in 1 .. Len(ns) /\ 2 + (i - 2) = i
    BY <1>1, <1>2
  <2>2. full[i] = ns[i - 2]
    BY <2>1 DEF Spells
  <2> QED BY <1>1, <1>2, <2>1, <2>2
<1>3. CASE i > 3 + Len(ns)
  <2>1. i - (3 + Len(ns)) \in 1 .. Len(nm) /\ 3 + Len(ns) + (i - (3 + Len(ns))) = i
    BY <1>1, <1>3
  <2>2. full[i] = nm[i - (3 + Len(ns))]
    BY <2>1 DEF Spells
  <2> QED BY <1>1, <1>3, <2>1, <2>2
<1>4. CASE i = 3 + Len(ns)
  BY <1>4 DEF Spells
<1> QED BY <1>1, <1>2, <1>3, <1>4

\* A name that begins another one, up to the end or up to a u, is that name.
Begins(part, full, u) ==
    /\ Len(part) <= Len(full)
    /\ \A i \in 1 .. Len(part) : part[i] = full[i]
    /\ Len(part) < Len(full) => full[Len(part) + 1] = u

LEMMA BeginsWith ==
    ASSUME NEW A, NEW c, NEW u,
           NEW ns \in Seq(A), NEW nm \in Seq(A), NEW full,
           NEW ms \in Seq(A), NEW mm \in Seq(A), NEW part,
           u \notin A, Spells(full, c, u, ns, nm), Spells(part, c, u, ms, mm),
           Begins(part, full, u)
    PROVE  ms = ns /\ mm = nm
<1>1. /\ Len(ns) \in Nat /\ Len(nm) \in Nat /\ Len(ms) \in Nat /\ Len(mm) \in Nat
      /\ Len(full) = 3 + Len(ns) + Len(nm) /\ Len(part) = 3 + Len(ms) + Len(mm)
  BY DEF Spells
<1>2. full[3 + Len(ms)] = u
  <2>1. 3 + Len(ms) \in 1 .. Len(part)
    BY <1>1
  <2>2. part[3 + Len(ms)] = u
    BY DEF Spells
  <2> QED BY <2>1, <2>2 DEF Begins
<1>3. OneSeparator(full, u, ns, nm)
  BY Separator
<1>4. Len(part) <= Len(full)
  BY DEF Begins
<1>5. Len(ms) = Len(ns)
  <2>1. 3 + Len(ms) \in 3 .. 3 + Len(ns) + Len(nm)
    BY <1>1, <1>4
  <2>2. 3 + Len(ms) = 3 + Len(ns)
    BY <1>2, <1>3, <2>1 DEF OneSeparator
  <2> QED BY <1>1, <2>2
<1>6. Len(part) = Len(full)
  <2>1. CASE Len(part) < Len(full)
    <3> DEFINE k == Len(part) + 1
    <3>1. k \in 3 .. 3 + Len(ns) + Len(nm) /\ k # 3 + Len(ns)
      BY <1>1, <1>5, <2>1
    <3>2. full[k] = u
      BY <2>1 DEF Begins
    <3> HIDE DEF k
    <3>3. k = 3 + Len(ns)
      BY <1>3, <3>1, <3>2 DEF OneSeparator
    <3> QED BY <3>1, <3>3
  <2>2. Len(part) \in Nat /\ Len(full) \in Nat
    BY <1>1
  <2> QED BY <1>4, <2>1, <2>2
<1>7. Len(mm) = Len(nm)
  BY <1>1, <1>5, <1>6
<1>8. \A i \in 1 .. Len(full) : part[i] = full[i]
  BY <1>6 DEF Begins
<1>9. \A i \in 1 .. Len(ns) : ms[i] = ns[i]
  <2> SUFFICES ASSUME NEW i \in 1 .. Len(ns)
               PROVE  ms[i] = ns[i]
    OBVIOUS
  <2>1. 2 + i \in 1 .. Len(full)
    BY <1>1
  <2>2. part[2 + i] = ms[i] /\ full[2 + i] = ns[i]
    BY <1>5 DEF Spells
  <2> QED BY <1>8, <2>1, <2>2
<1>10. \A i \in 1 .. Len(nm) : mm[i] = nm[i]
  <2> SUFFICES ASSUME NEW i \in 1 .. Len(nm)
               PROVE  mm[i] = nm[i]
    OBVIOUS
  <2> DEFINE k == 3 + Len(ns) + i
  <2>1. k \in 1 .. Len(full)
    BY <1>1
  <2>2. part[k] = mm[i] /\ full[k] = nm[i]
    BY <1>5, <1>7 DEF Spells
  <2> HIDE DEF k
  <2>3. part[k] = full[k]
    BY <1>8, <2>1
  <2> QED BY <2>2, <2>3
<1>11. ms = ns
  BY <1>5, <1>9, SeqEqual
<1>12. mm = nm
  BY <1>7, <1>10, SeqEqual
<1> QED BY <1>11, <1>12

\* A name that is cut: its first letters, all of them if there is room.
IsCut(cut, name, length) ==
    /\ Len(cut) = IF length <= Len(name) THEN length ELSE Len(name)
    /\ \A i \in 1 .. Len(cut) : cut[i] = name[i]

LEMMA Cut ==
    ASSUME NEW S, NEW name \in Seq(S), NEW length \in Nat
    PROVE  cutString(name, length) \in Seq(S) /\ IsCut(cutString(name, length), name, length)
<1> DEFINE m == IF length <= Len(name) THEN length ELSE Len(name)
           cut == SubSeq(name, 1, m)
<1>1. Len(name) \in Nat /\ \A i \in 1 .. Len(name) : name[i] \in S
  OBVIOUS
<1>2. m \in 0 .. Len(name)
  BY <1>1
<1>3. cutString(name, length) = cut
  <2>1. Min({length, Len(name)}) = m
    <3>1. length \in Int /\ Len(name) \in Int
      BY <1>1
    <3> QED BY <3>1, MaxMinOfTwo
  <2> QED BY <2>1 DEF cutString
<1> HIDE DEF m
<1>4. \A i \in 1 .. m : name[i] \in S
  BY <1>1, <1>2
<1>5. m \in Int /\ 1 \in Int /\ m - 1 + 1 = m
  BY <1>1, <1>2
<1>6. /\ cut \in Seq(S) /\ Len(cut) = IF 1 <= m THEN m - 1 + 1 ELSE 0
      /\ \A i \in 1 .. m - 1 + 1 : cut[i] = name[1 + i - 1]
  BY <1>4, <1>5, SubSeqProperties
<1> HIDE DEF cut
<1>7. Len(cut) = m /\ \A i \in 1 .. m : cut[i] = name[i]
  BY <1>1, <1>2, <1>6
<1>8. IsCut(cut, name, length)
  BY <1>7 DEF IsCut, m
<1> QED BY <1>3, <1>6, <1>8

\* A prefix, letter by letter.
LEMMA Prefix ==
    ASSUME NEW S, NEW s \in Seq(S), NEW t \in Seq(S)
    PROVE  IsPrefix(s, t) <=> Len(s) <= Len(t) /\ \A i \in 1 .. Len(s) : s[i] = t[i]
<1>1. Len(s) \in Nat /\ Len(t) \in Nat
  OBVIOUS
<1>2. ASSUME Len(s) <= Len(t)
      PROVE  SubSeq(s, 1, Len(s)) = SubSeq(t, 1, Len(s)) <=> \A i \in 1 .. Len(s) : s[i] = t[i]
  <2> DEFINE m == Len(s)
             b == SubSeq(t, 1, m)
  <2>1. SubSeq(s, 1, m) = s
    BY SubSeqFull
  <2>2. m \in Nat /\ m <= Len(t) /\ \A i \in 1 .. m : t[i] \in S
    BY <1>1, <1>2
  <2>3. s \in Seq(S) /\ m = Len(s)
    OBVIOUS
  <2> HIDE DEF m
  <2>4. m \in Int /\ 1 \in Int
    BY <2>2
  <2>5. /\ b \in Seq(S) /\ Len(b) = IF 1 <= m THEN m - 1 + 1 ELSE 0
        /\ \A i \in 1 .. m - 1 + 1 : b[i] = t[1 + i - 1]
    BY <2>2, <2>4, SubSeqProperties
  <2> HIDE DEF b
  <2>6. Len(b) = m /\ \A i \in 1 .. m : b[i] = t[i]
    BY <2>2, <2>5
  <2>7. s = b <=> \A i \in 1 .. m : s[i] = t[i]
    <3>1. ASSUME \A i \in 1 .. m : s[i] = t[i] PROVE s = b
      <4>1. Len(s) = Len(b) /\ \A i \in 1 .. Len(s) : s[i] = b[i]
        BY <2>3, <2>6, <3>1
      <4> QED BY <2>5, <4>1, SeqEqual
    <3> QED BY <2>6, <3>1
  <2> QED BY <2>1, <2>7 DEF m, b
<1> QED BY <1>2 DEF IsPrefix

\* A name that still ends in its key has not been cut at all.
WithKey(full, u, key) == full \o <<u, key>>
CutWithKey(full, u, key, length) == cutString(cutString(full, length) \o <<u, key>>, length)

Free(full, key) == \A i \in 1 .. Len(full) : full[i] # key

Room(full, length) == Len(full) + 2 <= length

LEMMA FreeOf ==
    ASSUME NEW T, NEW full \in Seq(T), NEW key, key \notin T
    PROVE  Free(full, key)
BY DEF Free

LEMMA KeyKept ==
    ASSUME NEW S, NEW full \in Seq(S), NEW u \in S, NEW key \in S, NEW length \in Nat \ {0},
           Free(full, key), u # key,
           Last(CutWithKey(full, u, key, length)) = key
    PROVE  /\ cutString(full, length) = full /\ Room(full, length)
           /\ CutWithKey(full, u, key, length) = WithKey(full, u, key)
<1> DEFINE C == cutString(full, length)
           e == <<u, key>>
           W == C \o e
           name == cutString(W, length)
<1>1. C \in Seq(S) /\ IsCut(C, full, length)
  BY Cut
<1>2. e \in Seq(S) /\ Len(e) = 2 /\ e[1] = u /\ e[2] = key
  OBVIOUS
<1>3. Last(name) = key
  BY DEF CutWithKey
<1> HIDE DEF C, e
<1>4. W \in Seq(S) /\ Joins(W, C, e)
  BY <1>1, <1>2, Joined
<1> HIDE DEF W
<1>5. name \in Seq(S) /\ IsCut(name, W, length)
  BY <1>4, Cut
<1> HIDE DEF name
<1>6. Len(full) \in Nat /\ Len(C) \in Nat /\ Len(name) \in Nat /\ Len(W) = Len(C) + 2
  BY <1>1, <1>2, <1>4, <1>5 DEF Joins
<1>7. /\ Len(C) = IF length <= Len(full) THEN length ELSE Len(full)
      /\ Len(name) = IF length <= Len(W) THEN length ELSE Len(W)
  BY <1>1, <1>5 DEF IsCut
<1>8. \A i \in 1 .. Len(C) : W[i] = C[i] /\ C[i] # key
  <2>1. \A i \in 1 .. Len(C) : W[i] = C[i] /\ C[i] = full[i]
    BY <1>1, <1>4 DEF Joins, IsCut
  <2>2. \A i \in 1 .. Len(C) : i \in 1 .. Len(full)
    BY <1>6, <1>7
  <2> QED BY <2>1, <2>2 DEF Free
<1>9. W[Len(C) + 1] = u
  BY <1>2, <1>4 DEF Joins
<1>10. Len(C) + 2 <= length
  <2> SUFFICES ASSUME length < Len(C) + 2
               PROVE  FALSE
    BY <1>6
  <2>1. Len(name) = length /\ length \in 1 .. Len(C) + 1
    BY <1>6, <1>7
  <2>2. name[length] = key /\ name[length] = W[length]
    BY <1>3, <1>5, <2>1 DEF Last, IsCut
  <2>3. length \in 1 .. Len(C) \/ length = Len(C) + 1
    BY <1>6, <2>1
  <2> QED BY <1>8, <1>9, <2>2, <2>3
<1>11. Len(C) = Len(full) /\ Len(full) + 2 <= length /\ Len(name) = Len(W)
  BY <1>6, <1>7, <1>10
<1>12. C = full
  <2>1. \A i \in 1 .. Len(C) : C[i] = full[i]
    BY <1>1 DEF IsCut
  <2> QED BY <1>1, <1>11, <2>1, SeqEqual
<1>13. name = W
  <2>1. \A i \in 1 .. Len(name) : name[i] = W[i]
    BY <1>5 DEF IsCut
  <2> QED BY <1>4, <1>5, <1>11, <2>1, SeqEqual
<1> QED BY <1>11, <1>12, <1>13 DEF W, C, e, name, CutWithKey, WithKey, Room

\* A name that is not cut begins with one name of a Service, followed by u, and is
\* one name of a load balancer: its own.
LEMMA PrefixTells ==
    ASSUME NEW A, NEW c, NEW u, NEW key, NEW S,
           NEW ns \in Seq(A), NEW nm \in Seq(A), NEW full \in Seq(S),
           NEW ms \in Seq(A), NEW mm \in Seq(A), NEW part \in Seq(S),
           NEW length \in Nat \ {0},
           u \notin A, u \in S, key \in S, u # key,
           Spells(full, c, u, ns, nm), Spells(part, c, u, ms, mm), Room(full, length)
    PROVE  /\ IsPrefix(Append(cutString(part, length), u), WithKey(full, u, key)) => ms = ns /\ mm = nm
           /\ cutString(part, length) = full => ms = ns /\ mm = nm
           /\ IsPrefix(Append(full, u), WithKey(full, u, key))
<1> DEFINE C == cutString(part, length)
           e == <<u, key>>
           W == full \o e
           U == Append(C, u)
           F == Append(full, u)
<1>1. C \in Seq(S) /\ IsCut(C, part, length)
  BY Cut
<1>2. e \in Seq(S) /\ Len(e) = 2 /\ e[1] = u /\ e[2] = key
  OBVIOUS
<1> HIDE DEF C, e
<1>3. W \in Seq(S) /\ Joins(W, full, e)
  BY <1>2, Joined
<1> HIDE DEF W
<1>4. U \in Seq(S) /\ Len(U) = Len(C) + 1 /\ U[Len(C) + 1] = u /\ \A i \in 1 .. Len(C) : U[i] = C[i]
  BY <1>1, AppendProperties
<1>5. F \in Seq(S) /\ Len(F) = Len(full) + 1 /\ F[Len(full) + 1] = u /\ \A i \in 1 .. Len(full) : F[i] = full[i]
  BY AppendProperties
<1> HIDE DEF U, F
<1>6. /\ Len(full) \in Nat /\ Len(part) \in Nat /\ Len(C) \in Nat
      /\ Len(W) = Len(full) + 2 /\ Len(full) + 2 <= length
  BY <1>1, <1>2, <1>3 DEF Joins, Room
<1>7. Len(C) = IF length <= Len(part) THEN length ELSE Len(part)
  BY <1>1 DEF IsCut
<1>8. /\ W[Len(full) + 1] = u /\ W[Len(full) + 2] = key
      /\ \A i \in 1 .. Len(full) : W[i] = full[i]
  BY <1>2, <1>3 DEF Joins
<1>9. ASSUME Len(C) < length
      PROVE  C = part
  <2>1. Len(C) = Len(part)
    BY <1>6, <1>7, <1>9
  <2>2. \A i \in 1 .. Len(C) : C[i] = part[i]
    BY <1>1 DEF IsCut
  <2> QED BY <1>1, <2>1, <2>2, SeqEqual
<1>10. ASSUME IsPrefix(U, W)
       PROVE  ms = ns /\ mm = nm
  <2>1. Len(U) <= Len(W) /\ \A i \in 1 .. Len(U) : U[i] = W[i]
    BY <1>3, <1>4, <1>10, Prefix
  <2>2. Len(C) <= Len(full) + 1
    BY <1>4, <1>6, <2>1
  <2>3. Len(C) + 1 \in 1 .. Len(U)
    BY <1>4, <1>6
  <2>4. W[Len(C) + 1] = u
    BY <1>4, <2>1, <2>3
  <2>5. Len(C) # Len(full) + 1
    <3> SUFFICES ASSUME Len(C) = Len(full) + 1
                 PROVE  FALSE
      OBVIOUS
    <3>1. Len(C) + 1 = Len(full) + 2
      BY <1>6
    <3> QED BY <1>8, <2>4, <3>1
  <2>6. Len(C) <= Len(full)
    BY <1>6, <2>2, <2>5
  <2>7. C = part
    BY <1>6, <1>9, <2>6
  <2>8. \A i \in 1 .. Len(C) : C[i] = full[i]
    <3>1. \A i \in 1 .. Len(C) : i \in 1 .. Len(U) /\ i \in 1 .. Len(full)
      BY <1>4, <1>6, <2>6
    <3> QED BY <1>4, <1>8, <2>1, <3>1
  <2>9. Len(C) < Len(full) => full[Len(C) + 1] = u
    <3>1. Len(C) < Len(full) => Len(C) + 1 \in 1 .. Len(full)
      BY <1>6
    <3> QED BY <1>8, <2>4, <3>1
  <2>10. Begins(part, full, u)
    BY <2>6, <2>7, <2>8, <2>9 DEF Begins
  <2> QED BY <2>10, BeginsWith
<1>11. ASSUME C = full
       PROVE  ms = ns /\ mm = nm
  <2>1. C = part
    BY <1>6, <1>9, <1>11
  <2>2. Begins(part, full, u)
    BY <1>6, <1>11, <2>1 DEF Begins
  <2> QED BY <2>2, BeginsWith
<1>12. IsPrefix(F, W)
  <2>1. Len(F) <= Len(W)
    BY <1>5, <1>6
  <2>2. \A i \in 1 .. Len(F) : F[i] = W[i]
    <3>1. \A i \in 1 .. Len(F) : i \in 1 .. Len(full) \/ i = Len(full) + 1
      BY <1>5, <1>6
    <3> QED BY <1>5, <1>8, <3>1
  <2> QED BY <1>3, <1>5, <2>1, <2>2, Prefix
<1> QED BY <1>10, <1>11, <1>12 DEF U, F, W, C, e, WithKey

\* Sequences over a set are sequences over a larger one.
LEMMA SeqOver ==
    ASSUME NEW A, NEW B, A \subseteq B, NEW s \in Seq(A)
    PROVE  s \in Seq(B)
OBVIOUS

\* The same for two names spelled out, if the first one still ends in its key.
Tells(full, part, u, key, length, same) ==
    /\ cutString(full, length) = full
    /\ IsPrefix(Append(cutString(part, length), u), CutWithKey(full, u, key, length)) => same
    /\ cutString(part, length) = full => same
    /\ IsPrefix(Append(full, u), CutWithKey(full, u, key, length))

LEMMA SpelledApart ==
    ASSUME NEW A, NEW c, NEW u, NEW key, NEW S,
           NEW ns \in Seq(A), NEW nm \in Seq(A), NEW full \in Seq(S),
           NEW ms \in Seq(A), NEW mm \in Seq(A), NEW part \in Seq(S),
           NEW length \in Nat \ {0},
           u \notin A, u \in S, key \in S, u # key,
           Spells(full, c, u, ns, nm), Spells(part, c, u, ms, mm), Free(full, key),
           Last(CutWithKey(full, u, key, length)) = key
    PROVE  Tells(full, part, u, key, length, ms = ns /\ mm = nm)
<1>1. /\ cutString(full, length) = full /\ Room(full, length)
      /\ CutWithKey(full, u, key, length) = WithKey(full, u, key)
  BY KeyKept
<1>2. /\ IsPrefix(Append(cutString(part, length), u), WithKey(full, u, key)) => ms = ns /\ mm = nm
      /\ cutString(part, length) = full => ms = ns /\ mm = nm
      /\ IsPrefix(Append(full, u), WithKey(full, u, key))
  BY <1>1, PrefixTells
<1> QED BY <1>1, <1>2 DEF Tells

\* The same for two names as they are written.
Written(c, u, ns, nm) == <<c, u>> \o ns \o <<u>> \o nm

LEMMA WrittenApart ==
    ASSUME NEW A, NEW c, NEW u, NEW key,
           NEW ns \in Seq(A), NEW nm \in Seq(A), NEW ms \in Seq(A), NEW mm \in Seq(A),
           NEW length \in Nat \ {0},
           u \notin A, key \notin A, u # key, c # key,
           Last(CutWithKey(Written(c, u, ns, nm), u, key, length)) = key
    PROVE  Tells(Written(c, u, ns, nm), Written(c, u, ms, mm), u, key, length, ms = ns /\ mm = nm)
<1> DEFINE T == A \cup {c, u}
           S == T \cup {key}
           full == Written(c, u, ns, nm)
           part == Written(c, u, ms, mm)
<1>1. full \in Seq(T) /\ Spells(full, c, u, ns, nm)
  BY SpelledOut DEF Written
<1>2. part \in Seq(T) /\ Spells(part, c, u, ms, mm)
  BY SpelledOut DEF Written
<1>3. T \subseteq S /\ u \in S /\ key \in S /\ key \notin T
  OBVIOUS
<1> HIDE DEF T, S
<1>4. full \in Seq(S) /\ part \in Seq(S)
  BY <1>1, <1>2, <1>3, SeqOver
<1>5. Free(full, key)
  BY <1>1, <1>3, FreeOf
<1>6. Last(CutWithKey(full, u, key, length)) = key
  OBVIOUS
<1> HIDE DEF full, part
<1>7. Tells(full, part, u, key, length, ms = ns /\ mm = nm)
  BY <1>1, <1>2, <1>3, <1>4, <1>5, <1>6, SpelledApart
<1> QED BY <1>7 DEF full, part

\* The prefix and the name of another Service do not match.
Apart(mine, other, length) ==
    /\ namedAfter(other, childName(mine, "TCP_80", length), length) <=> other = mine
    /\ (GetLoadBalancerName(other, length) = GetLoadBalancerName(mine, length)) <=> other = mine

\* Whatever the length at which names are cut: a name that is not cut tells its
\* Service, for namespaces and names of letters other than "_" (GetLoadBalancerName
\* and the prefix tests of reconcile, EnsureLoadBalancerDeleted and deleteIPGroup).
THEOREM TellApart ==
    ASSUME NEW A, NEW length \in Nat \ {0},
           NEW mine \in [namespace : Seq(A), name : Seq(A)],
           NEW other \in [namespace : Seq(A), name : Seq(A)],
           "_" \notin A, "TCP_80" \notin A,
           Last(childName(mine, "TCP_80", length)) = "TCP_80"
    PROVE  Apart(mine, other, length)
<1> DEFINE c == "cluster"
           u == "_"
           key == "TCP_80"
           full == fullName(mine)
           part == fullName(other)
           same == other.namespace = mine.namespace /\ other.name = mine.name
<1>1. /\ mine.namespace \in Seq(A) /\ mine.name \in Seq(A)
      /\ other.namespace \in Seq(A) /\ other.name \in Seq(A)
  OBVIOUS
<1>2. same <=> other = mine
  <2>1. /\ mine = [namespace |-> mine.namespace, name |-> mine.name]
        /\ other = [namespace |-> other.namespace, name |-> other.name]
    OBVIOUS
  <2> QED BY <2>1
<1>3. u \notin A /\ key \notin A /\ u # key /\ c # key
  OBVIOUS
<1>4. /\ full = Written(c, u, mine.namespace, mine.name)
      /\ part = Written(c, u, other.namespace, other.name)
  BY DEF fullName, Written
<1>5. childName(mine, key, length) = CutWithKey(full, u, key, length)
  BY DEF childName, GetLoadBalancerName, CutWithKey
<1>6. Last(CutWithKey(full, u, key, length)) = key
  BY <1>5
<1>7. other = mine => part = full
  OBVIOUS
<1>8. /\ GetLoadBalancerName(other, length) = cutString(part, length)
      /\ GetLoadBalancerName(mine, length) = cutString(full, length)
  BY DEF GetLoadBalancerName
<1>9. namedAfter(other, childName(mine, key, length), length)
        <=> IsPrefix(Append(cutString(part, length), u), CutWithKey(full, u, key, length))
  BY <1>5, <1>8 DEF namedAfter
<1> HIDE DEF c, u, key
<1>10. Tells(full, part, u, key, length, same)
  <2> HIDE DEF full, part
  <2> QED BY <1>1, <1>3, <1>4, <1>6, WrittenApart
<1> HIDE DEF full, part, same
<1>11. /\ namedAfter(other, childName(mine, key, length), length) <=> other = mine
       /\ (GetLoadBalancerName(other, length) = GetLoadBalancerName(mine, length)) <=> other = mine
  <2>1. other = mine => cutString(part, length) = full
    BY <1>7, <1>10 DEF Tells
  <2> QED BY <1>2, <1>8, <1>9, <1>10, <2>1 DEF Tells
<1> QED BY <1>11 DEF Apart, key

\* The same of every pair of Services the run looks at, for every MaxName.
THEOREM NamesTellServicesApart == Spec => []NamesTellApart
<1>1. Init => NamesTellApart
  <2> SUFFICES ASSUME input \in [mine : ServiceNames, other : ServiceNames],
                      Last(childName(input.mine, "TCP_80", MaxName)) = "TCP_80"
               PROVE  Apart(input.mine, input.other, MaxName)
    BY DEF Init, NamesTellApart, Apart
  <2> DEFINE A == {"a", "b"}
  <2>1. "_" \notin A /\ "TCP_80" \notin A
    OBVIOUS
  <2>2. ASSUME NEW s \in Letters
        PROVE  s \in Seq(A)
    <3>1. PICK n \in 1 .. 3 : s \in [1 .. n -> A]
      BY DEF Letters
    <3> QED BY <3>1
  <2>3. MaxName \in Nat \ {0}
    BY CasesAssumption
  <2> HIDE DEF A
  <2>4. input.mine \in [namespace : Letters, name : Letters] /\ input.other \in [namespace : Letters, name : Letters]
    BY DEF ServiceNames
  <2>5. input.mine \in [namespace : Seq(A), name : Seq(A)] /\ input.other \in [namespace : Seq(A), name : Seq(A)]
    BY <2>2, <2>4
  <2> QED BY <2>1, <2>3, <2>5, TellApart
<1>2. NamesTellApart /\ [Next]_vars => NamesTellApart'
  BY DEF NamesTellApart, Next, vars
<1> QED BY <1>1, <1>2, PTL DEF Spec
=============================================================================
