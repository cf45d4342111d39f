--------------------------- MODULE NetSync_proofs ---------------------------
(***************************************************************************)
(* What NetSync keeps, for any number of peers and blocks, any DAG and any *)
(* limits.                                                                 *)
(***************************************************************************)
EXTENDS NetSync, FiniteSetTheorems, Induction, TLAPS

\* A finite set whose elements have heights can be listed lowest first.
LEMMA SortedListing ==
    ASSUME NEW S, IsFiniteSet(S), NEW h, \A x \in S : h[x] \in Nat
    PROVE  \E t \in Listings(S) :
             \A i, j \in 1..Cardinality(S) : i < j => h[t[i]] <= h[t[j]]
<1> DEFINE Sorted(t, m) == \A i, j \in 1..m : i < j => h[t[i]] <= h[t[j]]
           Good(T, m) == \E t \in Bijection(1..m, T) : Sorted(t, m)
           A == {m \in Nat : \A T \in SUBSET S : Cardinality(T) = m => Good(T, m)}
           N == Cardinality(S)
<1>1. N \in Nat
  BY FS_CardinalityType
<1>2. 0 \in A
  <2>1. ASSUME NEW T \in SUBSET S, Cardinality(T) = 0 PROVE Good(T, 0)
    <3>1. T = {}
      BY <2>1, FS_Subset, FS_EmptySet
    <3> DEFINE t == [i \in 1..0 |-> i]
    <3>2. t \in Bijection(1..0, T)
      BY <3>1 DEF Bijection, Injection, Surjection, IsInjective
    <3>3. Sorted(t, 0)
      OBVIOUS
    <3> HIDE DEF t, Sorted
    <3>4. QED
      BY <3>2, <3>3
  <2> HIDE DEF Good
  <2>2. QED
    BY <2>1
<1>3. ASSUME NEW m \in 1..N, m - 1 \in A PROVE m \in A
  <2>1. ASSUME NEW T \in SUBSET S, Cardinality(T) = m PROVE Good(T, m)
    <3>1. IsFiniteSet(T) /\ T # {}
      BY <1>1, <2>1, FS_Subset, FS_EmptySet
    <3>2. PICK x \in T : \A y \in T : h[x] <= h[y]
      <4> DEFINE H == {h[y] : y \in T}
      <4>1. H \in SUBSET Nat /\ H # {}
        BY <3>1
      <4>2. PICK k \in H : \A l \in H : k <= l
        BY <4>1, LeastNumber, Zenon
      <4>3. QED
        BY <4>2
    <3> DEFINE R == T \ {x}
    <3>3. R \in SUBSET S /\ Cardinality(R) = m - 1
      <4>1. Cardinality(R) = Cardinality(T) - 1
        BY <3>1, FS_RemoveElement, Zenon
      <4>2. QED
        BY <2>1, <4>1
    <3>4. PICK r \in Bijection(1..(m - 1), R) : Sorted(r, m - 1)
      <4> HIDE DEF R, Sorted
      <4>1. \A U \in SUBSET S : Cardinality(U) = m - 1 => Good(U, m - 1)
        BY <1>3
      <4>2. QED
        BY <3>3, <4>1
    <3>5. /\ r \in [1..(m - 1) -> R]
          /\ \A i, j \in 1..(m - 1) : r[i] = r[j] => i = j
          /\ \A y \in R : \E i \in 1..(m - 1) : r[i] = y
      BY <3>4 DEF Bijection, Injection, Surjection, IsInjective
    <3> DEFINE t == [i \in 1..m |-> IF i = 1 THEN x ELSE r[i - 1]]
    <3>6. /\ \A i \in 2..m : i - 1 \in 1..(m - 1) /\ i # 1 /\ i \in 1..m
          /\ \A i \in 1..m : i # 1 => i \in 2..m
          /\ \A i \in 1..(m - 1) : i + 1 \in 2..m /\ (i + 1) - 1 = i
          /\ 1 \in 1..m
      BY <1>1
    <3>7. t[1] = x /\ \A i \in 2..m : t[i] = r[i - 1] /\ r[i - 1] \in R
      BY <3>5, <3>6
    <3>8. t \in [1..m -> T]
      BY <3>5, <3>6
    <3> HIDE DEF t
    <3>9. ASSUME NEW i \in 1..m, NEW j \in 1..m, t[i] = t[j] PROVE i = j
      <4>1. CASE i = 1 \/ j = 1
        BY <3>6, <3>7, <3>9, <4>1
      <4>2. CASE i # 1 /\ j # 1
        <5>1. i - 1 = j - 1
          BY <3>5, <3>6, <3>7, <3>9, <4>2
        <5>2. QED
          BY <5>1, <1>1
      <4>3. QED
        BY <4>1, <4>2
    <3>10. ASSUME NEW y \in T PROVE \E i \in 1..m : t[i] = y
      <4>1. CASE y = x
        BY <3>6, <3>7, <4>1
      <4>2. CASE y # x
        <5>1. PICK i \in 1..(m - 1) : r[i] = y
          BY <3>5, <4>2
        <5>2. i + 1 \in 1..m /\ t[i + 1] = y
          BY <3>6, <3>7, <5>1
        <5>3. QED
          BY <5>2
      <4>3. QED
        BY <4>1, <4>2
    <3>11. t \in Bijection(1..m, T)
      <4>1. DOMAIN t = 1..m
        BY <3>8
      <4>2. QED
        BY <3>8, <3>9, <3>10, <4>1 DEF Bijection, Injection, Surjection, IsInjective
    <3>12. Sorted(t, m)
      <4> SUFFICES ASSUME NEW i \in 1..m, NEW j \in 1..m, i < j
                   PROVE  h[t[i]] <= h[t[j]]
        OBVIOUS
      <4>1. j # 1 /\ j \in 2..m
        BY <1>1, <3>6
      <4>2. CASE i = 1
        BY <3>2, <3>7, <4>1, <4>2, SMTT(30)
      <4>3. CASE i # 1
        <5>1. i - 1 \in 1..(m - 1) /\ j - 1 \in 1..(m - 1) /\ i - 1 < j - 1
          BY <1>1, <3>6, <4>1, <4>3
        <5>2. h[r[i - 1]] <= h[r[j - 1]]
          BY <3>4, <5>1, Zenon
        <5>3. QED
          BY <3>6, <3>7, <4>1, <4>3, <5>2, SMTT(30)
      <4>4. QED
        BY <4>2, <4>3
    <3> HIDE DEF Sorted
    <3>13. QED
      BY <3>11, <3>12
  <2> HIDE DEF Good
  <2>2. m \in Nat
    BY <1>1
  <2>3. QED
    BY <2>1, <2>2
<1>4. N \in A
  <2> HIDE DEF A, N
  <2>1. \A n \in 0..N : n \in A
    <3>1. \A n \in 1..N : n - 1 \in A => n \in A
      BY <1>3
    <3>2. QED
      BY <1>1, <1>2, <3>1, UpTo, Zenon
  <2>2. QED
    BY <1>1, <2>1
<1>5. Good(S, N)
  <2> HIDE DEF Good
  <2>1. QED
    BY <1>4
<1>6. QED
  BY <1>5 DEF Listings

\* Every finite set of numbers that is not empty has a maximum.
LEMMA MaxIs ==
    ASSUME NEW S \in SUBSET Nat, IsFiniteSet(S), S # {}
    PROVE  Max(S) \in S /\ \A x \in S : Max(S) >= x
<1> DEFINE N == Cardinality(S)
           h == [x \in S |-> x]
<1>1. N \in Nat /\ N # 0 /\ \A x \in S : h[x] = x /\ h[x] \in Nat
  BY FS_CardinalityType, FS_EmptySet
<1> HIDE DEF N, h
<1>2. PICK t \in Listings(S) : \A i, j \in 1..N : i < j => h[t[i]] <= h[t[j]]
  BY <1>1, SortedListing, Zenon DEF N
<1>3. t \in [1..N -> S] /\ \A y \in S : \E i \in 1..N : t[i] = y
  BY <1>2 DEF Listings, Bijection, Injection, Surjection, N
<1>4. N \in 1..N /\ t[N] \in S
  BY <1>1, <1>3
<1>5. ASSUME NEW x \in S PROVE t[N] >= x
  <2>1. PICK i \in 1..N : t[i] = x
    BY <1>3
  <2>2. CASE i = N
    BY <1>4, <2>1, <2>2
  <2>3. CASE i # N
    <3>1. i < N
      BY <1>1, <2>3
    <3>2. h[x] <= h[t[N]]
      BY <1>2, <1>4, <2>1, <3>1, Zenon
    <3>3. h[x] = x /\ h[t[N]] = t[N] /\ x \in Nat /\ t[N] \in Nat
      BY <1>1, <1>4, Zenon
    <3>4. QED
      BY <3>2, <3>3
  <2>4. QED
    BY <2>2, <2>3
<1>6. \E y \in S : \A x \in S : y >= x
  BY <1>4, <1>5, Zenon
<1>7. QED
  BY <1>6, Zenon DEF Max

\* An empty queue has no positions.
LEMMA NoPositions == 1..Len(<<>>) = {}
OBVIOUS

\* The larger of two numbers, as heights are updated with, is a number.
LEMMA MaxOfTwo ==
    ASSUME NEW a \in Nat, NEW b \in Nat
    PROVE  Max({a, b}) \in Nat
<1>1. IsFiniteSet({a} \cup {b})
  BY FS_Singleton, FS_AddElement, Zenon
<1>2. {a} \cup {b} = {a, b}
  OBVIOUS
<1>3. {a, b} \in SUBSET Nat /\ {a, b} # {} /\ IsFiniteSet({a, b})
  BY <1>1, <1>2
<1>4. Max({a, b}) \in {a, b}
  BY <1>3, MaxIs, Zenon
<1>5. QED
  BY <1>4

\* The height of a set of blocks is a number.
LEMMA HighestIs ==
    ASSUME NEW B \in SUBSET Block
    PROVE  Highest(B) \in Nat
<1> DEFINE C == B \cup {Genesis}
           H == {height[b] : b \in C}
           f == [b \in C |-> height[b]]
<1>1. IsFiniteSet(C)
  BY DagAssumption, FS_Subset, FS_AddElement
<1>2. f \in Surjection(C, H)
  BY DEF Surjection
<1>3. IsFiniteSet(H)
  <2> HIDE DEF f, C, H
  <2>1. QED
    BY <1>1, <1>2, FS_Surjection, Zenon
<1>4. H \in SUBSET Nat /\ H # {}
  BY DagAssumption
<1>5. Max(H) \in H
  <2> HIDE DEF H
  <2>1. QED
    BY <1>3, <1>4, MaxIs, Zenon
<1>6. QED
  BY <1>4, <1>5 DEF Highest

-----------------------------------------------------------------------------
(* Request maps.                                                            *)

Reqs == UNION {[B -> 0..RequestLife] : B \in SUBSET Block}

\* A request map, unfolded: blocks with the steps they have left.
LEMMA ReqsIs ==
    ASSUME NEW r
    PROVE  r \in Reqs <=> DOMAIN r \subseteq Block /\ r \in [DOMAIN r -> 0..RequestLife]
<1>1. ASSUME r \in Reqs
      PROVE  DOMAIN r \subseteq Block /\ r \in [DOMAIN r -> 0..RequestLife]
  <2>1. PICK B \in SUBSET Block : r \in [B -> 0..RequestLife]
    BY <1>1, Zenon DEF Reqs
  <2>2. QED
    BY <2>1
<1>2. ASSUME DOMAIN r \subseteq Block /\ r \in [DOMAIN r -> 0..RequestLife]
      PROVE  r \in Reqs
  BY <1>2, Zenon DEF Reqs
<1>3. QED
  BY <1>1, <1>2

\* The empty map tracks nothing.
LEMMA EmptyReqs == Empty \in Reqs /\ DOMAIN Empty = {}
<1>1. DOMAIN Empty = {} /\ Empty \in [{} -> 0..RequestLife]
  BY DEF Empty
<1>2. QED
  BY <1>1, ReqsIs, Zenon

\* Deleting requests leaves a request map without them.
LEMMA ForgetReqs ==
    ASSUME NEW r \in Reqs, NEW B
    PROVE  Forget(r, B) \in Reqs /\ DOMAIN Forget(r, B) = DOMAIN r \ B
<1>1. DOMAIN r \subseteq Block /\ r \in [DOMAIN r -> 0..RequestLife]
  BY ReqsIs, Zenon
<1>2. /\ DOMAIN Forget(r, B) = DOMAIN r \ B
      /\ Forget(r, B) \in [DOMAIN r \ B -> 0..RequestLife]
  BY <1>1 DEF Forget
<1>3. DOMAIN r \ B \subseteq Block
  BY <1>1
<1>4. QED
  BY <1>2, <1>3, ReqsIs, Zenon

\* limitTrackedReqs may drop requests and adds none.
LEMMA LimitReqs ==
    ASSUME NEW r \in Reqs
    PROVE  /\ limitTrackedReqs(r) \in Reqs
           /\ DOMAIN limitTrackedReqs(r) \subseteq DOMAIN r
<1> DEFINE live == {b \in DOMAIN r : r[b] > 0}
           l == [b \in live |-> r[b]]
<1>1. DOMAIN r \subseteq Block /\ r \in [DOMAIN r -> 0..RequestLife]
  BY ReqsIs, Zenon
<1>2. DOMAIN l = live /\ l \in [live -> 0..RequestLife] /\ live \subseteq Block
  BY <1>1
<1>3. l \in Reqs /\ DOMAIN l \subseteq DOMAIN r
  BY <1>2, ReqsIs
<1>4. limitTrackedReqs(r) = l \/ limitTrackedReqs(r) = Empty
  BY DEF limitTrackedReqs
<1> HIDE DEF l
<1>5. QED
  BY <1>3, <1>4, EmptyReqs

\* Tracking a block adds just that block.
LEMMA WithReqs ==
    ASSUME NEW r \in Reqs, NEW b \in Block
    PROVE  With(r, b) \in Reqs /\ DOMAIN With(r, b) = DOMAIN r \cup {b}
<1>1. DOMAIN r \subseteq Block /\ r \in [DOMAIN r -> 0..RequestLife]
  BY ReqsIs, Zenon
<1>2. /\ DOMAIN With(r, b) = DOMAIN r \cup {b}
      /\ With(r, b) \in [DOMAIN r \cup {b} -> 0..RequestLife]
  BY <1>1, LimitAssumption DEF With
<1>3. DOMAIN r \cup {b} \subseteq Block
  BY <1>1
<1>4. QED
  BY <1>2, <1>3, ReqsIs, Zenon

\* Requests that grow older stay tracked until they are expired.
LEMMA AgedReqs ==
    ASSUME NEW r \in Reqs
    PROVE  Aged(r) \in Reqs /\ DOMAIN Aged(r) = DOMAIN r
<1>1. DOMAIN r \subseteq Block /\ r \in [DOMAIN r -> 0..RequestLife]
  BY ReqsIs, Zenon
<1>2. DOMAIN Aged(r) = DOMAIN r /\ Aged(r) \in [DOMAIN r -> 0..RequestLife]
  BY <1>1, LimitAssumption DEF Aged
<1>3. QED
  BY <1>1, <1>2, ReqsIs, Zenon

-----------------------------------------------------------------------------
(* Messages, and what a handler has done so far.                            *)

Stop == Block \cup {NoBlock}

ToMsg == [type : {"getdata"}, blocks : Seq(Block)]
         \cup [type : {"getblocks"}, from : Nat, stop : Stop]

FromMsg == [type : {"inv"}, blocks : Seq(Block)]
           \cup [type : {"block"}, block : Block] \cup [type : {"more"}]

\* The blocks that a queue of messages asks for, or brings, are in K.
AskedIn(q, K) ==
    \A i \in 1..Len(q) : q[i].type = "getdata" =>
        \A j \in 1..Len(q[i].blocks) : q[i].blocks[j] \in K

SentIn(q, K) ==
    \A i \in 1..Len(q) : q[i].type = "block" => q[i].block \in K

Effect == [mine : Reqs, all : Reqs, out : Seq(ToMsg), prev : Stop \X Nat]

\* Effects that keep the requests M of the peer, that leave in the global map
\* requests of this peer or of O, and that ask for tracked blocks only.
Good(M, O) ==
    {e \in Effect : /\ M \subseteq DOMAIN e.mine
                    /\ DOMAIN e.all \subseteq O \cup DOMAIN e.mine
                    /\ AskedIn(e.out, DOMAIN e.mine)}

\* The updates of a handler's record, field by field.
LEMMA EffectExcept ==
    ASSUME NEW A, NEW B, NEW C, NEW D, NEW x, NEW y,
           NEW e \in [mine : A, all : B, out : C, prev : D]
    PROVE  /\ [e EXCEPT !.all = x, !.mine = y]
                = [mine |-> y, all |-> x, out |-> e.out, prev |-> e.prev]
           /\ [e EXCEPT !.mine = x, !.all = y]
                = [mine |-> x, all |-> y, out |-> e.out, prev |-> e.prev]
           /\ [e EXCEPT !.prev = x, !.out = y]
                = [mine |-> e.mine, all |-> e.all, out |-> y, prev |-> x]
           /\ [e EXCEPT !.out = x]
                = [mine |-> e.mine, all |-> e.all, out |-> x, prev |-> e.prev]
<1>1. [e EXCEPT !.all = x, !.mine = y]
        = [mine |-> y, all |-> x, out |-> e.out, prev |-> e.prev]
  <2> DEFINE g == [e EXCEPT !.all = x]
  <2>1. g = [mine |-> e.mine, all |-> x, out |-> e.out, prev |-> e.prev]
    OBVIOUS
  <2>2. [e EXCEPT !.all = x, !.mine = y] = [g EXCEPT !.mine = y]
    OBVIOUS
  <2> HIDE DEF g
  <2>3. g \in [mine : A, all : {x}, out : C, prev : D]
    BY <2>1
  <2>4. [g EXCEPT !.mine = y] = [mine |-> y, all |-> x, out |-> e.out, prev |-> e.prev]
    BY <2>1, <2>3
  <2>5. QED
    BY <2>2, <2>4, Zenon
<1>2. [e EXCEPT !.mine = x, !.all = y]
        = [mine |-> x, all |-> y, out |-> e.out, prev |-> e.prev]
  <2> DEFINE g == [e EXCEPT !.mine = x]
  <2>1. g = [mine |-> x, all |-> e.all, out |-> e.out, prev |-> e.prev]
    OBVIOUS
  <2>2. [e EXCEPT !.mine = x, !.all = y] = [g EXCEPT !.all = y]
    OBVIOUS
  <2> HIDE DEF g
  <2>3. g \in [mine : {x}, all : B, out : C, prev : D]
    BY <2>1
  <2>4. [g EXCEPT !.all = y] = [mine |-> x, all |-> y, out |-> e.out, prev |-> e.prev]
    BY <2>1, <2>3
  <2>5. QED
    BY <2>2, <2>4, Zenon
<1>3. [e EXCEPT !.prev = x, !.out = y]
        = [mine |-> e.mine, all |-> e.all, out |-> y, prev |-> x]
  <2> DEFINE g == [e EXCEPT !.prev = x]
  <2>1. g = [mine |-> e.mine, all |-> e.all, out |-> e.out, prev |-> x]
    OBVIOUS
  <2>2. [e EXCEPT !.prev = x, !.out = y] = [g EXCEPT !.out = y]
    OBVIOUS
  <2> HIDE DEF g
  <2>3. g \in [mine : A, all : B, out : C, prev : {x}]
    BY <2>1
  <2>4. [g EXCEPT !.out = y] = [mine |-> e.mine, all |-> e.all, out |-> y, prev |-> x]
    BY <2>1, <2>3
  <2>5. QED
    BY <2>2, <2>4, Zenon
<1>4. [e EXCEPT !.out = x]
        = [mine |-> e.mine, all |-> e.all, out |-> x, prev |-> e.prev]
  OBVIOUS
<1>5. QED
  BY <1>1, <1>2, <1>3, <1>4, Zenon

\* A getdata for blocks of K may be appended to a queue that asks for
\* blocks of K only.
LEMMA AskedAppend ==
    ASSUME NEW q \in Seq(ToMsg), NEW m \in ToMsg, NEW K, AskedIn(q, K),
           m.type = "getdata" => \A j \in 1..Len(m.blocks) : m.blocks[j] \in K
    PROVE  Append(q, m) \in Seq(ToMsg) /\ AskedIn(Append(q, m), K)
<1> DEFINE r == Append(q, m)
<1>1. /\ r \in Seq(ToMsg) /\ Len(r) = Len(q) + 1 /\ Len(q) \in Nat
      /\ r[Len(q) + 1] = m /\ \A i \in 1..Len(q) : r[i] = q[i]
  BY SeqAppend, SeqLen
<1> HIDE DEF r
<1>2. \A i \in 1..Len(r) : i \in 1..Len(q) \/ i = Len(q) + 1
  BY <1>1
<1>3. ASSUME NEW i \in 1..Len(r), r[i].type = "getdata",
             NEW j \in 1..Len(r[i].blocks)
      PROVE  r[i].blocks[j] \in K
  <2>1. CASE i \in 1..Len(q)
    BY <1>1, <1>3, <2>1, Zenon DEF AskedIn
  <2>2. CASE i = Len(q) + 1
    BY <1>1, <1>3, <2>2, Zenon
  <2>3. QED
    BY <1>2, <2>1, <2>2
<1>4. QED
  BY <1>1, <1>3, Zenon DEF r, AskedIn

\* The same for a whole sequence of messages.
LEMMA AskedConcat ==
    ASSUME NEW q \in Seq(ToMsg), NEW s \in Seq(ToMsg), NEW K,
           AskedIn(q, K), AskedIn(s, K)
    PROVE  q \o s \in Seq(ToMsg) /\ AskedIn(q \o s, K)
<1> DEFINE r == q \o s
<1>1. /\ r \in Seq(ToMsg) /\ Len(r) = Len(q) + Len(s)
      /\ Len(q) \in Nat /\ Len(s) \in Nat
      /\ \A i \in 1..Len(q) : r[i] = q[i]
      /\ \A i \in 1..Len(r) : i \notin 1..Len(q) =>
            i - Len(q) \in 1..Len(s) /\ r[i] = s[i - Len(q)]
  BY SeqConcat, SeqLen
<1> HIDE DEF r
<1>2. ASSUME NEW i \in 1..Len(r), r[i].type = "getdata",
             NEW j \in 1..Len(r[i].blocks)
      PROVE  r[i].blocks[j] \in K
  <2>1. CASE i \in 1..Len(q)
    BY <1>1, <1>2, <2>1, Zenon DEF AskedIn
  <2>2. CASE i \notin 1..Len(q)
    BY <1>1, <1>2, <2>2, ZenonT(60) DEF AskedIn
  <2>3. QED
    BY <2>1, <2>2
<1>3. QED
  BY <1>1, <1>2, Zenon DEF r, AskedIn

\* A queue that asks for blocks of K asks for blocks of any larger set.
LEMMA AskedMore ==
    ASSUME NEW q, NEW K, NEW L, AskedIn(q, K), K \subseteq L
    PROVE  AskedIn(q, L)
BY Zenon DEF AskedIn

\* The same for the blocks that are sent.
LEMMA SentMore ==
    ASSUME NEW q, NEW K, NEW L, SentIn(q, K), K \subseteq L
    PROVE  SentIn(q, L)
BY Zenon DEF SentIn

\* trackReqBlock puts the block into both maps: a good record stays good.
LEMMA TrackGood ==
    ASSUME NEW M, NEW O, NEW e \in Good(M, O), NEW b \in Block
    PROVE  /\ trackReqBlock(e, b) \in Good(M, O)
           /\ DOMAIN trackReqBlock(e, b).mine = DOMAIN e.mine \cup {b}
<1> DEFINE f == trackReqBlock(e, b)
<1>1. /\ e.mine \in Reqs /\ e.all \in Reqs /\ e.out \in Seq(ToMsg)
      /\ e.prev \in Stop \X Nat /\ e \in Effect
  BY DEF Good, Effect
<1>2. /\ f.mine = With(e.mine, b) /\ f.out = e.out /\ f.prev = e.prev
      /\ f.all = IF b \in DOMAIN e.all THEN e.all
                 ELSE limitTrackedReqs(With(e.all, b))
      /\ f = [mine |-> f.mine, all |-> f.all, out |-> f.out, prev |-> f.prev]
  <2>1. f = [mine |-> With(e.mine, b),
             all |-> IF b \in DOMAIN e.all THEN e.all
                     ELSE limitTrackedReqs(With(e.all, b)),
             out |-> e.out, prev |-> e.prev]
    <3> DEFINE x == IF b \in DOMAIN e.all THEN e.all
                    ELSE limitTrackedReqs(With(e.all, b))
               y == With(e.mine, b)
    <3>1. f = [e EXCEPT !.all = x, !.mine = y]
      BY <1>1 DEF trackReqBlock, Effect
    <3> HIDE DEF x, y
    <3>2. f = [mine |-> y, all |-> x, out |-> e.out, prev |-> e.prev]
      BY <1>1, <3>1, EffectExcept, Zenon DEF Effect
    <3>3. QED
      BY <3>2, Zenon DEF x, y
  <2> HIDE DEF f
  <2>2. QED
    BY <2>1
<1> HIDE DEF f
<1>3. f.mine \in Reqs /\ DOMAIN f.mine = DOMAIN e.mine \cup {b}
  BY <1>1, <1>2, WithReqs, Zenon
<1>4. f.all \in Reqs /\ DOMAIN f.all \subseteq DOMAIN e.all \cup {b}
  <2>1. /\ With(e.all, b) \in Reqs
        /\ DOMAIN With(e.all, b) = DOMAIN e.all \cup {b}
    BY <1>1, WithReqs, Zenon
  <2>2. /\ limitTrackedReqs(With(e.all, b)) \in Reqs
        /\ DOMAIN limitTrackedReqs(With(e.all, b)) \subseteq DOMAIN With(e.all, b)
    BY <2>1, LimitReqs, Zenon
  <2>3. QED
    BY <1>1, <1>2, <2>1, <2>2
<1>5. f \in Effect
  BY <1>1, <1>2, <1>3, <1>4 DEF Effect
<1>6. /\ M \subseteq DOMAIN e.mine
      /\ DOMAIN e.all \subseteq O \cup DOMAIN e.mine
      /\ AskedIn(e.out, DOMAIN e.mine)
  BY Zenon DEF Good
<1>7. AskedIn(f.out, DOMAIN f.mine)
  <2>1. DOMAIN e.mine \subseteq DOMAIN f.mine
    BY <1>3
  <2>2. QED
    BY <1>2, <1>6, <2>1, AskedMore, Zenon
<1>8. M \subseteq DOMAIN f.mine /\ DOMAIN f.all \subseteq O \cup DOMAIN f.mine
  BY <1>3, <1>4, <1>6
<1>9. f \in Good(M, O)
  BY <1>5, <1>7, <1>8, Zenon DEF Good
<1>10. QED
  BY <1>3, <1>9 DEF f

\* A message that asks for no block, or for tracked ones, may be added.
LEMMA OutGood ==
    ASSUME NEW M, NEW O, NEW e \in Good(M, O), NEW m \in ToMsg,
           NEW prev \in Stop \X Nat, NEW f,
           f = [mine |-> e.mine, all |-> e.all, out |-> Append(e.out, m),
                prev |-> prev],
           m.type = "getdata" =>
             \A j \in 1..Len(m.blocks) : m.blocks[j] \in DOMAIN e.mine
    PROVE  f \in Good(M, O)
<1>1. /\ e.mine \in Reqs /\ e.all \in Reqs /\ e.out \in Seq(ToMsg)
      /\ M \subseteq DOMAIN e.mine
      /\ DOMAIN e.all \subseteq O \cup DOMAIN e.mine
      /\ AskedIn(e.out, DOMAIN e.mine)
  BY DEF Good, Effect
<1>2. /\ Append(e.out, m) \in Seq(ToMsg)
      /\ AskedIn(Append(e.out, m), DOMAIN e.mine)
  BY <1>1, AskedAppend, Zenon
<1>3. f.mine = e.mine /\ f.all = e.all /\ f.out = Append(e.out, m)
  OBVIOUS
<1>4. f \in Effect
  BY <1>1, <1>2 DEF Effect
<1>5. QED
  BY <1>1, <1>2, <1>3, <1>4, Zenon DEF Good

\* PushGetBlocksMsg asks for no block, and may send nothing at all.
LEMMA PushGood ==
    ASSUME NEW M, NEW O, NEW e \in Good(M, O), NEW from \in Nat, NEW stop \in Stop
    PROVE  PushGetBlocksMsg(e, from, stop) \in Good(M, O)
<1> DEFINE m == [type |-> "getblocks", from |-> from, stop |-> stop]
           f == [mine |-> e.mine, all |-> e.all, out |-> Append(e.out, m),
                 prev |-> <<stop, from>>]
<1>1. PushGetBlocksMsg(e, from, stop) = e \/ PushGetBlocksMsg(e, from, stop) = f
  <2>1. e \in Effect
    BY Zenon DEF Good
  <2>2. QED
    BY <2>1, EffectExcept, Zenon DEF PushGetBlocksMsg, Effect
<1>2. m \in ToMsg /\ m.type # "getdata" /\ <<stop, from>> \in Stop \X Nat
  BY DEF ToMsg
<1> HIDE DEF m
<1>3. f \in Good(M, O)
  BY <1>2, OutGood, Zenon
<1>4. QED
  BY <1>1, <1>3, Zenon

\* A getdata for blocks that the peer's own map holds keeps a record good.
LEMMA GetDataGood ==
    ASSUME NEW M, NEW O, NEW e \in Good(M, O), NEW bs \in Seq(Block),
           \A j \in 1..Len(bs) : bs[j] \in DOMAIN e.mine
    PROVE  GetData(e, bs) \in Good(M, O)
<1> DEFINE m == [type |-> "getdata", blocks |-> bs]
           f == [mine |-> e.mine, all |-> e.all, out |-> Append(e.out, m),
                 prev |-> e.prev]
<1>1. GetData(e, bs) = e \/ GetData(e, bs) = f
  <2>1. e \in Effect
    BY Zenon DEF Good
  <2>2. QED
    BY <2>1, EffectExcept, Zenon DEF GetData, Effect
<1>2. m \in ToMsg /\ m.blocks = bs /\ e.prev \in Stop \X Nat
  BY DEF ToMsg, Good, Effect
<1> HIDE DEF m
<1>3. f \in Good(M, O)
  BY <1>2, OutGood, Zenon
<1>4. QED
  BY <1>1, <1>3, Zenon

\* What reqBlocks asks for is tracked.
LEMMA AskForGood ==
    ASSUME NEW M, NEW O, NEW e \in Good(M, O), NEW inv \in Seq(Block)
    PROVE  GetData(AskFor(e, inv).e, AskFor(e, inv).blocks) \in Good(M, O)
<1> DEFINE L == Len(inv)
           base == [e |-> e, blocks |-> <<>>]
           X == {a \in [e : Good(M, O), blocks : Seq(Block)] :
                   \A j \in 1..Len(a.blocks) : a.blocks[j] \in DOMAIN a.e.mine}
           Def(f) == f = [n \in 0..L |-> IF n = 0 THEN base
                                         ELSE Ask(f[n - 1], inv[n])]
           after == CHOOSE f : Def(f)
           g == [p \in X \X Block |-> Ask(p[1], p[2])]
<1>1. L \in Nat /\ \A n \in 1..L : inv[n] \in Block
  BY SeqLen, SeqElement
<1>2. AskFor(e, inv) = after[L]
  BY DEF AskFor
<1>3. base \in X /\ \A a \in X, b \in Block : Ask(a, b) \in X
  <2>1. base \in X
    <3>1. <<>> \in Seq(Block) /\ Len(<<>>) = 0
      BY SeqEmpty, Zenon
    <3>2. QED
      BY <3>1
  <2>2. ASSUME NEW a \in X, NEW b \in Block PROVE Ask(a, b) \in X
    <3>1. CASE ~(~HaveBlock(b) /\ canReqBlock(a.e, b))
      BY <3>1, Zenon DEF Ask
    <3>2. CASE ~HaveBlock(b) /\ canReqBlock(a.e, b)
      <4> DEFINE f == trackReqBlock(a.e, b)
                 r == Append(a.blocks, b)
      <4>1. /\ a.e \in Good(M, O) /\ a.blocks \in Seq(Block)
            /\ \A j \in 1..Len(a.blocks) : a.blocks[j] \in DOMAIN a.e.mine
        OBVIOUS
      <4>2. f \in Good(M, O) /\ DOMAIN f.mine = DOMAIN a.e.mine \cup {b}
        BY <4>1, TrackGood
      <4>3. /\ r \in Seq(Block) /\ Len(r) = Len(a.blocks) + 1
            /\ Len(a.blocks) \in Nat /\ r[Len(a.blocks) + 1] = b
            /\ \A i \in 1..Len(a.blocks) : r[i] = a.blocks[i]
        BY <4>1, SeqAppend, SeqLen
      <4>4. Ask(a, b) = [e |-> f, blocks |-> r]
        BY <3>2, Zenon DEF Ask
      <4> HIDE DEF f, r
      <4>5. \A j \in 1..Len(r) : r[j] \in DOMAIN f.mine
        <5> SUFFICES ASSUME NEW j \in 1..Len(r) PROVE r[j] \in DOMAIN f.mine
          OBVIOUS
        <5>1. j = Len(a.blocks) + 1 \/ j \in 1..Len(a.blocks)
          BY <4>3
        <5>2. CASE j = Len(a.blocks) + 1
          BY <4>2, <4>3, <5>2, Zenon
        <5>3. CASE j \in 1..Len(a.blocks)
          <6>1. r[j] = a.blocks[j] /\ a.blocks[j] \in DOMAIN a.e.mine
            BY <4>1, <4>3, <5>3, Zenon
          <6>2. QED
            BY <4>2, <6>1, Zenon
        <5>4. QED
          BY <5>1, <5>2, <5>3
      <4>6. [e |-> f, blocks |-> r] \in X
        BY <4>2, <4>3, <4>5, Zenon
      <4>7. QED
        BY <4>4, <4>6, Zenon
    <3>3. QED
      BY <3>1, <3>2
  <2>3. QED
    BY <2>1, <2>2, Zenon
<1> HIDE DEF X, base
<1>4. \E f : Def(f)
  <2>1. g \in [X \X Block -> X]
    BY <1>3
  <2>2. PICK f \in [0..L -> X] :
          \A n \in 0..L : f[n] = IF n = 0 THEN base ELSE g[<<f[n - 1], inv[n]>>]
    <3> HIDE DEF g
    <3>1. PICK f : Follows(f, X, base, g, inv)
      BY <1>3, <2>1, AlongSequence, Zenon
    <3>2. QED
      BY <3>1, Zenon DEF Follows
  <2>3. ASSUME NEW n \in 0..L
        PROVE  f[n] = IF n = 0 THEN base ELSE Ask(f[n - 1], inv[n])
    <3>1. CASE n = 0
      BY <2>2, <3>1, Zenon
    <3>2. CASE n # 0
      <4>1. n \in 1..L /\ n - 1 \in 0..L
        BY <1>1, <3>2
      <4>2. <<f[n - 1], inv[n]>> \in X \X Block
        BY <1>1, <2>2, <4>1, Zenon
      <4>3. g[<<f[n - 1], inv[n]>>] = Ask(f[n - 1], inv[n])
        BY <4>2
      <4>4. QED
        BY <2>2, <3>2, <4>3, Zenon
    <3>3. QED
      BY <3>1, <3>2
  <2>4. Def(f)
    BY <2>2, <2>3
  <2>5. QED
    BY <2>4, Zenon
<1>5. Def(after)
  BY <1>4, Zenon
<1> HIDE DEF after
<1>6. \A n \in 0..L : after[n] = IF n = 0 THEN base
                                  ELSE Ask(after[n - 1], inv[n])
  BY <1>5, SMTT(30)
<1> DEFINE S == {n \in 0..L : after[n] \in X}
<1>7. 0 \in S
  BY <1>1, <1>3, <1>6
<1>8. ASSUME NEW n \in 1..L, n - 1 \in S PROVE n \in S
  <2>1. n \in 0..L /\ n # 0 /\ after[n - 1] \in X /\ inv[n] \in Block
    BY <1>1, <1>8
  <2>2. after[n] = Ask(after[n - 1], inv[n])
    BY <1>6, <2>1, Zenon
  <2>3. after[n] \in X
    BY <1>3, <2>1, <2>2, Zenon
  <2>4. QED
    BY <2>1, <2>3
<1>9. \A n \in 0..L : n \in S
  <2>1. \A n \in 1..L : n - 1 \in S => n \in S
    BY <1>8
  <2> HIDE DEF S
  <2>2. QED
    BY <1>1, <1>7, <2>1, UpTo, Zenon
<1>10. after[L] \in X
  BY <1>1, <1>9
<1>11. /\ after[L].e \in Good(M, O) /\ after[L].blocks \in Seq(Block)
       /\ \A j \in 1..Len(after[L].blocks) :
            after[L].blocks[j] \in DOMAIN after[L].e.mine
  <2> DEFINE a == after[L]
  <2>1. a \in X
    BY <1>10
  <2> HIDE DEF a
  <2>2. QED
    BY <2>1 DEF X, a
<1>12. QED
  BY <1>2, <1>11, GetDataGood, Zenon

\* What reqOrphanParents asks for is tracked.
LEMMA TrackedGood ==
    ASSUME NEW M, NEW O, NEW e \in Good(M, O), NEW bs \in Seq(Block)
    PROVE  GetData(Tracked(e, bs), bs) \in Good(M, O)
<1> DEFINE L == Len(bs)
           Def(f) == f = [n \in 0..L |-> IF n = 0 THEN e
                                         ELSE trackReqBlock(f[n - 1], bs[n])]
           after == CHOOSE f : Def(f)
           g == [p \in Good(M, O) \X Block |-> trackReqBlock(p[1], p[2])]
<1>1. L \in Nat /\ \A n \in 1..L : bs[n] \in Block
  BY SeqLen, SeqElement
<1>2. Tracked(e, bs) = after[L]
  BY DEF Tracked
<1>3. e \in Good(M, O) /\ \A a \in Good(M, O), b \in Block : trackReqBlock(a, b) \in Good(M, O)
  BY TrackGood, Zenon
<1>4. \E f : Def(f)
  <2>1. g \in [Good(M, O) \X Block -> Good(M, O)]
    BY <1>3
  <2>2. PICK f \in [0..L -> Good(M, O)] :
          \A n \in 0..L : f[n] = IF n = 0 THEN e ELSE g[<<f[n - 1], bs[n]>>]
    <3> HIDE DEF g
    <3>1. PICK f : Follows(f, Good(M, O), e, g, bs)
      BY <1>3, <2>1, AlongSequence, Zenon
    <3>2. QED
      BY <3>1, Zenon DEF Follows
  <2>3. ASSUME NEW n \in 0..L
        PROVE  f[n] = IF n = 0 THEN e ELSE trackReqBlock(f[n - 1], bs[n])
    <3>1. CASE n = 0
      BY <2>2, <3>1, Zenon
    <3>2. CASE n # 0
      <4>1. n \in 1..L /\ n - 1 \in 0..L
        BY <1>1, <3>2
      <4>2. <<f[n - 1], bs[n]>> \in Good(M, O) \X Block
        BY <1>1, <2>2, <4>1, Zenon
      <4>3. g[<<f[n - 1], bs[n]>>] = trackReqBlock(f[n - 1], bs[n])
        BY <4>2
      <4>4. QED
        BY <2>2, <3>2, <4>3, Zenon
    <3>3. QED
      BY <3>1, <3>2
  <2>4. Def(f)
    BY <2>2, <2>3
  <2>5. QED
    BY <2>4, Zenon
<1>5. Def(after)
  BY <1>4, Zenon
<1> HIDE DEF after
<1>6. \A n \in 0..L : after[n] = IF n = 0 THEN e
                                  ELSE trackReqBlock(after[n - 1], bs[n])
  BY <1>5, Zenon
<1> DEFINE S == {n \in 0..L : /\ after[n] \in Good(M, O)
                              /\ \A i \in 1..n : bs[i] \in DOMAIN after[n].mine}
<1>7. 0 \in S
  BY <1>1, <1>6
<1>8. ASSUME NEW n \in 1..L, n - 1 \in S PROVE n \in S
  <2>1. /\ n \in 0..L /\ n # 0 /\ after[n - 1] \in Good(M, O) /\ bs[n] \in Block
        /\ \A i \in 1..(n - 1) : bs[i] \in DOMAIN after[n - 1].mine
    BY <1>1, <1>8
  <2>2. after[n] = trackReqBlock(after[n - 1], bs[n])
    BY <1>6, <2>1, Zenon
  <2>3. /\ after[n] \in Good(M, O)
        /\ DOMAIN after[n].mine = DOMAIN after[n - 1].mine \cup {bs[n]}
    BY <2>1, <2>2, TrackGood, SMTT(30)
  <2>4. \A i \in 1..n : i = n \/ i \in 1..(n - 1)
    BY <1>1
  <2>5. \A i \in 1..n : bs[i] \in DOMAIN after[n].mine
    BY <2>1, <2>3, <2>4, Zenon
  <2>6. QED
    BY <2>1, <2>3, <2>5
<1>9. \A n \in 0..L : n \in S
  <2>1. \A n \in 1..L : n - 1 \in S => n \in S
    BY <1>8
  <2> HIDE DEF S
  <2>2. QED
    BY <1>1, <1>7, <2>1, UpTo, Zenon
<1>10. after[L] \in Good(M, O) /\ \A i \in 1..L : bs[i] \in DOMAIN after[L].mine
  BY <1>1, <1>9
<1>11. QED
  BY <1>2, <1>10, GetDataGood, Zenon

\* A listing of a finite set is a sequence of its members.
LEMMA ListingIs ==
    ASSUME NEW T, NEW S \in SUBSET T, IsFiniteSet(S), NEW s \in Listings(S)
    PROVE  s \in Seq(T) /\ \A i \in 1..Len(s) : s[i] \in S
<1>1. Cardinality(S) \in Nat
  BY FS_CardinalityType, Zenon
<1>2. s \in [1..Cardinality(S) -> S]
  BY DEF Listings, Bijection, Injection
<1>3. s \in Seq(S)
  BY <1>1, <1>2
<1>4. QED
  BY <1>3, SeqWider, SeqElement

\* reqOrphanParents tracks every parent it asks for.
LEMMA ParentsGood ==
    ASSUME NEW M, NEW O, NEW e \in Good(M, O), NEW pool \in SUBSET Block, NEW dag,
           NEW f \in reqOrphanParents(e, pool, dag)
    PROVE  f \in Good(M, O)
<1> DEFINE P == MissingParents(e, pool, dag)
<1>1. PICK s \in Listings(P) :
        f = GetData(Tracked(e, [i \in 1..Len(s) |-> s[i][2]]),
                    [i \in 1..Len(s) |-> s[i][2]])
  BY Zenon DEF reqOrphanParents
<1>2. P \in SUBSET (Block \X Block)
  BY Zenon DEF MissingParents
<1>3. IsFiniteSet(P)
  <2>1. IsFiniteSet(Block \X Block)
    BY DagAssumption, FS_Product, Zenon
  <2>2. QED
    BY <1>2, <2>1, FS_Subset, Zenon
<1> HIDE DEF P
<1> DEFINE bs == [i \in 1..Len(s) |-> s[i][2]]
<1>4. s \in Seq(Block \X Block)
  BY <1>1, <1>2, <1>3, ListingIs, Zenon
<1>5. bs \in Seq(Block)
  <2>1. Len(s) \in Nat /\ \A i \in 1..Len(s) : s[i] \in Block \X Block
    BY <1>4, SeqLen, SeqElement
  <2>2. \A i \in 1..Len(s) : s[i][2] \in Block
    BY <2>1
  <2>3. QED
    BY <2>1, <2>2
<1> HIDE DEF bs
<1>6. f = GetData(Tracked(e, bs), bs)
  BY <1>1, Zenon DEF bs
<1>7. QED
  BY <1>5, <1>6, TrackedGood, Zenon

\* reqOrphanChildren tracks every child it asks for.
LEMMA ChildrenGood ==
    ASSUME NEW M, NEW O, NEW e \in Good(M, O), NEW b \in Block,
           NEW pool \in SUBSET Block, NEW f \in reqOrphanChildren(e, b, pool)
    PROVE  f \in Good(M, O)
<1> DEFINE C == {c \in pool : b \in parents[c]}
<1>0. PICK s \in Listings(C) :
        f = (CHOOSE h : h = [n \in 0..Len(s) |-> IF n = 0 THEN e
                  ELSE PushGetBlocksMsg(h[n - 1], height[b], s[n])])[Len(s)]
  BY Zenon DEF reqOrphanChildren
<1>a. s \in Seq(Block)
  <2>1. C \in SUBSET Block /\ IsFiniteSet(C)
    BY DagAssumption, FS_Subset, Zenon
  <2> HIDE DEF C
  <2>2. QED
    BY <1>0, <2>1, ListingIs, Zenon
<1>b. height[b] \in Nat
  BY DagAssumption, Zenon
<1> DEFINE L == Len(s)
           Def(h) == h = [n \in 0..L |-> IF n = 0 THEN e
                                         ELSE PushGetBlocksMsg(h[n - 1], height[b], s[n])]
           after == CHOOSE h : Def(h)
           g == [p \in Good(M, O) \X Block |-> PushGetBlocksMsg(p[1], height[b], p[2])]
<1>1. L \in Nat /\ \A n \in 1..L : s[n] \in Block
  BY <1>a, SeqLen, SeqElement
<1>2. f = after[L]
  BY <1>0
<1>3. e \in Good(M, O) /\ \A a \in Good(M, O), c \in Block : PushGetBlocksMsg(a, height[b], c) \in Good(M, O)
  BY <1>b, PushGood, Zenon DEF Stop
<1>4. \E h : Def(h)
  <2>1. g \in [Good(M, O) \X Block -> Good(M, O)]
    BY <1>3, Zenon
  <2>2. PICK h \in [0..L -> Good(M, O)] :
          \A n \in 0..L : h[n] = IF n = 0 THEN e ELSE g[<<h[n - 1], s[n]>>]
    <3> HIDE DEF g
    <3>1. PICK h : Follows(h, Good(M, O), e, g, s)
      BY <1>a, <1>3, <2>1, AlongSequence, Zenon
    <3>2. QED
      BY <3>1, Zenon DEF Follows
  <2>3. ASSUME NEW n \in 0..L
        PROVE  h[n] = IF n = 0 THEN e ELSE PushGetBlocksMsg(h[n - 1], height[b], s[n])
    <3>1. CASE n = 0
      BY <2>2, <3>1, Zenon
    <3>2. CASE n # 0
      <4>1. n \in 1..L /\ n - 1 \in 0..L
        BY <1>1, <3>2
      <4>2. <<h[n - 1], s[n]>> \in Good(M, O) \X Block
        BY <1>1, <2>2, <4>1, Zenon
      <4>3. g[<<h[n - 1], s[n]>>] = PushGetBlocksMsg(h[n - 1], height[b], s[n])
        BY <4>2
      <4>4. QED
        BY <2>2, <3>2, <4>3, Zenon
    <3>3. QED
      BY <3>1, <3>2, Zenon
  <2>4. Def(h)
    BY <2>2, <2>3
  <2>5. QED
    BY <2>4, Zenon
<1>5. Def(after)
  BY <1>4, Zenon
<1> HIDE DEF after
<1>6. \A n \in 0..L : after[n] = IF n = 0 THEN e
                                  ELSE PushGetBlocksMsg(after[n - 1], height[b], s[n])
  BY <1>5, Zenon
<1> DEFINE S == {n \in 0..L : after[n] \in Good(M, O)}
<1>7. 0 \in S
  BY <1>1, <1>3, <1>6, SMTT(30)
<1>8. ASSUME NEW n \in 1..L, n - 1 \in S PROVE n \in S
  <2>1. n \in 0..L /\ n # 0 /\ after[n - 1] \in Good(M, O) /\ s[n] \in Block
    BY <1>1, <1>8, SMTT(30)
  <2>2. after[n] = PushGetBlocksMsg(after[n - 1], height[b], s[n])
    BY <1>6, <2>1, Zenon
  <2>3. after[n] \in Good(M, O)
    BY <1>3, <2>1, <2>2, Zenon
  <2>4. QED
    BY <2>1, <2>3
<1>9. \A n \in 0..L : n \in S
  <2>1. \A n \in 1..L : n - 1 \in S => n \in S
    BY <1>8, Zenon
  <2> HIDE DEF S
  <2>2. QED
    BY <1>1, <1>7, <2>1, UpTo, Zenon
<1>10. after[L] \in Good(M, O)
  BY <1>1, <1>9, SMTT(30)
<1>11. QED
  BY <1>2, <1>10

-----------------------------------------------------------------------------
(* The invariant.                                                           *)

\* TypeOK with the types of what the manager believes, of what it and its
\* peers send, and of what they answer from.
Types ==
    /\ have \in SUBSET Block /\ orphans \in SUBSET Block
    /\ best \in have \cup {Genesis}
    /\ peerStates \in SUBSET Peer /\ connected \subseteq peerStates
    /\ syncPeer \in peerStates \cup {NoPeer}
    /\ syncCandidate \in [Peer -> BOOLEAN]
    /\ peerReqs \in [Peer -> Reqs] /\ requestedBlocks \in Reqs
    /\ maxBlockHeight \in [Peer -> Nat]
    /\ \A u \in updates : u.height \in Nat
    /\ prevGetBlocks \in [Peer -> Stop \X Nat]
    /\ toPeer \in [Peer -> Seq(ToMsg)] /\ fromPeer \in [Peer -> Seq(FromMsg)]
    /\ peerHas \in [Peer -> SUBSET Block] /\ continueHash \in [Peer -> Stop]

\* The sync peer is a candidate.
SyncIsCandidate == syncPeer \in Peer => syncCandidate[syncPeer]

\* Nothing is on its way to or from a peer the manager does not know.
QuietOutside ==
    \A p \in Peer \ peerStates : toPeer[p] = <<>> /\ fromPeer[p] = <<>>

\* The blocks that p's answers may hold: the others are not accepted.
Wanted(p) == DOMAIN peerReqs[p] \cup have \cup orphans \cup {Genesis}

AnswersWanted ==
    \A p \in connected : /\ AskedIn(toPeer[p], Wanted(p))
                         /\ SentIn(fromPeer[p], Wanted(p))

SyncInv ==
    Types /\ RequestsBacked /\ SyncIsCandidate /\ QuietOutside /\ AnswersWanted

\* The requests of the other peers.
Others(p) == UNION {DOMAIN peerReqs[q] : q \in peerStates \ {p}}

\* The properties that the inductive invariant was made for.
LEMMA InvImplies ==
    ASSUME SyncInv
    PROVE  TypeOK /\ NeededAnswerAccepted
<1>1. TypeOK
  BY Zenon DEF SyncInv, Types, TypeOK, Reqs
<1>2. ASSUME NEW p \in connected, NEW b \in Coming(p)
      PROVE  b \in DOMAIN peerReqs[p] \/ HaveBlock(b)
  <2>1. /\ toPeer[p] \in Seq(ToMsg) /\ fromPeer[p] \in Seq(FromMsg)
        /\ AskedIn(toPeer[p], Wanted(p)) /\ SentIn(fromPeer[p], Wanted(p))
    BY Zenon DEF SyncInv, Types, AnswersWanted
  <2>2. DOMAIN toPeer[p] = 1..Len(toPeer[p]) /\ DOMAIN fromPeer[p] = 1..Len(fromPeer[p])
    BY <2>1, SeqLen, Zenon
  <2>3. CASE \E i \in DOMAIN fromPeer[p] :
                fromPeer[p][i].type = "block" /\ b = fromPeer[p][i].block
    BY <2>1, <2>2, <2>3, Zenon DEF SentIn, Wanted, HaveBlock
  <2>4. CASE \E i \in DOMAIN toPeer[p] :
                toPeer[p][i].type = "getdata" /\ b \in Range(toPeer[p][i].blocks)
    <3>1. PICK i \in 1..Len(toPeer[p]) :
            toPeer[p][i].type = "getdata" /\ b \in Range(toPeer[p][i].blocks)
      BY <2>2, <2>4, Zenon
    <3>2. toPeer[p][i] \in ToMsg
      BY <2>1, SeqElement, Zenon
    <3>3. toPeer[p][i].blocks \in Seq(Block)
      BY <3>1, <3>2, Zenon DEF ToMsg
    <3>4. PICK j \in 1..Len(toPeer[p][i].blocks) : b = toPeer[p][i].blocks[j]
      <4>1. DOMAIN toPeer[p][i].blocks = 1..Len(toPeer[p][i].blocks)
        BY <3>3, SeqLen, Zenon
      <4>2. QED
        BY <3>1, <4>1, Zenon DEF Range
    <3>5. b \in Wanted(p)
      BY <2>1, <3>1, <3>4, Zenon DEF AskedIn
    <3>6. QED
      BY <3>5, Zenon DEF Wanted, HaveBlock
  <2>5. QED
    <3>1. \/ \E i \in DOMAIN fromPeer[p] :
                fromPeer[p][i].type = "block" /\ b = fromPeer[p][i].block
          \/ \E i \in DOMAIN toPeer[p] :
                toPeer[p][i].type = "getdata" /\ b \in Range(toPeer[p][i].blocks)
      <4> DEFINE I == {j \in DOMAIN toPeer[p] : toPeer[p][j].type = "getdata"}
                 J == {j \in DOMAIN fromPeer[p] : fromPeer[p][j].type = "block"}
      <4>1. \/ \E i \in I : b \in Range(toPeer[p][i].blocks)
            \/ \E i \in J : b = fromPeer[p][i].block
        <5> DEFINE A == {Range(toPeer[p][i].blocks) : i \in I}
                   B == {fromPeer[p][i].block : i \in J}
        <5>1. b \in UNION A \/ b \in B
          <6>1. b \in (UNION A) \cup B
            BY Zenon DEF Coming
          <6> HIDE DEF A, B
          <6>2. QED
            BY <6>1
        <5>2. CASE b \in UNION A
          <6>1. PICK x \in A : b \in x
            BY <5>2, Zenon
          <6>2. PICK i \in I : x = Range(toPeer[p][i].blocks)
            BY <6>1
          <6>3. QED
            BY <6>1, <6>2, Zenon
        <5>3. CASE b \in B
          BY <5>3, Zenon
        <5> HIDE DEF A, B, I, J
        <5>4. QED
          BY <5>1, <5>2, <5>3
      <4>2. QED
        BY <4>1, Zenon
    <3>2. QED
      BY <2>3, <2>4, <3>1, Zenon
<1>3. QED
  BY <1>1, <1>2, Zenon DEF NeededAnswerAccepted

\* Nothing is asked for and no peer is known at first.
LEMMA SyncInvInit == Init => SyncInv
<1> SUFFICES ASSUME Init PROVE SyncInv
  OBVIOUS
<1>1. Types
  <2>1. \A p \in Peer : peerReqs[p] = Empty
    BY DEF Init
  <2>2. peerReqs \in [Peer -> Reqs] /\ requestedBlocks \in Reqs
    BY EmptyReqs DEF Init
  <2>3. toPeer \in [Peer -> Seq(ToMsg)] /\ fromPeer \in [Peer -> Seq(FromMsg)]
    BY SeqEmpty DEF Init
  <2>4. prevGetBlocks \in [Peer -> Stop \X Nat] /\ continueHash \in [Peer -> Stop]
    BY DEF Init, NoRequest, Stop
  <2>5. syncCandidate \in [Peer -> BOOLEAN]
    BY Zenon DEF Init
  <2>6. QED
    BY <2>2, <2>3, <2>4, <2>5, DagAssumption, Zenon DEF Init, Types
<1>2. RequestsBacked
  BY EmptyReqs DEF Init, RequestsBacked
<1>3. SyncIsCandidate
  BY NoAssumption DEF Init, SyncIsCandidate
<1>4. QuietOutside /\ AnswersWanted
  BY DEF Init, QuietOutside, AnswersWanted
<1>5. QED
  BY <1>1, <1>2, <1>3, <1>4, Zenon DEF SyncInv

-----------------------------------------------------------------------------
(* What a handler may do to the requests and the queues.                    *)

\* The record a handler starts with is good.
LEMMA EffectsGood ==
    ASSUME SyncInv, NEW p \in peerStates
    PROVE  Effects(p) \in Good(DOMAIN peerReqs[p], Others(p))
<1> DEFINE e == Effects(p)
<1>1. p \in Peer /\ peerReqs[p] \in Reqs /\ requestedBlocks \in Reqs
  BY DEF SyncInv, Types
<1>2. prevGetBlocks[p] \in Stop \X Nat
  BY <1>1 DEF SyncInv, Types
<1>3. <<>> \in Seq(ToMsg) /\ AskedIn(<<>>, DOMAIN peerReqs[p])
  BY SeqEmpty DEF AskedIn
<1>4. DOMAIN requestedBlocks \subseteq Others(p) \cup DOMAIN peerReqs[p]
  BY Zenon DEF SyncInv, RequestsBacked, Others
<1>5. /\ e.mine = peerReqs[p] /\ e.all = requestedBlocks /\ e.out = <<>>
      /\ e = [mine |-> peerReqs[p], all |-> requestedBlocks, out |-> <<>>,
              prev |-> prevGetBlocks[p]]
  BY DEF Effects
<1> HIDE DEF e
<1>6. e \in Effect
  BY <1>1, <1>2, <1>3, <1>5, SMTT(30) DEF Effect
<1>7. e \in Good(DOMAIN peerReqs[p], Others(p))
  BY <1>3, <1>4, <1>5, <1>6, Zenon DEF Good
<1>8. QED
  BY <1>7 DEF e

\* So is that of handleBlockMsg, which has taken the block off the maps.
LEMMA AnsweredGood ==
    ASSUME SyncInv, NEW p \in peerStates, NEW b
    PROVE  Answered(p, b) \in Good(DOMAIN peerReqs[p] \ {b}, Others(p))
<1> DEFINE e == Answered(p, b)
           x == Forget(peerReqs[p], {b})
           y == Forget(requestedBlocks, {b})
<1>1. p \in Peer /\ peerReqs[p] \in Reqs /\ requestedBlocks \in Reqs
  BY DEF SyncInv, Types
<1>2. prevGetBlocks[p] \in Stop \X Nat
  BY <1>1 DEF SyncInv, Types
<1>3. /\ x \in Reqs /\ DOMAIN x = DOMAIN peerReqs[p] \ {b}
      /\ y \in Reqs /\ DOMAIN y = DOMAIN requestedBlocks \ {b}
  BY <1>1, ForgetReqs, Zenon
<1>4. e = [mine |-> x, all |-> y, out |-> <<>>, prev |-> prevGetBlocks[p]]
  <2> DEFINE f == Effects(p)
  <2>1. f = [mine |-> peerReqs[p], all |-> requestedBlocks, out |-> <<>>,
             prev |-> prevGetBlocks[p]]
    BY Zenon DEF Effects
  <2>2. f \in Effect
    BY EffectsGood, Zenon DEF Good
  <2>3. e = [f EXCEPT !.mine = Forget(f.mine, {b}), !.all = Forget(f.all, {b})]
    <3> HIDE DEF f
    <3>1. e = [f EXCEPT !.mine = Forget(@, {b}), !.all = Forget(@, {b})]
      BY Zenon DEF Answered, f
    <3>2. QED
      BY <2>2, <3>1 DEF Effect
  <2> HIDE DEF f, e
  <2>4. f.mine = peerReqs[p] /\ f.all = requestedBlocks /\ f.out = <<>>
        /\ f.prev = prevGetBlocks[p]
    BY <2>1, Zenon
  <2>5. e = [mine |-> Forget(f.mine, {b}), all |-> Forget(f.all, {b}),
             out |-> f.out, prev |-> f.prev]
    BY <2>2, <2>3, EffectExcept, Zenon DEF Effect
  <2>6. QED
    BY <2>4, <2>5, Zenon
<1> HIDE DEF x, y, e
<1>5. <<>> \in Seq(ToMsg) /\ AskedIn(<<>>, DOMAIN x)
  BY SeqEmpty DEF AskedIn
<1>6. DOMAIN requestedBlocks \subseteq Others(p) \cup DOMAIN peerReqs[p]
  BY Zenon DEF SyncInv, RequestsBacked, Others
<1>7. DOMAIN y \subseteq Others(p) \cup DOMAIN x
  BY <1>3, <1>6
<1>8. e.mine = x /\ e.all = y /\ e.out = <<>>
  BY <1>4
<1>9. e \in Effect
  BY <1>2, <1>3, <1>4, <1>5, Zenon DEF Effect
<1>10. e \in Good(DOMAIN x, Others(p))
  BY <1>5, <1>7, <1>8, <1>9, Zenon DEF Good
<1>11. QED
  BY <1>3, <1>10, Zenon DEF e

\* handleInvMsg's requests track every block they ask for.
LEMMA ReqBlocksGood ==
    ASSUME SyncInv, NEW M, NEW O, NEW e \in Good(M, O), NEW inv \in Seq(Block),
           NEW news, NEW syncing
    PROVE  reqBlocks(e, inv, news, syncing) \in Good(M, O)
<1>1. MaxHeight \in Nat
  BY HighestIs, Zenon DEF MaxHeight, SyncInv, Types
<1>2. NoBlock \in Stop
  BY DEF Stop
<1>3. PushGetBlocksMsg(e, MaxHeight, NoBlock) \in Good(M, O)
  BY <1>1, <1>2, PushGood, Zenon
<1>4. GetData(AskFor(e, inv).e, AskFor(e, inv).blocks) \in Good(M, O)
  BY AskForGood, Zenon
<1>5. \/ reqBlocks(e, inv, news, syncing) = PushGetBlocksMsg(e, MaxHeight, NoBlock)
      \/ reqBlocks(e, inv, news, syncing)
           = GetData(AskFor(e, inv).e, AskFor(e, inv).blocks)
  BY Zenon DEF reqBlocks
<1>6. QED
  BY <1>3, <1>4, <1>5, Zenon

\* Taking a message off a queue of answers leaves no other block in it.
LEMMA SentTail ==
    ASSUME NEW q \in Seq(FromMsg), q # <<>>, NEW K, SentIn(q, K)
    PROVE  Tail(q) \in Seq(FromMsg) /\ SentIn(Tail(q), K)
<1> DEFINE r == Tail(q)
<1>1. /\ r \in Seq(FromMsg) /\ Len(r) = Len(q) - 1 /\ Len(q) \in Nat
      /\ \A i \in 1..Len(r) : r[i] = q[i + 1]
  BY SeqTail, SeqLen
<1> HIDE DEF r
<1>2. \A i \in 1..Len(r) : i + 1 \in 1..Len(q)
  BY <1>1
<1>3. SentIn(r, K)
  BY <1>1, <1>2, Zenon DEF SentIn
<1>4. QED
  BY <1>1, <1>3 DEF r

\* The same for a queue of requests.
LEMMA AskedTail ==
    ASSUME NEW q \in Seq(ToMsg), q # <<>>, NEW K, AskedIn(q, K)
    PROVE  Tail(q) \in Seq(ToMsg) /\ AskedIn(Tail(q), K)
<1> DEFINE r == Tail(q)
<1>1. /\ r \in Seq(ToMsg) /\ Len(r) = Len(q) - 1 /\ Len(q) \in Nat
      /\ \A i \in 1..Len(r) : r[i] = q[i + 1]
  BY SeqTail, SeqLen
<1> HIDE DEF r
<1>2. \A i \in 1..Len(r) : i + 1 \in 1..Len(q)
  BY <1>1
<1>3. AskedIn(r, K)
  BY <1>1, <1>2, ZenonT(60) DEF AskedIn
<1>4. QED
  BY <1>1, <1>3 DEF r

\* Handling a message of p: what is done is good, and the blocks p was asked for
\* and is not any more are known by now.
LEMMA ApplyStep ==
    ASSUME SyncInv, NEW p \in peerStates, NEW M, NEW e \in Good(M, Others(p)),
           Apply(p, e), peerStates' = peerStates, connected' = connected,
           fromPeer[p] # <<>>, fromPeer' = [fromPeer EXCEPT ![p] = Tail(@)],
           have \cup orphans \subseteq have' \cup orphans',
           DOMAIN peerReqs[p] \subseteq M \cup have' \cup orphans' \cup {Genesis}
    PROVE  /\ peerReqs' \in [Peer -> Reqs] /\ requestedBlocks' \in Reqs
           /\ prevGetBlocks' \in [Peer -> Stop \X Nat]
           /\ toPeer' \in [Peer -> Seq(ToMsg)] /\ fromPeer' \in [Peer -> Seq(FromMsg)]
           /\ RequestsBacked' /\ QuietOutside' /\ AnswersWanted'
<1>1. /\ p \in Peer /\ peerReqs \in [Peer -> Reqs] /\ connected \subseteq peerStates
      /\ peerStates \subseteq Peer /\ prevGetBlocks \in [Peer -> Stop \X Nat]
      /\ toPeer \in [Peer -> Seq(ToMsg)] /\ fromPeer \in [Peer -> Seq(FromMsg)]
  BY Zenon DEF SyncInv, Types
<1>2. /\ e.mine \in Reqs /\ e.all \in Reqs /\ e.out \in Seq(ToMsg)
      /\ e.prev \in Stop \X Nat
      /\ M \subseteq DOMAIN e.mine
      /\ DOMAIN e.all \subseteq Others(p) \cup DOMAIN e.mine
      /\ AskedIn(e.out, DOMAIN e.mine)
  BY Zenon DEF Good, Effect
<1>3. /\ peerReqs' = [peerReqs EXCEPT ![p] = e.mine]
      /\ requestedBlocks' = e.all
      /\ prevGetBlocks' = [prevGetBlocks EXCEPT ![p] = e.prev]
      /\ toPeer' = Sent(toPeer, p, e.out)
  BY Zenon DEF Apply
<1>4. /\ peerReqs' \in [Peer -> Reqs] /\ requestedBlocks' \in Reqs
      /\ prevGetBlocks' \in [Peer -> Stop \X Nat]
  BY <1>1, <1>2, <1>3, Zenon
<1>5. peerReqs'[p] = e.mine /\ \A q \in Peer \ {p} : peerReqs'[q] = peerReqs[q]
  BY <1>1, <1>3, Zenon
<1>6. RequestsBacked'
  <2>1. Others(p) \subseteq UNION {DOMAIN peerReqs'[q] : q \in peerStates}
    <3>1. \A q \in peerStates \ {p} : peerReqs'[q] = peerReqs[q]
      BY <1>1, <1>5, Zenon
    <3>2. QED
      BY <3>1, Zenon DEF Others
  <2>2. DOMAIN e.mine \subseteq UNION {DOMAIN peerReqs'[q] : q \in peerStates}
    BY <1>5, Zenon
  <2>3. DOMAIN requestedBlocks' \subseteq UNION {DOMAIN peerReqs'[q] : q \in peerStates}
    BY <1>2, <1>3, <2>1, <2>2, Zenon
  <2>4. QED
    BY <2>3, Zenon DEF RequestsBacked
<1>7. \A q \in Peer : Wanted(q) \subseteq Wanted(q)'
  <2>1. DOMAIN peerReqs[p] \subseteq DOMAIN peerReqs'[p] \cup have' \cup orphans' \cup {Genesis}
    BY <1>2, <1>5, Zenon
  <2>2. Wanted(p) \subseteq Wanted(p)'
    BY <2>1, Zenon DEF Wanted
  <2>3. ASSUME NEW q \in Peer \ {p} PROVE Wanted(q) \subseteq Wanted(q)'
    BY <1>5, Zenon DEF Wanted
  <2>4. QED
    BY <2>2, <2>3, Zenon
<1>8. /\ fromPeer'[p] = Tail(fromPeer[p])
      /\ \A q \in Peer \ {p} : fromPeer'[q] = fromPeer[q]
  BY <1>1
<1>9. fromPeer' \in [Peer -> Seq(FromMsg)]
  <2>1. Tail(fromPeer[p]) \in Seq(FromMsg)
    BY <1>1, SeqTail, Zenon
  <2>2. QED
    BY <1>1, <2>1
<1>10. /\ \A q \in Peer \ {p} : toPeer'[q] = toPeer[q]
       /\ toPeer'[p] = toPeer[p] \o e.out \/ toPeer'[p] = toPeer[p]
       /\ toPeer' \in [Peer -> Seq(ToMsg)]
  <2>1. toPeer[p] \o e.out \in Seq(ToMsg)
    BY <1>1, <1>2, SeqConcat, Zenon
  <2>2. toPeer' = toPeer \/ toPeer' = [toPeer EXCEPT ![p] = toPeer[p] \o e.out]
    BY <1>3, Zenon DEF Sent
  <2>3. CASE toPeer' = toPeer
    BY <1>1, <2>3, Zenon
  <2>4. CASE toPeer' = [toPeer EXCEPT ![p] = toPeer[p] \o e.out]
    BY <1>1, <2>1, <2>4, Zenon
  <2>5. QED
    BY <2>2, <2>3, <2>4, Zenon
<1>11. QuietOutside'
  BY <1>8, <1>10, Zenon DEF QuietOutside, SyncInv
<1>12. ASSUME NEW q \in connected
       PROVE  AskedIn(toPeer'[q], Wanted(q)') /\ SentIn(fromPeer'[q], Wanted(q)')
  <2>1. /\ q \in Peer /\ AskedIn(toPeer[q], Wanted(q))
        /\ SentIn(fromPeer[q], Wanted(q)) /\ Wanted(q) \subseteq Wanted(q)'
    BY <1>1, <1>7, Zenon DEF SyncInv, AnswersWanted
  <2>2. AskedIn(toPeer[q], Wanted(q)') /\ SentIn(fromPeer[q], Wanted(q)')
    BY <2>1, AskedMore, SentMore, Zenon
  <2>3. CASE q # p
    BY <1>8, <1>10, <2>1, <2>2, <2>3, Zenon
  <2>4. CASE q = p
    <3>1. SentIn(fromPeer'[p], Wanted(p)')
      BY <1>1, <1>8, <2>2, <2>4, SentTail, Zenon
    <3>2. AskedIn(e.out, Wanted(p)')
      <4>1. DOMAIN e.mine \subseteq Wanted(p)'
        BY <1>5, Zenon DEF Wanted
      <4>2. QED
        BY <1>2, <4>1, AskedMore, Zenon
    <3>3. AskedIn(toPeer[p] \o e.out, Wanted(p)')
      BY <1>1, <1>2, <2>2, <2>4, <3>2, AskedConcat, Zenon
    <3>4. QED
      BY <1>10, <2>2, <2>4, <3>1, <3>3, Zenon
  <2>5. QED
    BY <2>3, <2>4, Zenon
<1>13. AnswersWanted'
  BY <1>12, Zenon DEF AnswersWanted
<1>14. QED
  BY <1>4, <1>6, <1>9, <1>10, <1>11, <1>13, Zenon

\* Choosing a sync peer asks nobody for blocks, and drops requests at most.
Chosen(S, all, queue) ==
    /\ syncCandidate' \in [Peer -> BOOLEAN]
    /\ syncPeer' \in S \cup {NoPeer} /\ SyncIsCandidate'
    /\ requestedBlocks' \in Reqs
    /\ DOMAIN requestedBlocks' \subseteq DOMAIN all
    /\ prevGetBlocks' \in [Peer -> Stop \X Nat]
    /\ toPeer' \in [Peer -> Seq(ToMsg)]
    /\ \A q \in Peer \ S : toPeer'[q] = queue[q]
    /\ \A q \in Peer, K \in SUBSET (Block \cup {Genesis}) :
         AskedIn(queue[q], K) => AskedIn(toPeer'[q], K)

\* Without a candidate left, all that were candidates are below us.
Followed(S, cand, heights) ==
    syncPeer' = NoPeer => \A p \in S : cand[p] => ~(heights[p] >= MaxHeight)

\* startSync asks for no block, drops global requests only, and follows a
\* candidate that is at our height or above it, if there is one.
LEMMA StartSyncIs ==
    ASSUME have \in SUBSET Block, NEW S \in SUBSET Peer, NEW cand,
           NEW heights, NEW all \in Reqs, NEW prev \in [Peer -> Stop \X Nat],
           NEW queue \in [Peer -> Seq(ToMsg)], NEW idled,
           startSync(S, cand, heights, all, prev, queue, idled)
    PROVE  Chosen(S, all, queue) /\ Followed(S, cand, heights)
<1> DEFINE stay == {p \in S : cand[p] /\ heights[p] >= MaxHeight}
           higher == {p \in stay : heights[p] > MaxHeight}
           m == [type |-> "getblocks", from |-> MaxHeight, stop |-> NoBlock]
<1>1. /\ syncCandidate' = [p \in Peer |-> p \in stay]
      /\ \/ /\ stay = {}
            /\ syncPeer' = NoPeer
            /\ requestedBlocks' = all
            /\ prevGetBlocks' = prev /\ toPeer' = queue
         \/ \E p \in IF higher # {} THEN higher ELSE stay :
            /\ syncPeer' = p
            /\ requestedBlocks' = Empty
            /\ prevGetBlocks' = [prev EXCEPT ![p] = <<NoBlock, MaxHeight>>]
            /\ toPeer' = Sent(queue, p, <<m>>)
  BY Zenon DEF startSync
<1>2. syncCandidate' \in [Peer -> BOOLEAN]
  <2> HIDE DEF stay
  <2>1. QED
    BY <1>1, SMTT(30)
<1>3. MaxHeight \in Nat
  BY HighestIs, Zenon DEF MaxHeight
<1>4. m \in ToMsg /\ m.type = "getblocks" /\ <<NoBlock, MaxHeight>> \in Stop \X Nat
  BY <1>3, Zenon DEF ToMsg, Stop
<1> HIDE DEF m
<1>5. CASE /\ stay = {}
           /\ syncPeer' = NoPeer
           /\ requestedBlocks' = all
           /\ prevGetBlocks' = prev /\ toPeer' = queue
  <2>1. SyncIsCandidate'
    BY <1>5, NoAssumption, Zenon DEF SyncIsCandidate
  <2>2. \A p \in S : cand[p] => ~(heights[p] >= MaxHeight)
    BY <1>5, Zenon
  <2>3. Followed(S, cand, heights)
    BY <2>2, Zenon DEF Followed
  <2>4. NoPeer \in S \cup {NoPeer}
    OBVIOUS
  <2>5. QED
    BY <1>2, <1>5, <2>1, <2>3, <2>4, Zenon DEF Chosen
<1>6. ASSUME NEW p \in stay,
             syncPeer' = p,
             requestedBlocks' = Empty,
             prevGetBlocks' = [prev EXCEPT ![p] = <<NoBlock, MaxHeight>>],
             toPeer' = Sent(queue, p, <<m>>)
      PROVE  Chosen(S, all, queue) /\ Followed(S, cand, heights)
  <2>1. p \in S /\ p \in Peer
    BY Zenon
  <2>2. SyncIsCandidate'
    BY <1>1, <1>6, <2>1, Zenon DEF SyncIsCandidate
  <2>3. syncPeer' # NoPeer
    BY <1>6, <2>1, NoAssumption, Zenon
  <2>4. requestedBlocks' \in Reqs /\ DOMAIN requestedBlocks' \subseteq DOMAIN all
    BY <1>6, EmptyReqs, Zenon
  <2>5. prevGetBlocks' \in [Peer -> Stop \X Nat]
    BY <1>4, <1>6, <2>1, Zenon
  <2>6. /\ queue[p] \in Seq(ToMsg) /\ <<m>> \in Seq(ToMsg)
        /\ Len(<<m>>) = 1 /\ <<m>>[1] = m
    BY <1>4, <2>1, SMTT(30)
  <2>7. \A K : AskedIn(<<m>>, K)
    <3>1. \A i \in 1..Len(<<m>>) : i = 1
      BY <2>6, SMTT(30)
    <3>2. QED
      BY <1>4, <2>6, <3>1, Zenon DEF AskedIn
  <2>8. toPeer' = queue \/ toPeer' = [queue EXCEPT ![p] = queue[p] \o <<m>>]
    BY <1>6, Zenon DEF Sent
  <2>9. queue[p] \o <<m>> \in Seq(ToMsg)
    BY <2>6, SeqConcat, Zenon
  <2>10. /\ toPeer' \in [Peer -> Seq(ToMsg)]
         /\ \A q \in Peer \ {p} : toPeer'[q] = queue[q]
         /\ toPeer'[p] = queue[p] \/ toPeer'[p] = queue[p] \o <<m>>
    <3>1. CASE toPeer' = queue
      BY <2>1, <3>1, Zenon
    <3>2. CASE toPeer' = [queue EXCEPT ![p] = queue[p] \o <<m>>]
      BY <2>1, <2>9, <3>2, Zenon
    <3>3. QED
      BY <2>8, <3>1, <3>2, Zenon
  <2>11. \A K : AskedIn(queue[p], K) => AskedIn(queue[p] \o <<m>>, K)
    BY <2>6, <2>7, AskedConcat, Zenon
  <2>12. \A q \in Peer, K \in SUBSET (Block \cup {Genesis}) :
           AskedIn(queue[q], K) => AskedIn(toPeer'[q], K)
    BY <2>10, <2>11, Zenon
  <2>13. syncPeer' \in S \cup {NoPeer}
    BY <1>6, <2>1, Zenon
  <2>14. \A q \in Peer \ S : toPeer'[q] = queue[q]
    BY <2>1, <2>10, Zenon
  <2>15. Chosen(S, all, queue)
    BY <1>2, <2>2, <2>4, <2>5, <2>10, <2>12, <2>13, <2>14, Zenon DEF Chosen
  <2>16. QED
    BY <2>3, <2>15, Zenon DEF Followed
<1>7. QED
  <2>1. \A p \in IF higher # {} THEN higher ELSE stay : p \in stay
    BY Zenon
  <2> HIDE DEF stay, higher
  <2>2. QED
    BY <1>1, <1>5, <1>6, <2>1, Zenon

\* A block of K may be appended to a queue that sends blocks of K only.
LEMMA SentAppend ==
    ASSUME NEW q \in Seq(FromMsg), NEW m \in FromMsg, NEW K, SentIn(q, K),
           m.type = "block" => m.block \in K
    PROVE  Append(q, m) \in Seq(FromMsg) /\ SentIn(Append(q, m), K)
<1> DEFINE r == Append(q, m)
<1>1. /\ r \in Seq(FromMsg) /\ Len(r) = Len(q) + 1 /\ Len(q) \in Nat
      /\ r[Len(q) + 1] = m /\ \A i \in 1..Len(q) : r[i] = q[i]
  BY SeqAppend, SeqLen, SMTT(30)
<1> HIDE DEF r
<1>2. \A i \in 1..Len(r) : i \in 1..Len(q) \/ i = Len(q) + 1
  BY <1>1
<1>3. SentIn(r, K)
  BY <1>1, <1>2, Zenon DEF SentIn
<1>4. QED
  BY <1>1, <1>3 DEF r

\* The same for a whole sequence of messages.
LEMMA SentConcat ==
    ASSUME NEW q \in Seq(FromMsg), NEW s \in Seq(FromMsg), NEW K,
           SentIn(q, K), SentIn(s, K)
    PROVE  q \o s \in Seq(FromMsg) /\ SentIn(q \o s, K)
<1> DEFINE r == q \o s
<1>1. /\ r \in Seq(FromMsg) /\ Len(r) = Len(q) + Len(s)
      /\ Len(q) \in Nat /\ Len(s) \in Nat
      /\ \A i \in 1..Len(q) : r[i] = q[i]
      /\ \A i \in 1..Len(r) : i \notin 1..Len(q) =>
            i - Len(q) \in 1..Len(s) /\ r[i] = s[i - Len(q)]
  BY SeqConcat, SeqLen
<1> HIDE DEF r
<1>2. SentIn(r, K)
  BY <1>1, ZenonT(60) DEF SentIn
<1>3. QED
  BY <1>1, <1>2, Zenon DEF r

\* A peer answers a getdata with blocks of it, and with prompts.
LEMMA PushedIs ==
    ASSUME NEW p \in Peer, continueHash \in [Peer -> Stop], NEW bs \in Seq(Block),
           NEW K, \A j \in 1..Len(bs) : bs[j] \in K
    PROVE  /\ Pushed(p, bs).out \in Seq(FromMsg) /\ SentIn(Pushed(p, bs).out, K)
           /\ Pushed(p, bs).continue \in Stop
<1> DEFINE L == Len(bs)
           base == [out |-> <<>>, continue |-> continueHash[p]]
           D == Block \cap K
           X == {a \in [out : Seq(FromMsg), continue : Stop] : SentIn(a.out, K)}
           Def(f) == f = [n \in 0..L |-> IF n = 0 THEN base
                                         ELSE pushBlockMsg(p, f[n - 1], bs[n])]
           after == CHOOSE f : Def(f)
           g == [x \in X \X D |-> pushBlockMsg(p, x[1], x[2])]
<1>0. bs \in Seq(D)
  <2>1. Len(bs) \in Nat /\ bs \in [1..Len(bs) -> Block]
    BY SeqLen, Zenon
  <2>2. bs \in [1..Len(bs) -> D]
    BY <2>1
  <2>3. QED
    BY <2>1, <2>2
<1> HIDE DEF D
<1>1. L \in Nat /\ \A n \in 1..L : bs[n] \in D
  BY <1>0, SeqLen, SeqElement
<1>2. Pushed(p, bs) = after[L]
  BY DEF Pushed
<1>3. base \in X /\ \A a \in X, b \in D : pushBlockMsg(p, a, b) \in X
  <2>1. base \in X
    <3>1. <<>> \in Seq(FromMsg) /\ SentIn(<<>>, K)
      BY SeqEmpty DEF SentIn
    <3>2. QED
      BY <3>1
  <2>2. ASSUME NEW a \in X, NEW b \in D PROVE pushBlockMsg(p, a, b) \in X
    <3> DEFINE m == [type |-> "block", block |-> b]
               w == [type |-> "more"]
    <3>1. /\ a.out \in Seq(FromMsg) /\ a.continue \in Stop /\ SentIn(a.out, K)
          /\ b \in Block /\ b \in K /\ NoBlock \in Stop
          /\ a \in [out : Seq(FromMsg), continue : Stop]
      BY Zenon DEF Stop, D
    <3>2. m \in FromMsg /\ m.type = "block" /\ m.block = b
          /\ w \in FromMsg /\ w.type = "more"
      BY <3>1, Zenon DEF FromMsg
    <3>3. CASE b \notin peerHas[p]
      BY <3>3, Zenon DEF pushBlockMsg
    <3>4. CASE b \in peerHas[p] /\ a.continue = b
      <4> DEFINE r == Append(Append(a.out, m), w)
      <4>1. Append(a.out, m) \in Seq(FromMsg) /\ SentIn(Append(a.out, m), K)
        <5> HIDE DEF m
        <5>1. QED
          BY <3>1, <3>2, SentAppend, Zenon
      <4>2. r \in Seq(FromMsg) /\ SentIn(r, K)
        <5> HIDE DEF m, w
        <5>1. w.type # "block"
          BY <3>2
        <5>2. QED
          BY <3>2, <4>1, <5>1, SentAppend, Zenon
      <4>3. r = a.out \o <<m, w>>
        <5> HIDE DEF m, w
        <5>1. QED
          BY <3>1, <3>2, SMTT(30)
      <4>4. pushBlockMsg(p, a, b) = [out |-> r, continue |-> NoBlock]
        BY <3>4, <4>3, Zenon DEF pushBlockMsg
      <4> HIDE DEF r
      <4>5. [out |-> r, continue |-> NoBlock] \in X
        BY <3>1, <4>2, Zenon
      <4>6. QED
        BY <4>4, <4>5, Zenon
    <3>5. CASE b \in peerHas[p] /\ a.continue # b
      <4> DEFINE r == Append(a.out, m)
      <4>1. r \in Seq(FromMsg) /\ SentIn(r, K)
        <5> HIDE DEF m
        <5>1. QED
          BY <3>1, <3>2, SentAppend, Zenon
      <4>2. pushBlockMsg(p, a, b) = [a EXCEPT !.out = r]
        BY <3>5, Zenon DEF pushBlockMsg
      <4> HIDE DEF r
      <4>3. [a EXCEPT !.out = r] = [out |-> r, continue |-> a.continue]
        BY <3>1
      <4>4. [out |-> r, continue |-> a.continue] \in X
        BY <3>1, <4>1, Zenon
      <4>5. QED
        BY <4>2, <4>3, <4>4, Zenon
    <3>6. QED
      BY <3>3, <3>4, <3>5, Zenon
  <2>3. QED
    BY <2>1, <2>2, Zenon
<1> HIDE DEF X, base
<1>4. \E f : Def(f)
  <2>1. g \in [X \X D -> X]
    BY <1>3
  <2>2. PICK f \in [0..L -> X] :
          \A n \in 0..L : f[n] = IF n = 0 THEN base ELSE g[<<f[n - 1], bs[n]>>]
    <3> HIDE DEF g
    <3>1. PICK f : Follows(f, X, base, g, bs)
      BY <1>0, <1>3, <2>1, AlongSequence, Zenon
    <3>2. QED
      BY <3>1, Zenon DEF Follows
  <2>3. ASSUME NEW n \in 0..L
        PROVE  f[n] = IF n = 0 THEN base ELSE pushBlockMsg(p, f[n - 1], bs[n])
    <3>1. CASE n = 0
      BY <2>2, <3>1, Zenon
    <3>2. CASE n # 0
      <4>1. n \in 1..L /\ n - 1 \in 0..L
        BY <1>1, <3>2
      <4>2. <<f[n - 1], bs[n]>> \in X \X D
        BY <1>1, <2>2, <4>1, Zenon
      <4>3. g[<<f[n - 1], bs[n]>>] = pushBlockMsg(p, f[n - 1], bs[n])
        BY <4>2
      <4>4. QED
        BY <2>2, <3>2, <4>3, Zenon
    <3>3. QED
      BY <3>1, <3>2
  <2>4. Def(f)
    BY <2>2, <2>3
  <2>5. QED
    BY <2>4, Zenon
<1>5. Def(after)
  BY <1>4, Zenon
<1> HIDE DEF after
<1>6. \A n \in 0..L : after[n] = IF n = 0 THEN base
                                  ELSE pushBlockMsg(p, after[n - 1], bs[n])
  BY <1>5, Zenon
<1> DEFINE S == {n \in 0..L : after[n] \in X}
<1>7. 0 \in S
  BY <1>1, <1>3, <1>6, SMTT(30)
<1>8. ASSUME NEW n \in 1..L, n - 1 \in S PROVE n \in S
  <2>1. n \in 0..L /\ n # 0 /\ after[n - 1] \in X /\ bs[n] \in D
    BY <1>1, <1>8
  <2>2. after[n] = pushBlockMsg(p, after[n - 1], bs[n])
    BY <1>6, <2>1, Zenon
  <2>3. after[n] \in X
    BY <1>3, <2>1, <2>2, Zenon
  <2>4. QED
    BY <2>1, <2>3
<1>9. \A n \in 0..L : n \in S
  <2>1. \A n \in 1..L : n - 1 \in S => n \in S
    BY <1>8
  <2> HIDE DEF S
  <2>2. QED
    BY <1>1, <1>7, <2>1, UpTo, Zenon
<1>10. after[L] \in X
  BY <1>1, <1>9
<1>11. QED
  <2> DEFINE a == after[L]
  <2>1. a \in X
    BY <1>10
  <2> HIDE DEF a
  <2>2. a.out \in Seq(FromMsg) /\ SentIn(a.out, K) /\ a.continue \in Stop
    BY <2>1 DEF X
  <2>3. QED
    BY <1>2, <2>2, Zenon DEF a

\* locateInventory lists blocks.
LEMMA LocateIs ==
    ASSUME NEW p \in Peer, peerHas \in [Peer -> SUBSET Block], NEW from, NEW stop
    PROVE  locateInventory(p, from, stop) \in Seq(Block)
<1> DEFINE top == IF stop = NoBlock THEN Highest(peerHas[p]) ELSE height[stop]
           all == {b \in peerHas[p] : from < height[b] /\ height[b] <= top}
           Sorted(t) == \A i, j \in 1..Len(t) : i < j => height[t[i]] <= height[t[j]]
           s == CHOOSE t \in Listings(all) : Sorted(t)
           k == Min({Len(s), MaxBlocksPerMsg})
<1>1. all \in SUBSET Block /\ peerHas[p] \in SUBSET Block
  OBVIOUS
<1>2. \/ locateInventory(p, from, stop) = <<>>
      \/ locateInventory(p, from, stop) = SubSeq(s, 1, k)
  BY Zenon DEF locateInventory
<1> HIDE DEF all, top
<1>3. IsFiniteSet(all) /\ \A b \in all : height[b] \in Nat
  BY <1>1, DagAssumption, FS_Subset, Zenon
<1>4. \E t \in Listings(all) : Sorted(t)
  <2>1. PICK t \in Listings(all) :
          \A i, j \in 1..Cardinality(all) : i < j => height[t[i]] <= height[t[j]]
    BY <1>3, SortedListing, Zenon
  <2>2. Cardinality(all) \in Nat
    BY <1>3, FS_CardinalityType, Zenon
  <2>3. t \in [1..Cardinality(all) -> all]
    BY DEF Listings, Bijection, Injection
  <2>4. Len(t) = Cardinality(all)
    BY <2>2, <2>3
  <2>5. Sorted(t)
    BY <2>1, <2>4, Zenon
  <2> HIDE DEF Sorted
  <2>6. QED
    BY <2>5
<1>5. s \in Listings(all)
  <2> HIDE DEF Sorted
  <2>1. QED
    BY <1>4, Zenon
<1> HIDE DEF s
<1>6. s \in Seq(Block)
  BY <1>1, <1>3, <1>5, ListingIs, Zenon
<1>7. Len(s) \in Nat /\ \A i \in 1..Len(s) : s[i] \in Block
  BY <1>6, SeqLen, SeqElement
<1>8. k \in Nat /\ k <= Len(s)
  <2> DEFINE n == Len(s)
             T == {n, MaxBlocksPerMsg}
  <2>1. n \in Nat /\ MaxBlocksPerMsg \in Nat
    BY <1>7, LimitAssumption
  <2> HIDE DEF n
  <2>2. \E x \in T : \A y \in T : x =< y
    BY <2>1
  <2>3. Min(T) \in T /\ \A y \in T : Min(T) =< y
    <3> HIDE DEF T
    <3>1. QED
      BY <2>2, Zenon DEF Min
  <2>4. Min(T) \in Nat /\ Min(T) <= n
    BY <2>1, <2>3
  <2>5. QED
    BY <2>4 DEF n
<1> HIDE DEF k
<1>9. SubSeq(s, 1, k) \in Seq(Block)
  <2>1. \A i \in 1..k : s[i] \in Block
    BY <1>7, <1>8
  <2>2. QED
    BY <1>8, <2>1, SeqPart
<1>10. QED
  BY <1>2, <1>9, SeqEmpty, Zenon

-----------------------------------------------------------------------------
(* Every step keeps the invariant.                                          *)

\* Steps of the peers and of connections.
LEMMA RemoteStep ==
    ASSUME SyncInv,
           UNCHANGED <<chain, peerStates, requests, sync, belief, prevGetBlocks>>,
           connected' \subseteq connected,
           toPeer' \in [Peer -> Seq(ToMsg)], fromPeer' \in [Peer -> Seq(FromMsg)],
           peerHas' \in [Peer -> SUBSET Block], continueHash' \in [Peer -> Stop],
           QuietOutside',
           \A q \in connected : AskedIn(toPeer'[q], Wanted(q))
                                  /\ SentIn(fromPeer'[q], Wanted(q))
    PROVE  SyncInv'
<1>1. /\ have' = have /\ orphans' = orphans /\ best' = best
      /\ peerStates' = peerStates /\ peerReqs' = peerReqs
      /\ requestedBlocks' = requestedBlocks /\ syncPeer' = syncPeer
      /\ syncCandidate' = syncCandidate /\ maxBlockHeight' = maxBlockHeight
      /\ updates' = updates /\ prevGetBlocks' = prevGetBlocks
  BY Zenon DEF chain, requests, sync, belief
<1>2. Types'
  <2>1. connected' \subseteq peerStates
    BY Zenon DEF SyncInv, Types
  <2>2. QED
    BY <1>1, <2>1, Zenon DEF SyncInv, Types
<1>3. RequestsBacked' /\ SyncIsCandidate'
  BY <1>1, Zenon DEF SyncInv, RequestsBacked, SyncIsCandidate
<1>4. AnswersWanted'
  BY <1>1, Zenon DEF AnswersWanted, Wanted
<1>5. QED
  BY <1>2, <1>3, <1>4, Zenon DEF SyncInv

\* A queue of a known peer changes.
LEMMA FromChanges ==
    ASSUME SyncInv, NEW p \in peerStates, NEW x \in Seq(FromMsg),
           SentIn(fromPeer[p], Wanted(p)) => SentIn(x, Wanted(p)),
           fromPeer' = [fromPeer EXCEPT ![p] = x]
    PROVE  /\ fromPeer' \in [Peer -> Seq(FromMsg)]
           /\ \A q \in Peer \ peerStates : fromPeer'[q] = <<>>
           /\ \A q \in connected : SentIn(fromPeer'[q], Wanted(q))
<1>1. /\ p \in Peer /\ fromPeer \in [Peer -> Seq(FromMsg)] /\ connected \subseteq Peer
      /\ \A q \in Peer \ peerStates : fromPeer[q] = <<>>
      /\ \A q \in connected : SentIn(fromPeer[q], Wanted(q))
  BY Zenon DEF SyncInv, Types, QuietOutside, AnswersWanted
<1>2. fromPeer' \in [Peer -> Seq(FromMsg)]
  BY <1>1
<1>3. fromPeer'[p] = x /\ \A q \in Peer \ {p} : fromPeer'[q] = fromPeer[q]
  BY <1>1
<1>4. QED
  BY <1>1, <1>2, <1>3, Zenon

\* The queue to one peer changes, and still asks for wanted blocks only.
LEMMA ToChanges ==
    ASSUME SyncInv, NEW p \in peerStates, NEW x \in Seq(ToMsg),
           AskedIn(toPeer[p], Wanted(p)) => AskedIn(x, Wanted(p)),
           toPeer' = [toPeer EXCEPT ![p] = x]
    PROVE  /\ toPeer' \in [Peer -> Seq(ToMsg)]
           /\ \A q \in Peer \ peerStates : toPeer'[q] = <<>>
           /\ \A q \in connected : AskedIn(toPeer'[q], Wanted(q))
<1>1. /\ p \in Peer /\ toPeer \in [Peer -> Seq(ToMsg)] /\ connected \subseteq Peer
      /\ \A q \in Peer \ peerStates : toPeer[q] = <<>>
      /\ \A q \in connected : AskedIn(toPeer[q], Wanted(q))
  BY Zenon DEF SyncInv, Types, QuietOutside, AnswersWanted
<1>2. toPeer' \in [Peer -> Seq(ToMsg)]
  BY <1>1
<1>3. toPeer'[p] = x /\ \A q \in Peer \ {p} : toPeer'[q] = toPeer[q]
  BY <1>1
<1>4. QED
  BY <1>1, <1>2, <1>3, Zenon

\* What holds of the queues now.
LEMMA QueuesNow ==
    ASSUME SyncInv
    PROVE  /\ toPeer \in [Peer -> Seq(ToMsg)] /\ fromPeer \in [Peer -> Seq(FromMsg)]
           /\ peerHas \in [Peer -> SUBSET Block] /\ continueHash \in [Peer -> Stop]
           /\ connected \subseteq peerStates /\ peerStates \subseteq Peer
           /\ \A q \in Peer \ peerStates : toPeer[q] = <<>> /\ fromPeer[q] = <<>>
           /\ \A q \in connected : AskedIn(toPeer[q], Wanted(q))
                                     /\ SentIn(fromPeer[q], Wanted(q))
BY Zenon DEF SyncInv, Types, QuietOutside, AnswersWanted

\* A peer answers getblocks with an inventory, which sends no block.
LEMMA OnGetBlocksStep ==
    ASSUME SyncInv, NEW p \in Peer, OnGetBlocks(p)
    PROVE  SyncInv'
<1> DEFINE m == Head(toPeer[p])
           inv == locateInventory(p, m.from, m.stop)
           w == [type |-> "inv", blocks |-> inv]
<1>1. /\ p \in connected /\ toPeer[p] # <<>>
      /\ toPeer' = [toPeer EXCEPT ![p] = Tail(toPeer[p])]
      /\ UNCHANGED <<chain, peerStates, requests, sync, belief, prevGetBlocks>>
      /\ connected' = connected /\ peerHas' = peerHas
  BY Zenon DEF OnGetBlocks, Reads
<1>2. /\ continueHash' = [continueHash EXCEPT ![p] =
           IF Len(inv) = MaxBlocksPerMsg THEN inv[Len(inv)] ELSE continueHash[p]]
      /\ fromPeer' = fromPeer
           \/ fromPeer' = [fromPeer EXCEPT ![p] = Append(fromPeer[p], w)]
  BY Zenon DEF OnGetBlocks
<1>3. p \in peerStates /\ toPeer[p] \in Seq(ToMsg) /\ fromPeer[p] \in Seq(FromMsg)
  BY <1>1, QueuesNow
<1>4. inv \in Seq(Block)
  BY QueuesNow, LocateIs, Zenon
<1>5. w \in FromMsg /\ w.type = "inv"
  BY <1>4, Zenon DEF FromMsg
<1> HIDE DEF inv, w
<1>6. /\ toPeer' \in [Peer -> Seq(ToMsg)]
      /\ \A q \in Peer \ peerStates : toPeer'[q] = <<>>
      /\ \A q \in connected : AskedIn(toPeer'[q], Wanted(q))
  <2>1. /\ Tail(toPeer[p]) \in Seq(ToMsg)
        /\ AskedIn(toPeer[p], Wanted(p)) => AskedIn(Tail(toPeer[p]), Wanted(p))
    BY <1>1, <1>3, QueuesNow, AskedTail, Zenon
  <2>2. QED
    BY <1>1, <1>3, <2>1, ToChanges, Zenon
<1>7. /\ fromPeer' \in [Peer -> Seq(FromMsg)]
      /\ \A q \in Peer \ peerStates : fromPeer'[q] = <<>>
      /\ \A q \in connected : SentIn(fromPeer'[q], Wanted(q))
  <2>1. CASE fromPeer' = fromPeer
    BY <2>1, QueuesNow, Zenon
  <2>2. CASE fromPeer' = [fromPeer EXCEPT ![p] = Append(fromPeer[p], w)]
    <3>1. w.type # "block" /\ SentIn(fromPeer[p], Wanted(p))
      BY <1>1, <1>5, QueuesNow
    <3>2. /\ Append(fromPeer[p], w) \in Seq(FromMsg)
          /\ SentIn(Append(fromPeer[p], w), Wanted(p))
      BY <1>3, <1>5, <3>1, SentAppend, Zenon
    <3>3. QED
      BY <1>3, <2>2, <3>2, FromChanges, Zenon
  <2>3. QED
    BY <1>2, <2>1, <2>2, Zenon
<1>8. continueHash' \in [Peer -> Stop]
  <2>1. Len(inv) = MaxBlocksPerMsg => inv[Len(inv)] \in Stop
    <3>1. Len(inv) = MaxBlocksPerMsg => Len(inv) \in 1..Len(inv)
      BY <1>4, LimitAssumption
    <3>2. QED
      BY <1>4, <3>1, SeqElement DEF Stop
  <2>2. QED
    BY <1>2, <2>1, QueuesNow, Zenon
<1>9. QuietOutside'
  BY <1>1, <1>6, <1>7 DEF QuietOutside, chain
<1>10. QED
  BY <1>1, <1>6, <1>7, <1>8, <1>9, QueuesNow, RemoteStep, Zenon

\* A peer answers getdata with blocks that it was asked for, so that what it
\* sends is wanted because what it was asked for was.
LEMMA OnGetDataStep ==
    ASSUME SyncInv, NEW p \in Peer, OnGetData(p)
    PROVE  SyncInv'
<1> DEFINE bs == Head(toPeer[p]).blocks
           a == Pushed(p, bs)
<1>1. /\ p \in connected /\ toPeer[p] # <<>> /\ Head(toPeer[p]).type = "getdata"
      /\ toPeer' = [toPeer EXCEPT ![p] = Tail(toPeer[p])]
      /\ UNCHANGED <<chain, peerStates, requests, sync, belief, prevGetBlocks>>
      /\ connected' = connected /\ peerHas' = peerHas
  BY Zenon DEF OnGetData, Reads
<1>2. /\ continueHash' = [continueHash EXCEPT ![p] = a.continue]
      /\ fromPeer' = [fromPeer EXCEPT ![p] = fromPeer[p] \o a.out]
  BY Zenon DEF OnGetData
<1>3. /\ p \in peerStates /\ toPeer[p] \in Seq(ToMsg) /\ fromPeer[p] \in Seq(FromMsg)
      /\ AskedIn(toPeer[p], Wanted(p)) /\ SentIn(fromPeer[p], Wanted(p))
  BY <1>1, QueuesNow, Zenon
<1>4. bs \in Seq(Block) /\ \A j \in 1..Len(bs) : bs[j] \in Wanted(p)
  <2>1. 1 \in 1..Len(toPeer[p]) /\ Head(toPeer[p]) = toPeer[p][1]
    BY <1>1, <1>3, SMTT(30)
  <2>2. toPeer[p][1] \in ToMsg
    BY <1>3, <2>1, SeqElement, Zenon
  <2>3. bs \in Seq(Block)
    BY <1>1, <2>1, <2>2, Zenon DEF ToMsg
  <2>4. QED
    BY <1>1, <1>3, <2>1, <2>3, Zenon DEF AskedIn
<1>5. a.out \in Seq(FromMsg) /\ SentIn(a.out, Wanted(p)) /\ a.continue \in Stop
  BY <1>4, QueuesNow, PushedIs, Zenon
<1> HIDE DEF a, bs
<1>6. /\ toPeer' \in [Peer -> Seq(ToMsg)]
      /\ \A q \in Peer \ peerStates : toPeer'[q] = <<>>
      /\ \A q \in connected : AskedIn(toPeer'[q], Wanted(q))
  <2>1. Tail(toPeer[p]) \in Seq(ToMsg) /\ AskedIn(Tail(toPeer[p]), Wanted(p))
    BY <1>1, <1>3, AskedTail, Zenon
  <2>2. QED
    BY <1>1, <1>3, <2>1, ToChanges, Zenon
<1>7. /\ fromPeer' \in [Peer -> Seq(FromMsg)]
      /\ \A q \in Peer \ peerStates : fromPeer'[q] = <<>>
      /\ \A q \in connected : SentIn(fromPeer'[q], Wanted(q))
  <2>1. /\ fromPeer[p] \o a.out \in Seq(FromMsg)
        /\ SentIn(fromPeer[p] \o a.out, Wanted(p))
    BY <1>3, <1>5, SentConcat, Zenon
  <2>2. QED
    BY <1>2, <1>3, <2>1, FromChanges, Zenon
<1>8. continueHash' \in [Peer -> Stop]
  BY <1>2, <1>5, QueuesNow, Zenon
<1>9. QuietOutside'
  BY <1>1, <1>6, <1>7, Zenon DEF QuietOutside, chain
<1>10. QED
  BY <1>1, <1>6, <1>7, <1>8, <1>9, QueuesNow, RemoteStep, Zenon

\* A peer that relays an inventory sends no block.
LEMMA RelayStep ==
    ASSUME SyncInv, NEW p \in Peer, Relay(p) \/ RelayTx(p)
    PROVE  SyncInv'
<1>1. /\ UNCHANGED <<chain, peerStates, requests, sync, belief, prevGetBlocks>>
      /\ connected' = connected /\ toPeer' = toPeer /\ continueHash' = continueHash
  BY Zenon DEF Relay, RelayTx, remote
<1>2. peerHas' \in [Peer -> SUBSET Block]
  <2>1. CASE Relay(p)
    <3>1. PICK b \in Growth[p] : peerHas' = [peerHas EXCEPT ![p] = @ \cup {b}]
      BY <2>1, Zenon DEF Relay
    <3>2. b \in Block
      BY DagAssumption, Zenon
    <3>3. peerHas \in [Peer -> SUBSET Block]
      BY QueuesNow, Zenon
    <3>4. QED
      BY <3>1, <3>2, <3>3, Zenon
  <2>2. CASE RelayTx(p)
    BY <2>2, QueuesNow, Zenon DEF RelayTx, remote
  <2>3. QED
    BY <2>1, <2>2
<1>3. /\ fromPeer' \in [Peer -> Seq(FromMsg)]
      /\ \A q \in Peer \ peerStates : fromPeer'[q] = <<>>
      /\ \A q \in connected : SentIn(fromPeer'[q], Wanted(q))
  <2>1. CASE fromPeer' = fromPeer
    BY <2>1, QueuesNow, Zenon
  <2>2. ASSUME p \in connected, NEW bs \in Seq(Block),
               fromPeer' = [fromPeer EXCEPT ![p] =
                              Append(fromPeer[p], [type |-> "inv", blocks |-> bs])]
        PROVE  /\ fromPeer' \in [Peer -> Seq(FromMsg)]
               /\ \A q \in Peer \ peerStates : fromPeer'[q] = <<>>
               /\ \A q \in connected : SentIn(fromPeer'[q], Wanted(q))
    <3> DEFINE w == [type |-> "inv", blocks |-> bs]
    <3>1. w \in FromMsg /\ w.type # "block"
      BY Zenon DEF FromMsg
    <3> HIDE DEF w
    <3>2. /\ p \in peerStates /\ fromPeer[p] \in Seq(FromMsg)
          /\ SentIn(fromPeer[p], Wanted(p))
      BY <2>2, QueuesNow, Zenon
    <3>3. /\ Append(fromPeer[p], w) \in Seq(FromMsg)
          /\ SentIn(Append(fromPeer[p], w), Wanted(p))
      BY <3>1, <3>2, SentAppend, Zenon
    <3>4. QED
      BY <2>2, <3>2, <3>3, FromChanges, Zenon DEF w
  <2>3. \/ fromPeer' = fromPeer
        \/ /\ p \in connected
           /\ \E bs \in Seq(Block) : fromPeer' = [fromPeer EXCEPT ![p] =
                  Append(fromPeer[p], [type |-> "inv", blocks |-> bs])]
    <3>1. CASE Relay(p)
      <4>1. PICK b \in Growth[p] :
              fromPeer' = IF p \notin connected THEN fromPeer
                ELSE [fromPeer EXCEPT ![p] =
                        Append(@, [type |-> "inv", blocks |-> <<b>>])]
        BY <3>1, Zenon DEF Relay
      <4>2. <<b>> \in Seq(Block)
        BY DagAssumption, SMTT(30)
      <4>3. QED
        BY <4>1, <4>2, Zenon
    <3>2. CASE RelayTx(p)
      <4>1. <<>> \in Seq(Block)
        BY SeqEmpty, Zenon
      <4>2. QED
        BY <3>2, <4>1, Zenon DEF RelayTx
    <3>3. QED
      BY <3>1, <3>2, Zenon
  <2>4. QED
    BY <2>1, <2>2, <2>3, Zenon
<1>4. QuietOutside'
  BY <1>1, <1>3, QueuesNow, Zenon DEF QuietOutside
<1>5. toPeer' \in [Peer -> Seq(ToMsg)] /\ continueHash' \in [Peer -> Stop]
  BY <1>1, QueuesNow
<1>6. \A q \in connected : AskedIn(toPeer'[q], Wanted(q)) /\ SentIn(fromPeer'[q], Wanted(q))
  BY <1>1, <1>3, QueuesNow, Zenon
<1>7. connected' \subseteq connected
  BY <1>1
<1>8. QED
  BY <1>1, <1>2, <1>3, <1>4, <1>5, <1>6, <1>7, RemoteStep, Zenon

\* A connection that hangs or is closed adds nothing to its queues.
LEMMA LinkStep ==
    ASSUME SyncInv, NEW p \in Peer, Hang(p) \/ Drop(p) \/ BlockUnrequested(p)
    PROVE  SyncInv'
<1>1. /\ UNCHANGED <<chain, peerStates, requests, sync, belief, prevGetBlocks>>
      /\ connected' \subseteq connected
      /\ continueHash' = continueHash /\ peerHas' = peerHas
  BY Zenon DEF Hang, Drop, BlockUnrequested, remote
<1>2. /\ toPeer' \in [Peer -> Seq(ToMsg)]
      /\ \A q \in Peer \ peerStates : toPeer'[q] = <<>>
      /\ \A q \in connected : AskedIn(toPeer'[q], Wanted(q))
  <2>1. CASE Hang(p)
    <3>1. p \in peerStates
      BY <2>1, QueuesNow, Zenon DEF Hang
    <3>2. <<>> \in Seq(ToMsg) /\ AskedIn(<<>>, Wanted(p))
      BY SeqEmpty, SMTT(30) DEF AskedIn
    <3>3. toPeer' = [toPeer EXCEPT ![p] = <<>>]
      BY <2>1, Zenon DEF Hang
    <3>4. QED
      BY <3>1, <3>2, <3>3, ToChanges, Zenon
  <2>2. CASE Drop(p) \/ BlockUnrequested(p)
    <3>1. toPeer' = toPeer
      BY <2>2, Zenon DEF Drop, BlockUnrequested
    <3>2. QED
      BY <3>1, QueuesNow, Zenon
  <2>3. QED
    BY <2>1, <2>2, Zenon
<1>3. /\ fromPeer' \in [Peer -> Seq(FromMsg)]
      /\ \A q \in Peer \ peerStates : fromPeer'[q] = <<>>
      /\ \A q \in connected : SentIn(fromPeer'[q], Wanted(q))
  <2>1. CASE Hang(p) \/ Drop(p)
    <3>1. fromPeer' = fromPeer
      BY <2>1, Zenon DEF Hang, Drop
    <3>2. QED
      BY <3>1, QueuesNow, Zenon
  <2>2. CASE BlockUnrequested(p)
    <3>1. /\ p \in peerStates /\ fromPeer[p] # <<>>
          /\ fromPeer' = [fromPeer EXCEPT ![p] = Tail(fromPeer[p])]
      BY <2>2, Zenon DEF BlockUnrequested, Receive
    <3>2. /\ Tail(fromPeer[p]) \in Seq(FromMsg)
          /\ SentIn(fromPeer[p], Wanted(p)) => SentIn(Tail(fromPeer[p]), Wanted(p))
      <4>1. fromPeer[p] \in Seq(FromMsg)
        BY QueuesNow
      <4>2. QED
        BY <3>1, <4>1, SentTail, SeqTail, Zenon
    <3>3. QED
      BY <3>1, <3>2, FromChanges, Zenon
  <2>3. QED
    BY <2>1, <2>2
<1>4. QuietOutside'
  BY <1>1, <1>2, <1>3, Zenon DEF QuietOutside
<1>5. continueHash' \in [Peer -> Stop] /\ peerHas' \in [Peer -> SUBSET Block]
  BY <1>1, QueuesNow, Zenon
<1>6. \A q \in connected : AskedIn(toPeer'[q], Wanted(q)) /\ SentIn(fromPeer'[q], Wanted(q))
  BY <1>2, <1>3, Zenon
<1>7. QED
  BY <1>1, <1>2, <1>3, <1>4, <1>5, <1>6, RemoteStep, Zenon

\* Heights of peers have no part in the requests.
LEMMA HeightsStep ==
    ASSUME SyncInv, NEW u \in updates, handleUpdatePeerHeights(u)
    PROVE  SyncInv'
<1> DEFINE raised == {p \in connected \ {u.origin} : lastAnnounced[p] = u.block}
<1>1. /\ updates' = updates \ {u}
      /\ maxBlockHeight' = [p \in Peer |->
            IF p \in raised THEN Max({maxBlockHeight[p], u.height})
            ELSE maxBlockHeight[p]]
      /\ UNCHANGED <<have, orphans, best, peerStates, peerReqs, requestedBlocks,
                     syncPeer, syncCandidate, prevGetBlocks, connected, toPeer,
                     fromPeer, peerHas, continueHash>>
  BY Zenon DEF handleUpdatePeerHeights, chain, requests, sync, remote
<1> HIDE DEF raised
<1>2. maxBlockHeight' \in [Peer -> Nat]
  <2>1. u.height \in Nat /\ \A p \in Peer : maxBlockHeight[p] \in Nat
    BY Zenon DEF SyncInv, Types
  <2>2. \A p \in Peer : Max({maxBlockHeight[p], u.height}) \in Nat
    BY <2>1, MaxOfTwo, Zenon
  <2>3. QED
    BY <1>1, <2>1, <2>2, Zenon
<1>3. \A v \in updates' : v.height \in Nat
  BY <1>1, Zenon DEF SyncInv, Types
<1>4. Types'
  BY <1>1, <1>2, <1>3, Zenon DEF SyncInv, Types
<1>5. RequestsBacked' /\ SyncIsCandidate' /\ QuietOutside' /\ AnswersWanted'
  BY <1>1, Zenon
     DEF SyncInv, RequestsBacked, SyncIsCandidate, QuietOutside, AnswersWanted, Wanted
<1>6. QED
  BY <1>4, <1>5, Zenon DEF SyncInv

\* The sync manager's goroutine takes a message of p.
LEMMA HandlerStep ==
    ASSUME SyncInv, NEW p \in peerStates, NEW M, NEW e \in Good(M, Others(p)),
           Apply(p, e), fromPeer[p] # <<>>,
           fromPeer' = [fromPeer EXCEPT ![p] = Tail(@)],
           UNCHANGED <<peerStates, connected, syncCandidate, peerHas, continueHash>>,
           have' \in SUBSET Block, orphans' \in SUBSET Block,
           best' \in have' \cup {Genesis},
           have \cup orphans \subseteq have' \cup orphans',
           DOMAIN peerReqs[p] \subseteq M \cup have' \cup orphans' \cup {Genesis},
           syncPeer' \in {syncPeer, NoPeer},
           maxBlockHeight' \in [Peer -> Nat], \A u \in updates' : u.height \in Nat
    PROVE  SyncInv'
<1>1. /\ peerReqs' \in [Peer -> Reqs] /\ requestedBlocks' \in Reqs
      /\ prevGetBlocks' \in [Peer -> Stop \X Nat]
      /\ toPeer' \in [Peer -> Seq(ToMsg)] /\ fromPeer' \in [Peer -> Seq(FromMsg)]
      /\ RequestsBacked' /\ QuietOutside' /\ AnswersWanted'
  BY ApplyStep, Zenon
<1>2. syncPeer' \in peerStates \cup {NoPeer}
  BY Zenon DEF SyncInv, Types
<1>3. SyncIsCandidate'
  BY NoAssumption, Zenon DEF SyncInv, SyncIsCandidate
<1>4. Types'
  <2>1. /\ peerStates' = peerStates /\ connected' = connected
        /\ syncCandidate' = syncCandidate
        /\ peerHas' = peerHas /\ continueHash' = continueHash
    BY Zenon
  <2>2. QED
    BY <1>1, <1>2, <2>1, Zenon DEF SyncInv, Types
<1>5. QED
  BY <1>1, <1>3, <1>4, Zenon DEF SyncInv

\* handleMoreInv may ask the peer for another inventory.
LEMMA MoreStep ==
    ASSUME SyncInv, NEW p \in Peer, handleMoreInv(p)
    PROVE  SyncInv'
<1> DEFINE e == PushGetBlocksMsg(Effects(p), MaxHeight, NoBlock)
<1>1. /\ p \in peerStates /\ fromPeer[p] # <<>>
      /\ fromPeer' = [fromPeer EXCEPT ![p] = Tail(@)] /\ Apply(p, e)
      /\ UNCHANGED <<peerStates, connected, syncCandidate, peerHas, continueHash>>
      /\ UNCHANGED <<have, orphans, best, syncPeer, maxBlockHeight, updates>>
  BY Zenon DEF handleMoreInv, Receive, chain, sync, belief, remote
<1>2. e \in Good(DOMAIN peerReqs[p], Others(p))
  <2>1. MaxHeight \in Nat
    BY HighestIs, Zenon DEF MaxHeight, SyncInv, Types
  <2>2. NoBlock \in Stop
    BY DEF Stop
  <2>3. QED
    BY <1>1, <2>1, <2>2, EffectsGood, PushGood, Zenon
<1> HIDE DEF e
<1>3. /\ have' \in SUBSET Block /\ orphans' \in SUBSET Block
      /\ best' \in have' \cup {Genesis}
      /\ maxBlockHeight' \in [Peer -> Nat] /\ \A u \in updates' : u.height \in Nat
  BY <1>1, Zenon DEF SyncInv, Types
<1>4. /\ have \cup orphans \subseteq have' \cup orphans'
      /\ DOMAIN peerReqs[p]
           \subseteq DOMAIN peerReqs[p] \cup have' \cup orphans' \cup {Genesis}
      /\ syncPeer' \in {syncPeer, NoPeer}
  BY <1>1, Zenon
<1>5. QED
  BY <1>1, <1>2, <1>3, <1>4, HandlerStep, Zenon

\* handleInvMsg applies a good record.
LEMMA InvStep ==
    ASSUME SyncInv, NEW p \in Peer, handleInvMsg(p)
    PROVE  SyncInv'
<1> DEFINE inv == Head(fromPeer[p]).blocks
           h == Highest(Range(inv))
           heights == [maxBlockHeight EXCEPT ![p] = Max({maxBlockHeight[p], h})]
           target == IF syncPeer # NoPeer /\ MaxHeight >= heights[syncPeer]
                     THEN NoPeer ELSE syncPeer
           M == DOMAIN peerReqs[p]
           O == Others(p)
<1>1. /\ p \in peerStates /\ fromPeer[p] # <<>> /\ Head(fromPeer[p]).type = "inv"
      /\ fromPeer' = [fromPeer EXCEPT ![p] = Tail(@)]
      /\ UNCHANGED <<peerStates, connected, syncCandidate, peerHas, continueHash>>
      /\ UNCHANGED <<have, orphans, best, updates>>
      /\ maxBlockHeight' = heights /\ syncPeer' = target
      /\ \/ UNCHANGED <<peerReqs, requestedBlocks, prevGetBlocks, toPeer>>
         \/ \E news \in {FALSE, inv = <<>>} :
            \E e \in reqOrphanParents(
                      reqBlocks(Effects(p), inv, news, target = p),
                      orphans, have) : Apply(p, e)
  BY ZenonT(60) DEF handleInvMsg, Receive, chain, requests, sync, remote
<1>2. inv \in Seq(Block)
  <2>1. fromPeer[p] \in Seq(FromMsg)
    BY QueuesNow
  <2>2. Head(fromPeer[p]) \in FromMsg
    BY <1>1, <2>1, SeqTail, Zenon
  <2>3. QED
    BY <1>1, <2>2, Zenon DEF FromMsg
<1>3. maxBlockHeight' \in [Peer -> Nat]
  <2>1. Range(inv) \in SUBSET Block
    <3>1. DOMAIN inv = 1..Len(inv) /\ \A i \in 1..Len(inv) : inv[i] \in Block
      BY <1>2, SeqLen, SeqElement, Zenon
    <3>2. QED
      BY <3>1, Zenon DEF Range
  <2>2. h \in Nat
    BY <2>1, HighestIs, Zenon
  <2> HIDE DEF h
  <2>3. maxBlockHeight \in [Peer -> Nat]
    BY Zenon DEF SyncInv, Types
  <2>4. Max({maxBlockHeight[p], h}) \in Nat
    BY <2>2, <2>3, MaxOfTwo, Zenon
  <2>5. QED
    BY <1>1, <2>3, <2>4, Zenon
<1>4. \E e \in Good(M, O) : Apply(p, e)
  <2>1. CASE UNCHANGED <<peerReqs, requestedBlocks, prevGetBlocks, toPeer>>
    <3>1. Effects(p) \in Good(M, O)
      BY <1>1, EffectsGood, Zenon
    <3>2. /\ peerReqs \in [Peer -> Reqs] /\ prevGetBlocks \in [Peer -> Stop \X Nat]
          /\ toPeer \in [Peer -> Seq(ToMsg)]
      BY Zenon DEF SyncInv, Types
    <3>3. /\ [peerReqs EXCEPT ![p] = peerReqs[p]] = peerReqs
          /\ [prevGetBlocks EXCEPT ![p] = prevGetBlocks[p]] = prevGetBlocks
          /\ [toPeer EXCEPT ![p] = toPeer[p]] = toPeer
      BY <3>2, Zenon
    <3>4. toPeer[p] \o <<>> = toPeer[p]
      BY <3>2, SeqConcatEmpty, Zenon
    <3>5. [toPeer EXCEPT ![p] = @ \o <<>>] = toPeer
      BY <3>2, <3>3, <3>4, Zenon
    <3>6. Sent(toPeer, p, <<>>) = toPeer
      BY <3>5, Zenon DEF Sent
    <3>7. /\ Effects(p).mine = peerReqs[p] /\ Effects(p).all = requestedBlocks
          /\ Effects(p).out = <<>> /\ Effects(p).prev = prevGetBlocks[p]
      BY Zenon DEF Effects
    <3>8. Apply(p, Effects(p))
      BY <2>1, <3>3, <3>6, <3>7, Zenon DEF Apply
    <3>9. QED
      BY <3>1, <3>8, Zenon
  <2>2. ASSUME NEW news,
               NEW e \in reqOrphanParents(
                      reqBlocks(Effects(p), inv, news, target = p), orphans, have),
               Apply(p, e)
        PROVE  \E f \in Good(M, O) : Apply(p, f)
    <3> HIDE DEF inv, target
    <3>1. Effects(p) \in Good(M, O)
      BY <1>1, EffectsGood, Zenon
    <3>2. reqBlocks(Effects(p), inv, news, target = p) \in Good(M, O)
      BY <1>2, <3>1, ReqBlocksGood, Zenon
    <3>3. orphans \in SUBSET Block
      BY Zenon DEF SyncInv, Types
    <3>4. e \in Good(M, O)
      BY <3>2, <3>3, ParentsGood, Zenon
    <3>5. QED
      BY <2>2, <3>4, Zenon
  <2> HIDE DEF inv, target, M, O
  <2>3. QED
    BY <1>1, <2>1, <2>2, Zenon
<1>5. PICK e \in Good(M, O) : Apply(p, e)
  BY <1>4, Zenon
<1>6. /\ have' \in SUBSET Block /\ orphans' \in SUBSET Block
      /\ best' \in have' \cup {Genesis} /\ \A u \in updates' : u.height \in Nat
  BY <1>1, Zenon DEF SyncInv, Types
<1>7. /\ have \cup orphans \subseteq have' \cup orphans'
      /\ M \subseteq M \cup have' \cup orphans' \cup {Genesis}
      /\ syncPeer' \in {syncPeer, NoPeer}
  BY <1>1, Zenon
<1> HIDE DEF inv, heights, target
<1>8. QED
  BY <1>1, <1>3, <1>5, <1>6, <1>7, HandlerStep, Zenon

\* The sync ends when nobody is higher than the DAG.
LEMMA UpdateHeightsIs ==
    ASSUME SyncInv, NEW p \in Peer, NEW dag, NEW u, u.height \in Nat, NEW always,
           UpdateHeights(p, dag, u, always)
    PROVE  /\ maxBlockHeight' \in [Peer -> Nat] /\ \A v \in updates' : v.height \in Nat
           /\ syncPeer' \in {syncPeer, NoPeer}
           /\ syncPeer' = syncPeer
                \/ \A q \in peerStates : Highest(dag) >= maxBlockHeight'[q]
<1> DEFINE heights == [maxBlockHeight EXCEPT ![p] = Max({maxBlockHeight[p], u.height})]
<1>1. /\ maxBlockHeight' = heights
      /\ updates' \subseteq updates \cup {u}
      /\ syncPeer' = IF current(dag, heights) THEN NoPeer ELSE syncPeer
  BY Zenon DEF UpdateHeights
<1>2. maxBlockHeight \in [Peer -> Nat] /\ \A v \in updates : v.height \in Nat
  BY Zenon DEF SyncInv, Types
<1>3. Max({maxBlockHeight[p], u.height}) \in Nat
  BY <1>2, MaxOfTwo, Zenon
<1>4. maxBlockHeight' \in [Peer -> Nat]
  BY <1>1, <1>2, <1>3, Zenon
<1>5. \A v \in updates' : v.height \in Nat
  BY <1>1, <1>2
<1> HIDE DEF heights
<1>6. QED
  BY <1>1, <1>4, <1>5, Zenon DEF current

\* handleBlockMsg takes the block off the maps only after it has become known,
\* and applies a good record.
LEMMA BlockStep ==
    ASSUME SyncInv, NEW p \in Peer, NEW b \in Block,
           BlockKnown(p, b) \/ BlockOrphaned(p, b) \/ BlockConnected(p, b)
    PROVE  SyncInv'
<1> DEFINE M == DOMAIN peerReqs[p] \ {b}
           O == Others(p)
<1>1. /\ p \in peerStates /\ fromPeer[p] # <<>>
      /\ fromPeer' = [fromPeer EXCEPT ![p] = Tail(@)]
      /\ UNCHANGED <<peerStates, connected, syncCandidate, peerHas, continueHash>>
  BY Zenon DEF BlockKnown, BlockOrphaned, BlockConnected, Answer, Receive, remote
<1>2. Answered(p, b) \in Good(M, O)
  BY <1>1, AnsweredGood, Zenon
<1>3. /\ have \in SUBSET Block /\ orphans \in SUBSET Block
      /\ best \in have \cup {Genesis} /\ maxBlockHeight \in [Peer -> Nat]
      /\ \A u \in updates : u.height \in Nat
  BY Zenon DEF SyncInv, Types
<1>4. height[b] \in Nat
  BY DagAssumption, Zenon
<1>5. CASE BlockKnown(p, b)
  <2>1. /\ Apply(p, Answered(p, b)) /\ HaveBlock(b)
        /\ UNCHANGED <<have, orphans, best, syncPeer, maxBlockHeight, updates>>
    BY <1>5, Zenon DEF BlockKnown, chain, belief
  <2>2. /\ have' \in SUBSET Block /\ orphans' \in SUBSET Block
        /\ best' \in have' \cup {Genesis}
        /\ maxBlockHeight' \in [Peer -> Nat] /\ \A u \in updates' : u.height \in Nat
    BY <1>3, <2>1, Zenon
  <2>3. /\ have \cup orphans \subseteq have' \cup orphans'
        /\ DOMAIN peerReqs[p] \subseteq M \cup have' \cup orphans' \cup {Genesis}
        /\ syncPeer' \in {syncPeer, NoPeer}
    BY <2>1, Zenon DEF HaveBlock
  <2> HIDE DEF M, O
  <2>4. QED
    BY <1>1, <1>2, <2>1, <2>2, <2>3, HandlerStep, Zenon DEF O
<1>6. CASE BlockOrphaned(p, b)
  <2> DEFINE u == [block |-> b, height |-> height[b], origin |-> p]
  <2>1. /\ orphans' = orphans \cup {b} /\ have' = have /\ best' = best
        /\ \E e \in reqOrphanParents(Answered(p, b), orphans', have) : Apply(p, e)
        /\ UpdateHeights(p, have, u, TRUE)
    BY <1>6, Zenon DEF BlockOrphaned
  <2>2. u.height \in Nat
    BY <1>4, Zenon
  <2> HIDE DEF u
  <2>3. /\ maxBlockHeight' \in [Peer -> Nat] /\ \A v \in updates' : v.height \in Nat
        /\ syncPeer' \in {syncPeer, NoPeer}
    BY <2>1, <2>2, UpdateHeightsIs, Zenon
  <2>4. orphans' \in SUBSET Block
    BY <1>3, <2>1
  <2>5. PICK e \in Good(M, O) : Apply(p, e)
    <3> HIDE DEF M, O
    <3>1. QED
      BY <1>2, <2>1, <2>4, ParentsGood, Zenon
  <2>6. have' \in SUBSET Block /\ best' \in have' \cup {Genesis}
    BY <1>3, <2>1, Zenon
  <2>7. /\ have \cup orphans \subseteq have' \cup orphans'
        /\ DOMAIN peerReqs[p] \subseteq M \cup have' \cup orphans' \cup {Genesis}
    BY <2>1, Zenon
  <2> HIDE DEF M
  <2>8. QED
    BY <1>1, <2>3, <2>4, <2>5, <2>6, <2>7, HandlerStep, Zenon
<1>7. CASE BlockConnected(p, b)
  <2> DEFINE new == {b} \cup Adopted(b)
             u == [block |-> best', height |-> Highest(have'), origin |-> p]
  <2>1. /\ have' = have \cup new /\ orphans' = orphans \ new
        /\ best' \in Tips(new) /\ UpdateHeights(p, have', u, FALSE)
        /\ \E e \in reqOrphanChildren(Answered(p, b), b, orphans') :
             Apply(p, IF height[b] = maxBlockHeight'[p]
                      THEN PushGetBlocksMsg(e, height[b], NoBlock) ELSE e)
    BY <1>7, Zenon DEF BlockConnected
  <2>2. Adopted(b) \subseteq orphans /\ Tips(new) \subseteq new
    BY Zenon DEF Adopted, Tips
  <2>3. new \in SUBSET Block
    BY <1>3, <2>2
  <2>4. have' \in SUBSET Block /\ orphans' \in SUBSET Block /\ best' \in have' \cup {Genesis}
    <3>1. have' \in SUBSET Block /\ orphans' \in SUBSET Block
      BY <1>3, <2>1, <2>3, Zenon
    <3>2. best' \in have'
      BY <2>1, <2>2, Zenon
    <3>3. QED
      BY <3>1, <3>2, Zenon
  <2>5. /\ have \cup orphans \subseteq have' \cup orphans'
        /\ DOMAIN peerReqs[p] \subseteq M \cup have' \cup orphans' \cup {Genesis}
    BY <2>1, Zenon
  <2>6. u.height \in Nat
    BY <2>4, HighestIs
  <2> HIDE DEF u, new
  <2>7. /\ maxBlockHeight' \in [Peer -> Nat] /\ \A v \in updates' : v.height \in Nat
        /\ syncPeer' \in {syncPeer, NoPeer}
    BY <2>1, <2>6, UpdateHeightsIs, Zenon
  <2>8. PICK e \in Good(M, O) : Apply(p, e)
    <3> HIDE DEF M, O
    <3>1. PICK e \in reqOrphanChildren(Answered(p, b), b, orphans') :
             Apply(p, IF height[b] = maxBlockHeight'[p]
                      THEN PushGetBlocksMsg(e, height[b], NoBlock) ELSE e)
      BY <2>1, Zenon
    <3>2. e \in Good(M, O)
      BY <1>2, <2>4, ChildrenGood, Zenon
    <3>3. NoBlock \in Stop
      BY DEF Stop
    <3>4. PushGetBlocksMsg(e, height[b], NoBlock) \in Good(M, O)
      BY <1>4, <3>2, <3>3, PushGood, Zenon
    <3>5. QED
      BY <3>1, <3>2, <3>4, Zenon
  <2> HIDE DEF M
  <2>9. QED
    BY <1>1, <2>4, <2>5, <2>7, <2>8, HandlerStep, Zenon
<1>8. QED
  BY <1>5, <1>6, <1>7

\* A connection is made.
LEMMA NewPeerStep ==
    ASSUME SyncInv, NEW p \in Peer, handleNewPeerMsg(p)
    PROVE  SyncInv'
<1> DEFINE h == Highest(peerHas[p])
           heights == [maxBlockHeight EXCEPT ![p] = h]
           cand == [syncCandidate EXCEPT ![p] = TRUE]
           prev == [prevGetBlocks EXCEPT ![p] = NoRequest]
           S == peerStates \cup {p}
<1>1. /\ p \notin connected \cup peerStates
      /\ connected' = connected \cup {p} /\ peerStates' = S
      /\ maxBlockHeight' = heights
      /\ continueHash' = [continueHash EXCEPT ![p] = NoBlock]
      /\ UNCHANGED <<have, orphans, best, peerReqs, updates, fromPeer, peerHas>>
      /\ \/ /\ syncPeer = NoPeer
            /\ startSync(S, cand, heights, requestedBlocks, prev, toPeer, idle)
         \/ /\ syncPeer # NoPeer
            /\ syncCandidate' = cand /\ prevGetBlocks' = prev
            /\ UNCHANGED <<syncPeer, requestedBlocks, toPeer>>
  BY Zenon DEF handleNewPeerMsg, chain
<1>2. /\ have \in SUBSET Block /\ peerHas \in [Peer -> SUBSET Block]
      /\ maxBlockHeight \in [Peer -> Nat] /\ prevGetBlocks \in [Peer -> Stop \X Nat]
      /\ toPeer \in [Peer -> Seq(ToMsg)] /\ requestedBlocks \in Reqs
      /\ continueHash \in [Peer -> Stop] /\ peerStates \in SUBSET Peer
      /\ syncPeer \in peerStates \cup {NoPeer} /\ connected \subseteq peerStates
      /\ syncCandidate \in [Peer -> BOOLEAN]
  BY Zenon DEF SyncInv, Types
<1>3. h \in Nat
  <2>1. peerHas[p] \in SUBSET Block
    BY <1>2
  <2>2. QED
    BY <2>1, HighestIs, Zenon
<1> HIDE DEF h
<1>4. maxBlockHeight' \in [Peer -> Nat]
  BY <1>1, <1>2, <1>3, Zenon
<1>5. prev \in [Peer -> Stop \X Nat] /\ continueHash' \in [Peer -> Stop]
  BY <1>1, <1>2, Zenon DEF NoRequest, Stop
<1>6. cand \in [Peer -> BOOLEAN]
  BY <1>2
<1>7. S \in SUBSET Peer
  BY <1>2
<1>8. Chosen(S, requestedBlocks, toPeer)
  <2>1. CASE startSync(S, cand, heights, requestedBlocks, prev, toPeer, idle)
    <3> HIDE DEF S, cand, heights, prev
    <3>1. /\ have \in SUBSET Block /\ requestedBlocks \in Reqs
          /\ toPeer \in [Peer -> Seq(ToMsg)] /\ prev \in [Peer -> Stop \X Nat]
      BY <1>2, <1>5, Zenon
    <3>2. QED
      BY <1>7, <2>1, <3>1, StartSyncIs, Zenon
  <2>2. CASE /\ syncPeer # NoPeer
             /\ syncCandidate' = cand /\ prevGetBlocks' = prev
             /\ UNCHANGED <<syncPeer, requestedBlocks, toPeer>>
    <3>1. SyncIsCandidate'
      <4>1. syncPeer \in Peer /\ syncPeer # p /\ syncCandidate[syncPeer] = TRUE
        BY <1>1, <1>2, <2>2, Zenon DEF SyncInv, SyncIsCandidate
      <4>2. cand[syncPeer] = TRUE
        BY <1>2, <4>1
      <4>3. QED
        BY <2>2, <4>2, Zenon DEF SyncIsCandidate
    <3>2. syncPeer' \in S \cup {NoPeer}
      BY <1>2, <2>2
    <3> HIDE DEF cand, prev
    <3>3. QED
      BY <1>2, <1>5, <1>6, <2>2, <3>1, <3>2, Zenon DEF Chosen
  <2>3. QED
    BY <1>1, <2>1, <2>2, Zenon
<1>9. Types'
  <2>1. connected' \subseteq peerStates'
    BY <1>1, <1>2, Zenon
  <2>2. syncPeer' \in peerStates' \cup {NoPeer} /\ peerStates' \in SUBSET Peer
    BY <1>1, <1>7, <1>8, Zenon DEF Chosen
  <2> HIDE DEF S
  <2>3. QED
    BY <1>1, <1>4, <1>5, <1>8, <2>1, <2>2, Zenon DEF SyncInv, Types, Chosen
<1>10. RequestsBacked'
  BY <1>1, <1>8, SMTT(30) DEF SyncInv, RequestsBacked, Chosen
<1>11. QuietOutside'
  <2>1. \A q \in Peer \ S : toPeer[q] = <<>> /\ fromPeer[q] = <<>>
    BY Zenon DEF SyncInv, QuietOutside
  <2> HIDE DEF S
  <2>2. QED
    BY <1>1, <1>8, <2>1, Zenon DEF QuietOutside, Chosen
<1>12. AnswersWanted'
  <2>1. ASSUME NEW q \in connected'
        PROVE  AskedIn(toPeer'[q], Wanted(q)') /\ SentIn(fromPeer'[q], Wanted(q)')
    <3>1. Wanted(q)' = Wanted(q)
      BY <1>1, Zenon DEF Wanted
    <3>2. q \in Peer
      BY <1>1, <1>2, <2>1, Zenon
    <3>3. Wanted(q) \in SUBSET (Block \cup {Genesis})
      <4>1. peerReqs[q] \in Reqs
        BY <3>2 DEF SyncInv, Types
      <4>2. DOMAIN peerReqs[q] \subseteq Block
        BY <4>1, ReqsIs, Zenon
      <4>3. QED
        BY <4>2 DEF Wanted, SyncInv, Types
    <3>4. AskedIn(toPeer[q], Wanted(q)) /\ SentIn(fromPeer[q], Wanted(q))
      <4>1. CASE q \in connected
        BY <4>1, Zenon DEF SyncInv, AnswersWanted
      <4>2. CASE q = p
        <5>1. toPeer[q] = <<>> /\ fromPeer[q] = <<>>
          BY <1>1, <4>2, Zenon DEF SyncInv, QuietOutside
        <5>2. QED
          <6>1. 1..Len(toPeer[q]) = {} /\ 1..Len(fromPeer[q]) = {}
            BY <5>1, NoPositions, Zenon
          <6>2. QED
            BY <6>1, Zenon DEF AskedIn, SentIn
      <4>3. QED
        BY <1>1, <2>1, <4>1, <4>2, Zenon
    <3>5. QED
      BY <1>1, <1>8, <3>1, <3>2, <3>3, <3>4, Zenon DEF Chosen
  <2>2. QED
    BY <2>1, Zenon DEF AnswersWanted
<1>13. QED
  BY <1>8, <1>9, <1>10, <1>11, <1>12, Zenon DEF SyncInv, Chosen

\* The peers that are left have their queues and requests as before.
Kept(S, all, queue) ==
    /\ peerStates' = S
    /\ UNCHANGED <<have, orphans, best, maxBlockHeight, updates, peerHas,
                   continueHash>>
    /\ connected' \subseteq connected /\ connected' \subseteq S
    /\ peerReqs' \in [Peer -> Reqs]
    /\ \A q \in S : DOMAIN peerReqs'[q] = DOMAIN peerReqs[q]
    /\ DOMAIN all \subseteq UNION {DOMAIN peerReqs[q] : q \in S}
    /\ fromPeer' \in [Peer -> Seq(FromMsg)]
    /\ \A q \in Peer \ S : queue[q] = <<>> /\ fromPeer'[q] = <<>>
    /\ \A q \in S : queue[q] = toPeer[q] /\ fromPeer'[q] = fromPeer[q]

\* What startSync, updateSyncPeer and the stall check have in common.
LEMMA ChosenStep ==
    ASSUME SyncInv, NEW S \in SUBSET Peer, NEW all, NEW queue,
           Chosen(S, all, queue), Kept(S, all, queue)
    PROVE  SyncInv'
<1> USE DEF Kept
<1>1. Types'
  BY Zenon DEF SyncInv, Types, Chosen
<1>2. RequestsBacked'
  <2>1. {DOMAIN peerReqs'[q] : q \in peerStates'} = {DOMAIN peerReqs[q] : q \in S}
    BY ZenonT(60)
  <2>2. DOMAIN requestedBlocks' \subseteq UNION {DOMAIN peerReqs[q] : q \in S}
    BY Zenon DEF Chosen
  <2>3. QED
    BY <2>1, <2>2, Zenon DEF RequestsBacked
<1>3. QuietOutside'
  BY Zenon DEF QuietOutside, Chosen
<1>4. AnswersWanted'
  <2>1. ASSUME NEW q \in connected'
        PROVE  AskedIn(toPeer'[q], Wanted(q)') /\ SentIn(fromPeer'[q], Wanted(q)')
    <3>1. q \in connected /\ q \in S /\ q \in Peer
      BY <2>1, Zenon
    <3>2. Wanted(q)' = Wanted(q)
      BY <3>1, Zenon DEF Wanted
    <3>3. Wanted(q) \in SUBSET (Block \cup {Genesis})
      <4>1. peerReqs[q] \in Reqs
        BY <3>1, Zenon DEF SyncInv, Types
      <4>2. DOMAIN peerReqs[q] \subseteq Block
        BY <4>1, ReqsIs, Zenon
      <4>3. QED
        BY <4>2, Zenon DEF Wanted, SyncInv, Types
    <3>4. AskedIn(queue[q], Wanted(q)) /\ SentIn(fromPeer'[q], Wanted(q))
      BY <3>1, Zenon DEF SyncInv, AnswersWanted
    <3>5. QED
      BY <3>1, <3>2, <3>3, <3>4, Zenon DEF Chosen
  <2>2. QED
    BY <2>1, Zenon DEF AnswersWanted
<1>5. QED
  BY <1>1, <1>2, <1>3, <1>4, Zenon DEF SyncInv, Chosen

\* A connection is gone: so are the requests of its peer.
LEMMA DonePeerStep ==
    ASSUME SyncInv, NEW p \in Peer, handleDonePeerMsg(p)
    PROVE  SyncInv'
<1> DEFINE S == peerStates \ {p}
           all == Forget(requestedBlocks, DOMAIN peerReqs[p])
           queue == [toPeer EXCEPT ![p] = <<>>]
<1>1. /\ p \in peerStates \ connected /\ peerStates' = S
      /\ peerReqs' = [peerReqs EXCEPT ![p] = Empty]
      /\ fromPeer' = [fromPeer EXCEPT ![p] = <<>>]
      /\ UNCHANGED <<have, orphans, best, maxBlockHeight, updates, peerHas,
                     continueHash, connected>>
      /\ \/ startSync(S, syncCandidate, maxBlockHeight, all, prevGetBlocks, queue, idle)
         \/ /\ p # syncPeer
            /\ requestedBlocks' = all /\ toPeer' = queue
            /\ UNCHANGED <<syncPeer, syncCandidate, prevGetBlocks>>
  BY Zenon DEF handleDonePeerMsg, updateSyncPeer, clearRequestedState, chain, belief,
               remote, sync
<1>2. /\ have \in SUBSET Block /\ prevGetBlocks \in [Peer -> Stop \X Nat]
      /\ toPeer \in [Peer -> Seq(ToMsg)] /\ fromPeer \in [Peer -> Seq(FromMsg)]
      /\ requestedBlocks \in Reqs /\ peerReqs \in [Peer -> Reqs]
      /\ peerStates \in SUBSET Peer /\ connected \subseteq peerStates
      /\ syncPeer \in peerStates \cup {NoPeer}
      /\ syncCandidate \in [Peer -> BOOLEAN]
  BY Zenon DEF SyncInv, Types
<1>3. all \in Reqs /\ DOMAIN all = DOMAIN requestedBlocks \ DOMAIN peerReqs[p]
  BY <1>2, ForgetReqs, Zenon
<1>4. /\ queue \in [Peer -> Seq(ToMsg)] /\ queue[p] = <<>>
      /\ \A q \in Peer \ {p} : queue[q] = toPeer[q]
  BY <1>2, SeqEmpty
<1>5. /\ fromPeer' \in [Peer -> Seq(FromMsg)] /\ fromPeer'[p] = <<>>
      /\ \A q \in Peer \ {p} : fromPeer'[q] = fromPeer[q]
  BY <1>1, <1>2, SeqEmpty, Zenon
<1>6. /\ peerReqs' \in [Peer -> Reqs]
      /\ \A q \in Peer \ {p} : peerReqs'[q] = peerReqs[q]
  BY <1>1, <1>2, EmptyReqs, Zenon
<1>7. S \in SUBSET Peer /\ S \subseteq Peer \ {p} /\ p \notin S
  BY <1>2
<1>8. connected' \subseteq connected /\ connected' \subseteq S
  BY <1>1, <1>2, Zenon
<1>9. DOMAIN all \subseteq UNION {DOMAIN peerReqs[q] : q \in S}
  BY <1>3, Zenon DEF SyncInv, RequestsBacked
<1>10. \A q \in Peer \ S : queue[q] = <<>> /\ fromPeer'[q] = <<>>
  <2>1. \A q \in Peer \ peerStates : toPeer[q] = <<>> /\ fromPeer[q] = <<>>
    BY Zenon DEF SyncInv, QuietOutside
  <2>2. QED
    BY <1>4, <1>5, <2>1, Zenon
<1>11. Chosen(S, all, queue)
  <2> HIDE DEF all, queue
  <2>1. CASE startSync(S, syncCandidate, maxBlockHeight, all, prevGetBlocks, queue, idle)
    <3> HIDE DEF S
    <3>1. QED
      BY <1>2, <1>3, <1>4, <1>7, <2>1, StartSyncIs, Zenon
  <2>2. CASE /\ p # syncPeer
             /\ requestedBlocks' = all /\ toPeer' = queue
             /\ UNCHANGED <<syncPeer, syncCandidate, prevGetBlocks>>
    <3>1. syncPeer' \in S \cup {NoPeer}
      BY <1>2, <2>2
    <3>2. SyncIsCandidate'
      BY <2>2, Zenon DEF SyncInv, SyncIsCandidate
    <3>3. DOMAIN requestedBlocks' \subseteq DOMAIN all
      BY <2>2
    <3>4. QED
      BY <1>2, <1>3, <1>4, <2>2, <3>1, <3>2, <3>3, Zenon DEF Chosen
  <2>3. QED
    BY <1>1, <2>1, <2>2, Zenon
<1>12. /\ \A q \in S : DOMAIN peerReqs'[q] = DOMAIN peerReqs[q]
       /\ \A q \in S : queue[q] = toPeer[q] /\ fromPeer'[q] = fromPeer[q]
  <2> HIDE DEF S, queue
  <2>1. QED
    BY <1>4, <1>5, <1>6, <1>7, Zenon
<1> HIDE DEF S, all, queue
<1>13. Kept(S, all, queue)
  BY <1>1, <1>5, <1>6, <1>8, <1>9, <1>10, <1>12, Zenon DEF Kept
<1>14. QED
  BY <1>7, <1>11, <1>13, ChosenStep, Zenon

\* Time passes: requests grow old and stay, and a sync that stalls goes on with
\* another peer or with none, its peer's requests forgotten.
LEMMA TickStep ==
    ASSUME SyncInv, Tick
    PROVE  /\ SyncInv'
           /\ \/ syncPeer' = syncPeer
              \/ Followed(peerStates, syncCandidate, maxBlockHeight)
<1> DEFINE old == Aged(requestedBlocks)
           cleared == Forget(old, DOMAIN peerReqs[syncPeer])
           idled == Min({idle + 1, StallTicks})
<1>1. /\ peerReqs' = [p \in Peer |-> Aged(peerReqs[p])]
      /\ UNCHANGED <<have, orphans, best, peerStates, maxBlockHeight, updates,
                     fromPeer, peerHas, continueHash>>
      /\ \/ /\ requestedBlocks' = old
            /\ UNCHANGED <<syncPeer, syncCandidate, connected, toPeer, prevGetBlocks>>
         \/ /\ connected' = IF shouldDCStalledSyncPeer THEN connected \ {syncPeer}
                            ELSE connected
            /\ startSync(peerStates, syncCandidate, maxBlockHeight, cleared,
                         prevGetBlocks, toPeer, idled)
  BY Zenon DEF Tick, updateSyncPeer, clearRequestedState, chain, belief, remote
<1>2. /\ have \in SUBSET Block /\ prevGetBlocks \in [Peer -> Stop \X Nat]
      /\ toPeer \in [Peer -> Seq(ToMsg)] /\ fromPeer \in [Peer -> Seq(FromMsg)]
      /\ requestedBlocks \in Reqs /\ peerReqs \in [Peer -> Reqs]
      /\ peerStates \in SUBSET Peer /\ connected \subseteq peerStates
      /\ syncPeer \in peerStates \cup {NoPeer}
      /\ syncCandidate \in [Peer -> BOOLEAN]
  BY Zenon DEF SyncInv, Types
<1>3. old \in Reqs /\ DOMAIN old = DOMAIN requestedBlocks
  BY <1>2, AgedReqs, Zenon
<1> HIDE DEF old
<1>4. cleared \in Reqs /\ DOMAIN cleared \subseteq DOMAIN requestedBlocks
  <2>1. cleared \in Reqs /\ DOMAIN cleared = DOMAIN old \ DOMAIN peerReqs[syncPeer]
    BY <1>3, ForgetReqs, Zenon
  <2> HIDE DEF cleared
  <2>2. QED
    BY <1>3, <2>1, Zenon
<1> HIDE DEF cleared, idled
<1>5. /\ peerReqs' \in [Peer -> Reqs]
      /\ \A q \in peerStates : DOMAIN peerReqs'[q] = DOMAIN peerReqs[q]
  <2>1. \A q \in Peer : Aged(peerReqs[q]) \in Reqs /\ DOMAIN Aged(peerReqs[q]) = DOMAIN peerReqs[q]
    BY <1>2, AgedReqs
  <2>2. QED
    BY <1>1, <1>2, <2>1, Zenon
<1>6. /\ \A q \in Peer \ peerStates : toPeer[q] = <<>> /\ fromPeer'[q] = <<>>
      /\ \A q \in peerStates : fromPeer'[q] = fromPeer[q]
      /\ fromPeer' \in [Peer -> Seq(FromMsg)]
  BY <1>1, <1>2, Zenon DEF SyncInv, QuietOutside
<1>7. connected' \subseteq connected /\ connected' \subseteq peerStates
  BY <1>1, <1>2, Zenon
<1>8. ASSUME NEW all, DOMAIN all \subseteq DOMAIN requestedBlocks
      PROVE  Kept(peerStates, all, toPeer)
  <2>1. DOMAIN all \subseteq UNION {DOMAIN peerReqs[q] : q \in peerStates}
    BY <1>8, Zenon DEF SyncInv, RequestsBacked
  <2>2. QED
    BY <1>1, <1>5, <1>6, <1>7, <2>1, Zenon DEF Kept
<1>9. CASE /\ requestedBlocks' = old
           /\ UNCHANGED <<syncPeer, syncCandidate, connected, toPeer, prevGetBlocks>>
  <2>1. Kept(peerStates, old, toPeer)
    BY <1>3, <1>8, Zenon
  <2>2. SyncIsCandidate' /\ DOMAIN requestedBlocks' \subseteq DOMAIN old
    BY <1>9, Zenon DEF SyncInv, SyncIsCandidate
  <2>3. Chosen(peerStates, old, toPeer)
    BY <1>2, <1>3, <1>9, <2>2, Zenon DEF Chosen
  <2>4. QED
    BY <1>2, <1>9, <2>1, <2>3, ChosenStep, Zenon
<1>10. CASE startSync(peerStates, syncCandidate, maxBlockHeight, cleared,
                      prevGetBlocks, toPeer, idled)
  <2>1. Kept(peerStates, cleared, toPeer)
    BY <1>4, <1>8
  <2>2. /\ Chosen(peerStates, cleared, toPeer)
        /\ Followed(peerStates, syncCandidate, maxBlockHeight)
    BY <1>2, <1>4, <1>10, StartSyncIs, Zenon
  <2>3. QED
    BY <1>2, <2>1, <2>2, ChosenStep, Zenon
<1>11. QED
  BY <1>1, <1>9, <1>10, Zenon

\* Every step of the manager and of its peers keeps the invariant.
LEMMA SyncInvStep ==
    ASSUME SyncInv, [Next]_vars
    PROVE  SyncInv'
<1>1. CASE UNCHANGED vars
  <2>1. UNCHANGED <<have, orphans, best, peerStates, peerReqs, requestedBlocks,
                    syncPeer, syncCandidate, maxBlockHeight, updates, prevGetBlocks,
                    connected, toPeer, fromPeer, peerHas, continueHash>>
    BY <1>1, Zenon DEF vars, chain, requests, sync, belief, remote
  <2>2. Types'
    BY <2>1, Zenon DEF SyncInv, Types
  <2>3. RequestsBacked' /\ SyncIsCandidate' /\ QuietOutside' /\ AnswersWanted'
    BY <2>1, Zenon
       DEF SyncInv, RequestsBacked, SyncIsCandidate, QuietOutside, AnswersWanted, Wanted
  <2>4. QED
    BY <2>2, <2>3, Zenon DEF SyncInv
<1>2. CASE Tick
  BY <1>2, TickStep, Zenon
<1>3. ASSUME NEW u \in updates, handleUpdatePeerHeights(u)
      PROVE  SyncInv'
  BY <1>3, HeightsStep, Zenon
<1>4. ASSUME NEW p \in Peer, handleNewPeerMsg(p) \/ handleDonePeerMsg(p)
      PROVE  SyncInv'
  BY <1>4, NewPeerStep, DonePeerStep, Zenon
<1>5. ASSUME NEW p \in Peer, Handle(p)
      PROVE  SyncInv'
  BY <1>5, MoreStep, InvStep, BlockStep, LinkStep, Zenon DEF Handle, handleBlockMsg
<1>6. ASSUME NEW p \in Peer, Serve(p)
      PROVE  SyncInv'
  BY <1>6, OnGetBlocksStep, OnGetDataStep, Zenon DEF Serve
<1>7. ASSUME NEW p \in Peer, Relay(p) \/ RelayTx(p) \/ Hang(p) \/ Drop(p)
      PROVE  SyncInv'
  BY <1>7, RelayStep, LinkStep, Zenon
<1>8. QED
  BY <1>1, <1>2, <1>3, <1>4, <1>5, <1>6, <1>7, Zenon DEF Next

\* The sync peer is given up by its report of what it has, by a block that makes
\* us the highest, by a stall, or with its connection.
LEMMA LeftStep ==
    ASSUME SyncInv, [Next]_vars, NEW p \in Peer, syncPeer = p, syncPeer' = NoPeer,
           p \in peerStates'
    PROVE  Highest(have') >= maxBlockHeight'[p]
<1>1. p # NoPeer /\ p \in peerStates /\ syncCandidate[p] /\ syncPeer' # syncPeer
  BY NoAssumption, Zenon DEF SyncInv, Types, SyncIsCandidate
<1>2. CASE UNCHANGED vars
  BY <1>1, <1>2, Zenon DEF vars, sync
<1>3. CASE Tick
  <2>1. have' = have /\ maxBlockHeight' = maxBlockHeight
    BY <1>3, Zenon DEF Tick, chain, belief
  <2>2. ~(maxBlockHeight[p] >= MaxHeight)
    BY <1>1, <1>3, TickStep, Zenon DEF Followed
  <2>3. MaxHeight \in Nat /\ maxBlockHeight[p] \in Nat
    <3>1. have \in SUBSET Block /\ maxBlockHeight \in [Peer -> Nat]
      BY Zenon DEF SyncInv, Types
    <3>2. QED
      BY <3>1, HighestIs DEF MaxHeight
  <2>4. MaxHeight >= maxBlockHeight[p]
    BY <2>2, <2>3
  <2>5. QED
    BY <2>1, <2>4, Zenon DEF MaxHeight
<1>4. ASSUME NEW u \in updates, handleUpdatePeerHeights(u)
      PROVE  FALSE
  BY <1>1, <1>4, Zenon DEF handleUpdatePeerHeights, sync
<1>5. ASSUME NEW q \in Peer, handleNewPeerMsg(q)
      PROVE  FALSE
  BY <1>1, <1>5, Zenon DEF handleNewPeerMsg
<1>6. ASSUME NEW q \in Peer, handleDonePeerMsg(q)
      PROVE  FALSE
  <2>1. q = p /\ peerStates' = peerStates \ {q}
    BY <1>1, <1>6, Zenon DEF handleDonePeerMsg, sync
  <2>2. QED
    BY <2>1
<1>7. ASSUME NEW q \in Peer, handleInvMsg(q)
      PROVE  Highest(have') >= maxBlockHeight'[p]
  <2>1. have' = have /\ MaxHeight >= maxBlockHeight'[syncPeer]
    BY <1>1, <1>7, Zenon DEF handleInvMsg, chain
  <2>2. QED
    BY <2>1, Zenon DEF MaxHeight
<1>8. ASSUME NEW q \in Peer, NEW b \in Block, BlockOrphaned(q, b)
      PROVE  Highest(have') >= maxBlockHeight'[p]
  <2> DEFINE u == [block |-> b, height |-> height[b], origin |-> q]
  <2>1. have' = have /\ UpdateHeights(q, have, u, TRUE)
    BY <1>8, Zenon DEF BlockOrphaned
  <2>2. u.height \in Nat
    BY DagAssumption, Zenon
  <2> HIDE DEF u
  <2>3. QED
    BY <1>1, <2>1, <2>2, UpdateHeightsIs, Zenon
<1>9. ASSUME NEW q \in Peer, NEW b \in Block, BlockConnected(q, b)
      PROVE  Highest(have') >= maxBlockHeight'[p]
  <2> DEFINE u == [block |-> best', height |-> Highest(have'), origin |-> q]
  <2>1. UpdateHeights(q, have', u, FALSE)
    BY <1>9, Zenon DEF BlockConnected
  <2>2. have' \in SUBSET Block
    BY SyncInvStep, Zenon DEF SyncInv, Types
  <2>3. u.height \in Nat
    BY <2>2, HighestIs
  <2> HIDE DEF u
  <2>4. QED
    BY <1>1, <2>1, <2>3, UpdateHeightsIs, Zenon
<1>10. ASSUME NEW q \in Peer,
              \/ handleMoreInv(q) \/ BlockUnrequested(q)
              \/ \E b \in Block : BlockKnown(q, b)
              \/ Serve(q) \/ Relay(q) \/ RelayTx(q) \/ Hang(q) \/ Drop(q)
       PROVE  FALSE
  BY <1>1, <1>10, Zenon
     DEF handleMoreInv, BlockUnrequested, BlockKnown, Serve, OnGetBlocks, OnGetData,
         Reads, Relay, RelayTx, Hang, Drop, sync
<1>11. ASSUME NEW q \in Peer, Handle(q)
       PROVE  Highest(have') >= maxBlockHeight'[p]
  BY <1>7, <1>8, <1>9, <1>10, <1>11, Zenon DEF Handle, handleBlockMsg
<1>12. QED
  BY <1>2, <1>3, <1>4, <1>5, <1>6, <1>10, <1>11, Zenon DEF Next

-----------------------------------------------------------------------------
(* The theorems.                                                            *)

\* SyncInv is inductive, for every set of peers, every DAG with its heights and
\* every choice of the limits.
THEOREM SyncInvariance == Spec => []SyncInv
<1>1. Init => SyncInv
  BY SyncInvInit
<1>2. SyncInv /\ [Next]_vars => SyncInv'
  BY SyncInvStep
<1>3. QED
  BY <1>1, <1>2, PTL DEF Spec

\* The sync peer is always a peer the manager knows, and what it tracks as
\* requested are blocks that live RequestLife steps at most.
THEOREM SyncTypeCorrect == Spec => []TypeOK
<1>1. SyncInv => TypeOK
  BY InvImplies
<1>2. QED
  BY <1>1, SyncInvariance, PTL

\* An entry of the global request map is always the request of a peer that the
\* manager knows.
THEOREM RequestsAlwaysBacked == Spec => []RequestsBacked
<1>1. SyncInv => RequestsBacked
  BY DEF SyncInv
<1>2. QED
  BY <1>1, SyncInvariance, PTL

\* A block asked of a peer and still lacked is accepted from it when it comes.
THEOREM NeededAnswerAlwaysAccepted == Spec => []NeededAnswerAccepted
<1>1. SyncInv => NeededAnswerAccepted
  BY InvImplies
<1>2. QED
  BY <1>1, SyncInvariance, PTL

\* Sync mode is left only when we are as high as the sync peer or it is gone.
THEOREM SyncAlwaysLeftCaughtUp == Spec => SyncLeftCaughtUp
<1>1. SyncInv /\ [Next]_vars =>
        [\A p \in Peer :
           (syncPeer = p /\ syncPeer' = NoPeer /\ p \in peerStates')
               => Highest(have') >= maxBlockHeight'[p]]_vars
  BY LeftStep
<1>2. QED
  BY <1>1, SyncInvariance, PTL DEF Spec, SyncLeftCaughtUp

-----------------------------------------------------------------------------
(* How long a sync peer is waited for.                                      *)

\* The sync peer's idle time is below maxStallDuration, and what a peer said
\* when it connected is a height.
ClockInv ==
    /\ idle \in Nat /\ idle <= StallTicks
    /\ syncPeer # NoPeer => idle < StallTicks
    /\ startingHeight \in [Peer -> Nat]

\* The clock goes on by one, or stands at the limit.
LEMMA Idled ==
    ASSUME NEW i \in Nat, i <= StallTicks
    PROVE  LET d == Min({i + 1, StallTicks})
           IN  /\ d \in Nat /\ d <= StallTicks
               /\ d # StallTicks => d = i + 1 /\ d < StallTicks
<1> DEFINE S == {i + 1, StallTicks}
<1>1. i + 1 \in Nat /\ StallTicks \in Nat
  BY LimitAssumption
<1>2. \E m \in S : \A x \in S : m <= x
  <2>1. CASE i + 1 <= StallTicks
    BY <1>1, <2>1
  <2>2. CASE ~(i + 1 <= StallTicks)
    BY <1>1, <2>2
  <2>3. QED
    BY <2>1, <2>2, Zenon
<1>3. Min(S) \in S /\ \A x \in S : Min(S) <= x
  <2> HIDE DEF S
  <2>1. QED
    BY <1>2, Zenon DEF Min
<1> DEFINE d == Min(S)
<1>4. d \in {i + 1, StallTicks} /\ d <= StallTicks /\ d <= i + 1
  BY <1>3, Zenon
<1> HIDE DEF d
<1>5. d \in Nat /\ d <= StallTicks /\ (d # StallTicks => d = i + 1 /\ d < StallTicks)
  BY <1>1, <1>4
<1>6. QED
  BY <1>5, Zenon DEF d

\* startSync gives the peer it chooses all its time.
LEMMA StartSyncClock ==
    ASSUME NEW S, NEW cand, NEW heights, NEW all, NEW prev, NEW queue, NEW idled,
           startSync(S, cand, heights, all, prev, queue, idled)
    PROVE  (syncPeer' = NoPeer /\ idle' = idled) \/ idle' = 0
BY Zenon DEF startSync

\* Only Tick, startSync and a connected block touch the clock.
LEMMA ClockStands ==
    ASSUME SyncInv, [Next]_vars, ~Tick,
           \A p \in Peer : ~handleNewPeerMsg(p) /\ ~handleDonePeerMsg(p)
    PROVE  /\ startingHeight' = startingHeight
           /\ syncPeer' \in {syncPeer, NoPeer}
           /\ \/ idle' = idle /\ have' = have
              \/ /\ idle' \in {idle, 0}
                 /\ have \subseteq have' /\ have # have'
<1>1. CASE UNCHANGED vars
  BY <1>1, Zenon DEF vars, sync, chain
<1>2. ASSUME NEW u \in updates, handleUpdatePeerHeights(u)
      PROVE  /\ startingHeight' = startingHeight
             /\ syncPeer' = syncPeer /\ idle' = idle /\ have' = have
  BY <1>2, Zenon DEF handleUpdatePeerHeights, sync, chain
<1>3. ASSUME NEW q \in Peer, handleInvMsg(q)
      PROVE  /\ startingHeight' = startingHeight
             /\ syncPeer' \in {syncPeer, NoPeer} /\ idle' = idle /\ have' = have
  BY <1>3, Zenon DEF handleInvMsg, chain
<1>4. ASSUME NEW q \in Peer, NEW b \in Block, BlockOrphaned(q, b)
      PROVE  /\ startingHeight' = startingHeight
             /\ syncPeer' \in {syncPeer, NoPeer} /\ idle' = idle /\ have' = have
  BY <1>4, Zenon DEF BlockOrphaned, Answer, UpdateHeights
<1>5. ASSUME NEW q \in Peer, NEW b \in Block, BlockConnected(q, b)
      PROVE  /\ startingHeight' = startingHeight
             /\ syncPeer' \in {syncPeer, NoPeer} /\ idle' \in {idle, 0}
             /\ have \subseteq have' /\ have # have'
  <2>1. /\ startingHeight' = startingHeight
        /\ syncPeer' \in {syncPeer, NoPeer} /\ idle' \in {idle, 0}
    BY <1>5, Zenon DEF BlockConnected, Answer, UpdateHeights
  <2>2. b \notin have /\ have' = have \cup ({b} \cup Adopted(b))
    BY <1>5, Zenon DEF BlockConnected, HaveBlock
  <2> HIDE DEF Adopted
  <2>3. QED
    BY <2>1, <2>2, Zenon
<1>6. ASSUME NEW q \in Peer,
             \/ handleMoreInv(q) \/ BlockUnrequested(q)
             \/ \E b \in Block : BlockKnown(q, b)
             \/ Serve(q) \/ Relay(q) \/ RelayTx(q) \/ Hang(q) \/ Drop(q)
      PROVE  /\ startingHeight' = startingHeight
             /\ syncPeer' = syncPeer /\ idle' = idle /\ have' = have
  BY <1>6, Zenon
     DEF handleMoreInv, BlockUnrequested, BlockKnown, Answer, Serve, OnGetBlocks,
         OnGetData, Reads, Relay, RelayTx, Hang, Drop, sync, chain
<1>7. QED
  BY <1>1, <1>2, <1>3, <1>4, <1>5, <1>6, Zenon DEF Next, Handle, handleBlockMsg

\* Every step keeps the sync peer's time below the limit.
LEMMA ClockStep ==
    ASSUME SyncInv, ClockInv, [Next]_vars
    PROVE  ClockInv'
<1>1. StallTicks \in Nat /\ 0 < StallTicks
  BY LimitAssumption
<1>2. CASE Tick
  <2> DEFINE d == Min({idle + 1, StallTicks})
  <2>1. d \in Nat /\ d <= StallTicks /\ (d # StallTicks => d < StallTicks)
    BY Idled, Zenon DEF ClockInv
  <2>2. /\ startingHeight' = startingHeight
        /\ \/ /\ ~(syncPeer # NoPeer /\ d = StallTicks)
              /\ idle' = d /\ syncPeer' = syncPeer
           \/ (syncPeer' = NoPeer /\ idle' = d) \/ idle' = 0
    BY <1>2, StartSyncClock, Zenon DEF Tick, updateSyncPeer
  <2> HIDE DEF d
  <2>3. QED
    BY <1>1, <2>1, <2>2 DEF ClockInv
<1>3. ASSUME NEW p \in Peer, handleNewPeerMsg(p)
      PROVE  ClockInv'
  <2>1. /\ startingHeight' = [startingHeight EXCEPT ![p] = Highest(peerHas[p])]
        /\ (syncPeer' \in {syncPeer, NoPeer} /\ idle' = idle) \/ idle' = 0
    BY <1>3, StartSyncClock, Zenon DEF handleNewPeerMsg
  <2>2. Highest(peerHas[p]) \in Nat
    BY HighestIs DEF SyncInv, Types
  <2>3. QED
    BY <1>1, <2>1, <2>2 DEF ClockInv
<1>4. ASSUME NEW p \in Peer, handleDonePeerMsg(p)
      PROVE  ClockInv'
  <2>1. /\ startingHeight' = startingHeight
        /\ (syncPeer' \in {syncPeer, NoPeer} /\ idle' = idle) \/ idle' = 0
    BY <1>4, StartSyncClock, Zenon DEF handleDonePeerMsg, updateSyncPeer, sync
  <2>2. QED
    BY <1>1, <2>1 DEF ClockInv
<1>5. CASE ~Tick /\ \A p \in Peer : ~handleNewPeerMsg(p) /\ ~handleDonePeerMsg(p)
  <2>1. /\ startingHeight' = startingHeight
        /\ syncPeer' \in {syncPeer, NoPeer} /\ idle' \in {idle, 0}
    BY <1>5, ClockStands, Zenon
  <2>2. QED
    BY <1>1, <2>1 DEF ClockInv
<1>6. QED
  BY <1>2, <1>3, <1>4, <1>5, Zenon

\* We got a block, or the clock goes on, by one with every sample.
Waited ==
    \/ have \subseteq have' /\ have # have'
    \/ have' = have /\ idle <= idle' /\ (Tick => idle' = idle + 1)

\* The height of the block connected last is one of ours.
LEMMA BestBelow ==
    ASSUME SyncInv
    PROVE  /\ MaxHeight \in Nat /\ height[best] \in Nat
           /\ height[best] <= MaxHeight
<1> DEFINE C == have \cup {Genesis}
           H == {height[b] : b \in C}
           f == [b \in C |-> height[b]]
<1>1. have \in SUBSET Block /\ best \in C
  BY Zenon DEF SyncInv, Types
<1>2. IsFiniteSet(C)
  BY <1>1, DagAssumption, FS_Subset, FS_AddElement
<1>3. f \in Surjection(C, H)
  BY DEF Surjection
<1>4. IsFiniteSet(H)
  <2> HIDE DEF f, C, H
  <2>1. QED
    BY <1>2, <1>3, FS_Surjection, Zenon
<1>5. H \in SUBSET Nat /\ height[best] \in H
  BY <1>1, DagAssumption
<1>6. Max(H) \in H /\ \A x \in H : Max(H) >= x
  <2> HIDE DEF H
  <2>1. QED
    BY <1>4, <1>5, MaxIs, Zenon
<1>7. Max(H) = MaxHeight
  BY Zenon DEF MaxHeight, Highest
<1> HIDE DEF H
<1>8. MaxHeight \in Nat /\ height[best] \in Nat /\ MaxHeight >= height[best]
  BY <1>5, <1>6, <1>7, Zenon
<1>9. QED
  BY <1>8

\* A sample that finds the sync peer stalled and higher than we are drops it.
LEMMA StalledIsDropped ==
    ASSUME SyncInv, ClockInv, Tick, NEW p \in Peer, syncPeer = p, p \in connected',
           MaxHeight < maxBlockHeight[p]
    PROVE  have' = have /\ idle' = idle + 1
<1> DEFINE d == Min({idle + 1, StallTicks})
<1>1. p # NoPeer /\ have' = have
  BY NoAssumption, Zenon DEF Tick, chain
<1>2. d # StallTicks => d = idle + 1
  BY Idled, Zenon DEF ClockInv
<1>3. \/ d # StallTicks /\ idle' = d
      \/ connected' = IF shouldDCStalledSyncPeer THEN connected \ {p} ELSE connected
  BY <1>1, Zenon DEF Tick, updateSyncPeer
<1> HIDE DEF d
<1>4. shouldDCStalledSyncPeer
  <2> DEFINE a == maxBlockHeight[p]
             b == startingHeight[p]
  <2>1. a \in Nat /\ b \in Nat
    BY Zenon DEF SyncInv, Types, ClockInv
  <2>2. a \in {a, b} /\ {a, b} \in SUBSET Nat /\ IsFiniteSet({a, b})
    <3> HIDE DEF a, b
    <3>1. IsFiniteSet({a} \cup {b}) /\ {a} \cup {b} = {a, b}
      BY FS_Singleton, FS_AddElement, Zenon
    <3>2. QED
      BY <2>1, <3>1
  <2>3. Max({a, b}) \in Nat /\ Max({a, b}) >= a
    BY <2>2, MaxIs
  <2>4. MaxHeight \in Nat /\ height[best] \in Nat /\ height[best] <= MaxHeight
    BY BestBelow, Zenon
  <2>5. MaxHeight < a
    OBVIOUS
  <2> HIDE DEF a, b
  <2>6. Max({a, b}) > height[best]
    BY <2>1, <2>3, <2>4, <2>5
  <2>7. QED
    BY <2>6, Zenon DEF shouldDCStalledSyncPeer, a, b
<1>5. QED
  BY <1>1, <1>2, <1>3, <1>4, Zenon

\* A step that keeps a sync peer which is higher than we are.
LEMMA WaitedStep ==
    ASSUME SyncInv, ClockInv, [Next]_vars, NEW p \in Peer, syncPeer = p, syncPeer' = p,
           p \in connected', MaxHeight < maxBlockHeight[p]
    PROVE  Waited
<1>1. p # NoPeer /\ idle \in Nat
  BY NoAssumption, Zenon DEF ClockInv
<1>2. CASE Tick
  <2>1. have' = have /\ idle' = idle + 1
    BY <1>2, StalledIsDropped, Zenon
  <2>2. QED
    BY <1>1, <2>1 DEF Waited
<1>3. ASSUME ~Tick, have' = have, idle' = idle
      PROVE  Waited
  <2>1. idle <= idle'
    BY <1>1, <1>3
  <2>2. QED
    BY <1>3, <2>1, Zenon DEF Waited
<1>4. ASSUME ~Tick, NEW q \in Peer, handleNewPeerMsg(q)
      PROVE  Waited
  <2>1. have' = have /\ idle' = idle
    BY <1>1, <1>4, Zenon DEF handleNewPeerMsg, chain
  <2>2. QED
    BY <1>3, <1>4, <2>1, Zenon
<1>5. ASSUME ~Tick, NEW q \in Peer, handleDonePeerMsg(q)
      PROVE  Waited
  <2>1. q # p
    <3>1. syncPeer' \in peerStates' \cup {NoPeer} /\ peerStates' = peerStates \ {q}
      BY <1>5, DonePeerStep, Zenon DEF SyncInv, Types, handleDonePeerMsg
    <3>2. QED
      BY <1>1, <3>1, Zenon
  <2>2. have' = have /\ idle' = idle
    BY <1>5, <2>1, Zenon DEF handleDonePeerMsg, sync, chain
  <2>3. QED
    BY <1>3, <1>5, <2>2, Zenon
<1>6. CASE ~Tick /\ \A q \in Peer : ~handleNewPeerMsg(q) /\ ~handleDonePeerMsg(q)
  <2>1. \/ idle' = idle /\ have' = have
        \/ have \subseteq have' /\ have # have'
    BY <1>6, ClockStands, Zenon
  <2>2. QED
    BY <1>3, <1>6, <2>1, Zenon DEF Waited
<1>7. QED
  BY <1>2, <1>4, <1>5, <1>6, Zenon

\* No peer holds up the node for ever: while it syncs with a connected peer that
\* is higher than the node, fewer than StallTicks samples pass between one new
\* block and the next.  Every sample moves the clock on by one, only a block
\* that the node did not have sets it back, and at the limit handleStallSample
\* drops the peer, although it compares the peer with the block connected last
\* and not with the highest one.
THEOREM SyncPeerTimed ==
    Spec => /\ [](syncPeer # NoPeer => idle < StallTicks)
            /\ [][\A p \in Peer :
                    syncPeer = p /\ syncPeer' = p /\ p \in connected'
                      /\ MaxHeight < maxBlockHeight[p] => Waited]_vars
<1>1. Init => ClockInv
  <2>1. ASSUME Init PROVE /\ idle = 0 /\ syncPeer = NoPeer
                          /\ startingHeight = [p \in Peer |-> 0]
    BY <2>1, Zenon DEF Init
  <2>2. QED
    BY <2>1, LimitAssumption DEF ClockInv
<1>2. SyncInv /\ ClockInv /\ [Next]_vars => ClockInv'
  BY ClockStep
<1>3. SyncInv /\ ClockInv /\ [Next]_vars =>
        [\A p \in Peer :
           syncPeer = p /\ syncPeer' = p /\ p \in connected'
             /\ MaxHeight < maxBlockHeight[p] => Waited]_vars
  BY WaitedStep
<1>4. ClockInv => (syncPeer # NoPeer => idle < StallTicks)
  BY Zenon DEF ClockInv
<1>5. QED
  BY <1>1, <1>2, <1>3, <1>4, SyncInvariance, PTL DEF Spec

=============================================================================
