--------------------------- MODULE Phantom_proofs ---------------------------
(***************************************************************************)
(* Proofs about the colouring and the ordering of the graph, for any       *)
(* blocks, any coloringK and any way the graph grows: what the blue set    *)
(* cache holds, which blocks an order made without the order cache lists,  *)
(* and that it comes out the same after a restart.                         *)
(***************************************************************************)
EXTENDS Phantom, FiniteSetTheorems, Induction, TLAPS

\* The members of a sequence.
Elems(s) == {s[i] : i \in DOMAIN s}

NoCache == [n \in {} |-> {}]

-----------------------------------------------------------------------------
\* The graph with genesis g, parents P, pasts A and heights H: pasts are the
\* transitive closure of parents, every block descends from genesis and is
\* higher than its parents.
Graph(g, P, A, H) ==
    /\ IsFiniteSet(DOMAIN P) /\ DOMAIN P \subseteq Id /\ g \in DOMAIN P
    /\ P \in [DOMAIN P -> SUBSET DOMAIN P]
    /\ A \in [DOMAIN P -> SUBSET DOMAIN P]
    /\ H \in [DOMAIN P -> Nat]
    /\ A[g] = {}
    /\ \A n \in DOMAIN P :
         /\ H[n] < Cardinality(DOMAIN P)
         /\ n \notin A[n]
         /\ \A m \in A[n] : A[m] \subseteq A[n]
         /\ \A m \in A[n] : m \in P[n] \/ \E p \in P[n] : m \in A[p]
         /\ \A p \in P[n] : p \in A[n] /\ H[p] < H[n]
         /\ n # g => P[n] # {} /\ g \in A[n]

\* No parent of a block is in the past of another.
Antichains(P, A) == \A n \in DOMAIN P : \A p, q \in P[n] : p \notin A[q]

\* f is the colouring of the graph without a cache.
Fresh(g, P, A, f) ==
    f = [n \in DOMAIN P |-> BlueSet(g, A, A[n], P[n], f) \cup {n}]

FreshBlue == StoredBlue(genesis, parents, past, NoCache)

\* T are tips of the graph.
Tips(P, A, T) ==
    /\ T \in SUBSET DOMAIN P /\ T # {}
    /\ \A t \in T, m \in DOMAIN P : t \notin A[m]

DagInv ==
    /\ Graph(genesis, parents, past, height)
    /\ tips \in Seq(Nodes)
    /\ Tips(parents, past, TipSet)

\* What is cached is the colouring without a cache, and OrderDAG's blue set
\* follows from it.
ColourInv ==
    /\ Fresh(genesis, parents, past, FreshBlue)
    /\ DOMAIN blueCache \subseteq Nodes
    /\ \A n \in DOMAIN blueCache : blueCache[n] = FreshBlue[n]
    /\ pc \in {"ready", "order", "reload"}
    /\ pc # "ready" \/ nodeOrder # <<>> =>
         blue = BlueSet(genesis, past, Nodes, TipSet, FreshBlue) \cup {Virtual}

\* The members of s differ from each other and are none of done.
Apart(done, s) ==
    /\ \A k \in DOMAIN s : s[k] \notin done
    /\ \A j, k \in DOMAIN s : s[j] = s[k] => j = k

\* OrderDAG's queue: no node is queued twice, and a node is marked as seen when
\* it is queued.  With antichains of parents (R) all of its past is seen by
\* then, and VIRTUAL is only queued behind every node not ordered yet.
Queued(A, done, q, R) ==
    /\ q.todo \in Seq(DOMAIN A \cup {Virtual})
    /\ Apart(done, q.todo)
    /\ q.seen = done \cup Elems(q.todo)
    /\ R => \A x \in q.seen \ {Virtual} : A[x] \subseteq q.seen
    /\ R => \A k \in DOMAIN q.todo : q.todo[k] = Virtual =>
              \A n \in DOMAIN A : n \in done \/ \E j \in 1..(k - 1) : q.todo[j] = n

\* The state l of OrderDAG's loop, begun from genesis, on the graph with tips T
\* and blue set B: the blue children of an ordered node have been queued.
LoopOK(g, P, A, T, B, l) ==
    /\ l.order \in Seq(DOMAIN P)
    /\ \A i, j \in DOMAIN l.order : l.order[i] = l.order[j] => i = j
    /\ Queued(A, Elems(l.order), l, Antichains(P, A))
    /\ g \in l.seen
    /\ \A x \in Elems(l.order) : B \cap Children(P, T, x) \subseteq l.seen

Loop == [todo |-> todo, seen |-> seen, order |-> order]

LoopInv == LoopOK(genesis, parents, past, TipSet, blue, Loop)

\* Until the order cache has an entry, every order is begun from genesis.
OrderInv ==
    DOMAIN orderCache = {} => (pc \in {"order", "reload"} => LoopInv) /\ OrderComplete

Inv == DagInv /\ ColourInv /\ OrderInv

-----------------------------------------------------------------------------
\* Sorted lists the members of a finite set, for a strict total order.
LEMMA SortedIs ==
    ASSUME NEW S, IsFiniteSet(S), NEW R,
           \A a \in S : <<a, a>> \notin R,
           \A a, b, c \in S : <<a, b>> \in R /\ <<b, c>> \in R => <<a, c>> \in R,
           \A a, b \in S : a # b => <<a, b>> \in R \/ <<b, a>> \in R
    PROVE  /\ Sorted(S, R) \in Seq(S)
           /\ Len(Sorted(S, R)) = Cardinality(S)
           /\ Elems(Sorted(S, R)) = S /\ Apart({}, Sorted(S, R))
<1> DEFINE below(n) == {m \in S : <<m, n>> \in R}
           N == Cardinality(S)
           rank == [n \in S |-> Cardinality(below(n))]
           T == 0..(N - 1)
<1>1. N \in Nat
  BY FS_CardinalityType
<1>2. ASSUME NEW n \in S
      PROVE  /\ IsFiniteSet(below(n)) /\ Cardinality(below(n)) \in Nat
             /\ Cardinality(below(n)) < N
  <2>1. below(n) \in SUBSET S /\ n \notin below(n)
    OBVIOUS
  <2> HIDE DEF below
  <2>2. IsFiniteSet(below(n)) /\ Cardinality(below(n)) <= N /\ Cardinality(below(n)) # N
    BY <2>1, FS_Subset
  <2>3. QED
    BY <1>1, <2>2, FS_CardinalityType
<1>3. ASSUME NEW a \in S, NEW b \in S, <<a, b>> \in R
      PROVE  Cardinality(below(a)) < Cardinality(below(b))
  <2>1. below(a) \in SUBSET below(b) /\ a \in below(b) /\ a \notin below(a)
    BY <1>3
  <2> HIDE DEF below
  <2>2. /\ Cardinality(below(a)) <= Cardinality(below(b))
        /\ Cardinality(below(a)) # Cardinality(below(b))
    BY <1>2, <2>1, FS_Subset
  <2>3. QED
    BY <1>2, <2>2
<1> HIDE DEF below
<1>4. \A a, b \in S : Cardinality(below(a)) = Cardinality(below(b)) => a = b
  <2> SUFFICES ASSUME NEW a \in S, NEW b \in S, a # b,
                      Cardinality(below(a)) = Cardinality(below(b))
               PROVE  FALSE
    BY Zenon
  <2>1. Cardinality(below(a)) < Cardinality(below(b))
        \/ Cardinality(below(b)) < Cardinality(below(a))
    BY <1>3, Zenon
  <2>2. Cardinality(below(a)) \in Nat /\ Cardinality(below(b)) \in Nat
    BY <1>2, Zenon
  <2>3. QED
    BY <2>1, <2>2
<1>5. rank \in Injection(S, T)
  <2>1. rank \in [S -> T]
    BY <1>1, <1>2
  <2>2. QED
    BY <1>4, <2>1, Zenon DEF Injection, IsInjective
<1>6. IsFiniteSet(T) /\ Cardinality(T) = N
  <2>1. 0 \in Int /\ N - 1 \in Int
    BY <1>1
  <2>2. IsFiniteSet(T) /\ Cardinality(T) = IF 0 > N - 1 THEN 0 ELSE N - 1 - 0 + 1
    BY <2>1, FS_Interval, Zenon
  <2>3. QED
    BY <1>1, <2>2
<1>7. rank \in Surjection(S, T)
  <2> HIDE DEF rank, T, N
  <2>1. QED
    BY <1>5, <1>6, FS_Injection DEF N
<1>8. \A i \in 1..N : \E n \in S : Cardinality(below(n)) = i - 1
  <2> SUFFICES ASSUME NEW i \in 1..N PROVE \E n \in S : Cardinality(below(n)) = i - 1
    OBVIOUS
  <2>1. i - 1 \in T
    BY <1>1
  <2>2. \A x \in T : \E n \in S : rank[n] = x
    BY <1>7, Zenon DEF Surjection
  <2>3. QED
    BY <2>1, <2>2
<1> DEFINE s == [i \in 1..N |-> CHOOSE n \in S : Cardinality(below(n)) = i - 1]
<1>9. Sorted(S, R) = s
  BY Zenon DEF Sorted, below
<1>10. \A i \in 1..N : s[i] \in S /\ Cardinality(below(s[i])) = i - 1
  BY <1>8, Zenon
<1> HIDE DEF s
<1>11. s \in Seq(S) /\ Len(s) = N /\ DOMAIN s = 1..N
  <2>1. s \in [1..N -> S]
    BY <1>10, Zenon DEF s
  <2>2. QED
    BY <1>1, <2>1
<1>12. ASSUME NEW n \in S PROVE \E i \in 1..N : s[i] = n
  <2>1. Cardinality(below(n)) + 1 \in 1..N
    BY <1>1, <1>2
  <2>2. /\ s[Cardinality(below(n)) + 1] \in S
        /\ Cardinality(below(s[Cardinality(below(n)) + 1])) = Cardinality(below(n))
    BY <1>2, <1>10, <2>1
  <2>3. QED
    BY <1>4, <2>1, <2>2, Zenon
<1>13. Elems(s) = S
  <2>1. \A i \in DOMAIN s : s[i] \in S
    BY <1>10, <1>11, Zenon
  <2>2. \A n \in S : \E i \in DOMAIN s : s[i] = n
    BY <1>11, <1>12, Zenon
  <2>3. QED
    BY <2>1, <2>2 DEF Elems
<1>14. Apart({}, s)
  <2>1. ASSUME NEW i \in 1..N, NEW j \in 1..N, s[i] = s[j] PROVE i = j
    <3>1. i - 1 = j - 1
      BY <1>10, <2>1, Zenon
    <3>2. QED
      BY <3>1
  <2>2. QED
    BY <1>11, <2>1, Zenon DEF Apart
<1>15. QED
  BY <1>9, <1>11, <1>13, <1>14, Zenon

\* elements lists a finite set of numbers.
LEMMA ElementsIs ==
    ASSUME NEW S, IsFiniteSet(S), S \subseteq Nat
    PROVE  elements(S) \in Seq(S) /\ Elems(elements(S)) = S /\ Apart({}, elements(S))
<1> DEFINE R == {e \in S \X S : e[1] < e[2]}
<1>1. \A a, b \in S : <<a, b>> \in R <=> a < b
  OBVIOUS
<1> HIDE DEF R
<1>2. /\ \A a \in S : <<a, a>> \notin R
      /\ \A a, b, c \in S : <<a, b>> \in R /\ <<b, c>> \in R => <<a, c>> \in R
      /\ \A a, b \in S : a # b => <<a, b>> \in R \/ <<b, a>> \in R
  BY <1>1
<1>3. Sorted(S, R) \in Seq(S) /\ Elems(Sorted(S, R)) = S /\ Apart({}, Sorted(S, R))
  BY <1>2, SortedIs, Zenon
<1>4. QED
  BY <1>3, Zenon DEF elements, R

\* remove keeps the members of a sequence that are not in the set.
LEMMA RemoveIs ==
    ASSUME NEW X, NEW s \in Seq(X), NEW S
    PROVE  remove(s, S) \in Seq(X) /\ Elems(remove(s, S)) = Elems(s) \ S
<1> DEFINE I == {i \in DOMAIN s : s[i] \notin S}
           kept == elements(I)
           r == [i \in DOMAIN kept |-> s[kept[i]]]
<1>1. IsFiniteSet(I) /\ I \subseteq Nat
  <2>1. DOMAIN s = 1..Len(s) /\ Len(s) \in Nat
    OBVIOUS
  <2>2. IsFiniteSet(DOMAIN s)
    BY <2>1, FS_Interval
  <2>3. I \in SUBSET DOMAIN s
    OBVIOUS
  <2>4. QED
    BY <2>1, <2>2, <2>3, FS_Subset
<1>2. remove(s, S) = r
  BY Zenon DEF remove
<1> HIDE DEF r
<1>3. kept \in Seq(I) /\ Elems(kept) = I
  BY <1>1, ElementsIs, Zenon
<1> HIDE DEF kept
<1>4. DOMAIN kept = 1..Len(kept) /\ Len(kept) \in Nat /\ \A i \in DOMAIN kept : kept[i] \in I
  BY <1>3
<1>5. r \in Seq(X) /\ DOMAIN r = DOMAIN kept /\ \A i \in DOMAIN kept : r[i] = s[kept[i]]
  <2>1. r \in [1..Len(kept) -> X]
    BY <1>4 DEF r
  <2>2. QED
    BY <1>4, <2>1 DEF r
<1>6. Elems(r) \subseteq Elems(s) \ S
  BY <1>4, <1>5, ZenonT(60) DEF Elems
<1>7. ASSUME NEW x \in Elems(s) \ S PROVE x \in Elems(r)
  <2>1. PICK i \in I : x = s[i]
    BY Zenon DEF Elems
  <2>2. PICK j \in DOMAIN kept : i = kept[j]
    BY <1>3, <2>1, Zenon DEF Elems
  <2>3. QED
    BY <1>5, <2>1, <2>2, Zenon DEF Elems
<1>8. QED
  BY <1>2, <1>5, <1>6, <1>7, Zenon

-----------------------------------------------------------------------------
\* What joins a blue set is a set of nodes that keeps the blue set it joins.
LEMMA JoinedIs ==
    ASSUME NEW S, IsFiniteSet(S), S \subseteq Nat,
           NEW anticone \in [S -> SUBSET S], NEW tip \in S, NEW start \in SUBSET S
    PROVE  Joined(anticone, tip, start) \in SUBSET S /\ start \subseteq Joined(anticone, tip, start)
<1> DEFINE s == elements(anticone[tip])
           X == {x \in SUBSET S : start \subseteq x}
           L == Len(s)
           g == [e \in X \X S |-> Join(anticone, e[1], e[2])]
           Def(f) == f = [i \in 0..L |-> IF i = 0 THEN start
                                         ELSE Join(anticone, f[i - 1], s[i])]
           after == CHOOSE f : Def(f)
<1>1. s \in Seq(S) /\ L \in Nat
  <2>1. anticone[tip] \in SUBSET S
    OBVIOUS
  <2>2. IsFiniteSet(anticone[tip]) /\ anticone[tip] \subseteq Nat
    BY <2>1, FS_Subset, Zenon
  <2>3. s \in Seq(anticone[tip])
    BY <2>2, ElementsIs, Zenon
  <2> HIDE DEF s
  <2>4. QED
    BY <2>1, <2>3
<1> HIDE DEF s
<1>2. \A x \in X, n \in S : Join(anticone, x, n) \in X
  BY Zenon DEF Join
<1>3. start \in X
  OBVIOUS
<1> HIDE DEF X
<1>4. g \in [X \X S -> X]
  BY <1>2, Zenon
<1>5. \A x \in X, n \in S : g[<<x, n>>] = Join(anticone, x, n)
  OBVIOUS
<1> HIDE DEF g
<1>6. PICK f : Follows(f, X, start, g, s)
  BY <1>1, <1>3, <1>4, AlongSequence, Zenon
<1>7. Def(f)
  <2>1. /\ f \in [0..L -> X]
        /\ \A n \in 0..L : f[n] = IF n = 0 THEN start ELSE g[<<f[n - 1], s[n]>>]
    BY <1>6, Zenon DEF Follows
  <2>2. ASSUME NEW n \in 0..L, n # 0 PROVE f[n] = Join(anticone, f[n - 1], s[n])
    <3>1. n - 1 \in 0..L /\ s[n] \in S
      BY <1>1, <2>2
    <3>2. f[n - 1] \in X
      BY <2>1, <3>1, Zenon
    <3>3. f[n] = g[<<f[n - 1], s[n]>>]
      BY <2>1, <2>2, Zenon
    <3>4. QED
      BY <1>5, <3>1, <3>2, <3>3, Zenon
  <2>3. QED
    BY <2>1, <2>2, Zenon
<1>8. Def(after)
  <2> HIDE DEF Def
  <2>1. QED
    BY <1>7, Zenon
<1>9. Joined(anticone, tip, start) = after[L]
  BY Zenon DEF Joined, s
<1> HIDE DEF after
<1>10. \A n \in 0..L : after[n] = IF n = 0 THEN start ELSE Join(anticone, after[n - 1], s[n])
  BY <1>8, Zenon
<1> DEFINE U == {n \in 0..L : after[n] \in X}
<1>11. 0 \in U
  BY <1>1, <1>3, <1>10
<1>12. ASSUME NEW n \in 1..L, n - 1 \in U PROVE n \in U
  <2>1. n \in 0..L /\ n # 0 /\ s[n] \in S
    BY <1>1
  <2>2. after[n] = Join(anticone, after[n - 1], s[n])
    BY <1>10, <2>1, Zenon
  <2>3. QED
    BY <1>2, <1>12, <2>1, <2>2, Zenon
<1>13. L \in U
  <2> HIDE DEF U
  <2>1. \A n \in 0..L : n \in U
    BY <1>1, <1>11, <1>12, UpTo, Zenon
  <2>2. QED
    BY <1>1, <2>1
<1>14. QED
  BY <1>9, <1>13, Zenon DEF X

\* The largest of the tips' sets is the set of one of the tips.
LEMMA LargestIs ==
    ASSUME NEW T, T \subseteq Nat, T # {}, NEW set, NEW N \in Nat,
           \A t \in T : Cardinality(set[t]) \in 0..N
    PROVE  \E t \in T : Largest(T, set) = set[t]
<1> DEFINE V == {N - Cardinality(set[t]) : t \in T}
           best == {t \in T : \A u \in T : Cardinality(set[u]) <= Cardinality(set[t])}
<1>1. V \in SUBSET Nat /\ V # {}
  <2>1. \A t \in T : N - Cardinality(set[t]) \in Nat
    <3> SUFFICES ASSUME NEW t \in T PROVE N - Cardinality(set[t]) \in Nat
      OBVIOUS
    <3>1. Cardinality(set[t]) \in 0..N
      OBVIOUS
    <3>2. QED
      BY <3>1
  <2>2. QED
    BY <2>1, Zenon
<1>2. PICK x \in V : \A y \in V : x <= y
  BY <1>1, LeastNumber, Zenon
<1>3. PICK t \in T : x = N - Cardinality(set[t])
  BY <1>2
<1>4. \A u \in T : Cardinality(set[u]) <= Cardinality(set[t])
  <2> SUFFICES ASSUME NEW u \in T PROVE Cardinality(set[u]) <= Cardinality(set[t])
    OBVIOUS
  <2>1. x <= N - Cardinality(set[u])
    BY <1>2
  <2>2. QED
    BY <1>3, <2>1
<1>5. best \in SUBSET Nat /\ best # {}
  BY <1>4, Zenon
<1>6. PICK n \in best : \A m \in best : n <= m
  BY <1>5, LeastNumber, Zenon
<1>7. MinId(best) \in best
  BY <1>6, Zenon DEF MinId
<1>8. QED
  BY <1>7, Zenon DEF Largest

\* Two functions agree on a set.
Agree(f, h, S) == \A n \in S : f[n] = h[n]

\* The colouring of a subgraph depends on its own pasts and on what is stored
\* for its tips.
LEMMA BlueSetSame ==
    ASSUME NEW g, NEW A, NEW B, NEW S, NEW T \in SUBSET S, NEW f, NEW h,
           Agree(A, B, S), Agree(f, h, T)
    PROVE  BlueSet(g, A, S, T, f) = BlueSet(g, B, S, T, h)
<1> DEFINE CA == [n \in S |-> Anticone(A, S, n)]
           CB == [n \in S |-> Anticone(B, S, n)]
<1>1. \A n \in S : Anticone(A, S, n) = Anticone(B, S, n)
  BY DEF Anticone, Agree
<1>2. CA = CB
  BY <1>1
<1>3. \A t \in T : Colour(A, S, t, f[t]) = Colour(B, S, t, h[t])
  <2> HIDE DEF CA, CB
  <2>1. \A t \in T : Joined(CA, t, f[t]) = Joined(CB, t, h[t])
    BY <1>2, Zenon DEF Agree
  <2>2. QED
    BY <2>1, Zenon DEF Colour, CA, CB
<1>4. [t \in T |-> Colour(A, S, t, f[t])] = [t \in T |-> Colour(B, S, t, h[t])]
  BY <1>3
<1>5. QED
  BY <1>4, Zenon DEF BlueSet

\* The colouring of a subgraph holds nodes of the subgraph, and all that is
\* stored for one of its tips.
LEMMA BlueSetIs ==
    ASSUME NEW S, IsFiniteSet(S), S \subseteq Nat, NEW T \in SUBSET S, T # {},
           NEW g, S # {g}, NEW f, NEW A, \A t \in T : f[t] \in SUBSET S
    PROVE  /\ BlueSet(g, A, S, T, f) \in SUBSET S
           /\ \E t \in T : f[t] \subseteq BlueSet(g, A, S, T, f)
<1> DEFINE C == [n \in S |-> Anticone(A, S, n)]
           set == [t \in T |-> Colour(A, S, t, f[t])]
           N == Cardinality(S)
<1>1. C \in [S -> SUBSET S]
  BY DEF Anticone
<1>2. ASSUME NEW t \in T
      PROVE  Colour(A, S, t, f[t]) \in SUBSET S /\ f[t] \subseteq Colour(A, S, t, f[t])
  <2> HIDE DEF C
  <2>1. t \in S /\ f[t] \in SUBSET S
    OBVIOUS
  <2>2. Joined(C, t, f[t]) \in SUBSET S /\ f[t] \subseteq Joined(C, t, f[t])
    BY <1>1, <2>1, JoinedIs, Zenon
  <2>3. QED
    BY <2>2, Zenon DEF Colour, C
<1>3. \A t \in T : set[t] \in SUBSET S /\ f[t] \subseteq set[t]
  BY <1>2
<1> HIDE DEF set
<1>4. N \in Nat /\ \A t \in T : Cardinality(set[t]) \in 0..N
  <2>1. N \in Nat
    BY FS_CardinalityType
  <2>2. ASSUME NEW t \in T PROVE Cardinality(set[t]) \in 0..N
    <3>1. IsFiniteSet(set[t]) /\ Cardinality(set[t]) <= N
      BY <1>3, FS_Subset
    <3>2. QED
      BY <2>1, <3>1, FS_CardinalityType
  <2>3. QED
    BY <2>1, <2>2
<1>5. T \subseteq Nat
  OBVIOUS
<1>6. PICK t \in T : Largest(T, set) = set[t]
  <2> HIDE DEF N
  <2>1. QED
    BY <1>4, <1>5, LargestIs, Zenon
<1>7. BlueSet(g, A, S, T, f) = set[t]
  BY <1>6, Zenon DEF BlueSet, set
<1>8. QED
  BY <1>3, <1>7, Zenon

\* What holds for a node when it holds for its parents holds for every node.
LEMMA ByHeight ==
    ASSUME NEW g, NEW P, NEW A, NEW H, Graph(g, P, A, H), NEW G,
           \A n \in DOMAIN P : (\A p \in P[n] : p \in G) => n \in G
    PROVE  \A n \in DOMAIN P : n \in G
<1> DEFINE Bad == {n \in DOMAIN P : n \notin G}
           V == {H[n] : n \in Bad}
<1> SUFFICES ASSUME Bad # {} PROVE FALSE
  BY Zenon
<1>1. V \in SUBSET Nat /\ V # {}
  BY DEF Graph
<1>2. PICK x \in V : \A y \in V : x <= y
  BY <1>1, LeastNumber, Zenon
<1>3. PICK n \in Bad : x = H[n]
  BY <1>2
<1>4. ASSUME NEW p \in P[n] PROVE p \in G
  <2>1. p \in DOMAIN P /\ H[p] \in Nat /\ H[n] \in Nat /\ H[p] < H[n]
    BY DEF Graph
  <2>2. CASE p \notin G
    <3>1. H[n] <= H[p]
      BY <1>2, <1>3, <2>1, <2>2, Zenon
    <3>2. QED
      BY <2>1, <3>1
  <2>3. QED
    BY <2>2
<1>5. QED
  BY <1>4

\* The nodes of a past.
LEMMA PastIs ==
    ASSUME NEW g, NEW P, NEW A, NEW H, Graph(g, P, A, H), NEW n \in DOMAIN P
    PROVE  /\ A[n] \in SUBSET DOMAIN P /\ P[n] \in SUBSET A[n]
           /\ IsFiniteSet(A[n]) /\ A[n] \subseteq Nat
           /\ \A p \in P[n] : p \in DOMAIN P /\ A[p] \subseteq A[n]
           /\ n \notin A[n]
<1>1. A[n] \in SUBSET DOMAIN P /\ IsFiniteSet(DOMAIN P) /\ DOMAIN P \subseteq Nat
  BY PhantomAssumption DEF Graph
<1>2. IsFiniteSet(A[n]) /\ A[n] \subseteq Nat
  BY <1>1, FS_Subset, Zenon
<1>3. \A p \in P[n] : p \in A[n]
  BY Zenon DEF Graph
<1>4. \A p \in P[n] : p \in DOMAIN P /\ A[p] \subseteq A[n]
  BY <1>1, <1>3, Zenon DEF Graph
<1>5. QED
  BY <1>1, <1>2, <1>3, <1>4, Zenon DEF Graph

\* A way back to genesis, from the node n through parents, inside the set B.
WayBack(g, P, n, B) ==
    \E C \in SUBSET B : n \in C /\ \A x \in C \ {g} : P[x] \cap C # {}

\* What is stored for a node: nodes of its past and the node itself, and among
\* them a way back to genesis.
LEMMA FreshIs ==
    ASSUME NEW g, NEW P, NEW A, NEW H, Graph(g, P, A, H), NEW f, Fresh(g, P, A, f)
    PROVE  \A n \in DOMAIN P : f[n] \in SUBSET (A[n] \cup {n}) /\ WayBack(g, P, n, f[n])
<1> DEFINE G == {n \in DOMAIN P : f[n] \in SUBSET (A[n] \cup {n}) /\ WayBack(g, P, n, f[n])}
<1>1. \A n \in DOMAIN P : f[n] = BlueSet(g, A, A[n], P[n], f) \cup {n}
  BY Zenon DEF Fresh
<1>2. ASSUME NEW n \in DOMAIN P, \A p \in P[n] : p \in G PROVE n \in G
  <2>1. /\ A[n] \in SUBSET DOMAIN P /\ P[n] \in SUBSET A[n]
        /\ IsFiniteSet(A[n]) /\ A[n] \subseteq Nat
        /\ \A p \in P[n] : p \in DOMAIN P /\ A[p] \subseteq A[n]
    BY PastIs, ZenonT(60)
  <2>2. CASE n = g
    <3>1. A[n] = {} /\ P[n] = {}
      BY <2>1, <2>2, ZenonT(60) DEF Graph
    <3>2. {} # {g}
      OBVIOUS
    <3>3. f[n] = {n}
      BY <1>1, <3>1, <3>2, Zenon DEF BlueSet, Largest
    <3>4. WayBack(g, P, n, {n})
      BY <2>2, Zenon DEF WayBack
    <3>5. QED
      BY <3>3, <3>4, Zenon
  <2>3. CASE n # g
    <3>1. P[n] # {} /\ g \in A[n]
      BY <2>3, Zenon DEF Graph
    <3>2. \A p \in P[n] : f[p] \in SUBSET A[n]
      <4> SUFFICES ASSUME NEW p \in P[n] PROVE f[p] \in SUBSET A[n]
        OBVIOUS
      <4>1. p \in A[n] /\ A[p] \subseteq A[n]
        BY <2>1, Zenon
      <4>2. f[p] \in SUBSET (A[p] \cup {p})
        BY <1>2, Zenon
      <4>3. QED
        BY <4>1, <4>2, Zenon
    <3> DEFINE B == BlueSet(g, A, A[n], P[n], f)
    <3>3. B \in SUBSET A[n] /\ \E p \in P[n] : WayBack(g, P, p, B)
      <4>1. CASE A[n] = {g}
        <5>1. B = {g}
          BY <4>1, Zenon DEF BlueSet
        <5>2. g \in P[n]
          BY <2>1, <3>1, <4>1, Zenon
        <5>3. WayBack(g, P, g, {g})
          BY Zenon DEF WayBack
        <5>4. QED
          BY <4>1, <5>1, <5>2, <5>3, Zenon
      <4>2. CASE A[n] # {g}
        <5>1. B \in SUBSET A[n] /\ \E t \in P[n] : f[t] \subseteq B
          BY <2>1, <3>1, <3>2, <4>2, BlueSetIs, Zenon
        <5> HIDE DEF B
        <5>2. PICK t \in P[n] : f[t] \subseteq B
          BY <5>1, Zenon
        <5>3. WayBack(g, P, t, f[t])
          BY <1>2, <5>2, Zenon
        <5>4. WayBack(g, P, t, B)
          BY <5>2, <5>3, Zenon DEF WayBack
        <5>5. QED
          BY <5>1, <5>2, <5>4, Zenon
      <4>3. QED
        BY <4>1, <4>2, Zenon
    <3> HIDE DEF B
    <3>4. PICK p \in P[n], C \in SUBSET B : p \in C /\ \A x \in C \ {g} : P[x] \cap C # {}
      BY <3>3, Zenon DEF WayBack
    <3>5. WayBack(g, P, n, B \cup {n})
      <4> DEFINE D == C \cup {n}
      <4>1. D \in SUBSET (B \cup {n}) /\ n \in D
        OBVIOUS
      <4>2. ASSUME NEW x \in D \ {g} PROVE P[x] \cap D # {}
        BY <3>4
      <4>3. QED
        BY <4>1, <4>2, Zenon DEF WayBack
    <3>6. f[n] = B \cup {n}
      BY <1>1, Zenon DEF B
    <3>7. QED
      BY <3>3, <3>5, <3>6, Zenon
  <2>4. QED
    BY <2>2, <2>3
<1>3. \A n \in DOMAIN P : n \in G
  <2> HIDE DEF G
  <2>1. QED
    BY <1>2, ByHeight, Zenon
<1>4. QED
  BY <1>3, Zenon

\* Colouring with a cache that is exact gives what colouring without one does.
LEMMA StoredIs ==
    ASSUME NEW g, NEW P, NEW A, NEW H, Graph(g, P, A, H), NEW f, Fresh(g, P, A, f),
           NEW cache, Agree(cache, f, DOMAIN cache)
    PROVE  StoredBlue(g, P, A, cache) = f
<1> DEFINE Def(h) == h = [n \in DOMAIN P |->
                            IF n \in DOMAIN cache THEN cache[n]
                            ELSE BlueSet(g, A, A[n], P[n], h) \cup {n}]
           stored == CHOOSE h : Def(h)
<1>1. \A n \in DOMAIN P : f[n] = BlueSet(g, A, A[n], P[n], f) \cup {n}
  BY Zenon DEF Fresh
<1>2. f = [n \in DOMAIN P |-> f[n]]
  BY DEF Fresh
<1>3. Def(f)
  <2>1. \A n \in DOMAIN P : f[n] = IF n \in DOMAIN cache THEN cache[n]
                                   ELSE BlueSet(g, A, A[n], P[n], f) \cup {n}
    BY <1>1, Zenon DEF Agree
  <2>2. QED
    BY <1>2, <2>1
<1>4. StoredBlue(g, P, A, cache) = stored
  BY Zenon DEF StoredBlue
<1>5. Def(stored)
  <2> HIDE DEF Def
  <2>1. QED
    BY <1>3, Zenon
<1> HIDE DEF stored
<1>6. /\ stored = [n \in DOMAIN P |-> stored[n]]
      /\ \A n \in DOMAIN P : stored[n] = IF n \in DOMAIN cache THEN cache[n]
                                         ELSE BlueSet(g, A, A[n], P[n], stored) \cup {n}
  BY <1>5, Zenon
<1> HIDE DEF Def
<1> DEFINE G == {n \in DOMAIN P : stored[n] = f[n]}
<1>7. ASSUME NEW n \in DOMAIN P, \A p \in P[n] : p \in G PROVE n \in G
  <2>1. P[n] \in SUBSET A[n]
    BY PastIs, Zenon
  <2>2. \A p \in P[n] : stored[p] = f[p]
    BY <1>7, Zenon
  <2>3. BlueSet(g, A, A[n], P[n], stored) = BlueSet(g, A, A[n], P[n], f)
    <3>1. Agree(A, A, A[n]) /\ Agree(stored, f, P[n])
      BY <2>2, Zenon DEF Agree
    <3>2. QED
      BY <2>1, <3>1, BlueSetSame
  <2>4. stored[n] = f[n]
    BY <1>1, <1>6, <2>3, Zenon DEF Agree
  <2>5. QED
    BY <2>4, Zenon
<1>8. \A n \in DOMAIN P : n \in G
  <2> HIDE DEF G
  <2>1. QED
    BY <1>7, ByHeight, Zenon
<1>9. \A n \in DOMAIN P : stored[n] = f[n]
  BY <1>8, Zenon
<1>10. stored = f
  BY <1>2, <1>6, <1>9
<1>11. QED
  BY <1>4, <1>10, Zenon

-----------------------------------------------------------------------------
\* f2 is f with x for the new node n.
Grown(f2, f, n, x) ==
    /\ f2 = [m \in DOMAIN f \cup {n} |-> f2[m]] /\ f2[n] = x
    /\ \A m \in DOMAIN f : f2[m] = f[m]

\* A map with a new entry agrees with the old one on everything else.
LEMMA GrownIs ==
    ASSUME NEW f, NEW n, n \notin DOMAIN f, NEW x
    PROVE  Grown(With(f, n, x), f, n, x)
BY DEF Grown, With

Heights(W, H, ps) == W = {H[p] : p \in ps}

\* The highest of some nodes.
LEMMA HighestIs ==
    ASSUME NEW g, NEW P, NEW A, NEW H, Graph(g, P, A, H), NEW ps \in SUBSET DOMAIN P, ps # {},
           NEW W, Heights(W, H, ps)
    PROVE  /\ MaxId(W) \in Nat /\ MaxId(W) < Cardinality(DOMAIN P)
           /\ \A p \in ps : H[p] <= MaxId(W)
<1> DEFINE N == Cardinality(DOMAIN P)
           V == {N - H[p] : p \in ps}
<1>1. N \in Nat /\ \A p \in ps : H[p] \in Nat /\ H[p] < N
  BY FS_CardinalityType DEF Graph
<1> HIDE DEF N
<1>2. V \in SUBSET Nat /\ V # {}
  <2>1. \A p \in ps : N - H[p] \in Nat
    BY <1>1
  <2>2. QED
    BY <2>1, Zenon
<1>3. PICK x \in V : \A y \in V : x <= y
  BY <1>2, LeastNumber, Zenon
<1>4. PICK q \in ps : x = N - H[q]
  BY <1>3, Zenon
<1>5. \A p \in ps : H[p] <= H[q]
  <2> SUFFICES ASSUME NEW p \in ps PROVE H[p] <= H[q]
    OBVIOUS
  <2>1. x <= N - H[p]
    BY <1>3, Zenon
  <2>2. H[p] \in Nat /\ H[q] \in Nat
    BY <1>1, Zenon
  <2>3. QED
    BY <1>1, <1>4, <2>1, <2>2
<1>6. H[q] \in W /\ \A m \in W : m <= H[q]
  BY <1>5, Zenon DEF Heights
<1>7. MaxId(W) \in W /\ \A m \in W : m <= MaxId(W)
  BY <1>6, Zenon DEF MaxId
<1>8. \A p \in ps : H[p] <= MaxId(W)
  BY <1>7, Zenon DEF Heights
<1>9. QED
  BY <1>1, <1>7, <1>8 DEF N, Heights

\* The graph with P2, A2 and H2 is the one with P, A and H and a node n with
\* parents ps.
AddsNode(P, A, H, n, ps, P2, A2, H2) ==
    /\ n \notin DOMAIN P /\ ps \in SUBSET DOMAIN P /\ ps # {}
    /\ Grown(P2, P, n, ps)
    /\ Grown(A2, A, n, ps \cup UNION {A[p] : p \in ps})
    /\ Grown(H2, H, n, 1 + MaxId({H[p] : p \in ps}))

\* A block whose parents are in the graph makes a graph again.
LEMMA GraphGrows ==
    ASSUME NEW g, NEW P, NEW A, NEW H, Graph(g, P, A, H), NEW n \in Id, NEW ps,
           NEW P2, NEW A2, NEW H2, AddsNode(P, A, H, n, ps, P2, A2, H2)
    PROVE  Graph(g, P2, A2, H2)
<1> USE DEF AddsNode
<1> DEFINE D == DOMAIN P
           D2 == D \cup {n}
           N == Cardinality(D)
           W == {H[p] : p \in ps}
           h == MaxId(W)
<1>1. /\ IsFiniteSet(D) /\ D \subseteq Id /\ g \in D /\ N \in Nat
      /\ P \in [D -> SUBSET D] /\ A \in [D -> SUBSET D] /\ H \in [D -> Nat]
  BY FS_CardinalityType DEF Graph
<1>2. h \in Nat /\ h < N /\ \A p \in ps : H[p] <= h
  <2>1. Heights(W, H, ps)
    BY DEF Heights
  <2> HIDE DEF W, D
  <2>2. QED
    BY <2>1, HighestIs, Zenon DEF D
<1> HIDE DEF h
<1>3. IsFiniteSet(D2) /\ Cardinality(D2) = N + 1 /\ D2 \subseteq Id
  BY <1>1, FS_AddElement, ZenonT(60)
<1> HIDE DEF N
<1>4. /\ P2 = [m \in D2 |-> P2[m]] /\ P2[n] = ps /\ \A m \in D : P2[m] = P[m]
      /\ A2 = [m \in D2 |-> A2[m]] /\ A2[n] = ps \cup UNION {A[p] : p \in ps}
      /\ \A m \in D : A2[m] = A[m]
      /\ H2 = [m \in D2 |-> H2[m]] /\ H2[n] = 1 + h /\ \A m \in D : H2[m] = H[m]
  <2>1. DOMAIN A = D /\ DOMAIN H = D
    BY <1>1
  <2>2. QED
    BY <2>1, Zenon DEF Grown, h
<1>5. DOMAIN P2 = D2
  BY <1>4, Zenon
<1>6. A2[n] \in SUBSET D
  BY <1>1, <1>4
<1>7. /\ P2 \in [D2 -> SUBSET D2] /\ A2 \in [D2 -> SUBSET D2] /\ H2 \in [D2 -> Nat]
      /\ g \in D2 /\ A2[g] = {}
  <2>1. \A m \in D2 : P2[m] \in SUBSET D2
    BY <1>1, <1>4
  <2>2. \A m \in D2 : A2[m] \in SUBSET D2
    BY <1>1, <1>4, <1>6
  <2>3. \A m \in D2 : H2[m] \in Nat
    BY <1>1, <1>2, <1>4
  <2>4. A[g] = {}
    BY Zenon DEF Graph
  <2>5. QED
    BY <1>1, <1>4, <2>1, <2>2, <2>3, <2>4, Zenon
<1> DEFINE Node(m) ==
         /\ H2[m] < Cardinality(D2)
         /\ m \notin A2[m]
         /\ \A x \in A2[m] : A2[x] \subseteq A2[m]
         /\ \A x \in A2[m] : x \in P2[m] \/ \E p \in P2[m] : x \in A2[p]
         /\ \A p \in P2[m] : p \in A2[m] /\ H2[p] < H2[m]
         /\ m # g => P2[m] # {} /\ g \in A2[m]
<1>8. ASSUME NEW m \in D PROVE Node(m)
  <2>1. /\ H[m] < N /\ m \notin A[m] /\ A[m] \in SUBSET D /\ P[m] \in SUBSET D
        /\ \A x \in A[m] : A[x] \subseteq A[m]
        /\ \A x \in A[m] : x \in P[m] \/ \E p \in P[m] : x \in A[p]
        /\ \A p \in P[m] : p \in A[m] /\ H[p] < H[m]
        /\ m # g => P[m] # {} /\ g \in A[m]
    BY <1>1 DEF Graph, N
  <2>2. P2[m] = P[m] /\ A2[m] = A[m] /\ H2[m] = H[m] /\ H[m] \in Nat
    BY <1>1, <1>4
  <2>3. H2[m] < Cardinality(D2)
    BY <1>1, <1>3, <2>1, <2>2
  <2>4. \A x \in A[m] : A2[x] = A[x]
    BY <1>4, <2>1, Zenon
  <2>5. \A p \in P[m] : A2[p] = A[p] /\ H2[p] = H[p]
    BY <1>4, <2>1, Zenon
  <2>6. QED
    BY <2>1, <2>2, <2>3, <2>4, <2>5, Zenon
<1>9. Node(n)
  <2>1. \A p \in ps : P2[p] = P[p] /\ A2[p] = A[p] /\ H2[p] = H[p] /\ A[p] \in SUBSET D
    BY <1>1, <1>4
  <2>0. \A x \in A2[n] : x \in ps \/ \E p \in ps : x \in A[p]
    BY <1>4
  <2>2. H2[n] < Cardinality(D2)
    BY <1>1, <1>2, <1>3, <1>4
  <2>3. n \notin A2[n]
    BY <1>6
  <2>4. ASSUME NEW x \in A2[n] PROVE A2[x] \subseteq A2[n]
    <3>1. x \in D /\ A2[x] = A[x]
      BY <1>4, <1>6, Zenon
    <3>2. CASE x \in ps
      BY <1>4, <3>1, <3>2, ZenonT(60)
    <3>3. CASE \E p \in ps : x \in A[p]
      <4>1. PICK p \in ps : x \in A[p]
        BY <3>3
      <4>2. A[x] \subseteq A[p]
        BY <4>1, Zenon DEF Graph
      <4>3. QED
        BY <1>4, <3>1, <4>1, <4>2, ZenonT(60)
    <3>4. QED
      BY <2>0, <3>2, <3>3, Zenon
  <2>5. \A x \in A2[n] : x \in P2[n] \/ \E p \in P2[n] : x \in A2[p]
    <3> SUFFICES ASSUME NEW x \in A2[n], x \notin ps PROVE \E p \in ps : x \in A2[p]
      BY <1>4, Zenon
    <3>1. PICK p \in ps : x \in A[p]
      BY <2>0, Zenon
    <3>2. QED
      BY <2>1, <3>1, Zenon
  <2>6. ASSUME NEW p \in P2[n] PROVE p \in A2[n] /\ H2[p] < H2[n]
    BY <1>1, <1>2, <1>4, <2>1
  <2>8. P2[n] # {} /\ g \in A2[n]
    <3>1. PICK p \in ps : TRUE
      OBVIOUS
    <3>2. p = g \/ g \in A[p]
      BY <3>1, Zenon DEF Graph
    <3>3. QED
      BY <1>4, <3>1, <3>2, ZenonT(60)
  <2>9. QED
    BY <2>2, <2>3, <2>4, <2>5, <2>6, <2>8, Zenon
<1>10. \A m \in D2 : Node(m)
  <2> HIDE DEF Node
  <2>1. QED
    BY <1>8, <1>9, Zenon
<1>11. QED
  BY <1>3, <1>5, <1>7, <1>10, ZenonT(60) DEF Graph

\* The colouring of a graph is kept when it grows.
LEMMA FreshGrows ==
    ASSUME NEW g, NEW P, NEW A, NEW H, Graph(g, P, A, H), NEW f, Fresh(g, P, A, f),
           NEW n, NEW ps, NEW P2, NEW A2, NEW H2, AddsNode(P, A, H, n, ps, P2, A2, H2)
    PROVE  \E f2 : Fresh(g, P2, A2, f2) /\ Agree(f2, f, DOMAIN P)
<1> USE DEF AddsNode
<1> DEFINE D == DOMAIN P
           past2 == ps \cup UNION {A[p] : p \in ps}
           D2 == D \cup {n}
           b == BlueSet(g, A2, A2[n], P2[n], f) \cup {n}
           f2 == With(f, n, b)
<1>1. DOMAIN f = D /\ \A m \in D : f[m] = BlueSet(g, A, A[m], P[m], f) \cup {m}
  BY Zenon DEF Fresh
<1>2. DOMAIN A = D
  BY DEF Graph
<1>3. /\ P2 = [m \in D2 |-> P2[m]] /\ P2[n] = ps /\ A2[n] = past2
      /\ \A m \in D : P2[m] = P[m] /\ A2[m] = A[m]
  BY <1>2, Zenon DEF Grown
<1>4. f2 = [m \in D2 |-> f2[m]] /\ f2[n] = b /\ \A m \in D : f2[m] = f[m]
  <2> HIDE DEF b
  <2>1. Grown(f2, f, n, b)
    BY <1>1, GrownIs, Zenon
  <2> HIDE DEF f2
  <2>2. QED
    BY <1>1, <2>1, Zenon DEF Grown
<1> HIDE DEF f2
<1>5. ASSUME NEW m \in D PROVE f2[m] = BlueSet(g, A2, A2[m], P2[m], f2) \cup {m}
  <2>1. P[m] \in SUBSET A[m] /\ A[m] \in SUBSET D
    BY PastIs, ZenonT(60)
  <2>2. Agree(A, A2, A[m]) /\ Agree(f, f2, P[m])
    BY <1>3, <1>4, <2>1, Zenon DEF Agree
  <2>3. BlueSet(g, A, A[m], P[m], f) = BlueSet(g, A2, A[m], P[m], f2)
    BY <2>1, <2>2, BlueSetSame
  <2>4. QED
    BY <1>1, <1>3, <1>4, <2>3, ZenonT(60)
<1>6. f2[n] = BlueSet(g, A2, A2[n], P2[n], f2) \cup {n}
  <2>1. P2[n] \in SUBSET A2[n]
    BY <1>3, Zenon
  <2>2. Agree(A2, A2, A2[n]) /\ Agree(f, f2, P2[n])
    BY <1>3, <1>4, Zenon DEF Agree
  <2>3. BlueSet(g, A2, A2[n], P2[n], f) = BlueSet(g, A2, A2[n], P2[n], f2)
    BY <2>1, <2>2, BlueSetSame
  <2>4. QED
    BY <1>4, <2>3, Zenon
<1>7. Fresh(g, P2, A2, f2)
  <2>1. DOMAIN P2 = D2
    BY <1>3, Zenon
  <2>2. \A m \in D2 : f2[m] = BlueSet(g, A2, A2[m], P2[m], f2) \cup {m}
    BY <1>5, <1>6, Zenon
  <2>3. f2 = [m \in D2 |-> BlueSet(g, A2, A2[m], P2[m], f2) \cup {m}]
    BY <1>4, <2>2, Zenon
  <2>4. QED
    BY <2>1, <2>3, Zenon DEF Fresh
<1>8. Agree(f2, f, D)
  BY <1>4, Zenon DEF Agree
<1>9. QED
  BY <1>7, <1>8, Zenon

\* OrderDAG up to its loop, with an exact cache.
Started(P, A, T, f, entries) ==
    /\ blueCache' = [n \in (DOMAIN P) \ {genesis} |-> f[n]]
    /\ blue' = BlueSet(genesis, A, DOMAIN P, Elems(T), f) \cup {Virtual}
    /\ entries = {} => order' = <<>> /\ todo' = <<genesis>> /\ seen' = {genesis}

\* StartOrder's colouring through the cache is the one without it.
LEMMA StartIs ==
    ASSUME NEW P, NEW A, NEW H, Graph(genesis, P, A, H),
           NEW f, Fresh(genesis, P, A, f), NEW T, NEW entries,
           NEW cache, Agree(cache, f, DOMAIN cache),
           StartOrder(P, A, T, cache, entries)
    PROVE  Started(P, A, T, f, entries)
<1>1. StoredBlue(genesis, P, A, cache) = f
  BY StoredIs
<1>2. QED
  BY <1>1, Zenon DEF StartOrder, Elems, Started

-----------------------------------------------------------------------------
\* The first state.
LEMMA InitHolds == Init => Inv
<1> SUFFICES ASSUME Init PROVE Inv
  OBVIOUS
<1>1. Nodes = {genesis} /\ genesis \in Id /\ parents[genesis] = {} /\ past[genesis] = {}
      /\ height[genesis] = 0 /\ TipSet = {genesis}
  BY DEF Init, Nodes, TipSet
<1>2. IsFiniteSet({genesis}) /\ Cardinality({genesis}) = 1
  BY FS_Singleton, Zenon
<1>3. Graph(genesis, parents, past, height)
  <2>1. /\ parents \in [{genesis} -> SUBSET {genesis}] /\ past \in [{genesis} -> SUBSET {genesis}]
        /\ height \in [{genesis} -> Nat]
    BY DEF Init
  <2>2. DOMAIN parents = {genesis}
    BY <1>1 DEF Nodes
  <2>3. QED
    BY <1>1, <1>2, <2>1, <2>2 DEF Graph
<1>4. DagInv
  <2>1. tips \in Seq(Nodes)
    BY <1>1 DEF Init
  <2>2. Tips(parents, past, TipSet)
    BY <1>1, Zenon DEF Tips, Nodes
  <2>3. QED
    BY <1>3, <2>1, <2>2 DEF DagInv
<1>5. ColourInv
  <2> DEFINE f == [n \in {genesis} |-> {genesis}]
  <2>1. Fresh(genesis, parents, past, f)
    <3>1. {} # {genesis}
      OBVIOUS
    <3>2. BlueSet(genesis, past, {}, {}, f) = {}
      BY <3>1, Zenon DEF BlueSet, Largest
    <3>3. \A n \in {genesis} : BlueSet(genesis, past, past[n], parents[n], f) \cup {n} = {genesis}
      BY <1>1, <3>2
    <3>4. f = [n \in {genesis} |-> BlueSet(genesis, past, past[n], parents[n], f) \cup {n}]
      BY <3>3
    <3>5. QED
      BY <1>1, <3>4, Zenon DEF Fresh, Nodes
  <2>2. Agree(NoCache, f, DOMAIN NoCache)
    BY DEF NoCache, Agree
  <2> HIDE DEF f
  <2>3. FreshBlue = f
    BY <1>3, <2>1, <2>2, StoredIs DEF FreshBlue
  <2>4. DOMAIN blueCache = {} /\ pc = "ready" /\ nodeOrder = <<>>
    BY DEF Init
  <2>5. QED
    BY <2>1, <2>3, <2>4, Zenon DEF ColourInv
<1>6. OrderInv
  BY <1>1 DEF OrderInv, OrderComplete, Init
<1>7. QED
  BY <1>4, <1>5, <1>6 DEF Inv

\* OrderDAG begins from genesis.
FromGenesis == order' = <<>> /\ todo' = <<genesis>> /\ seen' = {genesis}

\* A block that is added.
LEMMA AddDag ==
    ASSUME DagInv, ColourInv, NEW n \in Id, NEW ps \in SUBSET Nodes, AddBlock(n, ps)
    PROVE  /\ DagInv' /\ ColourInv'
           /\ ~UseOrderCache \/ DOMAIN orderCache = {} => FromGenesis
           /\ TipSet' = (TipSet \ ps) \cup {n}
<1>1. /\ n \notin Nodes /\ ps # {}
      /\ parents' = With(parents, n, ps)
      /\ past' = With(past, n, ps \cup UNION {past[p] : p \in ps})
      /\ height' = With(height, n, 1 + MaxId({height[p] : p \in ps}))
      /\ tips' = Append(remove(tips, ps), n)
      /\ StartOrder(parents', past', tips', blueCache,
                    CacheGet(MinHeight(height', tips')))
      /\ pc' = "order" /\ genesis' = genesis
  BY Zenon DEF AddBlock
<1>2. /\ Graph(genesis, parents, past, height) /\ tips \in Seq(Nodes)
      /\ Tips(parents, past, TipSet)
  BY Zenon DEF DagInv
<1>3. DOMAIN parents = Nodes /\ DOMAIN past = Nodes /\ DOMAIN height = Nodes
  BY <1>2 DEF Graph, Nodes
<1> DEFINE pn == ps \cup UNION {past[p] : p \in ps}
           hn == 1 + MaxId({height[p] : p \in ps})
<1>0. /\ Grown(parents', parents, n, ps) /\ Grown(past', past, n, pn)
      /\ Grown(height', height, n, hn)
  <2> HIDE DEF pn, hn
  <2>1. QED
    BY <1>1, <1>3, GrownIs, Zenon DEF pn, hn
<1>4. AddsNode(parents, past, height, n, ps, parents', past', height')
  BY <1>0, <1>1, <1>3, Zenon DEF AddsNode
<1>5. Graph(genesis, parents', past', height')
  BY <1>2, <1>4, GraphGrows, Zenon
<1>6. PICK f2 : Fresh(genesis, parents', past', f2) /\ Agree(f2, FreshBlue, Nodes)
  <2>1. Fresh(genesis, parents, past, FreshBlue)
    BY DEF ColourInv
  <2>2. QED
    BY <1>2, <1>4, <2>1, FreshGrows, Zenon DEF Nodes
<1>7. FreshBlue' = f2
  <2>1. Agree(NoCache, f2, DOMAIN NoCache)
    BY DEF NoCache, Agree
  <2>2. StoredBlue(genesis, parents', past', NoCache) = f2
    BY <1>5, <1>6, <2>1, StoredIs, Zenon
  <2>3. QED
    BY <1>1, <2>2, Zenon DEF FreshBlue
<1>8. Agree(blueCache, f2, DOMAIN blueCache)
  BY <1>6, Zenon DEF Agree, ColourInv
<1>9. /\ blueCache' = [m \in (DOMAIN parents') \ {genesis} |-> f2[m]]
      /\ blue' = BlueSet(genesis, past', DOMAIN parents', Elems(tips'), f2) \cup {Virtual}
      /\ ~UseOrderCache \/ DOMAIN orderCache = {} => FromGenesis
  <2> DEFINE e == CacheGet(MinHeight(height', tips'))
  <2>1. StartOrder(parents', past', tips', blueCache, e)
    BY <1>1, Zenon
  <2>0. ~UseOrderCache \/ DOMAIN orderCache = {} => e = {}
    BY Zenon DEF CacheGet
  <2> HIDE DEF e
  <2>2. Started(parents', past', tips', f2, e)
    BY <1>5, <1>6, <1>8, <2>1, StartIs, Zenon
  <2>3. QED
    BY <2>0, <2>2, Zenon DEF Started, FromGenesis
<1>10. Nodes' = Nodes \cup {n} /\ \A m \in Nodes : past'[m] = past[m]
  BY <1>3, <1>0, Zenon DEF Grown, Nodes
<1>11. tips' \in Seq(Nodes') /\ TipSet' = (TipSet \ ps) \cup {n}
  <2>1. remove(tips, ps) \in Seq(Nodes) /\ Elems(remove(tips, ps)) = TipSet \ ps
    <3>1. remove(tips, ps) \in Seq(Nodes) /\ Elems(remove(tips, ps)) = Elems(tips) \ ps
      BY <1>2, RemoveIs, Zenon
    <3>2. QED
      BY <3>1, Zenon DEF TipSet, Elems
  <2> DEFINE r == remove(tips, ps)
  <2> HIDE DEF r
  <2>2. r \in Seq(Nodes') /\ tips' = Append(r, n) /\ n \in Nodes' /\ Elems(r) = TipSet \ ps
    BY <1>1, <1>10, <2>1 DEF r
  <2>3. /\ tips' \in Seq(Nodes') /\ DOMAIN tips' = 1..(Len(r) + 1) /\ Len(r) \in Nat
        /\ tips'[Len(r) + 1] = n /\ \A i \in 1..Len(r) : tips'[i] = r[i]
        /\ DOMAIN r = 1..Len(r)
    BY <2>2
  <2>4. TipSet' = {tips'[i] : i \in 1..(Len(r) + 1)} /\ TipSet \ ps = {r[i] : i \in 1..Len(r)}
    BY <2>2, <2>3, Zenon DEF TipSet, Elems
  <2>5. TipSet' = (TipSet \ ps) \cup {n}
    BY <2>3, <2>4, SMTT(30)
  <2>6. QED
    BY <2>3, <2>5
<1>12. Tips(parents, past, TipSet)'
  <2>1. TipSet \in SUBSET Nodes /\ \A t \in TipSet, m \in Nodes : t \notin past[m]
    BY <1>2, <1>3, Zenon DEF Tips
  <2>2. past'[n] = pn /\ pn \in SUBSET Nodes
    BY <1>2, <1>3, <1>0 DEF Grown, Graph, Nodes
  <2>3. ASSUME NEW t \in TipSet \ ps PROVE t \notin pn
    BY <2>1
  <2> HIDE DEF pn
  <2>4. ASSUME NEW t \in TipSet', NEW m \in Nodes' PROVE t \notin past'[m]
    <3>1. CASE t = n
      <4>1. past'[m] \in SUBSET Nodes
        BY <1>2, <1>10, <2>2 DEF Graph, Nodes
      <4>2. QED
        BY <1>1, <3>1, <4>1, Zenon
    <3>2. CASE t \in TipSet \ ps
      BY <1>10, <2>1, <2>2, <2>3, <3>2, Zenon
    <3>3. QED
      BY <1>11, <3>1, <3>2, Zenon
  <2>5. TipSet' \in SUBSET Nodes' /\ TipSet' # {}
    BY <1>10, <1>11, <2>1
  <2>6. QED
    BY <2>4, <2>5, Zenon DEF Tips, Nodes
<1>13. DagInv'
  BY <1>1, <1>5, <1>11, <1>12, Zenon DEF DagInv
<1>14. ColourInv'
  <2>1. Elems(tips') = TipSet' /\ DOMAIN parents' = Nodes'
    BY Zenon DEF Elems, TipSet, Nodes
  <2>2. DOMAIN blueCache' \subseteq Nodes' /\ \A m \in DOMAIN blueCache' : blueCache'[m] = f2[m]
    BY <1>9, <2>1
  <2>3. blue' = BlueSet(genesis', past', Nodes', TipSet', FreshBlue') \cup {Virtual}
    BY <1>1, <1>7, <1>9, <2>1, Zenon
  <2>4. QED
    BY <1>1, <1>6, <1>7, <2>2, <2>3, Zenon DEF ColourInv
<1>15. QED
  BY <1>9, <1>11, <1>13, <1>14

\* A restart: the tips are sorted, and the same nodes are tips.
LEMMA RestartDag ==
    ASSUME DagInv, ColourInv, Restart
    PROVE  /\ DagInv' /\ ColourInv' /\ FromGenesis
           /\ TipSet' = TipSet /\ parents' = parents /\ past' = past
           /\ blue' = BlueSet(genesis, past, Nodes, TipSet, FreshBlue) \cup {Virtual}
<1>1. /\ tips' = Sorted(TipSet, {e \in TipSet \X TipSet : Precedes(e[1], e[2])})
      /\ StartOrder(parents, past, tips', NoCache, {})
      /\ pc' = "reload" /\ genesis' = genesis /\ parents' = parents /\ past' = past
      /\ height' = height
  BY Zenon DEF Restart, NoCache
<1>2. /\ Graph(genesis, parents, past, height) /\ Tips(parents, past, TipSet)
      /\ Fresh(genesis, parents, past, FreshBlue)
  BY Zenon DEF DagInv, ColourInv
<1>3. tips' \in Seq(TipSet) /\ Elems(tips') = TipSet
  <2> DEFINE R == {e \in TipSet \X TipSet : Precedes(e[1], e[2])}
  <2>1. TipSet \in SUBSET Nodes /\ IsFiniteSet(Nodes)
        /\ \A t \in TipSet : t \in Nat /\ height[t] \in Nat
    BY <1>2, PhantomAssumption DEF Tips, Graph, Nodes
  <2>2. IsFiniteSet(TipSet)
    BY <2>1, FS_Subset, Zenon
  <2>3. \A a, b \in TipSet : <<a, b>> \in R <=> Precedes(a, b)
    OBVIOUS
  <2> HIDE DEF R
  <2>4. \A a \in TipSet : <<a, a>> \notin R
    BY <2>1, <2>3 DEF Precedes
  <2>5. ASSUME NEW a \in TipSet, NEW b \in TipSet, NEW c \in TipSet,
               <<a, b>> \in R, <<b, c>> \in R
        PROVE  <<a, c>> \in R
    <3>1. Precedes(a, b) /\ Precedes(b, c)
      BY <2>3, <2>5, Zenon
    <3>2. Precedes(a, c)
      BY <2>1, <3>1 DEF Precedes
    <3>3. QED
      BY <2>3, <3>2, Zenon
  <2>6. \A a, b \in TipSet : a # b => <<a, b>> \in R \/ <<b, a>> \in R
    BY <2>1, <2>3 DEF Precedes
  <2>7. Sorted(TipSet, R) \in Seq(TipSet) /\ Elems(Sorted(TipSet, R)) = TipSet
    BY <2>2, <2>4, <2>5, <2>6, SortedIs, Zenon
  <2>8. QED
    BY <1>1, <2>7, Zenon DEF R
<1>4. TipSet' = TipSet /\ Nodes' = Nodes
  <2>1. TipSet' = Elems(tips')
    BY Zenon DEF Elems, TipSet
  <2>2. QED
    BY <1>1, <1>3, <2>1, Zenon DEF Nodes
<1>5. Started(parents, past, tips', FreshBlue, {})
  <2>1. Agree(NoCache, FreshBlue, DOMAIN NoCache)
    BY DEF NoCache, Agree
  <2>2. QED
    BY <1>1, <1>2, <2>1, StartIs, Zenon
<1>6. /\ blueCache' = [n \in Nodes \ {genesis} |-> FreshBlue[n]]
      /\ blue' = BlueSet(genesis, past, Nodes, TipSet, FreshBlue) \cup {Virtual}
      /\ FromGenesis
  BY <1>3, <1>5, Zenon DEF Started, FromGenesis, Nodes
<1>7. FreshBlue' = FreshBlue
  BY <1>1, Zenon DEF FreshBlue
<1>8. DagInv'
  <2>1. tips' \in Seq(Nodes)
    BY <1>2, <1>3 DEF Tips, Nodes
  <2>2. Graph(genesis, parents, past, height)'
    BY <1>1, <1>2, Zenon
  <2>3. Tips(parents, past, TipSet)'
    BY <1>1, <1>2, <1>4, Zenon
  <2>4. QED
    BY <1>4, <2>1, <2>2, <2>3, Zenon DEF DagInv
<1>9. ColourInv'
  <2>1. Fresh(genesis, parents, past, FreshBlue)'
    BY <1>1, <1>2, <1>7, Zenon
  <2>2. DOMAIN blueCache' \subseteq Nodes' /\ \A m \in DOMAIN blueCache' : blueCache'[m] = FreshBlue[m]
    BY <1>4, <1>6
  <2>3. blue' = BlueSet(genesis', past', Nodes', TipSet', FreshBlue') \cup {Virtual}
    BY <1>1, <1>4, <1>6, <1>7, Zenon
  <2>4. QED
    BY <1>1, <1>7, <2>1, <2>2, <2>3, Zenon DEF ColourInv
<1>10. QED
  BY <1>1, <1>4, <1>6, <1>8, <1>9, Zenon

-----------------------------------------------------------------------------
\* The members of two sequences one after the other.
LEMMA ConcatIs ==
    ASSUME NEW X, NEW a \in Seq(X), NEW b \in Seq(X)
    PROVE  /\ a \o b \in Seq(X) /\ Len(a \o b) = Len(a) + Len(b)
           /\ \A i \in 1..Len(a) : (a \o b)[i] = a[i]
           /\ \A i \in (Len(a) + 1)..(Len(a) + Len(b)) : (a \o b)[i] = b[i - Len(a)]
           /\ Elems(a \o b) = Elems(a) \cup Elems(b)
<1> DEFINE c == a \o b
<1>1. /\ c \in Seq(X) /\ Len(c) = Len(a) + Len(b) /\ Len(a) \in Nat /\ Len(b) \in Nat
      /\ \A i \in 1..Len(a) : c[i] = a[i]
      /\ \A i \in (Len(a) + 1)..(Len(a) + Len(b)) : c[i] = b[i - Len(a)]
      /\ DOMAIN a = 1..Len(a) /\ DOMAIN b = 1..Len(b) /\ DOMAIN c = 1..(Len(a) + Len(b))
  OBVIOUS
<1> HIDE DEF c
<1>2. ASSUME NEW i \in DOMAIN c PROVE c[i] \in Elems(a) \cup Elems(b)
  <2>1. CASE i \in 1..Len(a)
    BY <1>1, <2>1, Zenon DEF Elems
  <2>2. CASE i \in (Len(a) + 1)..(Len(a) + Len(b))
    <3>1. i - Len(a) \in DOMAIN b
      BY <1>1, <2>2
    <3>2. QED
      BY <1>1, <2>2, <3>1, Zenon DEF Elems
  <2>3. QED
    BY <1>1, <2>1, <2>2
<1>3. ASSUME NEW i \in DOMAIN a PROVE a[i] \in Elems(c)
  <2>1. i \in DOMAIN c /\ c[i] = a[i]
    BY <1>1
  <2>2. QED
    BY <2>1, Zenon DEF Elems
<1>4. ASSUME NEW i \in DOMAIN b PROVE b[i] \in Elems(c)
  <2>1. /\ Len(a) + i \in (Len(a) + 1)..(Len(a) + Len(b)) /\ (Len(a) + i) - Len(a) = i
        /\ Len(a) + i \in DOMAIN c
    BY <1>1
  <2>2. c[Len(a) + i] = b[i]
    BY <1>1, <2>1, Zenon
  <2>3. QED
    BY <2>1, <2>2, Zenon DEF Elems
<1>5. Elems(c) = Elems(a) \cup Elems(b)
  <2>1. Elems(c) \subseteq Elems(a) \cup Elems(b)
    BY <1>2, Zenon DEF Elems
  <2>2. Elems(a) \subseteq Elems(c) /\ Elems(b) \subseteq Elems(c)
    BY <1>3, <1>4, Zenon DEF Elems
  <2>3. QED
    BY <2>1, <2>2, Zenon
<1>6. QED
  BY <1>1, <1>5, Zenon DEF c

\* Two sequences of different members, one after the other.
LEMMA ApartConcat ==
    ASSUME NEW X, NEW a \in Seq(X), NEW b \in Seq(X), NEW done,
           Apart(done, a), Apart(done, b), \A x \in Elems(a) : x \notin Elems(b)
    PROVE  Apart(done, a \o b)
<1> DEFINE c == a \o b
<1>1. /\ c \in Seq(X) /\ Len(c) = Len(a) + Len(b) /\ Len(a) \in Nat /\ Len(b) \in Nat
      /\ \A i \in 1..Len(a) : c[i] = a[i]
      /\ \A i \in (Len(a) + 1)..(Len(a) + Len(b)) : c[i] = b[i - Len(a)]
      /\ DOMAIN c = 1..Len(c) /\ DOMAIN a = 1..Len(a) /\ DOMAIN b = 1..Len(b)
  BY ConcatIs
<1> HIDE DEF c
<1>2. ASSUME NEW i \in DOMAIN c
      PROVE  \/ i \in DOMAIN a /\ c[i] = a[i]
             \/ i - Len(a) \in DOMAIN b /\ c[i] = b[i - Len(a)] /\ i \notin DOMAIN a
  BY <1>1, SMTT(60)
<1>3. \A i \in DOMAIN a, j \in DOMAIN b : a[i] # b[j]
  BY Zenon DEF Elems
<1>4. \A i \in DOMAIN c : c[i] \notin done
  BY <1>2, Zenon DEF Apart
<1>5. ASSUME NEW i \in DOMAIN c, NEW j \in DOMAIN c, c[i] = c[j] PROVE i = j
  <2>1. CASE i \in DOMAIN a /\ c[i] = a[i] /\ j \in DOMAIN a /\ c[j] = a[j]
    BY <1>5, <2>1, Zenon DEF Apart
  <2>2. CASE /\ i - Len(a) \in DOMAIN b /\ c[i] = b[i - Len(a)]
             /\ j - Len(a) \in DOMAIN b /\ c[j] = b[j - Len(a)]
    <3>1. i - Len(a) = j - Len(a)
      BY <1>5, <2>2, Zenon DEF Apart
    <3>2. i \in Int /\ j \in Int
      BY <1>1
    <3>3. QED
      BY <1>1, <3>1, <3>2
  <2>3. QED
    BY <1>2, <1>3, <1>5, <2>1, <2>2, Zenon
<1>6. QED
  BY <1>4, <1>5, Zenon DEF Apart, c

\* The queues that are in order when the nodes in done have been ordered.
Queues(A, done, R) ==
    {q \in [todo : Seq(DOMAIN A \cup {Virtual}), seen : SUBSET (DOMAIN A \cup {Virtual})] :
       Queued(A, done, q, R)}

\* One blue child of a node: what it queues before the child is all of the
\* child's past that has not been queued yet, unless a parent of the child is
\* in the past of another.
LEMMA EnqueueKeeps ==
    ASSUME NEW g, NEW P, NEW A, NEW H, Graph(g, P, A, H), NEW T, Tips(P, A, T),
           NEW done \in SUBSET DOMAIN P, NEW node \in done,
           NEW child \in Children(P, T, node), NEW q \in Queues(A, done, Antichains(P, A))
    PROVE  /\ Enqueue(A, node, done, child, q) \in Queues(A, done, Antichains(P, A))
           /\ q.seen \subseteq Enqueue(A, node, done, child, q).seen
           /\ child \in Enqueue(A, node, done, child, q).seen
<1> DEFINE D == DOMAIN P
           X == D \cup {Virtual}
           before == {m \in Anticone(A, DOMAIN A, node) :
                        /\ child = Virtual \/ m \in A[child]
                        /\ m \notin done /\ m \notin q.seen}
           e == elements(before)
           c == IF child \in q.seen THEN <<>> ELSE <<child>>
           qe == q.todo \o e
           todo2 == qe \o c
           seen2 == q.seen \cup before \cup {child}
           r == [todo |-> todo2, seen |-> seen2]
           R == Antichains(P, A)
<1>0. R => \A n \in D : \A a, b \in P[n] : a \notin A[b]
  BY Zenon DEF Antichains
<1> HIDE DEF R
<1>1. Enqueue(A, node, done, child, q) = r
  BY Zenon DEF Enqueue
<1>2. /\ DOMAIN A = D /\ D \subseteq Nat /\ IsFiniteSet(D) /\ Virtual \notin D
      /\ A \in [D -> SUBSET D] /\ P \in [D -> SUBSET D]
  BY PhantomAssumption DEF Graph
<1>3. /\ q \in [todo : Seq(X), seen : SUBSET X] /\ q.todo \in Seq(X) /\ q.seen \in SUBSET X
      /\ q.seen = done \cup Elems(q.todo)
      /\ R => \A x \in q.seen \ {Virtual} : A[x] \subseteq q.seen
      /\ R => \A k \in DOMAIN q.todo : q.todo[k] = Virtual =>
                \A n \in D : n \in done \/ \E j \in 1..(k - 1) : q.todo[j] = n
      /\ Apart(done, q.todo)
  <2>1. /\ q \in [todo : Seq(X), seen : SUBSET X] /\ Queued(A, done, q, R)
    BY <1>2, Zenon DEF Queues, R
  <2>2. q.todo \in Seq(X) /\ q.seen \in SUBSET X
    BY <2>1
  <2>3. QED
    BY <1>2, <2>1, <2>2, Zenon DEF Queued
<1>4. before \in SUBSET D /\ IsFiniteSet(before) /\ before \subseteq Nat
  <2>1. before \in SUBSET D
    BY <1>2, Zenon DEF Anticone
  <2> HIDE DEF before
  <2>2. QED
    BY <1>2, <2>1, FS_Subset
<1>5. child \in X /\ (child # Virtual => child \in D /\ node \in P[child])
      /\ (child = Virtual => node \in T)
  BY <1>2, Zenon DEF Children
<1>6. \A m \in D : m = node \/ m \in A[node] \/ node \in A[m] \/ m \in Anticone(A, DOMAIN A, node)
  BY <1>2, Zenon DEF Anticone
<1>7. node \in q.seen /\ (R => A[node] \subseteq q.seen)
  BY <1>2, <1>3, Zenon
<1>8. R /\ child = Virtual => D \subseteq q.seen \cup before
  <2> SUFFICES ASSUME R, child = Virtual, NEW m \in D PROVE m \in q.seen \cup before
    BY Zenon
  <2>1. node \notin A[m]
    BY <1>5, Zenon DEF Tips
  <2>2. QED
    BY <1>3, <1>6, <1>7, <2>1, Zenon
<1>9. R /\ child # Virtual => A[child] \subseteq q.seen \cup before
  <2> SUFFICES ASSUME R, child # Virtual, NEW m \in A[child] PROVE m \in q.seen \cup before
    BY Zenon
  <2>1. child \in D /\ node \in P[child] /\ m \in D
    BY <1>2, <1>5
  <2>2. node \notin A[m]
    <3>1. \A a, b \in P[child] : a \notin A[b]
      BY <1>0, <2>1, Zenon
    <3>2. CASE m \in P[child]
      BY <2>1, <3>1, <3>2, Zenon
    <3>3. CASE \E p \in P[child] : m \in A[p]
      <4>1. PICK p \in P[child] : m \in A[p]
        BY <3>3
      <4>2. p \in D
        BY <1>2, <2>1
      <4>3. A[m] \subseteq A[p]
        BY <4>1, <4>2, Zenon DEF Graph
      <4>4. QED
        BY <2>1, <3>1, <4>1, <4>3, Zenon
    <3>4. QED
      BY <2>1, <3>2, <3>3, Zenon DEF Graph
  <2>3. QED
    BY <1>3, <1>6, <1>7, <2>1, <2>2, Zenon
<1>10. R => \A x \in before : A[x] \subseteq q.seen \cup before
  <2> SUFFICES ASSUME R, NEW x \in before PROVE A[x] \subseteq q.seen \cup before
    BY Zenon
  <2>1. CASE child = Virtual
    <3>1. A[x] \subseteq D
      BY <1>2, <1>4
    <3>2. QED
      BY <1>8, <2>1, <3>1, Zenon
  <2>2. CASE child # Virtual
    <3>1. x \in A[child] /\ child \in D
      BY <1>5, <2>2, Zenon
    <3>2. A[x] \subseteq A[child]
      BY <3>1, Zenon DEF Graph
    <3>3. QED
      BY <1>9, <2>2, <3>2, Zenon
  <2>3. QED
    BY <2>1, <2>2
<1>new. child \notin before /\ \A x \in before : x \notin q.seen
  <2>1. child # Virtual => child \notin A[child]
    BY <1>5, Zenon DEF Graph
  <2>2. child = Virtual => child \notin D
    BY <1>2, Zenon
  <2>3. QED
    BY <1>4, <2>1, <2>2, Zenon
<1> HIDE DEF before
<1>11. R => \A x \in seen2 \ {Virtual} : A[x] \subseteq seen2
  BY <1>3, <1>9, <1>10, Zenon
<1>12. e \in Seq(X) /\ Elems(e) = before /\ Apart({}, e)
  <2>1. e \in Seq(before) /\ Elems(e) = before /\ Apart({}, e)
    BY <1>4, ElementsIs, Zenon
  <2> HIDE DEF e
  <2>2. QED
    BY <1>4, <2>1
<1> HIDE DEF e
<1>13. /\ c \in Seq(X) /\ Elems(c) = {child} \ q.seen /\ Len(c) <= 1
       /\ (Len(c) = 1 => child \notin q.seen /\ c[1] = child)
  <2>1. CASE child \in q.seen
    BY <2>1 DEF Elems
  <2>2. CASE child \notin q.seen
    BY <1>5, <2>2 DEF Elems
  <2>3. QED
    BY <2>1, <2>2
<1> HIDE DEF c
<1>14. /\ qe \in Seq(X) /\ Len(qe) = Len(q.todo) + Len(e)
       /\ \A i \in 1..Len(q.todo) : qe[i] = q.todo[i]
       /\ \A i \in (Len(q.todo) + 1)..(Len(q.todo) + Len(e)) : qe[i] = e[i - Len(q.todo)]
       /\ Elems(qe) = Elems(q.todo) \cup before
  BY <1>3, <1>12, ConcatIs, SMTT(60)
<1> HIDE DEF qe
<1>15. /\ todo2 \in Seq(X) /\ Len(todo2) = Len(qe) + Len(c)
       /\ \A i \in 1..Len(qe) : todo2[i] = qe[i]
       /\ \A i \in (Len(qe) + 1)..(Len(qe) + Len(c)) : todo2[i] = c[i - Len(qe)]
       /\ Elems(todo2) = Elems(q.todo) \cup before \cup ({child} \ q.seen)
  <2>1. c \in Seq(X) /\ qe \in Seq(X) /\ Elems(c) = {child} \ q.seen
        /\ Elems(qe) = Elems(q.todo) \cup before
    BY <1>13, <1>14, Zenon
  <2>2. /\ todo2 \in Seq(X) /\ Len(todo2) = Len(qe) + Len(c)
        /\ \A i \in 1..Len(qe) : todo2[i] = qe[i]
        /\ \A i \in (Len(qe) + 1)..(Len(qe) + Len(c)) : todo2[i] = c[i - Len(qe)]
        /\ Elems(todo2) = Elems(qe) \cup Elems(c)
    BY <2>1, ConcatIs, SMTT(30)
  <2> HIDE DEF todo2
  <2>3. QED
    BY <2>1, <2>2, Zenon
<1> HIDE DEF todo2
<1>16. seen2 = done \cup Elems(todo2) /\ seen2 \in SUBSET X
  BY <1>3, <1>4, <1>5, <1>15, Zenon
<1>17. ASSUME R, NEW k \in DOMAIN todo2, todo2[k] = Virtual, NEW n \in D, n \notin done
       PROVE  \E j \in 1..(k - 1) : todo2[j] = n
  <2>1. /\ Len(q.todo) \in Nat /\ Len(e) \in Nat /\ Len(c) \in Nat
        /\ k \in 1..(Len(q.todo) + Len(e) + Len(c))
        /\ DOMAIN q.todo = 1..Len(q.todo) /\ DOMAIN qe = 1..Len(qe) /\ DOMAIN e = 1..Len(e)
    BY <1>3, <1>12, <1>13, <1>14, <1>15, SMTT(30)
  <2>2. CASE k \in 1..Len(q.todo)
    <3>1. q.todo[k] = Virtual
      BY <1>14, <1>15, <1>17, <2>1, <2>2, SMTT(60)
    <3>2. PICK j \in 1..(k - 1) : q.todo[j] = n
      BY <1>3, <1>17, <2>1, <2>2, <3>1, Zenon
    <3>3. j \in 1..Len(q.todo) /\ j \in 1..Len(qe)
      BY <1>14, <2>1, <2>2, SMTT(60)
    <3>4. todo2[j] = n
      BY <1>14, <1>15, <3>2, <3>3, Zenon
    <3>5. QED
      BY <3>4, Zenon
  <2>3. CASE k \in (Len(q.todo) + 1)..(Len(q.todo) + Len(e))
    <3>1. k \in 1..Len(qe) /\ k - Len(q.todo) \in DOMAIN e
      BY <1>14, <2>1, <2>3, SMTT(60)
    <3>2. todo2[k] = e[k - Len(q.todo)]
      BY <1>14, <1>15, <2>3, <3>1, Zenon
    <3>3. e[k - Len(q.todo)] \in before
      BY <1>12, <3>1, Zenon DEF Elems
    <3>4. QED
      BY <1>2, <1>4, <1>17, <3>2, <3>3, Zenon
  <2>4. CASE k = Len(q.todo) + Len(e) + 1
    <3>1. Len(c) = 1 /\ k \in (Len(qe) + 1)..(Len(qe) + Len(c)) /\ k - Len(qe) = 1
      <4>1. Len(c) <= 1 /\ Len(qe) = Len(q.todo) + Len(e)
        BY <1>13, <1>14, Zenon
      <4> DEFINE lq == Len(q.todo)
                 le == Len(e)
                 lc == Len(c)
                 lx == Len(qe)
      <4>2. /\ lq \in Nat /\ le \in Nat /\ lc \in Nat /\ lc <= 1 /\ lx = lq + le
            /\ k \in 1..(lq + le + lc) /\ k = lq + le + 1
        BY <2>1, <2>4, <4>1, Zenon
      <4> HIDE DEF lq, le, lc, lx
      <4>3. lc = 1 /\ k \in (lx + 1)..(lx + lc) /\ k - lx = 1
        BY <4>2
      <4>4. QED
        BY <4>3, Zenon DEF lc, lx
    <3>2. child = Virtual /\ child \notin q.seen
      BY <1>13, <1>15, <1>17, <3>1, Zenon
    <3>3. n \in Elems(qe)
      BY <1>3, <1>8, <1>14, <1>17, <3>2, Zenon
    <3>4. PICK j \in 1..Len(qe) : qe[j] = n
      BY <2>1, <3>3, Zenon DEF Elems
    <3>5. todo2[j] = n /\ j \in 1..(k - 1)
      BY <1>14, <1>15, <2>1, <2>4, <3>4, SMTT(30), Z3T(60)
    <3>6. QED
      BY <3>5, Zenon
  <2>5. QED
    BY <1>13, <2>1, <2>2, <2>3, <2>4, SMTT(60)
<1>apart. Apart(done, todo2)
  <2>1. Apart(done, e)
    <3>1. \A k \in DOMAIN e : e[k] \in before
      BY <1>12, Zenon DEF Elems
    <3>2. QED
      BY <1>3, <1>12, <1>new, <3>1, Zenon DEF Apart
  <2>2. Apart(done, c)
    <3>1. \A k \in DOMAIN c : k = 1 /\ Len(c) = 1
      <4>1. DOMAIN c = 1..Len(c) /\ Len(c) \in Nat /\ Len(c) <= 1
        BY <1>13, SMTT(30)
      <4>2. QED
        BY <4>1, SMTT(30)
    <3>2. \A k \in DOMAIN c : c[k] \notin q.seen
      BY <1>13, <3>1, Zenon
    <3>3. done \subseteq q.seen
      BY <1>3, Zenon
    <3>4. \A j, k \in DOMAIN c : j = k
      BY <3>1, Zenon
    <3>5. QED
      BY <3>2, <3>3, <3>4, Zenon DEF Apart
  <2>3. Apart(done, qe)
    <3>1. \A x \in Elems(q.todo) : x \notin Elems(e)
      BY <1>3, <1>12, <1>new, Zenon
    <3>2. QED
      BY <1>3, <1>12, <2>1, <3>1, ApartConcat, Zenon DEF qe
  <2>4. \A x \in Elems(qe) : x \notin Elems(c)
    BY <1>3, <1>13, <1>14, <1>new, ZenonT(60)
  <2>5. QED
    BY <1>13, <1>14, <2>2, <2>3, <2>4, ApartConcat, Zenon DEF todo2
<1>18. r \in Queues(A, done, R)
  <2>1. r \in [todo : Seq(X), seen : SUBSET X] /\ r.todo = todo2 /\ r.seen = seen2
    BY <1>15, <1>16, Zenon
  <2>2. Queued(A, done, r, R)
    <3> HIDE DEF r, seen2
    <3>1. r.todo \in Seq(DOMAIN A \cup {Virtual}) /\ r.seen = done \cup Elems(r.todo)
      BY <1>2, <1>15, <1>16, <2>1, Zenon
    <3>2. R => \A x \in r.seen \ {Virtual} : A[x] \subseteq r.seen
      BY <1>11, <2>1, Zenon DEF seen2
    <3>3. R => \A k \in DOMAIN r.todo : r.todo[k] = Virtual =>
                 \A n \in DOMAIN A : n \in done \/ \E j \in 1..(k - 1) : r.todo[j] = n
      <4>1. R => \A k \in DOMAIN todo2 : todo2[k] = Virtual =>
                   \A n \in D : n \in done \/ \E j \in 1..(k - 1) : todo2[j] = n
        BY <1>17, Zenon
      <4>2. r.todo = todo2 /\ DOMAIN A = D
        BY <1>2, <2>1, Zenon
      <4> HIDE DEF D
      <4>3. QED
        BY <4>1, <4>2
    <3>4. Apart(done, r.todo)
      BY <1>apart, <2>1, Zenon
    <3>5. QED
      BY <3>1, <3>2, <3>3, <3>4, Zenon DEF Queued
  <2> HIDE DEF r
  <2>3. QED
    BY <1>2, <2>1, <2>2, Zenon DEF Queues
<1>19. q.seen \subseteq r.seen /\ child \in r.seen
  BY Zenon
<1>20. QED
  BY <1>1, <1>18, <1>19, Zenon DEF R

\* The blue children of a node, one after the other.
LEMMA EnqueueAllKeeps ==
    ASSUME NEW g, NEW P, NEW A, NEW H, Graph(g, P, A, H), NEW T, Tips(P, A, T),
           NEW done \in SUBSET DOMAIN P, NEW node \in done,
           NEW children \in SUBSET Children(P, T, node),
           NEW q \in Queues(A, done, Antichains(P, A))
    PROVE  /\ EnqueueAll(A, node, done, children, q) \in Queues(A, done, Antichains(P, A))
           /\ q.seen \subseteq EnqueueAll(A, node, done, children, q).seen
           /\ children \subseteq EnqueueAll(A, node, done, children, q).seen
<1> DEFINE X == Queues(A, done, Antichains(P, A))
           C == Children(P, T, node)
           s == elements(children)
           L == Len(s)
           step == [e \in X \X C |-> Enqueue(A, node, done, e[2], e[1])]
           Def(f) == f = [i \in 0..L |-> IF i = 0 THEN q
                                         ELSE Enqueue(A, node, done, s[i], f[i - 1])]
           after == CHOOSE f : Def(f)
<1>1. s \in Seq(C) /\ Elems(s) = children /\ L \in Nat
  <2>1. IsFiniteSet(DOMAIN P \cup {Virtual}) /\ DOMAIN P \cup {Virtual} \subseteq Nat
    <3>1. IsFiniteSet(DOMAIN P) /\ DOMAIN P \subseteq Nat /\ Virtual \in Nat
      BY PhantomAssumption DEF Graph, Virtual
    <3>2. QED
      BY <3>1, FS_AddElement, Zenon
  <2>2. children \in SUBSET (DOMAIN P \cup {Virtual})
    BY Zenon DEF Children
  <2>3. IsFiniteSet(children) /\ children \subseteq Nat
    BY <2>1, <2>2, FS_Subset, Zenon
  <2>4. s \in Seq(children) /\ Elems(s) = children
    BY <2>3, ElementsIs, Zenon
  <2> HIDE DEF s, C
  <2>5. children \subseteq C
    BY Zenon DEF C
  <2>6. QED
    BY <2>4, <2>5
<1> HIDE DEF s
<1>2. \A x \in X, c \in C : /\ Enqueue(A, node, done, c, x) \in X
                            /\ x.seen \subseteq Enqueue(A, node, done, c, x).seen
                            /\ c \in Enqueue(A, node, done, c, x).seen
  BY EnqueueKeeps, Zenon
<1> HIDE DEF X, C
<1>3. step \in [X \X C -> X]
  BY <1>2, Zenon
<1>4. \A x \in X, c \in C : step[<<x, c>>] = Enqueue(A, node, done, c, x)
  OBVIOUS
<1> HIDE DEF step
<1>5. q \in X
  BY Zenon DEF X
<1>6. PICK f : Follows(f, X, q, step, s)
  BY <1>1, <1>3, <1>5, AlongSequence, Zenon
<1>7. Def(f)
  <2>1. /\ f \in [0..L -> X]
        /\ \A n \in 0..L : f[n] = IF n = 0 THEN q ELSE step[<<f[n - 1], s[n]>>]
    BY <1>6, Zenon DEF Follows
  <2>2. ASSUME NEW n \in 0..L, n # 0 PROVE f[n] = Enqueue(A, node, done, s[n], f[n - 1])
    <3>1. n - 1 \in 0..L /\ s[n] \in C
      BY <1>1, <2>2
    <3>2. f[n - 1] \in X
      BY <2>1, <3>1, Zenon
    <3>3. f[n] = step[<<f[n - 1], s[n]>>]
      BY <2>1, <2>2, Zenon
    <3>4. QED
      BY <1>4, <3>1, <3>2, <3>3, Zenon
  <2>3. QED
    BY <2>1, <2>2, Zenon
<1>8. Def(after)
  <2> HIDE DEF Def
  <2>1. QED
    BY <1>7, Zenon
<1>9. EnqueueAll(A, node, done, children, q) = after[L]
  BY Zenon DEF EnqueueAll, s
<1> HIDE DEF after
<1>10. \A n \in 0..L : after[n] = IF n = 0 THEN q ELSE Enqueue(A, node, done, s[n], after[n - 1])
  BY <1>8, Zenon
<1> HIDE DEF Def
<1> DEFINE Good(n) == /\ after[n] \in X /\ q.seen \subseteq after[n].seen
                      /\ \A j \in 1..n : s[j] \in after[n].seen
           U == {n \in 0..L : Good(n)}
<1>11. 0 \in U
  BY <1>1, <1>5, <1>10
<1>12. ASSUME NEW n \in 1..L, n - 1 \in U PROVE n \in U
  <2>1. n \in 0..L /\ n # 0 /\ s[n] \in C /\ \A j \in 1..n : j = n \/ j \in 1..(n - 1)
    BY <1>1
  <2>2. after[n] = Enqueue(A, node, done, s[n], after[n - 1])
    BY <1>10, <2>1, Zenon
  <2>3. Good(n - 1)
    BY <1>12, Zenon
  <2>4. after[n] \in X /\ after[n - 1].seen \subseteq after[n].seen /\ s[n] \in after[n].seen
    BY <1>2, <2>1, <2>2, <2>3, Zenon
  <2>5. QED
    BY <2>1, <2>3, <2>4, Zenon
<1>13. Good(L)
  <2>1. \A n \in 0..L : n \in U
    <3> HIDE DEF U
    <3>1. QED
      BY <1>1, <1>11, <1>12, UpTo, Zenon
  <2>2. L \in 0..L
    BY <1>1
  <2>3. QED
    BY <2>1, <2>2, Zenon
<1>14. children \subseteq after[L].seen
  <2>1. DOMAIN s = 1..L
    BY <1>1
  <2>2. QED
    BY <1>1, <1>13, <2>1, Zenon DEF Elems
<1>15. QED
  BY <1>9, <1>13, <1>14, Zenon DEF X

-----------------------------------------------------------------------------
\* The loop of OrderDAG as a function of its state.
Ended(l) == l.todo = <<>> \/ Head(l.todo) = Virtual

Pass(P, A, T, B, l) ==
    LET node == Head(l.todo)
        q    == EnqueueAll(A, node, Elems(l.order) \cup {node},
                           B \cap Children(P, T, node),
                           [todo |-> Tail(l.todo), seen |-> l.seen])
    IN  [todo  |-> q.todo,
         seen  |-> q.seen,
         order |-> IF node \in Elems(l.order) THEN l.order ELSE Append(l.order, node)]

Begin(g) == [todo |-> <<g>>, seen |-> {g}, order |-> <<>>]

\* OrderDAG's loop starts with genesis queued and nothing ordered.
LEMMA BeginOK ==
    ASSUME NEW g, NEW P, NEW A, NEW H, Graph(g, P, A, H), NEW T, NEW B
    PROVE  LoopOK(g, P, A, T, B, Begin(g))
<1> DEFINE l == Begin(g)
<1>1. l.todo = <<g>> /\ l.seen = {g} /\ l.order = <<>>
  BY DEF Begin
<1>2. g \in DOMAIN P /\ DOMAIN A = DOMAIN P /\ Virtual \notin DOMAIN P /\ A[g] = {}
  BY PhantomAssumption DEF Graph
<1> HIDE DEF l
<1>3. Elems(l.order) = {} /\ Elems(l.todo) = {g} /\ l.order \in Seq(DOMAIN P)
      /\ l.todo \in Seq(DOMAIN A \cup {Virtual}) /\ DOMAIN l.order = {}
  BY <1>1, <1>2 DEF Elems
<1>4. \A k \in DOMAIN l.todo : l.todo[k] # Virtual
  BY <1>1, <1>2
<1>7. Apart(Elems(l.order), l.todo)
  BY <1>1, <1>3 DEF Apart
<1>5. Queued(A, Elems(l.order), l, Antichains(P, A))
  BY <1>1, <1>2, <1>3, <1>4, <1>7, Zenon DEF Queued
<1>6. QED
  BY <1>1, <1>3, <1>5, Zenon DEF LoopOK, l

\* One pass of the loop.
LEMMA PassOK ==
    ASSUME NEW g, NEW P, NEW A, NEW H, Graph(g, P, A, H), NEW T, Tips(P, A, T), NEW B,
           NEW l, LoopOK(g, P, A, T, B, l), ~Ended(l)
    PROVE  LoopOK(g, P, A, T, B, Pass(P, A, T, B, l))
<1> DEFINE D == DOMAIN P
           X == D \cup {Virtual}
           node == Head(l.todo)
           tail == Tail(l.todo)
           done == Elems(l.order) \cup {node}
           q0 == [todo |-> tail, seen |-> l.seen]
           C == B \cap Children(P, T, node)
           q == EnqueueAll(A, node, done, C, q0)
           order2 == IF node \in Elems(l.order) THEN l.order ELSE Append(l.order, node)
           r == [todo |-> q.todo, seen |-> q.seen, order |-> order2]
           R == Antichains(P, A)
<1>1. Pass(P, A, T, B, l) = r
  BY Zenon DEF Pass
<1>2. DOMAIN A = D /\ Virtual \notin D /\ A \in [D -> SUBSET D]
  BY PhantomAssumption DEF Graph
<1>3. /\ l.order \in Seq(D) /\ (\A i, j \in DOMAIN l.order : l.order[i] = l.order[j] => i = j)
      /\ l.todo \in Seq(X) /\ l.seen = Elems(l.order) \cup Elems(l.todo)
      /\ (R => \A x \in l.seen \ {Virtual} : A[x] \subseteq l.seen)
      /\ (R => \A k \in DOMAIN l.todo : l.todo[k] = Virtual =>
                 \A n \in D : n \in Elems(l.order) \/ \E j \in 1..(k - 1) : l.todo[j] = n)
      /\ g \in l.seen
      /\ (\A x \in Elems(l.order) : B \cap Children(P, T, x) \subseteq l.seen)
      /\ Apart(Elems(l.order), l.todo)
  BY <1>2, Zenon DEF LoopOK, Queued
<1>4. /\ l.todo # <<>> /\ node = l.todo[1] /\ node \in D
      /\ tail \in Seq(X) /\ Len(tail) = Len(l.todo) - 1 /\ Len(l.todo) \in Nat
      /\ DOMAIN tail = 1..Len(tail) /\ DOMAIN l.todo = 1..Len(l.todo) /\ 1 \in DOMAIN l.todo
      /\ \A i \in 1..Len(tail) : tail[i] = l.todo[i + 1]
  <2>1. l.todo # <<>> /\ node # Virtual
    BY Zenon DEF Ended
  <2>2. QED
    BY <1>3, <2>1, SMTT(30)
<1> HIDE DEF node, tail, R
<1>5. Elems(l.todo) = Elems(tail) \cup {node}
  <2>1. Elems(tail) \subseteq Elems(l.todo) /\ node \in Elems(l.todo)
    <3>1. ASSUME NEW i \in DOMAIN tail PROVE tail[i] \in Elems(l.todo)
      <4>1. i + 1 \in DOMAIN l.todo /\ tail[i] = l.todo[i + 1]
        BY <1>4, SMTT(30)
      <4>2. QED
        BY <4>1, Zenon DEF Elems
    <3>2. node \in Elems(l.todo)
      BY <1>4, Zenon DEF Elems
    <3>3. QED
      BY <3>1, <3>2, Zenon DEF Elems
  <2>2. ASSUME NEW i \in DOMAIN l.todo PROVE l.todo[i] \in Elems(tail) \cup {node}
    <3>1. CASE i = 1
      BY <1>4, <3>1, Zenon
    <3>2. CASE i # 1
      <4>1. i - 1 \in DOMAIN tail /\ (i - 1) + 1 = i
        BY <1>4, <3>2, SMTT(30)
      <4>2. tail[i - 1] = l.todo[i]
        BY <1>4, <4>1, Zenon
      <4>3. QED
        BY <4>1, <4>2, Zenon DEF Elems
    <3>3. QED
      BY <3>1, <3>2, Zenon
  <2>3. Elems(l.todo) \subseteq Elems(tail) \cup {node}
    BY <2>2, Zenon DEF Elems
  <2>4. QED
    BY <2>1, <2>3, Zenon
<1>6. Elems(l.order) \in SUBSET D /\ Elems(tail) \in SUBSET X
  BY <1>3, <1>4, SMTT(30), Z3T(60) DEF Elems
<1>7. q0 \in Queues(A, done, R)
  <2>1. q0 \in [todo : Seq(X), seen : SUBSET X] /\ q0.todo = tail /\ q0.seen = l.seen
    BY <1>3, <1>4, <1>5, <1>6, ZenonT(60)
  <2> HIDE DEF q0
  <2>2. l.seen = done \cup Elems(tail)
    BY <1>3, <1>5, Zenon
  <2>3. ASSUME R, NEW k \in DOMAIN tail, tail[k] = Virtual, NEW n \in D, n \notin done
        PROVE  \E j \in 1..(k - 1) : tail[j] = n
    <3>1. k + 1 \in DOMAIN l.todo /\ l.todo[k + 1] = Virtual /\ (k + 1) - 1 = k /\ k \in Nat
      BY <1>4, <2>3, SMTT(30), Z3T(60)
    <3>2. PICK j \in 1..k : l.todo[j] = n
      <4>1. \E j \in 1..((k + 1) - 1) : l.todo[j] = n
        BY <1>3, <2>3, <3>1, Zenon
      <4>2. QED
        BY <3>1, <4>1, Zenon
    <3>3. j # 1
      BY <1>4, <2>3, <3>2, Zenon
    <3>4. j - 1 \in 1..(k - 1) /\ j - 1 \in 1..Len(tail) /\ (j - 1) + 1 = j
      BY <1>4, <3>1, <3>2, <3>3, SMTT(60)
    <3>5. tail[j - 1] = n
      BY <1>4, <3>2, <3>4, Zenon
    <3>6. QED
      BY <3>4, <3>5, Zenon
  <2>6. Apart(done, tail)
    <3>1. \A i \in DOMAIN tail : /\ i + 1 \in DOMAIN l.todo /\ i + 1 # 1 /\ i \in Int
                                  /\ tail[i] = l.todo[i + 1]
      BY <1>4, SMTT(60)
    <3>5. /\ \A k \in DOMAIN l.todo : l.todo[k] \notin Elems(l.order)
          /\ \A j, k \in DOMAIN l.todo : l.todo[j] = l.todo[k] => j = k
          /\ 1 \in DOMAIN l.todo /\ node = l.todo[1]
      BY <1>3, <1>4, Zenon DEF Apart
    <3>2. \A i \in DOMAIN tail : tail[i] # node /\ tail[i] \notin Elems(l.order)
      BY <3>1, <3>5, ZenonT(60)
    <3>3. ASSUME NEW i \in DOMAIN tail, NEW j \in DOMAIN tail, tail[i] = tail[j] PROVE i = j
      <4>1. i + 1 = j + 1
        BY <3>1, <3>3, <3>5, ZenonT(60)
      <4>2. QED
        BY <3>1, <4>1
    <3>4. QED
      BY <3>2, <3>3, Zenon DEF Apart
  <2>4. Queued(A, done, q0, R)
    <3>1. R => \A k \in DOMAIN tail : tail[k] = Virtual =>
                 \A n \in D : n \in done \/ \E j \in 1..(k - 1) : tail[j] = n
      BY <2>3, Zenon
    <3>2. /\ q0.todo \in Seq(DOMAIN A \cup {Virtual}) /\ q0.seen = done \cup Elems(q0.todo)
          /\ R => \A x \in q0.seen \ {Virtual} : A[x] \subseteq q0.seen
      BY <1>2, <1>3, <1>4, <2>1, <2>2, Zenon
    <3> HIDE DEF D, done
    <3>3. R => \A k \in DOMAIN q0.todo : q0.todo[k] = Virtual =>
                 \A n \in DOMAIN A : n \in done \/ \E j \in 1..(k - 1) : q0.todo[j] = n
      BY <1>2, <2>1, <3>1, SMTT(30), Z3T(60)
    <3>4. Apart(done, q0.todo)
      BY <2>6, <2>1, Zenon
    <3>5. QED
      BY <3>2, <3>3, <3>4, Zenon DEF Queued
  <2>5. QED
    BY <1>2, <2>1, <2>4, Zenon DEF Queues
<1>8. q \in Queues(A, done, R) /\ l.seen \subseteq q.seen /\ C \subseteq q.seen
  <2>1. q0.seen = l.seen
    OBVIOUS
  <2>2. done \in SUBSET D /\ node \in done /\ C \in SUBSET Children(P, T, node)
    BY <1>4, <1>6, Zenon
  <2> HIDE DEF q0, done, C
  <2>3. QED
    BY <1>7, <2>1, <2>2, EnqueueAllKeeps, Zenon DEF R
<1> HIDE DEF q
<1>9. Queued(A, done, q, R)
  BY <1>8, Zenon DEF Queues
<1>10. /\ order2 \in Seq(D) /\ Elems(order2) = done
       /\ \A i, j \in DOMAIN order2 : order2[i] = order2[j] => i = j
  <2>1. CASE node \in Elems(l.order)
    BY <1>3, <2>1, ZenonT(60)
  <2>2. CASE node \notin Elems(l.order)
    <3> DEFINE o == l.order
    <3>1. o \in Seq(D) /\ node \in D /\ order2 = Append(o, node) /\ node \notin Elems(o)
          /\ \A i, j \in DOMAIN o : o[i] = o[j] => i = j
      BY <1>3, <1>4, <2>2, Zenon
    <3> HIDE DEF o, order2
    <3>2. /\ order2 \in Seq(D) /\ DOMAIN order2 = 1..(Len(o) + 1) /\ Len(o) \in Nat
          /\ order2[Len(o) + 1] = node /\ \A i \in 1..Len(o) : order2[i] = o[i]
          /\ DOMAIN o = 1..Len(o)
      BY <3>1
    <3>3. \A i \in 1..Len(o) : o[i] # node
      BY <3>1, <3>2, Zenon DEF Elems
    <3>4. \A i, j \in DOMAIN order2 : order2[i] = order2[j] => i = j
      BY <3>1, <3>2, <3>3, SMTT(30)
    <3>5. Elems(order2) = Elems(o) \cup {node}
      BY <3>2 DEF Elems
    <3>6. QED
      BY <3>2, <3>4, <3>5, Zenon DEF o
  <2>3. QED
    BY <2>1, <2>2, Zenon
<1> HIDE DEF order2
<1>11. r.todo = q.todo /\ r.seen = q.seen /\ r.order = order2
  OBVIOUS
<1> HIDE DEF r
<1>12. Queued(A, Elems(r.order), r, R)
  <2> HIDE DEF done
  <2>1. /\ q.todo \in Seq(DOMAIN A \cup {Virtual}) /\ q.seen = done \cup Elems(q.todo)
        /\ R => \A x \in q.seen \ {Virtual} : A[x] \subseteq q.seen
        /\ R => \A k \in DOMAIN q.todo : q.todo[k] = Virtual =>
                  \A n \in DOMAIN A : n \in done \/ \E j \in 1..(k - 1) : q.todo[j] = n
        /\ Apart(done, q.todo)
    BY <1>9, Zenon DEF Queued
  <2>2. Elems(r.order) = done
    BY <1>10, <1>11, Zenon
  <2>3. QED
    BY <1>11, <2>1, <2>2, SMTT(30), Z3T(60) DEF Queued
<1>13. \A x \in Elems(r.order) : B \cap Children(P, T, x) \subseteq r.seen
  BY <1>3, <1>8, <1>10, <1>11, Zenon
<1>14. LoopOK(g, P, A, T, B, r)
  BY <1>3, <1>8, <1>10, <1>11, <1>12, <1>13, Zenon DEF LoopOK, R
<1>15. QED
  BY <1>1, <1>14, Zenon DEF r

\* The blue set of the graph has a way back to genesis from a tip.
LEMMA BlueWay ==
    ASSUME NEW g, NEW P, NEW A, NEW H, Graph(g, P, A, H), NEW T, Tips(P, A, T),
           NEW f, Fresh(g, P, A, f)
    PROVE  \E t \in T : WayBack(g, P, t, BlueSet(g, A, DOMAIN P, T, f))
<1> DEFINE D == DOMAIN P
           B == BlueSet(g, A, D, T, f)
<1>1. IsFiniteSet(D) /\ D \subseteq Nat /\ T \in SUBSET D /\ T # {}
  BY PhantomAssumption DEF Graph, Tips
<1>2. \A n \in D : f[n] \in SUBSET (A[n] \cup {n}) /\ WayBack(g, P, n, f[n])
  BY FreshIs, Zenon
<1>3. CASE D = {g}
  <2>1. g \in T /\ B = {g}
    BY <1>1, <1>3, Zenon DEF BlueSet
  <2>2. WayBack(g, P, g, {g})
    BY Zenon DEF WayBack
  <2>3. QED
    BY <2>1, <2>2, Zenon
<1>4. CASE D # {g}
  <2>1. \A t \in T : f[t] \in SUBSET D
    <3> SUFFICES ASSUME NEW t \in T PROVE f[t] \in SUBSET D
      OBVIOUS
    <3>1. t \in D /\ A[t] \in SUBSET D
      BY <1>1 DEF Graph
    <3>2. QED
      BY <1>2, <3>1, Zenon
  <2>2. \E t \in T : f[t] \subseteq B
    BY <1>1, <1>4, <2>1, BlueSetIs, Zenon
  <2> HIDE DEF B
  <2>3. PICK t \in T : f[t] \subseteq B
    BY <2>2, Zenon
  <2>4. WayBack(g, P, t, f[t])
    BY <1>1, <1>2, <2>3, Zenon
  <2>5. WayBack(g, P, t, B)
    BY <2>3, <2>4, Zenon DEF WayBack
  <2>6. QED
    BY <2>3, <2>5, Zenon DEF B
<1>5. QED
  BY <1>3, <1>4

\* When the loop ends, no node has been ordered twice and, with antichains of
\* parents, every node has been: the queue does not run dry before VIRTUAL is at
\* its head, because the way back from a blue tip to genesis is walked from
\* genesis to the tip.
LEMMA EndOK ==
    ASSUME NEW g, NEW P, NEW A, NEW H, Graph(g, P, A, H), NEW T, Tips(P, A, T),
           NEW f, Fresh(g, P, A, f), NEW B,
           B = BlueSet(g, A, DOMAIN P, T, f) \cup {Virtual},
           NEW l, LoopOK(g, P, A, T, B, l), Ended(l)
    PROVE  /\ Elems(l.order) \subseteq DOMAIN P
           /\ Len(l.order) = Cardinality(Elems(l.order))
           /\ Antichains(P, A) => Elems(l.order) = DOMAIN P
<1> DEFINE D == DOMAIN P
           O == Elems(l.order)
<1>1. DOMAIN A = D /\ Virtual \notin D /\ P \in [D -> SUBSET D]
  BY PhantomAssumption DEF Graph
<1>2. /\ l.order \in Seq(D) /\ (\A i, j \in DOMAIN l.order : l.order[i] = l.order[j] => i = j)
      /\ l.todo \in Seq(D \cup {Virtual}) /\ l.seen = O \cup Elems(l.todo)
      /\ (Antichains(P, A) =>
            \A k \in DOMAIN l.todo : l.todo[k] = Virtual =>
              \A n \in D : n \in O \/ \E j \in 1..(k - 1) : l.todo[j] = n)
      /\ g \in l.seen
      /\ (\A x \in O : B \cap Children(P, T, x) \subseteq l.seen)
  BY <1>1, Zenon DEF LoopOK, Queued
<1>3. O \in SUBSET D
  BY <1>2, SMTT(30), Z3T(60) DEF Elems
<1>4. l.todo # <<>>
  <2> SUFFICES ASSUME l.todo = <<>> PROVE FALSE
    BY Zenon
  <2>1. l.seen = O
    BY <1>2, SMTT(30), Z3T(60) DEF Elems
  <2> HIDE DEF O
  <2>2. PICK t \in T : WayBack(g, P, t, BlueSet(g, A, D, T, f))
    BY BlueWay, Zenon
  <2>3. PICK C \in SUBSET BlueSet(g, A, D, T, f) :
               t \in C /\ \A x \in C \ {g} : P[x] \cap C # {}
    BY <2>2, Zenon DEF WayBack
  <2>4. C \subseteq B /\ Virtual \in B
    BY <2>3, Zenon
  <2> DEFINE G == {n \in D : n \in C => n \in O}
  <2>5. ASSUME NEW n \in D, \A p \in P[n] : p \in G PROVE n \in G
    <3> SUFFICES ASSUME n \in C, n # g PROVE n \in O
      BY <1>2, <2>1, Zenon
    <3>1. PICK p \in P[n] : p \in C
      BY <2>3, Zenon
    <3>2. p \in O
      BY <2>5, <3>1, Zenon
    <3>3. n \in Children(P, T, p)
      BY <3>1, Zenon DEF Children
    <3>4. QED
      BY <1>2, <2>1, <2>4, <3>2, <3>3, Zenon
  <2>6. \A n \in D : n \in G
    <3> HIDE DEF G
    <3>1. QED
      BY <2>5, ByHeight, Zenon
  <2>7. t \in O
    BY <2>2, <2>3, <2>6, Zenon DEF Tips
  <2>8. Virtual \in Children(P, T, t)
    BY <2>2, Zenon DEF Children
  <2>9. Virtual \in O
    BY <1>2, <2>1, <2>4, <2>7, <2>8, Zenon
  <2>10. QED
    BY <1>1, <1>3, <2>9, Zenon
<1>5. 1 \in DOMAIN l.todo /\ l.todo[1] = Virtual /\ 1..(1 - 1) = {}
  <2>1. Head(l.todo) = Virtual
    BY <1>4, Zenon DEF Ended
  <2>2. QED
    BY <1>2, <1>4, <2>1, SMTT(30), Z3T(60)
<1>6. Antichains(P, A) => O = D
  BY <1>2, <1>3, <1>5, Zenon
<1>7. Len(l.order) = Cardinality(O)
  <2> DEFINE o == l.order
             N == Len(o)
  <2>1. N \in Nat /\ o \in [1..N -> D] /\ DOMAIN o = 1..N
    BY <1>2, SMTT(30), Z3T(60)
  <2>2. /\ \A x \in O : \E i \in 1..N : o[i] = x
        /\ \A i \in 1..N : o[i] \in O
    BY <2>1, Zenon DEF Elems
  <2>3. \A i, j \in 1..N : o[i] = o[j] => i = j
    BY <1>2, <2>1, Zenon
  <2> HIDE DEF N, o, O
  <2>4. o \in Bijection(1..N, O)
    <3>1. o \in [1..N -> O]
      BY <2>1, <2>2
    <3>2. QED
      BY <2>2, <2>3, <3>1, Zenon DEF Bijection, Injection, IsInjective, Surjection
  <2>5. ExistsBijection(1..N, O)
    BY <2>4, Zenon DEF ExistsBijection
  <2>6. IsFiniteSet(1..N) /\ Cardinality(1..N) = N
    BY <2>1, FS_Interval, SMTT(30)
  <2>7. Cardinality(O) = N
    BY <2>5, <2>6, FS_Bijection, Zenon
  <2>8. QED
    BY <2>7, Zenon DEF N, o
<1>8. QED
  BY <1>3, <1>6, <1>7, Zenon

-----------------------------------------------------------------------------
\* The graph does not change.
LEMMA SameDag ==
    ASSUME DagInv, UNCHANGED dag
    PROVE  /\ DagInv' /\ FreshBlue' = FreshBlue /\ TipSet' = TipSet /\ Nodes' = Nodes
           /\ genesis' = genesis /\ parents' = parents /\ past' = past
<1>1. /\ genesis' = genesis /\ parents' = parents /\ past' = past /\ height' = height
      /\ tips' = tips
  BY DEF dag
<1>2. TipSet' = TipSet /\ Nodes' = Nodes /\ FreshBlue' = FreshBlue
  BY <1>1, Zenon DEF TipSet, Nodes, FreshBlue
<1>3. QED
  BY <1>1, <1>2, Zenon DEF DagInv

\* A pass of the loop is Visit.
LEMMA VisitIs ==
    ASSUME Visit
    PROVE  /\ Loop' = Pass(parents, past, TipSet, blue, Loop) /\ ~Ended(Loop)
           /\ pc \in {"order", "reload"}
           /\ UNCHANGED <<dag, blueCache, orderCache, blue, nodeOrder, pc, restarts>>
<1>1. Loop.todo = todo /\ Loop.seen = seen /\ Loop.order = order
  BY DEF Loop
<1>2. Ordered = Elems(order)
  BY Zenon DEF Ordered, Elems
<1>3. ~Ended(Loop)
  BY <1>1, Zenon DEF Visit, Ended
<1> DEFINE node == Head(todo)
           q == EnqueueAll(past, node, Elems(order) \cup {node},
                           blue \cap Children(parents, TipSet, node),
                           [todo |-> Tail(todo), seen |-> seen])
<1>4. /\ order' = IF node \in Elems(order) THEN order ELSE Append(order, node)
      /\ todo' = q.todo /\ seen' = q.seen
  BY <1>2, Zenon DEF Visit
<1>5. Pass(parents, past, TipSet, blue, Loop) = [todo |-> todo', seen |-> seen', order |-> order']
  BY <1>1, <1>4, Zenon DEF Pass
<1>6. QED
  BY <1>3, <1>5, Zenon DEF Loop, Visit

\* AddBlock colours the larger graph and begins its order.
LEMMA AddStep ==
    ASSUME Inv, NEW n \in Id, NEW ps \in SUBSET Nodes, AddBlock(n, ps)
    PROVE  Inv'
<1>1. /\ DagInv' /\ ColourInv'
      /\ ~UseOrderCache \/ DOMAIN orderCache = {} => FromGenesis
  BY AddDag, Zenon DEF Inv
<1>2. genesis' = genesis /\ orderCache' = orderCache /\ pc' = "order"
  BY Zenon DEF AddBlock
<1>3. ASSUME DOMAIN orderCache' = {} PROVE LoopInv'
  <2>1. FromGenesis
    BY <1>1, <1>2, <1>3, Zenon
  <2>2. Loop' = Begin(genesis')
    BY <1>2, <2>1, Zenon DEF FromGenesis, Loop, Begin
  <2>3. LoopOK(genesis', parents', past', TipSet', blue', Begin(genesis'))
    BY <1>1, BeginOK, Zenon DEF DagInv
  <2>4. QED
    BY <2>2, <2>3, Zenon DEF LoopInv
<1>4. OrderComplete'
  BY <1>2 DEF OrderComplete
<1>5. QED
  BY <1>1, <1>3, <1>4, Zenon DEF Inv, OrderInv

\* Restart colours the same graph again and begins its order.
LEMMA RestartStep ==
    ASSUME Inv, Restart
    PROVE  Inv'
<1>1. DagInv' /\ ColourInv' /\ FromGenesis
  BY RestartDag, Zenon DEF Inv
<1>2. genesis' = genesis /\ pc' = "reload"
  BY Zenon DEF Restart
<1>3. LoopInv'
  <2>2. Loop' = Begin(genesis')
    BY <1>1, <1>2, Zenon DEF FromGenesis, Loop, Begin
  <2>3. LoopOK(genesis', parents', past', TipSet', blue', Begin(genesis'))
    BY <1>1, BeginOK, Zenon DEF DagInv
  <2>4. QED
    BY <2>2, <2>3, Zenon DEF LoopInv
<1>4. OrderComplete'
  BY <1>2 DEF OrderComplete
<1>5. QED
  BY <1>1, <1>3, <1>4, Zenon DEF Inv, OrderInv

\* A pass through OrderDAG's loop keeps what LoopInv says of its queue.
LEMMA VisitStep ==
    ASSUME Inv, Visit
    PROVE  Inv'
<1>1. /\ Loop' = Pass(parents, past, TipSet, blue, Loop) /\ ~Ended(Loop)
      /\ pc \in {"order", "reload"}
      /\ UNCHANGED <<dag, blueCache, orderCache, blue, nodeOrder, pc, restarts>>
  BY VisitIs, Zenon
<1>2. blueCache' = blueCache /\ orderCache' = orderCache /\ blue' = blue
      /\ nodeOrder' = nodeOrder /\ pc' = pc /\ UNCHANGED dag
  BY <1>1
<1>3. /\ DagInv' /\ FreshBlue' = FreshBlue /\ TipSet' = TipSet /\ Nodes' = Nodes
      /\ genesis' = genesis /\ parents' = parents /\ past' = past
  BY <1>2, SameDag, Zenon DEF Inv
<1>4. ColourInv'
  BY <1>2, <1>3, Zenon DEF Inv, ColourInv
<1>5. ASSUME DOMAIN orderCache' = {} PROVE LoopInv'
  <2>1. LoopOK(genesis, parents, past, TipSet, blue, Loop)
    BY <1>1, <1>2, <1>5, Zenon DEF Inv, OrderInv, LoopInv
  <2>2. Graph(genesis, parents, past, height) /\ Tips(parents, past, TipSet)
    BY Zenon DEF Inv, DagInv
  <2>3. LoopOK(genesis, parents, past, TipSet, blue, Pass(parents, past, TipSet, blue, Loop))
    BY <1>1, <2>1, <2>2, PassOK, Zenon
  <2>4. QED
    BY <1>1, <1>2, <1>3, <2>3, Zenon DEF LoopInv
<1>6. OrderComplete'
  BY <1>1, <1>2 DEF OrderComplete
<1>7. QED
  BY <1>3, <1>4, <1>5, <1>6, Zenon DEF Inv, OrderInv

\* An order that began at genesis is complete when the loop ends.
LEMMA FinishStep ==
    ASSUME Inv, Finish
    PROVE  Inv'
<1>1. /\ pc \in {"order", "reload"} /\ Ended(Loop) /\ nodeOrder' = order /\ pc' = "ready"
      /\ UNCHANGED dag /\ blueCache' = blueCache /\ blue' = blue
      /\ DOMAIN orderCache' = {} => DOMAIN orderCache = {}
  <2>1. Loop.todo = todo
    BY DEF Loop
  <2>2. \A h, x : DOMAIN With(orderCache, h, x) # {}
    BY DEF With
  <2>3. DOMAIN orderCache' = {} => orderCache' = orderCache
    BY <2>2, Zenon DEF Finish
  <2>4. QED
    BY <2>1, <2>3, Zenon DEF Finish, Ended, loop
<1>2. /\ DagInv' /\ FreshBlue' = FreshBlue /\ TipSet' = TipSet /\ Nodes' = Nodes
      /\ genesis' = genesis /\ parents' = parents /\ past' = past
  BY <1>1, SameDag, Zenon DEF Inv
<1>3. pc # "ready"
  BY <1>1
<1>4. blue = BlueSet(genesis, past, Nodes, TipSet, FreshBlue) \cup {Virtual}
  BY <1>3, Zenon DEF Inv, ColourInv
<1>5. ColourInv'
  BY <1>1, <1>2, <1>4, Zenon DEF Inv, ColourInv
<1>6. ASSUME DOMAIN orderCache' = {} PROVE OrderComplete'
  <2>1. LoopOK(genesis, parents, past, TipSet, blue, Loop)
    BY <1>1, <1>6, Zenon DEF Inv, OrderInv, LoopInv
  <2>2. /\ Graph(genesis, parents, past, height) /\ Tips(parents, past, TipSet)
        /\ Fresh(genesis, parents, past, FreshBlue)
    BY Zenon DEF Inv, DagInv, ColourInv
  <2>3. /\ Elems(Loop.order) \subseteq DOMAIN parents
        /\ Len(Loop.order) = Cardinality(Elems(Loop.order))
        /\ Antichains(parents, past) => Elems(Loop.order) = DOMAIN parents
    BY <1>1, <1>4, <2>1, <2>2, EndOK, Zenon DEF Nodes
  <2>4. Loop.order = order
    BY DEF Loop
  <2>5. Reduced' = Antichains(parents, past)
    BY <1>2, Zenon DEF Reduced, Antichains, Nodes
  <2>6. /\ Elems(nodeOrder') \subseteq Nodes'
        /\ Len(nodeOrder') = Cardinality(Elems(nodeOrder'))
        /\ Reduced' => Elems(nodeOrder') = Nodes'
    BY <1>1, <1>2, <2>3, <2>4, <2>5, Zenon DEF Nodes
  <2>7. QED
    BY <2>6, Zenon DEF OrderComplete, Elems
<1>7. pc' \notin {"order", "reload"}
  BY <1>1
<1>8. QED
  BY <1>2, <1>5, <1>6, <1>7, Zenon DEF Inv, OrderInv

\* The invariant holds in every reachable state.
THEOREM PhantomInvariance == Spec => []Inv
<1>1. Init => Inv
  BY InitHolds
<1>2. Inv /\ [Next]_vars => Inv'
  <2> SUFFICES ASSUME Inv, [Next]_vars PROVE Inv'
    OBVIOUS
  <2>1. CASE \E n \in Id, ps \in SUBSET Nodes : AddBlock(n, ps)
    BY <2>1, AddStep, Zenon
  <2>2. CASE Restart
    BY <2>2, RestartStep, Zenon
  <2>3. CASE Visit
    BY <2>3, VisitStep, Zenon
  <2>4. CASE Finish
    BY <2>4, FinishStep, Zenon
  <2>5. CASE UNCHANGED vars
    <3>1. UNCHANGED dag /\ blueCache' = blueCache /\ orderCache' = orderCache /\ blue' = blue
          /\ todo' = todo /\ seen' = seen /\ order' = order
          /\ nodeOrder' = nodeOrder /\ pc' = pc
      BY <2>5 DEF vars, dag
    <3>2. /\ DagInv' /\ FreshBlue' = FreshBlue /\ TipSet' = TipSet /\ Nodes' = Nodes
          /\ genesis' = genesis /\ parents' = parents /\ past' = past
      BY <3>1, SameDag, Zenon DEF Inv
    <3>3. ColourInv'
      BY <3>1, <3>2, Zenon DEF Inv, ColourInv
    <3>4. Loop' = Loop
      BY <3>1, Zenon DEF Loop
    <3>5. LoopInv => LoopInv'
      BY <3>1, <3>2, <3>4, Zenon DEF LoopInv
    <3>6. OrderComplete => OrderComplete'
      BY <3>1, <3>2, Zenon DEF OrderComplete, Reduced
    <3>7. QED
      BY <3>1, <3>2, <3>3, <3>5, <3>6, Zenon DEF Inv, OrderInv
  <2>6. QED
    BY <2>1, <2>2, <2>3, <2>4, <2>5, Zenon DEF Next
<1>3. QED
  BY <1>1, <1>2, PTL DEF Spec

\* A blue set in the cache is the one that colouring the block's past from
\* nothing gives, for every coloringK and however the graph grew
\* (calculateBlueSet adds the anticone to a clone of the stored set).
THEOREM CachedBlueSetsAlwaysExact == Spec => []CachedBlueSetsExact
<1>1. Inv => CachedBlueSetsExact
  BY Zenon DEF Inv, ColourInv, CachedBlueSetsExact, FreshBlue, NoCache
<1>2. QED
  BY <1>1, PhantomInvariance, PTL

\* Until the order cache has its first entry, OrderDAG lists no block twice and,
\* on a graph in which no block has a block and an ancestor of it as parents,
\* every block.
THEOREM OrderAlwaysComplete == Spec => [](DOMAIN orderCache = {} => OrderComplete)
<1>1. Inv => (DOMAIN orderCache = {} => OrderComplete)
  BY Zenon DEF Inv, OrderInv
<1>2. QED
  BY <1>1, PhantomInvariance, PTL

-----------------------------------------------------------------------------
\* A pass of the loop lists a block that was not listed yet, and no pass is left
\* once every block is.
LEMMA PassLists ==
    ASSUME NEW g, NEW P, NEW A, NEW H, Graph(g, P, A, H), NEW T, Tips(P, A, T), NEW B,
           NEW l, LoopOK(g, P, A, T, B, l), ~Ended(l)
    PROVE  /\ Head(l.todo) \notin Elems(l.order)
           /\ Pass(P, A, T, B, l).order = Append(l.order, Head(l.todo))
           /\ Len(l.order) < Cardinality(DOMAIN P)
<1> DEFINE D == DOMAIN P
           node == Head(l.todo)
           o == l.order
<1>1. /\ DOMAIN A = D /\ IsFiniteSet(D) /\ Virtual \notin D
  BY PhantomAssumption DEF Graph
<1>2. /\ o \in Seq(D) /\ (\A i, j \in DOMAIN o : o[i] = o[j] => i = j)
      /\ l.todo \in Seq(D \cup {Virtual}) /\ Apart(Elems(o), l.todo)
      /\ l.todo # <<>> /\ node # Virtual
  BY <1>1, Zenon DEF LoopOK, Queued, Ended
<1>3. 1 \in DOMAIN l.todo /\ node = l.todo[1] /\ node \in D
  <2> DEFINE t == l.todo
  <2>1. t \in Seq(D \cup {Virtual}) /\ t # <<>> /\ Head(t) # Virtual
    BY <1>2, Zenon
  <2> HIDE DEF t
  <2>2. 1 \in DOMAIN t /\ Head(t) = t[1] /\ Head(t) \in D \cup {Virtual}
    BY <2>1
  <2>3. QED
    BY <2>1, <2>2, Zenon DEF t
<1>4. node \notin Elems(o)
  BY <1>2, <1>3, Zenon DEF Apart
<1>5. Pass(P, A, T, B, l).order = Append(o, node)
  BY <1>4, Zenon DEF Pass
<1> HIDE DEF node, o, D
<1>6. Len(o) < Cardinality(D)
  <2> DEFINE S == D \ {node}
             K0 == 1..Len(o)
  <2>1. Len(o) \in Nat /\ DOMAIN o = K0 /\ \A i \in K0 : o[i] \in D /\ o[i] # node
    <3>1. \A i \in DOMAIN o : o[i] # node
      BY <1>4, Zenon DEF Elems
    <3>2. QED
      BY <1>2, <3>1
  <2>2. IsFiniteSet(S) /\ Cardinality(S) = Cardinality(D) - 1 /\ Cardinality(D) \in Nat
    BY <1>1, <1>3, FS_RemoveElement, FS_CardinalityType, Zenon
  <2>3. IsFiniteSet(K0) /\ Cardinality(K0) = Len(o)
    BY <2>1, FS_Interval, SMTT(60)
  <2>4. o \in Injection(K0, S)
    <3>1. o \in [K0 -> S]
      BY <1>2, <2>1
    <3>2. QED
      BY <1>2, <2>1, <3>1, Zenon DEF Injection, IsInjective
  <2> HIDE DEF S, K0
  <2>5. Cardinality(K0) <= Cardinality(S)
    BY <2>2, <2>4, FS_Injection
  <2>6. QED
    BY <2>1, <2>2, <2>3, <2>5, SMTT(30)
<1>7. QED
  BY <1>4, <1>5, <1>6, Zenon DEF node, o, D

\* OrderDAG's loop makes at most one pass for each block, and so it ends: a pass
\* takes a block that is not in the order yet, puts it there and nothing else,
\* and the order never has more blocks than the graph.  The test for a block that
\* is already ordered never succeeds, until the order cache has its first entry.
THEOREM OnePassPerBlock ==
    Spec => [][DOMAIN orderCache = {} /\ Visit =>
                 /\ Head(todo) \notin Ordered
                 /\ order' = Append(order, Head(todo))
                 /\ Len(order) < Cardinality(Nodes)]_vars
<1>1. Inv /\ [Next]_vars =>
        [DOMAIN orderCache = {} /\ Visit =>
           /\ Head(todo) \notin Ordered
           /\ order' = Append(order, Head(todo))
           /\ Len(order) < Cardinality(Nodes)]_vars
  <2> SUFFICES ASSUME Inv, DOMAIN orderCache = {}, Visit
               PROVE  /\ Head(todo) \notin Ordered
                      /\ order' = Append(order, Head(todo))
                      /\ Len(order) < Cardinality(Nodes)
    BY Zenon
  <2>1. /\ Loop' = Pass(parents, past, TipSet, blue, Loop) /\ ~Ended(Loop)
        /\ pc \in {"order", "reload"}
    BY VisitIs, Zenon
  <2>2. /\ Graph(genesis, parents, past, height) /\ Tips(parents, past, TipSet)
        /\ LoopOK(genesis, parents, past, TipSet, blue, Loop)
    BY <2>1, Zenon DEF Inv, DagInv, OrderInv, LoopInv
  <2>3. /\ Head(Loop.todo) \notin Elems(Loop.order)
        /\ Pass(parents, past, TipSet, blue, Loop).order = Append(Loop.order, Head(Loop.todo))
        /\ Len(Loop.order) < Cardinality(DOMAIN parents)
    BY <2>1, <2>2, PassLists, Zenon
  <2>4. Loop.todo = todo /\ Loop.order = order /\ Loop'.order = order'
    BY DEF Loop
  <2>5. Ordered = Elems(order)
    BY Zenon DEF Ordered, Elems
  <2>6. QED
    BY <2>1, <2>3, <2>4, <2>5, Zenon DEF Nodes
<1>2. QED
  BY <1>1, PhantomInvariance, PTL DEF Spec

-----------------------------------------------------------------------------
\* s is what the first k passes of the loop go through.
Run(g, P, A, T, B, k, s) ==
    /\ k \in Nat /\ s[0] = Begin(g)
    /\ \A i \in 1..k : ~Ended(s[i - 1]) /\ s[i] = Pass(P, A, T, B, s[i - 1])

\* The loop, begun from genesis, gets to l.
Reached(g, P, A, T, B, l) == \E k, s : Run(g, P, A, T, B, k, s) /\ s[k] = l

\* The loop's first state is reached.
LEMMA ReachedBegin ==
    ASSUME NEW g, NEW P, NEW A, NEW T, NEW B
    PROVE  Reached(g, P, A, T, B, Begin(g))
<1> DEFINE s == [i \in {0} |-> Begin(g)]
<1>1. s[0] = Begin(g) /\ 0 \in Nat /\ 1..0 = {}
  OBVIOUS
<1> HIDE DEF s
<1>2. Run(g, P, A, T, B, 0, s)
  BY <1>1, Zenon DEF Run
<1>3. QED
  BY <1>1, <1>2, Zenon DEF Reached

\* With a state that is not the last one, the next one is reached too.
LEMMA ReachedPass ==
    ASSUME NEW g, NEW P, NEW A, NEW T, NEW B, NEW l,
           Reached(g, P, A, T, B, l), ~Ended(l)
    PROVE  Reached(g, P, A, T, B, Pass(P, A, T, B, l))
<1>1. PICK k, s : Run(g, P, A, T, B, k, s) /\ s[k] = l
  BY Zenon DEF Reached
<1> DEFINE r == [i \in 0..(k + 1) |-> IF i = k + 1 THEN Pass(P, A, T, B, l) ELSE s[i]]
<1>2. /\ k \in Nat /\ s[0] = Begin(g)
      /\ \A i \in 1..k : ~Ended(s[i - 1]) /\ s[i] = Pass(P, A, T, B, s[i - 1])
  BY <1>1, Zenon DEF Run
<1>3. k + 1 \in Nat /\ 0 \in 0..(k + 1) /\ 0 # k + 1 /\ k + 1 \in 0..(k + 1)
  BY <1>2
<1>4. r[0] = s[0] /\ r[k + 1] = Pass(P, A, T, B, l) /\ \A i \in 0..k : r[i] = s[i]
  BY <1>2, <1>3, SMTT(30)
<1> HIDE DEF r
<1>5. ASSUME NEW i \in 1..(k + 1)
      PROVE  ~Ended(r[i - 1]) /\ r[i] = Pass(P, A, T, B, r[i - 1])
  <2>1. i - 1 \in 0..k /\ (i = k + 1 \/ i \in 1..k) /\ (i \in 1..k => i \in 0..k)
        /\ (i = k + 1 => i - 1 = k)
    BY <1>2
  <2>2. CASE i = k + 1
    BY <1>1, <1>4, <2>1, <2>2, Zenon
  <2>3. CASE i \in 1..k
    BY <1>2, <1>4, <2>1, <2>3, Zenon
  <2>4. QED
    BY <2>1, <2>2, <2>3, Zenon
<1>6. Run(g, P, A, T, B, k + 1, r)
  BY <1>2, <1>3, <1>4, <1>5, Zenon DEF Run
<1>7. QED
  BY <1>4, <1>6, Zenon DEF Reached

\* Two runs of the loop go through the same states, so that the second one
\* ends where the first one does.
LEMMA RunsAgree ==
    ASSUME NEW g, NEW P, NEW A, NEW T, NEW B, NEW k, NEW s, NEW j, NEW r,
           Run(g, P, A, T, B, k, s), Run(g, P, A, T, B, j, r), k <= j,
           Ended(s[k])
    PROVE  k = j /\ s[k] = r[j]
<1>1. /\ k \in Nat /\ j \in Nat /\ s[0] = r[0]
      /\ \A i \in 1..k : s[i] = Pass(P, A, T, B, s[i - 1])
      /\ \A i \in 1..j : ~Ended(r[i - 1]) /\ r[i] = Pass(P, A, T, B, r[i - 1])
  BY Zenon DEF Run
<1> DEFINE U == {i \in 0..k : s[i] = r[i]}
<1>2. 0 \in U
  BY <1>1
<1>3. ASSUME NEW i \in 1..k, i - 1 \in U PROVE i \in U
  <2>1. i \in 0..k /\ i \in 1..j
    BY <1>1
  <2>2. s[i] = r[i]
    BY <1>1, <1>3, <2>1, Zenon
  <2>3. QED
    BY <2>1, <2>2, Zenon
<1>4. \A i \in 0..k : i \in U
  <2> HIDE DEF U
  <2>1. QED
    BY <1>1, <1>2, <1>3, UpTo, Zenon
<1>5. s[k] = r[k]
  <2>1. k \in 0..k
    BY <1>1
  <2>2. QED
    BY <1>4, <2>1, Zenon
<1>6. k = j
  <2> SUFFICES ASSUME k # j PROVE FALSE
    OBVIOUS
  <2>1. k + 1 \in 1..j /\ (k + 1) - 1 = k
    BY <1>1
  <2>2. ~Ended(r[(k + 1) - 1])
    BY <1>1, <2>1, Zenon
  <2>3. QED
    BY <1>5, <2>1, <2>2, Zenon
<1>7. QED
  BY <1>5, <1>6

\* The loop ends in one way.
LEMMA OneEnd ==
    ASSUME NEW g, NEW P, NEW A, NEW T, NEW B, NEW l, NEW m,
           Reached(g, P, A, T, B, l), Reached(g, P, A, T, B, m), Ended(l), Ended(m)
    PROVE  l = m
<1>1. PICK k, s : Run(g, P, A, T, B, k, s) /\ s[k] = l
  BY Zenon DEF Reached
<1>2. PICK j, r : Run(g, P, A, T, B, j, r) /\ r[j] = m
  BY Zenon DEF Reached
<1>3. k \in Nat /\ j \in Nat
  BY <1>1, <1>2, Zenon DEF Run
<1>4. CASE k <= j
  <2>1. Run(g, P, A, T, B, k, s) /\ Run(g, P, A, T, B, j, r) /\ Ended(s[k])
    BY <1>1, <1>2
  <2>2. s[k] = r[j]
    BY <1>4, <2>1, RunsAgree
  <2>3. QED
    BY <1>1, <1>2, <2>2
<1>5. CASE j <= k
  <2>1. Run(g, P, A, T, B, k, s) /\ Run(g, P, A, T, B, j, r) /\ Ended(r[j])
    BY <1>1, <1>2
  <2>2. r[j] = s[k]
    BY <1>5, <2>1, RunsAgree
  <2>3. QED
    BY <1>1, <1>2, <2>2
<1>6. QED
  BY <1>3, <1>4, <1>5

\* OrderDAG is on its way from genesis, and the order a node serves is where
\* that way ends on the same graph, while no order cache is used.
SameInv ==
    /\ ~UseOrderCache
    /\ pc \in {"order", "reload"} => Reached(genesis, parents, past, TipSet, blue, Loop)
    /\ pc \in {"ready", "reload"} /\ nodeOrder # <<>> =>
         \E l : /\ Reached(genesis, parents, past, TipSet, blue, l) /\ Ended(l)
                /\ l.order = nodeOrder

\* Every step keeps the published order the end of a run of the loop.
LEMMA SameInvStep ==
    ASSUME Inv, SameInv, [Next]_vars
    PROVE  SameInv'
<1>1. ASSUME NEW n \in Id, NEW ps \in SUBSET Nodes, AddBlock(n, ps) PROVE SameInv'
  <2>1. FromGenesis /\ genesis' = genesis /\ pc' = "order"
    BY <1>1, AddDag, Zenon DEF Inv, SameInv, AddBlock
  <2>2. Loop' = Begin(genesis')
    BY <2>1, Zenon DEF FromGenesis, Loop, Begin
  <2>3. Reached(genesis', parents', past', TipSet', blue', Loop')
    BY <2>2, ReachedBegin, Zenon
  <2>4. pc' \notin {"ready", "reload"}
    BY <2>1
  <2>5. QED
    BY <2>3, <2>4, Zenon DEF SameInv
<1>2. ASSUME Restart PROVE SameInv'
  <2>1. /\ FromGenesis /\ TipSet' = TipSet /\ parents' = parents /\ past' = past
        /\ blue' = BlueSet(genesis, past, Nodes, TipSet, FreshBlue) \cup {Virtual}
    BY <1>2, RestartDag, Zenon DEF Inv
  <2>2. genesis' = genesis /\ pc = "ready" /\ nodeOrder' = nodeOrder
    BY <1>2, Zenon DEF Restart
  <2>3. Reached(genesis', parents', past', TipSet', blue', Loop')
    <3>1. Loop' = Begin(genesis')
      BY <2>1, <2>2, Zenon DEF FromGenesis, Loop, Begin
    <3>2. QED
      BY <3>1, ReachedBegin, Zenon
  <2>4. ASSUME nodeOrder' # <<>>
        PROVE  \E l : /\ Reached(genesis', parents', past', TipSet', blue', l) /\ Ended(l)
                      /\ l.order = nodeOrder'
    <3>1. blue' = blue
      BY <2>1, <2>2, <2>4, Zenon DEF Inv, ColourInv
    <3>2. PICK l : /\ Reached(genesis, parents, past, TipSet, blue, l) /\ Ended(l)
                   /\ l.order = nodeOrder
      BY <2>2, <2>4, Zenon DEF SameInv
    <3>3. QED
      BY <2>1, <2>2, <3>1, <3>2, Zenon
  <2>5. QED
    BY <2>3, <2>4, Zenon DEF SameInv
<1>3. ASSUME UNCHANGED dag PROVE TipSet' = TipSet /\ genesis' = genesis /\ parents' = parents /\ past' = past
  BY <1>3, SameDag, Zenon DEF Inv
<1>4. ASSUME Visit PROVE SameInv'
  <2>1. /\ Loop' = Pass(parents, past, TipSet, blue, Loop) /\ ~Ended(Loop)
        /\ pc \in {"order", "reload"}
        /\ UNCHANGED <<dag, blueCache, orderCache, blue, nodeOrder, pc, restarts>>
    BY <1>4, VisitIs, Zenon
  <2>2. UNCHANGED dag /\ blue' = blue /\ nodeOrder' = nodeOrder /\ pc' = pc
    BY <2>1
  <2>3. TipSet' = TipSet /\ genesis' = genesis /\ parents' = parents /\ past' = past
    BY <1>3, <2>2, Zenon
  <2>4. Reached(genesis, parents, past, TipSet, blue, Pass(parents, past, TipSet, blue, Loop))
    BY <2>1, ReachedPass, Zenon DEF SameInv
  <2>5. Reached(genesis', parents', past', TipSet', blue', Loop')
    BY <2>1, <2>2, <2>3, <2>4, Zenon
  <2>6. QED
    BY <2>2, <2>3, <2>5, Zenon DEF SameInv
<1>5. ASSUME Finish PROVE SameInv'
  <2>1. /\ pc \in {"order", "reload"} /\ Ended(Loop) /\ nodeOrder' = order /\ pc' = "ready"
        /\ UNCHANGED dag /\ blue' = blue
    <3>1. Loop.todo = todo
      BY DEF Loop
    <3>2. QED
      BY <1>5, <3>1, Zenon DEF Finish, Ended, loop
  <2>2. TipSet' = TipSet /\ genesis' = genesis /\ parents' = parents /\ past' = past
    BY <1>3, <2>1, Zenon
  <2>3. Loop.order = order
    BY DEF Loop
  <2>4. Reached(genesis, parents, past, TipSet, blue, Loop)
    BY <2>1, Zenon DEF SameInv
  <2>5. \E l : /\ Reached(genesis', parents', past', TipSet', blue', l) /\ Ended(l)
               /\ l.order = nodeOrder'
    BY <2>1, <2>2, <2>3, <2>4, Zenon
  <2>6. pc' \notin {"order", "reload"}
    BY <2>1
  <2>7. QED
    BY <2>5, <2>6, Zenon DEF SameInv
<1>6. ASSUME UNCHANGED vars PROVE SameInv'
  <2>1. UNCHANGED dag /\ blue' = blue /\ todo' = todo /\ seen' = seen /\ order' = order
        /\ nodeOrder' = nodeOrder /\ pc' = pc
    BY <1>6 DEF vars, dag
  <2>2. TipSet' = TipSet /\ genesis' = genesis /\ parents' = parents /\ past' = past
    BY <1>3, <2>1, Zenon
  <2>3. Loop' = Loop
    BY <2>1, Zenon DEF Loop
  <2>4. QED
    BY <2>1, <2>2, <2>3, Zenon DEF SameInv
<1>7. QED
  BY <1>1, <1>2, <1>4, <1>5, <1>6, Zenon DEF Next

\* Without the order cache, ordering the same blocks again with empty caches, as
\* a restart does, gives the order the node served before: the blue sets and the
\* set of the tips are the same, and the loop of OrderDAG is a function of them.
THEOREM OrderSurvivesRestart == ~UseOrderCache => (Spec => SameOrderAfterRestart)
<1>1. ~UseOrderCache /\ Init => SameInv
  BY Zenon DEF Init, SameInv
<1>2. Inv /\ SameInv /\ [Next]_vars => SameInv'
  BY SameInvStep
<1>3. Inv /\ SameInv /\ [Next]_vars =>
        [pc = "reload" /\ pc' = "ready" /\ nodeOrder # <<>> => nodeOrder' = nodeOrder]_vars
  <2> SUFFICES ASSUME Inv, SameInv, Next, pc = "reload", pc' = "ready", nodeOrder # <<>>
               PROVE  nodeOrder' = nodeOrder
    BY DEF vars
  <2>1. Finish
    <3>1. \A n \in Id, ps \in SUBSET Nodes : ~AddBlock(n, ps)
      BY Zenon DEF AddBlock
    <3>2. ~Restart
      BY DEF Restart
    <3>3. ~Visit
      <4> SUFFICES ASSUME Visit PROVE FALSE
        OBVIOUS
      <4>1. pc' = pc
        BY Zenon DEF Visit
      <4>2. QED
        BY <4>1
    <3>4. QED
      BY <3>1, <3>2, <3>3, Zenon DEF Next
  <2>2. Loop.todo = todo /\ Loop.order = order
    BY DEF Loop
  <2>3. Ended(Loop) /\ nodeOrder' = order
    BY <2>1, <2>2, Zenon DEF Finish, Ended
  <2>4. Reached(genesis, parents, past, TipSet, blue, Loop)
    BY Zenon DEF SameInv
  <2>5. PICK l : /\ Reached(genesis, parents, past, TipSet, blue, l) /\ Ended(l)
                 /\ l.order = nodeOrder
    BY Zenon DEF SameInv
  <2>6. l = Loop
    BY <2>3, <2>4, <2>5, OneEnd, Zenon
  <2>7. QED
    BY <2>2, <2>3, <2>5, <2>6, Zenon
<1>4. QED
  BY <1>1, <1>2, <1>3, PhantomInvariance, PTL DEF Spec, SameOrderAfterRestart

-----------------------------------------------------------------------------
\* The pasts of the blocks with parents P.
Pasts(P, A) == A = [n \in DOMAIN P |-> P[n] \cup UNION {A[p] : p \in P[n]}]

PastOf(P) == CHOOSE A : Pasts(P, A)

\* The blocks that no other block has as a parent.
Heads(P) == {n \in DOMAIN P : \A m \in DOMAIN P : n \notin P[m]}

BlueOf(g, P) ==
    BlueSet(g, PastOf(P), DOMAIN P, Heads(P), StoredBlue(g, P, PastOf(P), NoCache))
      \cup {Virtual}

\* The order of the graph with genesis g and parents P: where the loop, begun
\* from genesis, ends.
OrderOf(g, P) ==
    (CHOOSE l : Reached(g, P, PastOf(P), Heads(P), BlueOf(g, P), l) /\ Ended(l)).order

\* A graph has the pasts of its parents.
LEMMA PastIsOf ==
    ASSUME NEW g, NEW P, NEW A, NEW H, Graph(g, P, A, H)
    PROVE  A = PastOf(P)
<1> DEFINE D == DOMAIN P
           R == PastOf(P)
<1>1. A \in [D -> SUBSET D] /\ P \in [D -> SUBSET D]
  BY Zenon DEF Graph
<1>2. Pasts(P, A)
  <2>1. ASSUME NEW n \in D PROVE A[n] = P[n] \cup UNION {A[p] : p \in P[n]}
    <3>1. /\ \A m \in A[n] : m \in P[n] \/ \E p \in P[n] : m \in A[p]
          /\ \A p \in P[n] : p \in A[n]
          /\ \A m \in A[n] : A[m] \subseteq A[n]
      BY Zenon DEF Graph
    <3>2. QED
      BY <3>1
  <2>2. A = [n \in D |-> A[n]]
    BY <1>1
  <2>3. QED
    BY <2>1, <2>2, Zenon DEF Pasts
<1>3. Pasts(P, R)
  BY <1>2, Zenon DEF PastOf
<1> HIDE DEF R
<1>4. /\ \A n \in D : R[n] = P[n] \cup UNION {R[p] : p \in P[n]}
      /\ \A n \in D : A[n] = P[n] \cup UNION {A[p] : p \in P[n]}
      /\ R = [n \in D |-> R[n]] /\ A = [n \in D |-> A[n]]
  <2>1. R = [n \in D |-> P[n] \cup UNION {R[p] : p \in P[n]}]
    BY <1>3, Zenon DEF Pasts
  <2>2. A = [n \in D |-> P[n] \cup UNION {A[p] : p \in P[n]}]
    BY <1>2, Zenon DEF Pasts
  <2>3. QED
    BY <2>1, <2>2, Zenon
<1> DEFINE G == {n \in D : A[n] = R[n]}
<1>5. ASSUME NEW n \in D, \A p \in P[n] : p \in G PROVE n \in G
  <2>1. \A p \in P[n] : A[p] = R[p]
    BY <1>5
  <2>2. {A[p] : p \in P[n]} = {R[p] : p \in P[n]}
    BY <2>1, Zenon
  <2>3. QED
    BY <1>4, <2>2, Zenon
<1>6. \A n \in D : n \in G
  <2> HIDE DEF G
  <2>1. QED
    BY <1>5, ByHeight, Zenon
<1>7. QED
  <2>1. \A n \in D : A[n] = R[n]
    BY <1>6, Zenon
  <2>2. [n \in D |-> A[n]] = [n \in D |-> R[n]]
    BY <2>1, Zenon
  <2>3. QED
    BY <1>4, <2>2, Zenon DEF R

\* Every block without children is a tip.
AllTips == \A n \in Nodes : n \in TipSet \/ \E m \in Nodes : n \in parents[m]

\* A block that gets a child is removed from the tips, and no other is.
LEMMA AllTipsStep ==
    ASSUME Inv, AllTips, [Next]_vars
    PROVE  AllTips'
<1>1. DagInv /\ ColourInv
  BY Zenon DEF Inv
<1>2. ASSUME NEW n \in Id, NEW ps \in SUBSET Nodes, AddBlock(n, ps) PROVE AllTips'
  <2>1. TipSet' = (TipSet \ ps) \cup {n}
    BY <1>1, <1>2, AddDag, Zenon
  <2>2. n \notin Nodes /\ parents' = With(parents, n, ps)
    BY <1>2, Zenon DEF AddBlock
  <2>3. Nodes' = Nodes \cup {n} /\ parents'[n] = ps /\ \A m \in Nodes : parents'[m] = parents[m]
    <3>1. Grown(parents', parents, n, ps)
      BY <2>2, GrownIs, Zenon DEF Nodes
    <3>2. DOMAIN parents' = DOMAIN parents \cup {n}
      BY <3>1, SMTT(30) DEF Grown
    <3>3. QED
      BY <3>1, <3>2, Zenon DEF Grown, Nodes
  <2>4. ASSUME NEW x \in Nodes, x \notin TipSet' PROVE \E m \in Nodes' : x \in parents'[m]
    <3>1. CASE x \in ps
      BY <2>3, <3>1, Zenon
    <3>2. CASE x \notin ps
      <4>1. x \notin TipSet
        BY <2>1, <2>4, <3>2, Zenon
      <4>2. PICK m \in Nodes : x \in parents[m]
        BY <4>1, Zenon DEF AllTips
      <4>3. QED
        BY <2>3, <4>2, Zenon
    <3>3. QED
      BY <3>1, <3>2, Zenon
  <2>5. QED
    BY <2>1, <2>3, <2>4, Zenon DEF AllTips
<1>3. ASSUME TipSet' = TipSet, parents' = parents PROVE AllTips'
  BY <1>3, Zenon DEF AllTips, Nodes
<1>4. ASSUME Restart PROVE AllTips'
  BY <1>1, <1>3, <1>4, RestartDag, Zenon
<1>5. ASSUME UNCHANGED dag PROVE AllTips'
  BY <1>1, <1>3, <1>5, SameDag, Zenon
<1>6. ASSUME Visit PROVE UNCHANGED dag
  BY <1>6, Zenon DEF Visit
<1>7. ASSUME Finish PROVE UNCHANGED dag
  BY <1>7, Zenon DEF Finish
<1>8. ASSUME UNCHANGED vars PROVE UNCHANGED dag
  BY <1>8 DEF vars, dag
<1>9. QED
  BY <1>2, <1>4, <1>5, <1>6, <1>7, <1>8, Zenon DEF Next

\* Without the order cache, the order a node serves depends on the graph alone,
\* that is on genesis and on the parents of each block: not on the order in
\* which the blocks came, on the order of the tips, on when OrderDAG was called
\* or on what its caches held.  Nodes with the same blocks serve the same order.
THEOREM SameBlocksSameOrder ==
    ~UseOrderCache =>
      (Spec => [](pc = "ready" /\ nodeOrder # <<>> => nodeOrder = OrderOf(genesis, parents)))
<1>1. ~UseOrderCache /\ Init => SameInv
  BY Zenon DEF Init, SameInv
<1>2. Inv /\ SameInv /\ [Next]_vars => SameInv'
  BY SameInvStep
<1>3. Init => AllTips
  <2> SUFFICES ASSUME Init PROVE AllTips
    OBVIOUS
  <2>1. Nodes = {genesis} /\ TipSet = {genesis}
    BY DEF Init, Nodes, TipSet
  <2>2. QED
    BY <2>1, Zenon DEF AllTips
<1>4. Inv /\ AllTips /\ [Next]_vars => AllTips'
  BY AllTipsStep
<1>5. Inv /\ SameInv /\ AllTips =>
        (pc = "ready" /\ nodeOrder # <<>> => nodeOrder = OrderOf(genesis, parents))
  <2> SUFFICES ASSUME Inv, SameInv, AllTips, pc = "ready", nodeOrder # <<>>
               PROVE  nodeOrder = OrderOf(genesis, parents)
    BY Zenon
  <2>1. /\ Graph(genesis, parents, past, height) /\ Tips(parents, past, TipSet)
        /\ blue = BlueSet(genesis, past, Nodes, TipSet, FreshBlue) \cup {Virtual}
    BY Zenon DEF Inv, DagInv, ColourInv
  <2>2. past = PastOf(parents)
    BY <2>1, PastIsOf, Zenon
  <2>3. TipSet = Heads(parents)
    <3>1. \A m \in Nodes : parents[m] \subseteq past[m]
      BY <2>1, Zenon DEF Graph, Nodes
    <3>2. TipSet \subseteq Nodes /\ \A t \in TipSet, m \in Nodes : t \notin past[m]
      BY <2>1, Zenon DEF Tips, Nodes
    <3>3. \A t \in TipSet : t \in Heads(parents)
      BY <3>1, <3>2, Zenon DEF Heads, Nodes
    <3>4. \A n \in Heads(parents) : n \in TipSet
      BY Zenon DEF AllTips, Heads, Nodes
    <3>5. QED
      BY <3>3, <3>4, Zenon
  <2>4. blue = BlueOf(genesis, parents)
    BY <2>1, <2>2, <2>3, Zenon DEF BlueOf, FreshBlue, Nodes
  <2>5. PICK l : /\ Reached(genesis, parents, past, TipSet, blue, l) /\ Ended(l)
                 /\ l.order = nodeOrder
    BY Zenon DEF SameInv
  <2> DEFINE G(m) == /\ Reached(genesis, parents, PastOf(parents), Heads(parents),
                                BlueOf(genesis, parents), m)
                     /\ Ended(m)
             end == CHOOSE m : G(m)
  <2>6. G(l)
    BY <2>2, <2>3, <2>4, <2>5, Zenon
  <2>7. G(end)
    BY <2>6, Zenon
  <2>8. OrderOf(genesis, parents) = end.order
    BY Zenon DEF OrderOf
  <2> HIDE DEF end
  <2>9. end = l
    BY <2>6, <2>7, OneEnd, Zenon
  <2>10. QED
    BY <2>5, <2>8, <2>9, Zenon
<1>6. QED
  BY <1>1, <1>2, <1>3, <1>4, <1>5, PhantomInvariance, PTL DEF Spec

=============================================================================
