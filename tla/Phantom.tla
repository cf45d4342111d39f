------------------------------ MODULE Phantom -------------------------------
(***************************************************************************)
(* Package blockdag/phantom as the node uses it: every connected block is  *)
(* added to the graph, coloured (calculateBlueSet, with the blue set       *)
(* cache) and the whole graph is ordered (OrderDAG, with the order cache). *)
(* The loop of OrderDAG is a step machine: one action per pass through its *)
(* body.  A restart rebuilds the graph from the database and starts with   *)
(* empty caches.                                                           *)
(***************************************************************************)
EXTENDS Integers, Sequences, FiniteSets

CONSTANTS
    Id,             \* node ids, compared as OrderDAG compares hash strings
    K,              \* coloringK
    CacheDistance,  \* minOrderCacheDistance
    UseOrderCache,  \* whether OrderDAG is given an order cache
    MaxRestarts     \* bound: how often the graph is rebuilt

Virtual == 0        \* the VIRTUAL node; no set it is sorted in has another node

ASSUME PhantomAssumption ==
    /\ Id \subseteq Nat \ {Virtual}
    /\ K \in Nat /\ CacheDistance \in Nat \ {0} /\ MaxRestarts \in Nat
    /\ UseOrderCache \in BOOLEAN

VARIABLES
    genesis,     \* the genesis node
    parents,     \* parents[n], for the nodes n of the graph
    past,        \* past[n]: the nodes getPast(n) collects
    height,      \* block height of a node
    tips,        \* Graph.tips, in the order they were added
    blueCache,   \* BlueSetCache: node -> its stored blue set
    orderCache,  \* OrderCache: height -> tips and order
    blue,        \* OrderDAG's blueSet
    todo,        \* OrderDAG's todoQueue
    seen,        \* OrderDAG's seen
    order,       \* OrderDAG's orderingSet
    nodeOrder,   \* BlockDAG.nodeOrder, the last finished order
    pc,          \* "ready", "order" after a block, "reload" after a restart
    restarts     \* times the graph was rebuilt

dag   == <<genesis, parents, past, height, tips>>
loop  == <<blue, todo, seen, order>>
vars  == <<genesis, parents, past, height, tips, blueCache, orderCache, blue,
           todo, seen, order, nodeOrder, pc, restarts>>

Nodes == DOMAIN parents

TipSet == {tips[i] : i \in DOMAIN tips}

Ordered == {order[i] : i \in DOMAIN order}

-----------------------------------------------------------------------------
MaxId(S) == CHOOSE n \in S : \A m \in S : m <= n

MinId(S) == CHOOSE n \in S : \A m \in S : n <= m

\* A map with an entry for n.
With(f, n, x) == [m \in DOMAIN f \cup {n} |-> IF m = n THEN x ELSE f[m]]

\* The members of S in the order R.
Sorted(S, R) ==
    [i \in 1..Cardinality(S) |->
       CHOOSE n \in S : Cardinality({m \in S : <<m, n>> \in R}) = i - 1]

\* nodeSet.elements: the members of a set in order of id.
elements(S) == Sorted(S, {e \in S \X S : e[1] < e[2]})

\* orderedNodeSet.remove, for the members of a set.
remove(s, S) ==
    LET kept == elements({i \in DOMAIN s : s[i] \notin S})
    IN  [i \in DOMAIN kept |-> s[kept[i]]]

\* Anticone of n in the subgraph with nodes S, for pasts A.
Anticone(A, S, n) == {m \in S \ {n} : m \notin A[n] /\ n \notin A[m]}

\* calculateBlueSet: a node joins the blue nodes if at most K of them are in
\* its anticone.
Join(anticone, acc, n) ==
    IF Cardinality(anticone[n] \cap acc) <= K THEN acc \cup {n} ELSE acc

\* calculateBlueSet: the anticone of a tip, in order of id, joins the tip's
\* blue set node by node.
Joined(anticone, tip, start) ==
    LET s == elements(anticone[tip])
        after[i \in 0..Len(s)] ==
          IF i = 0 THEN start ELSE Join(anticone, after[i - 1], s[i])
    IN  after[Len(s)]

\* A tip's blue set in the subgraph with nodes S.
Colour(A, S, tip, start) ==
    Joined([n \in S |-> Anticone(A, S, n)], tip, start)

\* calculateBlueSet: the largest of the tips' sets, the first tip's on a tie.
Largest(T, set) ==
    LET best == {t \in T : \A u \in T :
                   Cardinality(set[u]) <= Cardinality(set[t])}
    IN  IF T = {} THEN {} ELSE set[MinId(best)]

\* calculateBlueSet, on the subgraph with nodes S and tips T.
BlueSet(gen, A, S, T, stored) ==
    IF S = {gen} THEN {gen}
    ELSE Largest(T, [t \in T |-> Colour(A, S, t, stored[t])])

\* What calculateBlueSet stores for a node: the blue set of its past, and the
\* node.  A set found in the cache is used as it is, and the anticone is only
\* ever added to a clone.
StoredBlue(gen, P, A, cache) ==
    LET stored[n \in DOMAIN P] ==
          IF n \in DOMAIN cache THEN cache[n]
          ELSE BlueSet(gen, A, A[n], P[n], stored) \cup {n}
    IN  stored

\* Mutant: the anticone is added to the stored set, not to a clone.
StartOrder_NotCloned(P, A, T, cache, entries) ==
    LET stored == StoredBlue(genesis, P, A, cache)
        tipSet == {T[i] : i \in DOMAIN T}
    IN  /\ blueCache' = [n \in (DOMAIN P) \ {genesis} |->
                           IF n \in tipSet THEN Colour(A, DOMAIN P, n, stored[n])
                                          ELSE stored[n]]
        /\ blue' = BlueSet(genesis, A, DOMAIN P, tipSet, stored) \cup {Virtual}
        /\ order' = <<>> /\ todo' = <<genesis>> /\ seen' = {genesis}

\* OrderDAG, up to its loop: colour the graph with parents P, pasts A and tips
\* T, then begin from a cached order and its tips, or from genesis.
StartOrder(P, A, T, cache, entries) ==
    LET stored == StoredBlue(genesis, P, A, cache)
        tipSet == {T[i] : i \in DOMAIN T}
    IN  /\ blueCache' = [n \in (DOMAIN P) \ {genesis} |-> stored[n]]
        /\ blue' = BlueSet(genesis, A, DOMAIN P, tipSet, stored) \cup {Virtual}
        /\ IF entries # {}
           THEN \E e \in entries :
                  /\ order' = e.order
                  /\ todo' = e.tips
                  /\ seen' = {e.tips[i] : i \in DOMAIN e.tips}
           ELSE order' = <<>> /\ todo' = <<genesis>> /\ seen' = {genesis}

\* newDAGState's MinHeight.
MinHeight(H, T) == MinId({H[T[i]] : i \in DOMAIN T})

\* OrderCache.get: the entry CacheDistance below h or, failing that, the
\* highest one under it.
CacheGet(h) ==
    LET below == {x \in DOMAIN orderCache : x <= h - CacheDistance}
    IN  IF UseOrderCache /\ below # {} THEN {orderCache[MaxId(below)]} ELSE {}

-----------------------------------------------------------------------------
\* createChainState: genesis is in the graph and nothing has been ordered.
Init ==
    /\ genesis \in Id
    /\ parents = [n \in {genesis} |-> {}]
    /\ past = [n \in {genesis} |-> {}]
    /\ height = [n \in {genesis} |-> 0]
    /\ tips = <<genesis>>
    /\ blueCache = [n \in {} |-> {}]
    /\ orderCache = [h \in {} |-> {}]
    /\ blue = {} /\ todo = <<>> /\ seen = {} /\ order = <<>>
    /\ nodeOrder = <<>>
    /\ pc = "ready"
    /\ restarts = 0

\* connectBlock adds a block to the graph and calls OrderDAG.  The parents are
\* blocks the node has: nothing is asked of how they lie to each other, so that
\* one may be an ancestor of another.
AddBlock(n, ps) ==
    /\ pc = "ready"
    /\ n \notin Nodes
    /\ ps # {}
    /\ parents' = With(parents, n, ps)
    /\ past' = With(past, n, ps \cup UNION {past[p] : p \in ps})
    /\ height' = With(height, n, 1 + MaxId({height[p] : p \in ps}))
    /\ tips' = Append(remove(tips, ps), n)
    /\ StartOrder(parents', past', tips', blueCache,
                  CacheGet(MinHeight(height', tips')))
    /\ pc' = "order"
    /\ UNCHANGED <<genesis, orderCache, nodeOrder, restarts>>

\* The order of a block row's key: by height, then by hash.
Precedes(t, u) == height[t] < height[u] \/ (height[t] = height[u] /\ t < u)

\* initChainState rebuilds the graph, from rows sorted by height and hash, and
\* calls OrderDAG with caches that are still empty.
Restart ==
    /\ pc = "ready" /\ restarts < MaxRestarts
    /\ restarts' = restarts + 1
    /\ tips' = Sorted(TipSet, {e \in TipSet \X TipSet : Precedes(e[1], e[2])})
    /\ orderCache' = [h \in {} |-> {}]
    /\ StartOrder(parents, past, tips', [n \in {} |-> {}], {})
    /\ pc' = "reload"
    /\ UNCHANGED <<genesis, parents, past, height, nodeOrder>>

\* The children of a node; VIRTUAL is a child of every tip.
Children(P, T, n) ==
    {m \in DOMAIN P : n \in P[m]} \cup (IF n \in T THEN {Virtual} ELSE {})

\* Mutant: the child is queued before the nodes that come before it.
Enqueue_ChildFirst(A, node, done, child, q) ==
    LET before == {m \in Anticone(A, DOMAIN A, node) :
                     /\ child = Virtual \/ m \in A[child]
                     /\ m \notin done /\ m \notin q.seen}
    IN  [todo |-> q.todo \o (IF child \in q.seen THEN <<>> ELSE <<child>>) \o
                    elements(before),
         seen |-> q.seen \cup before \cup {child}]

\* OrderDAG's loop, for one blue child of node: first what the child's past
\* has of node's anticone, in order of id, then the child.
Enqueue(A, node, done, child, q) ==
    LET before == {m \in Anticone(A, DOMAIN A, node) :
                     /\ child = Virtual \/ m \in A[child]
                     /\ m \notin done /\ m \notin q.seen}
    IN  [todo |-> q.todo \o elements(before) \o
                    (IF child \in q.seen THEN <<>> ELSE <<child>>),
         seen |-> q.seen \cup before \cup {child}]

\* OrderDAG's loop, for the blue children of node in order of id.
EnqueueAll(A, node, done, children, q) ==
    LET s == elements(children)
        after[i \in 0..Len(s)] ==
          IF i = 0 THEN q ELSE Enqueue(A, node, done, s[i], after[i - 1])
    IN  after[Len(s)]

\* OrderDAG: one pass through its loop.
Visit ==
    /\ pc \in {"order", "reload"}
    /\ todo # <<>> /\ Head(todo) # Virtual
    /\ LET node == Head(todo)
           q    == EnqueueAll(past, node, Ordered \cup {node},
                              blue \cap Children(parents, TipSet, node),
                              [todo |-> Tail(todo), seen |-> seen])
       IN  /\ order' = IF node \in Ordered THEN order ELSE Append(order, node)
           /\ todo' = q.todo
           /\ seen' = q.seen
    /\ UNCHANGED <<dag, blueCache, orderCache, blue, nodeOrder, pc, restarts>>

\* OrderDAG: the queue is empty, or VIRTUAL is at its head.  The order may be
\* cached for this height; the caller makes it the node's order.
Finish ==
    /\ pc \in {"order", "reload"}
    /\ todo = <<>> \/ Head(todo) = Virtual
    /\ LET h == MinHeight(height, tips) IN
         orderCache' =
           IF UseOrderCache /\ h >= CacheDistance /\ h \notin DOMAIN orderCache
           THEN With(orderCache, h, [tips |-> tips, order |-> order])
           ELSE orderCache
    /\ nodeOrder' = order
    /\ pc' = "ready"
    /\ UNCHANGED <<dag, blueCache, loop, restarts>>

Next ==
    \/ \E n \in Id, ps \in SUBSET Nodes : AddBlock(n, ps)
    \/ Restart
    \/ Visit
    \/ Finish

Spec == Init /\ [][Next]_vars

-----------------------------------------------------------------------------
\* No block has a block and an ancestor of it among its parents: what a miner
\* makes, who takes the tips they know.
Reduced == \A n \in Nodes : \A p, q \in parents[n] : p \notin past[q]

\* OrderDAG lists no block twice and, if no block of the graph has a block and
\* an ancestor of it as parents, every block: the traversal neither stops at
\* VIRTUAL while blocks are still unlisted nor runs dry before it.  (With such
\* a block a tip can be reached, and VIRTUAL queued, ahead of its ancestors.)
\* A new node has ordered nothing yet.
OrderComplete ==
    pc = "ready" /\ (nodeOrder # <<>> \/ Nodes # {genesis}) =>
        LET listed == {nodeOrder[i] : i \in DOMAIN nodeOrder}
        IN  /\ listed \subseteq Nodes /\ Len(nodeOrder) = Cardinality(listed)
            /\ Reduced => listed = Nodes

\* A blue set in the cache is the one that colouring the block's past from
\* nothing gives, however the graph grew since: it holds no block outside that
\* past, which adding the anticone without the clone would bring in.
CachedBlueSetsExact ==
    pc = "ready" =>
        LET fresh == StoredBlue(genesis, parents, past, [n \in {} |-> {}])
        IN  \A n \in DOMAIN blueCache : blueCache[n] = fresh[n]

\* The order a node serves does not depend on its caches: ordering the same
\* blocks again with empty ones, as a restart does, gives the same order, once
\* there is one.
SameOrderAfterRestart ==
    [][pc = "reload" /\ pc' = "ready" /\ nodeOrder # <<>>
           => nodeOrder' = nodeOrder]_vars

\* What ordercachefull_test says of the caches: they change no order, for
\* graphs like the test's, where no block has a block and an ancestor of it as
\* parents.
CachesKeepOrder ==
    [][Reduced /\ pc = "reload" /\ pc' = "ready" /\ nodeOrder # <<>>
           => nodeOrder' = nodeOrder]_vars

=============================================================================
