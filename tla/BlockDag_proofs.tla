-------------------------- MODULE BlockDag_proofs ---------------------------
(***************************************************************************)
(* Theorems about BlockDag, for every set of blocks, every acyclic parent  *)
(* relation and every bound.                                               *)
(***************************************************************************)
EXTENDS BlockDag, FiniteSetTheorems, TLAPS

-----------------------------------------------------------------------------
\* Facts about the ancestors of a block, from the definition of Ancestry as a
\* least closed set.

\* A block is in its own ancestry, which is a set of blocks closed under
\* Parents.
LEMMA AncestryClosed ==
    ASSUME NEW b \in Block
    PROVE  /\ Ancestry[b] \subseteq Block
           /\ b \in Ancestry[b]
           /\ AncestorClosed(Ancestry[b])
BY BlockAssumption DEF Ancestry, AncestorClosed

\* Every closed set that holds a block holds the block's ancestry.
LEMMA AncestryLeast ==
    ASSUME NEW b \in Block, NEW C \in SUBSET Block,
           b \in C, AncestorClosed(C)
    PROVE  Ancestry[b] \subseteq C
BY DEF Ancestry

\* The ancestry of a parent is part of the child's.
LEMMA AncestryOfParent ==
    ASSUME NEW b \in Block, NEW p \in Parents[b]
    PROVE  p \in Block /\ Ancestry[p] \subseteq Ancestry[b]
<1>1. p \in Block
  BY BlockAssumption
<1>2. p \in Ancestry[b]
  BY AncestryClosed DEF AncestorClosed
<1> QED
  BY <1>1, <1>2, AncestryClosed, AncestryLeast

\* The closure of a set of blocks lies in every closed set that holds the set.
LEMMA ClosureLeast ==
    ASSUME NEW S \in SUBSET Block, NEW C \in SUBSET Block,
           S \subseteq C, AncestorClosed(C)
    PROVE  Closure(S) \subseteq C
BY AncestryLeast DEF Closure

\* The closure of a set of blocks is a set of blocks that holds the set.
LEMMA ClosureType ==
    ASSUME NEW S \in SUBSET Block
    PROVE  Closure(S) \subseteq Block /\ S \subseteq Closure(S)
BY AncestryClosed DEF Closure

\* No block is its own parent.
LEMMA NotOwnParent ==
    ASSUME NEW b \in Block
    PROVE  b \notin Parents[b]
<1>1. \E c \in {b} : Parents[c] \cap {b} = {}
  BY BlockAssumption, Zenon
<1> QED
  BY <1>1

\* Replacing the parents of a block by the block, as connectBlock does with the
\* tips, adds the block's ancestry to the closure and takes nothing away.
LEMMA ClosureOfNewTips ==
    ASSUME NEW T \in SUBSET Block, NEW b \in Block
    PROVE  Closure((T \cup {b}) \ Parents[b]) = Closure(T) \cup Closure({b})
<1> DEFINE N == (T \cup {b}) \ Parents[b]
<1>1. Closure(N) \subseteq Closure(T) \cup Closure({b})
  BY DEF Closure
<1>2. Closure({b}) \subseteq Closure(N)
  BY NotOwnParent DEF Closure
<1>3. ASSUME NEW t \in T PROVE Ancestry[t] \subseteq Closure(N)
  <2>1. CASE t \in Parents[b]
    BY <2>1, <1>2, AncestryOfParent DEF Closure
  <2>2. CASE t \notin Parents[b]
    BY <2>2 DEF Closure
  <2> QED
    BY <2>1, <2>2
<1>4. Closure(T) \subseteq Closure(N)
  BY <1>3 DEF Closure
<1> QED
  BY <1>1, <1>2, <1>4, SMTT(30)

-----------------------------------------------------------------------------
\* Facts about the sequences and records the actions build.

\* Removing an orphan from a pool leaves a sequence of blocks.
LEMMA RemoveOrphanType ==
    ASSUME NEW s \in Seq(Block), NEW o
    PROVE  removeOrphanBlock(s, o) \in Seq(Block)
<1>1. CASE \E i \in DOMAIN s : s[i] = o
  <2> DEFINE k == CHOOSE i \in DOMAIN s : s[i] = o
  <2>1. k \in 1..Len(s)
    BY <1>1
  <2> HIDE DEF k
  <2>2. SubSeq(s, 1, k - 1) \in Seq(Block) /\ SubSeq(s, k + 1, Len(s)) \in Seq(Block)
    BY <2>1
  <2>3. SubSeq(s, 1, k - 1) \o SubSeq(s, k + 1, Len(s)) \in Seq(Block)
    BY <2>2
  <2> QED
    BY <1>1, <2>3, SMTT(30) DEF removeOrphanBlock, k
<1>2. CASE ~(\E i \in DOMAIN s : s[i] = o)
  BY <1>2 DEF removeOrphanBlock
<1> QED
  BY <1>1, <1>2

\* The pool is a finite set of blocks.
LEMMA PooledFinite ==
    ASSUME orphans \in Seq(Block)
    PROVE  Pooled \subseteq Block /\ IsFiniteSet(Pooled)
<1>1. IsFiniteSet(1..Len(orphans))
  BY FS_Interval
<1>2. [i \in 1..Len(orphans) |-> orphans[i]] \in Surjection(1..Len(orphans), Pooled)
  BY DEF Surjection, Pooled
<1>3. IsFiniteSet(Pooled)
  BY <1>1, <1>2, FS_Surjection
<1>4. Pooled \subseteq Block
  BY DEF Pooled
<1> QED
  BY <1>3, <1>4

\* Listing a finite set of blocks gives a sequence of blocks.
LEMMA ListingType ==
    ASSUME NEW S \in SUBSET Block, IsFiniteSet(S),
           NEW s \in Bijection(1..Cardinality(S), S)
    PROVE  s \in Seq(Block)
<1>1. Cardinality(S) \in Nat
  BY FS_CardinalityType
<1>2. s \in [1..Cardinality(S) -> S]
  BY DEF Bijection, Injection
<1> QED
  BY <1>1, <1>2

\* OrderDAG lists blocks of the graph, and all of them if it is complete.
LEMMA OrdersWithin ==
    ASSUME NEW G, NEW O \in Orders(G)
    PROVE  O \subseteq G /\ (CompleteOrder => O = G)
BY DEF Orders

\* A flush of the index leaves a database.
LEMMA FlushedType ==
    ASSUME db \in Database, NEW status \in [Block -> SUBSET Flag], NEW unwritten
    PROVE  Flushed(status, unwritten) \in Database
BY DEF Flushed, Database

-----------------------------------------------------------------------------
\* The types are kept by the steps that end a call of maybeAcceptBlock ...
LEMMA ReturnType ==
    ASSUME TypeOK, NEW ok \in BOOLEAN, Return(ok)
    PROVE  /\ pc' \in Step /\ accepted' \in BOOLEAN /\ cur' \in Block
           /\ fast' \in BOOLEAN /\ work' \in Seq(Block)
           /\ checked' \in SUBSET Block /\ fromPool' \in BOOLEAN
BY DEF TypeOK, Return, Step

\* ... by those that record checkConnectBlock's verdict ...
LEMMA VerdictType ==
    ASSUME TypeOK, NEW flag \in Flag, Verdict(flag)
    PROVE  /\ index' \in [Block -> SUBSET Flag]
           /\ dirty' \in SUBSET Block
           /\ nodes' \in SUBSET Block /\ tips' \in SUBSET Block
           /\ graph' \in SUBSET Block /\ nodeOrder' \in SUBSET Block
           /\ snapshot' \in Snapshot
           /\ orphans' \in Seq(Block)
           /\ oldestOrphan' \in Block \cup {NoBlock}
           /\ db' \in Database /\ durable' \in Database
           /\ restarts' \in Nat /\ faults' \in Nat
<1>1. index' \in [Block -> SUBSET Flag]
  BY DEF TypeOK, Verdict
<1>2. Flushed(index', dirty \cup {cur}) \in Database
  BY <1>1, FlushedType DEF TypeOK
<1> QED
  BY <1>1, <1>2 DEF TypeOK, Verdict, Commit, Fault, pool, disk, bound

\* ... by those that count an error ...
LEMMA FaultType ==
    ASSUME TypeOK, Fault
    PROVE  faults' \in Nat /\ restarts' \in Nat
BY DEF TypeOK, Fault

\* ... and by a process that goes down.
LEMMA GoDownType ==
    ASSUME TypeOK, GoDown, db' \in Database, durable' \in Database
    PROVE  TypeOK'
<1>1. restarts' \in Nat /\ faults' \in Nat
  BY DEF TypeOK, GoDown
<1>2. index' \in [Block -> SUBSET Flag] /\ snapshot' \in Snapshot
  BY DEF GoDown, Snapshot
<1>3. orphans' \in Seq(Block) /\ work' \in Seq(Block)
  BY DEF GoDown
<1> QED
  BY <1>1, <1>2, <1>3, BlockAssumption, Zenon DEF TypeOK, GoDown, Step

\* Every step keeps the types.
LEMMA TypeStep == TypeOK /\ [Next]_vars => TypeOK'
<1> SUFFICES ASSUME TypeOK, [Next]_vars PROVE TypeOK'
  OBVIOUS
<1> USE BlockAssumption, BoundAssumption
<1>1. ASSUME NEW b \in Block, ProcessOrphan(b) PROVE TypeOK'
  <2>1. PICK n \in 0..Len(orphans) : AddOrphan(b, n)
    BY <1>1 DEF ProcessOrphan
  <2> DEFINE live   == SubSeq(orphans, n + 1, Len(orphans))
             oldest == IF oldestOrphan = NoBlock /\ live # <<>>
                       THEN Head(live) ELSE oldestOrphan
             full   == Len(live) + 1 > MaxOrphans
  <2>2. live \in Seq(Block)
    BY DEF TypeOK
  <2>3. oldest \in Block \cup {NoBlock}
    BY <2>2 DEF TypeOK
  <2>4. removeOrphanBlock(live, oldest) \in Seq(Block)
    BY <2>2, RemoveOrphanType, Zenon
  <2>5. /\ orphans' = Append(IF full THEN removeOrphanBlock(live, oldest)
                                     ELSE live, b)
        /\ oldestOrphan' = IF full THEN NoBlock ELSE oldest
    BY <2>1 DEF AddOrphan
  <2> HIDE DEF live, oldest, full
  <2>6. orphans' \in Seq(Block) /\ oldestOrphan' \in Block \cup {NoBlock}
    BY <2>2, <2>3, <2>4, <2>5
  <2> QED
    BY <1>1, <2>6 DEF TypeOK, ProcessOrphan, mem, disk, call, bound
<1>2. ASSUME NEW b \in Block, NEW flag \in BOOLEAN, ProcessBlock(b, flag)
      PROVE TypeOK'
  BY <1>2, Zenon DEF TypeOK, ProcessBlock, mem, pool, disk, bound, Step
<1>3. CASE ProcessRefused
  BY <1>3 DEF TypeOK, ProcessRefused, vars
<1>4. CASE StoreBlock
  <2>1. [db EXCEPT !.blocks = @ \cup {cur}] \in Database
    BY ZenonT(60) DEF TypeOK, Database
  <2> QED
    BY <1>4, <2>1, ZenonT(60) DEF TypeOK, StoreBlock, Commit, mem, pool, call, bound, Step
<1>5. CASE StoreFails
  BY <1>5, ReturnType, FaultType, Zenon DEF TypeOK, StoreFails, mem, pool, disk
<1>6. CASE IndexBlock
  <2>1. index' \in [Block -> SUBSET Flag]
    BY <1>6 DEF TypeOK, IndexBlock, Flag
  <2>2. Flushed(index', dirty \cup {cur}) \in Database
    BY <2>1, FlushedType DEF TypeOK
  <2> QED
    BY <1>6, <2>1, <2>2 DEF TypeOK, IndexBlock, Commit, pool, call, bound, Step
<1>7. CASE IndexFails
  <2>1. index' \in [Block -> SUBSET Flag]
    BY <1>7 DEF TypeOK, IndexFails, Flag
  <2> QED
    BY <1>7, <2>1, ReturnType, FaultType, ZenonT(60) DEF TypeOK, IndexFails, pool, disk
<1>8. CASE CheckPasses
  BY <1>8, VerdictType DEF TypeOK, CheckPasses, call, Step, Flag
<1>9. CASE CheckSkipped
  BY <1>9 DEF TypeOK, CheckSkipped, mem, pool, disk, call, bound, Step
<1>10. CASE CheckRejects
  BY <1>10, VerdictType, ReturnType, Zenon DEF TypeOK, CheckRejects, Flag
<1>11. CASE CheckFails
  BY <1>11, ReturnType, FaultType, Zenon DEF TypeOK, CheckFails, mem, pool, disk
<1>12. CASE ConnectFlush
  <2>1. Flushed(index, dirty) \in Database
    BY FlushedType DEF TypeOK
  <2> QED
    BY <1>12, <2>1 DEF TypeOK, ConnectFlush, Commit, pool, call, bound
<1>13. CASE ConnectFlushFails
  <2>1. Flushed(index, dirty) \in Database
    BY FlushedType DEF TypeOK
  <2> QED
    BY <1>13, <2>1, ReturnType, FaultType, ZenonT(60)
    DEF TypeOK, ConnectFlushFails, Commit, pool, disk
<1>14. CASE Connect
  <2> DEFINE T == (tips \cup {cur}) \ Parents[cur]
             d == [db EXCEPT !.tips = T, !.blkCount = snapshot.blkCount + 1,
                             !.heights = @ \cup {cur}]
  <2>1. T \in SUBSET Block /\ snapshot.blkCount + 1 \in Nat
    BY DEF TypeOK, Snapshot
  <2>4. db \in Database /\ db.heights \cup {cur} \in SUBSET Block
    BY DEF TypeOK, Database
  <2> HIDE DEF T
  <2>2. d \in Database
    BY <2>1, <2>4, Zenon DEF Database
  <2> USE DEF T
  <2>3. nodes' \in SUBSET Block
    BY <1>14, ClosureType, SMTT(60) DEF TypeOK, Connect, NewTips
  <2>5. nodeOrder' \in SUBSET Block
    BY <1>14, OrdersWithin DEF TypeOK, Connect
  <2> QED
    BY <1>14, <2>1, <2>2, <2>3, <2>5, ZenonT(60)
    DEF TypeOK, Connect, NewTips, Commit, Snapshot, pool, call, bound, Step
<1>15. CASE ConnectFails
  <2>1. faults' \in Nat /\ restarts' \in Nat
    BY <1>15, FaultType DEF TypeOK, ConnectFails, bound
  <2>2. graph' \in SUBSET Block /\ nodeOrder' \in SUBSET Block
    BY <1>15, OrdersWithin DEF TypeOK, ConnectFails
  <2> QED
    BY <1>15, <2>1, <2>2, ReturnType, Zenon DEF TypeOK, ConnectFails, pool, disk
<1>16. CASE ConnectReturns
  <2>1. CASE fast
    BY <1>16, <2>1, VerdictType DEF TypeOK, ConnectReturns, call, Step, Flag
  <2>2. CASE ~fast
    BY <1>16, <2>2 DEF TypeOK, ConnectReturns, mem, pool, disk, bound, call, Step
  <2> QED
    BY <2>1, <2>2
<1>17. CASE AcceptReturns
  BY <1>17, ReturnType, Zenon DEF TypeOK, AcceptReturns, mem, pool, disk, bound
<1>18. CASE OrphanPass
  <2>1. work' \in Seq(Block)
    BY <1>18, PooledFinite, ListingType, Zenon DEF TypeOK, OrphanPass, OrphanOrders
  <2> QED
    BY <1>18, <2>1, Zenon DEF TypeOK, OrphanPass, mem, pool, disk, bound, Step
<1>19. CASE OrphanPassEnds
  BY <1>19 DEF TypeOK, OrphanPassEnds, mem, pool, disk, call, bound, Step
<1>20. CASE OrphanSkip
  <2>1. Head(work) \in Block /\ Tail(work) \in Seq(Block)
    BY <1>20 DEF TypeOK, OrphanSkip
  <2> QED
    BY <1>20, <2>1 DEF TypeOK, OrphanSkip, mem, pool, disk, bound
<1>21. CASE OrphanWaits
  <2> DEFINE o == Head(work)
             M == MissingParents(o) \cap Pooled
  <2>1. o \in Block /\ Tail(work) \in Seq(Block)
    BY <1>21 DEF TypeOK, OrphanWaits
  <2>2. M \in SUBSET Block /\ IsFiniteSet(M)
    BY PooledFinite, FS_Subset DEF TypeOK
  <2>3. PICK front \in Bijection(1..Cardinality(M), M) : work' = front \o Tail(work)
    BY <1>21, Zenon DEF OrphanWaits
  <2>4. front \in Seq(Block)
    BY <2>2, <2>3, ListingType
  <2>5. work' \in Seq(Block)
    BY <2>1, <2>3, <2>4
  <2> QED
    BY <1>21, <2>1, <2>5 DEF TypeOK, OrphanWaits, mem, pool, disk, bound
<1>22. CASE OrphanTaken
  <2>1. Head(work) \in Block /\ Tail(work) \in Seq(Block)
    BY <1>22 DEF TypeOK, OrphanTaken
  <2>2. orphans' \in Seq(Block)
    BY <1>22, RemoveOrphanType DEF TypeOK, OrphanTaken
  <2>3. work' \in Seq(Block) /\ checked' \in SUBSET Block
    BY <1>22, <2>1 DEF TypeOK, OrphanTaken
  <2>4. \/ pc' = "store" /\ cur' = Head(work) /\ fromPool' = TRUE
        \/ UNCHANGED <<pc, cur, fromPool>>
    BY <1>22 DEF OrphanTaken
  <2>5. pc' \in Step /\ cur' \in Block /\ fromPool' \in BOOLEAN
    BY <2>1, <2>4, ZenonT(60) DEF TypeOK, Step
  <2> QED
    BY <1>22, <2>2, <2>3, <2>5 DEF TypeOK, OrphanTaken, mem, disk, bound
<1>23. CASE Crash
  BY <1>23, GoDownType DEF TypeOK, Crash
<1>24. CASE Shutdown
  BY <1>24, GoDownType, Zenon DEF TypeOK, Shutdown
<1>25. CASE Restart
  <2>1. nodes' \in SUBSET Block
    BY <1>25, ClosureType, SMTT(30) DEF TypeOK, Restart, Database
  <2>2. index' \in [Block -> SUBSET Flag]
    BY <1>25 DEF TypeOK, Restart, Database, Flag
  <2>3. [db EXCEPT !.rows = index'] \in Database
    BY <2>2, Zenon DEF TypeOK, Database
  <2>4. db' \in Database /\ durable' \in Database
    BY <1>25, <2>3, ZenonT(60) DEF TypeOK, Restart, Commit
  <2>5. /\ tips' \in SUBSET Block /\ graph' \in SUBSET Block
        /\ snapshot' \in Snapshot
    BY <1>25 DEF TypeOK, Restart, Known, Database, Snapshot
  <2>6. nodeOrder' \in SUBSET Block
    BY <1>25, <2>5, OrdersWithin DEF Restart
  <2> QED
    BY <1>25, <2>1, <2>2, <2>4, <2>5, <2>6
    DEF TypeOK, Restart, pool, call, bound, Step
<1>26. CASE OrphanLookupFails
  BY <1>26, FaultType, Zenon DEF TypeOK, OrphanLookupFails, mem, pool, disk, call, Step
<1>27. CASE UNCHANGED vars
  BY <1>27 DEF TypeOK, vars
<1>28. CASE Accept
  BY <1>4, <1>5, <1>6, <1>7, <1>8, <1>9, <1>10, <1>11, <1>12, <1>13, <1>14,
     <1>15, <1>16, <1>17, <1>28 DEF Accept
<1>29. CASE ProcessOrphans
  BY <1>18, <1>19, <1>20, <1>21, <1>22, <1>26, <1>29 DEF ProcessOrphans
<1> QED
  BY <1>1, <1>2, <1>3, <1>23, <1>24, <1>25, <1>27, <1>28, <1>29 DEF Next

\* The initial state has the types.
LEMMA TypeInit == Init => TypeOK
<1> SUFFICES ASSUME Init PROVE TypeOK
  OBVIOUS
<1>1. index \in [Block -> SUBSET Flag]
  BY DEF Init, GenesisStatus, Flag
<1>2. snapshot \in Snapshot
  BY BlockAssumption DEF Init, Snapshot
<1>3. db \in Database /\ durable \in Database
  BY BlockAssumption DEF Init, GenesisStatus, GenesisDatabase, Database, Flag
<1>4. orphans \in Seq(Block) /\ work \in Seq(Block)
  BY DEF Init
<1>5. restarts \in Nat /\ faults \in Nat
  BY DEF Init
<1> QED
  BY <1>1, <1>2, <1>3, <1>4, <1>5, BlockAssumption, ZenonT(60) DEF Init, TypeOK, Step

\* Every variable of block acceptance keeps its type, whatever blocks arrive
\* and whatever fails.
THEOREM TypeCorrect == Spec => []TypeOK
BY TypeInit, TypeStep, PTL DEF Spec

-----------------------------------------------------------------------------
\* What survives a crash is part of what is committed, and both can be loaded.
Saved == Recoverable /\ Closure(durable.tips) \subseteq Closure(db.tips)

\* The inductive invariant.
Inv == TypeOK /\ Saved /\ DiskDescribesView /\ WriteAhead

\* What a step does to what is on disk and to the connected view.
Grows ==
    /\ Closure(durable.tips) \subseteq Closure(durable'.tips)
    /\ (pc # "down" /\ pc' # "down") => nodes \subseteq nodes'

\* A transaction that leaves a sound database, and reaches what was reached
\* before, keeps what survives a crash in order.
LEMMA CommitSaved ==
    ASSUME Saved, NEW d, Commit(d), Sound(d),
           Closure(db.tips) \subseteq Closure(d.tips)
    PROVE  Saved' /\ Closure(durable.tips) \subseteq Closure(durable'.tips)
<1>1. CASE durable' = durable
  <2>1. Sound(db)' /\ Sound(durable)'
    BY <1>1, Zenon DEF Saved, Recoverable, Commit, Sound, Loadable, Known
  <2>2. Closure(durable.tips)' \subseteq Closure(db.tips)'
    BY <1>1 DEF Saved, Commit, Closure
  <2> QED
    BY <1>1, <2>1, <2>2 DEF Saved, Recoverable
<1>2. CASE durable' = d
  <2>1. Sound(db)' /\ Sound(durable)'
    BY <1>2, Zenon DEF Commit, Sound, Loadable, Known
  <2>2. db' = d
    BY DEF Commit
  <2> QED
    BY <1>2, <2>1, <2>2 DEF Saved, Recoverable, Closure
<1> QED
  BY <1>1, <1>2 DEF Commit

\* A flush that brings the rows up to an index which is closed, and has the
\* data of its blocks, leaves a sound database.
LEMMA FlushSound ==
    ASSUME db \in Database, Sound(db),
           NEW status \in [Block -> SUBSET Flag],
           NEW unwritten \in SUBSET Block,
           Known(status) = Known(db.rows) \cup unwritten,
           Known(status) \subseteq db.blocks,
           AncestorClosed(Known(status))
    PROVE  LET d == Flushed(status, unwritten)
           IN  /\ Sound(d)
               /\ Known(d.rows) = Known(status)
               /\ d.blocks = db.blocks /\ d.tips = db.tips
<1> DEFINE d == Flushed(status, unwritten)
<1>1. /\ d.blocks = db.blocks /\ d.tips = db.tips /\ d.heights = db.heights
      /\ d.rows = [b \in Block |-> IF b \in unwritten THEN status[b] ELSE db.rows[b]]
  BY DEF Flushed, Database
<1> HIDE DEF d
<1>2. Known(d.rows) = Known(status)
  BY <1>1 DEF Known
<1>3. Sound(d)
  BY <1>1, <1>2 DEF Sound, Loadable, AncestorClosed
<1> QED
  BY <1>1, <1>2, <1>3 DEF d

\* A step inside a call that touches neither the index, nor the view, nor the
\* database.
LEMMA QuietStep ==
    ASSUME Inv, UNCHANGED <<index, dirty, nodes, tips, db, durable>>,
           pc # "down", pc' # "down", TypeOK', CallBacked'
    PROVE  Inv' /\ Grows
<1>1. Saved'
  BY Zenon DEF Inv, Saved, Recoverable, Sound, Loadable, Known, Closure
<1>2. DiskDescribesView'
  BY DEF Inv, DiskDescribesView, Closure
<1>3. IndexBacked'
  BY DEF Inv, WriteAhead, IndexBacked, Known
<1>4. Grows
  BY DEF Grows
<1> QED
  BY <1>1, <1>2, <1>3, <1>4 DEF Inv, WriteAhead

\* A step that changes the index and writes it, or leaves it dirty.
LEMMA IndexStep ==
    ASSUME Inv, TypeOK', pc # "down", pc' # "down", UNCHANGED <<nodes, tips>>,
           NEW unwritten \in SUBSET Block,
           Known(index') = Known(db.rows) \cup unwritten,
           Known(index') \subseteq db.blocks,
           AncestorClosed(Known(index')),
           \/ dirty' = {} /\ Commit(Flushed(index', unwritten))
           \/ dirty' = unwritten /\ UNCHANGED <<db, durable>>,
           Known(db.rows) \subseteq Known(db'.rows) /\ db'.blocks = db.blocks
               => CallBacked'
    PROVE  Inv' /\ Grows
<1>1. CASE dirty' = {} /\ Commit(Flushed(index', unwritten))
  <2> DEFINE d == Flushed(index', unwritten)
  <2>1. /\ Sound(d) /\ Known(d.rows) = Known(index')
        /\ d.blocks = db.blocks /\ d.tips = db.tips
    BY FlushSound, Zenon DEF Inv, TypeOK, Saved, Recoverable
  <2>2. db' = d
    BY <1>1 DEF Commit
  <2> HIDE DEF d
  <2>3. Saved' /\ Closure(durable.tips) \subseteq Closure(durable'.tips)
    BY <1>1, <2>1, CommitSaved, Zenon DEF Inv, d
  <2>4. DiskDescribesView'
    BY <2>1, <2>2, Zenon DEF Inv, DiskDescribesView, Closure
  <2>5. IndexBacked'
    BY <1>1, <2>1, <2>2, Zenon DEF IndexBacked, Known
  <2>6. CallBacked'
    BY <2>1, <2>2
  <2> QED
    BY <2>3, <2>4, <2>5, <2>6 DEF Inv, WriteAhead, Grows
<1>2. CASE dirty' = unwritten /\ UNCHANGED <<db, durable>>
  <2>1. Saved' /\ Closure(durable.tips) \subseteq Closure(durable'.tips)
    BY <1>2, Zenon DEF Inv, Saved, Recoverable, Sound, Loadable, Known, Closure
  <2>2. DiskDescribesView'
    BY <1>2 DEF Inv, DiskDescribesView, Closure
  <2>3. IndexBacked'
    BY <1>2 DEF IndexBacked, Known
  <2>4. CallBacked'
    BY <1>2
  <2> QED
    BY <2>1, <2>2, <2>3, <2>4 DEF Inv, WriteAhead, Grows
<1> QED
  BY <1>1, <1>2

\* Going down loses the memory; the database is what it was, or what survived.
LEMMA DownStep ==
    ASSUME Inv, GoDown, TypeOK', Saved',
           Closure(durable.tips) \subseteq Closure(durable'.tips)
    PROVE  Inv' /\ Grows
BY Zenon DEF Inv, GoDown, DiskDescribesView, WriteAhead, IndexBacked, CallBacked, Grows

\* Recording a verdict on the block in progress is such an index step.
LEMMA VerdictStep ==
    ASSUME Inv, TypeOK', NEW flag \in Flag, Verdict(flag),
           pc \in {"check", "connected"}, pc' # "down",
           Known(db.rows) \subseteq Known(db'.rows) /\ db'.blocks = db.blocks
               => CallBacked'
    PROVE  Inv' /\ Grows
<1>1. /\ Known(index) = Known(db.rows) \cup dirty /\ Known(index) \subseteq db.blocks
      /\ AncestorClosed(Known(index)) /\ cur \in Known(db.rows)
  BY DEF Inv, WriteAhead, IndexBacked, CallBacked
<1>2. Known(index') = Known(index)
  <2>1. cur \in Block /\ index \in [Block -> SUBSET Flag] /\ index[cur] # {}
    BY <1>1, Zenon DEF Inv, TypeOK, Known
  <2>2. index' = [index EXCEPT ![cur] = @ \cup {flag}]
    BY DEF Verdict
  <2> QED
    BY <2>1, <2>2 DEF Known
<1>3. dirty \cup {cur} \in SUBSET Block
  BY DEF Inv, TypeOK
<1>4. /\ Known(index') = Known(db.rows) \cup (dirty \cup {cur})
      /\ Known(index') \subseteq db.blocks
  BY <1>1, <1>2
<1>5. AncestorClosed(Known(index'))
  BY <1>1, <1>2 DEF AncestorClosed
<1>6. /\ UNCHANGED <<nodes, tips>>
      /\ \/ dirty' = {} /\ Commit(Flushed(index', dirty \cup {cur}))
         \/ dirty' = dirty \cup {cur} /\ UNCHANGED <<db, durable>>
  BY DEF Verdict, disk
<1>7. pc # "down"
  OBVIOUS
<1> QED
  BY <1>3, <1>4, <1>5, <1>6, <1>7, IndexStep, Zenon

\* A block on its way to the index joins an index that stays closed.
LEMMA NewIndexNode ==
    ASSUME Inv, pc = "index", index' = [index EXCEPT ![cur] = {"stored"}]
    PROVE  /\ Known(index') = Known(db.rows) \cup (dirty \cup {cur})
           /\ Known(index') \subseteq db.blocks
           /\ AncestorClosed(Known(index'))
<1>1. /\ Known(index) = Known(db.rows) \cup dirty /\ Known(index) \subseteq db.blocks
      /\ AncestorClosed(Known(index))
      /\ Parents[cur] \subseteq Known(index) /\ cur \in db.blocks
  BY DEF Inv, WriteAhead, IndexBacked, CallBacked
<1>2. Known(index') = Known(index) \cup {cur}
  BY DEF Known, Inv, TypeOK
<1>3. AncestorClosed(Known(index'))
  BY <1>1, <1>2, Zenon DEF AncestorClosed
<1> QED
  BY <1>1, <1>2, <1>3, Zenon

\* connectBlock moves the view and the tips on disk alike.
LEMMA ConnectStep ==
    ASSUME Inv, TypeOK', Connect
    PROVE  Inv' /\ Grows
<1> DEFINE T == (tips \cup {cur}) \ Parents[cur]
           d == [db EXCEPT !.tips = T, !.blkCount = snapshot.blkCount + 1,
                           !.heights = @ \cup {cur}]
<1>1. /\ d.tips = T /\ d.rows = db.rows /\ d.blocks = db.blocks
      /\ d.heights = db.heights \cup {cur}
  BY DEF Inv, TypeOK, Database
<1>2. db' = d /\ Commit(d)
  BY DEF Connect, NewTips, Commit
<1>3. tips = db.tips /\ nodes = Closure(db.tips) /\ tips' = T
  BY DEF Inv, DiskDescribesView, Connect, NewTips
<1> HIDE DEF d
<1>4. Closure(T) = Closure(tips) \cup Closure({cur})
  BY ClosureOfNewTips, Zenon DEF Inv, TypeOK
<1>5. cur \in Known(db.rows) /\ cur \in db.blocks
  BY DEF Inv, WriteAhead, IndexBacked, CallBacked, Connect
<1>6. Sound(d)
  BY <1>1, <1>3, <1>5, ZenonT(60) DEF Inv, Saved, Recoverable, Sound, Loadable, Known
<1>7. Saved' /\ Closure(durable.tips) \subseteq Closure(durable'.tips)
  BY <1>1, <1>2, <1>3, <1>4, <1>6, CommitSaved, Zenon DEF Inv
<1>8. nodes' = Closure(T)
  BY <1>3, <1>4, Zenon DEF Connect
<1>9. DiskDescribesView'
  BY <1>1, <1>2, <1>3, <1>8 DEF DiskDescribesView, Closure
<1>10. WriteAhead'
  BY <1>1, <1>2, <1>5
  DEF Inv, WriteAhead, IndexBacked, CallBacked, Connect, Known, call
<1> QED
  BY <1>3, <1>4, <1>7, <1>8, <1>9, <1>10 DEF Inv, Grows

\* initChainState rebuilds what the invariant says of the memory.
LEMMA RestartStep ==
    ASSUME Inv, TypeOK', Restart
    PROVE  Inv' /\ Grows
<1> DEFINE d == [db EXCEPT !.rows = index']
<1>1. /\ d.tips = db.tips /\ d.rows = index' /\ d.blocks = db.blocks
      /\ d.heights = db.heights
  BY DEF Inv, TypeOK, Database
<1>2. db' = d /\ Commit(d)
  BY DEF Restart, Commit
<1> HIDE DEF d
<1>3. /\ db.tips \subseteq Known(db.rows) /\ AncestorClosed(Known(db.rows))
      /\ Known(db.rows) \subseteq Block /\ db.tips \in SUBSET Block
  BY Zenon DEF Inv, TypeOK, Database, Saved, Recoverable, Sound, Loadable, AncestorClosed,
         Known
<1>4. nodes' \subseteq Known(db.rows)
  BY <1>3, ClosureLeast DEF Restart
<1>5. Known(index') = Known(db.rows)
  BY <1>4 DEF Restart, Known
<1>6. Sound(d)
  BY <1>1, <1>5 DEF Inv, Saved, Recoverable, Sound, Loadable
<1>7. Saved' /\ Closure(durable.tips) \subseteq Closure(durable'.tips)
  BY <1>1, <1>2, <1>6, CommitSaved DEF Inv
<1>8. DiskDescribesView'
  BY <1>1, <1>2 DEF Restart, DiskDescribesView, Closure
<1>9. Known(index') \subseteq db.blocks
  BY <1>5 DEF Inv, Saved, Recoverable, Sound
<1>10. WriteAhead'
  BY <1>1, <1>2, <1>3, <1>5, <1>9, Zenon
  DEF WriteAhead, IndexBacked, CallBacked, Restart, Known
<1> QED
  BY <1>7, <1>8, <1>10 DEF Inv, Grows, Restart

\* Every step keeps the invariant, and loses nothing that is connected.
LEMMA InvStep ==
    ASSUME Inv, [Next]_vars
    PROVE  Inv' /\ Grows
<1>0. TypeOK'
  BY TypeStep DEF Inv
<1>1. ASSUME NEW b \in Block, ProcessOrphan(b) PROVE Inv' /\ Grows
  <2>1. CallBacked'
    BY <1>1 DEF ProcessOrphan, CallBacked
  <2> QED
    BY <1>0, <1>1, <2>1, QuietStep, Zenon DEF ProcessOrphan, mem, disk
<1>2. ASSUME NEW b \in Block, NEW flag \in BOOLEAN, ProcessBlock(b, flag)
      PROVE Inv' /\ Grows
  <2>1. CallBacked'
    BY <1>2, BlockAssumption, Zenon DEF ProcessBlock, CallBacked, Known, mem
  <2> QED
    BY <1>0, <1>2, <2>1, QuietStep, Zenon DEF ProcessBlock, mem, disk
<1>3. CASE ProcessRefused
  <2>1. CallBacked'
    BY <1>3, Zenon DEF ProcessRefused, vars, CallBacked
  <2> QED
    BY <1>0, <1>3, <2>1, QuietStep DEF ProcessRefused, vars
<1>4. CASE StoreBlock
  <2> DEFINE d == [db EXCEPT !.blocks = @ \cup {cur}]
  <2>1. /\ d.tips = db.tips /\ d.rows = db.rows /\ d.heights = db.heights
        /\ d.blocks = db.blocks \cup {cur}
    BY DEF Inv, TypeOK, Database
  <2>2. db' = d /\ Commit(d)
    BY <1>4 DEF StoreBlock, Commit
  <2> HIDE DEF d
  <2>3. Sound(d)
    BY <2>1, Zenon DEF Inv, Saved, Recoverable, Sound, Loadable, Known
  <2>4. Saved' /\ Closure(durable.tips) \subseteq Closure(durable'.tips)
    BY <2>1, <2>2, <2>3, CommitSaved, Zenon DEF Inv
  <2>5. DiskDescribesView'
    BY <1>4, <2>1, <2>2 DEF Inv, DiskDescribesView, StoreBlock, mem, Closure
  <2>6. WriteAhead'
    BY <1>4, <2>1, <2>2
    DEF Inv, WriteAhead, IndexBacked, CallBacked, StoreBlock, mem, call, Known
  <2> QED
    BY <1>0, <1>4, <2>4, <2>5, <2>6 DEF Inv, Grows, StoreBlock, mem
<1>5. CASE StoreFails
  <2>1. CallBacked'
    BY <1>5 DEF StoreFails, Return, CallBacked
  <2> QED
    BY <1>0, <1>5, <2>1, QuietStep DEF StoreFails, Return, mem, disk
<1>6. CASE IndexBlock
  <2>1. dirty \cup {cur} \in SUBSET Block
    BY DEF Inv, TypeOK
  <2>2. cur \in Known(db'.rows)
    BY <1>6 DEF IndexBlock, Commit, Flushed, Known, Inv, TypeOK, Database
  <2>3. CallBacked'
    BY <1>6, <2>2 DEF IndexBlock, CallBacked, call, Known
  <2> QED
    BY <1>0, <1>6, <2>1, <2>3, NewIndexNode, IndexStep, Zenon DEF IndexBlock
<1>7. CASE IndexFails
  <2>1. dirty \cup {cur} \in SUBSET Block
    BY DEF Inv, TypeOK
  <2>2. CallBacked'
    BY <1>7 DEF IndexFails, Return, CallBacked
  <2> QED
    BY <1>0, <1>7, <2>1, <2>2, NewIndexNode, IndexStep, Zenon DEF IndexFails, Return, disk
<1>8. CASE CheckPasses
  <2>1. Known(db.rows) \subseteq Known(db'.rows) => CallBacked'
    BY <1>8 DEF CheckPasses, CallBacked, Inv, WriteAhead, call, Known
  <2> QED
    BY <1>0, <1>8, <2>1, VerdictStep DEF CheckPasses, Flag
<1>9. CASE CheckSkipped
  <2>1. CallBacked'
    BY <1>9 DEF CheckSkipped, CallBacked, Inv, WriteAhead, mem, disk, call, Known
  <2> QED
    BY <1>0, <1>9, <2>1, QuietStep DEF CheckSkipped, mem, disk
<1>10. CASE CheckRejects
  <2>1. CallBacked'
    BY <1>10 DEF CheckRejects, Return, CallBacked
  <2> QED
    BY <1>0, <1>10, <2>1, VerdictStep DEF CheckRejects, Return, Flag
<1>11. CASE CheckFails
  <2>1. CallBacked'
    BY <1>11 DEF CheckFails, Return, CallBacked
  <2> QED
    BY <1>0, <1>11, <2>1, QuietStep DEF CheckFails, Return, mem, disk
<1>12. CASE ConnectFlush \/ ConnectFlushFails
  <2>1. /\ Known(index') = Known(db.rows) \cup dirty
        /\ Known(index') \subseteq db.blocks
        /\ AncestorClosed(Known(index'))
        /\ dirty \in SUBSET Block /\ index' = index
    BY <1>12, Zenon DEF ConnectFlush, ConnectFlushFails, Inv, TypeOK, WriteAhead, IndexBacked
  <2>2. Known(db.rows) \subseteq Known(db'.rows) => CallBacked'
    BY <1>12, Zenon
    DEF ConnectFlush, ConnectFlushFails, Return, CallBacked, Inv, WriteAhead, call, Known
  <2>3. \/ dirty' = {} /\ Commit(Flushed(index', dirty))
        \/ dirty' = dirty /\ UNCHANGED <<db, durable>>
    BY <1>12, <2>1, Zenon DEF ConnectFlush, ConnectFlushFails, disk
  <2> QED
    BY <1>0, <1>12, <2>1, <2>2, <2>3, IndexStep, Zenon
    DEF ConnectFlush, ConnectFlushFails, Return
<1>13. CASE Connect
  BY <1>0, <1>13, ConnectStep
<1>14. CASE ConnectFails
  <2>1. CallBacked'
    BY <1>14, Zenon DEF ConnectFails, Return, CallBacked
  <2> QED
    BY <1>0, <1>14, <2>1, QuietStep DEF ConnectFails, Return, disk
<1>15. CASE ConnectReturns
  <2>1. CallBacked'
    BY <1>15 DEF ConnectReturns, CallBacked
  <2>2. CASE fast
    BY <1>0, <1>15, <2>1, <2>2, VerdictStep, Zenon DEF ConnectReturns, Flag
  <2>3. CASE ~fast
    BY <1>0, <1>15, <2>1, <2>3, QuietStep DEF ConnectReturns, mem, disk
  <2> QED
    BY <2>2, <2>3
<1>16. CASE AcceptReturns
  <2>1. CallBacked'
    BY <1>16 DEF AcceptReturns, Return, CallBacked
  <2> QED
    BY <1>0, <1>16, <2>1, QuietStep DEF AcceptReturns, Return, mem, disk
<1>17. CASE OrphanPass \/ OrphanPassEnds \/ OrphanSkip \/ OrphanWaits
  <2>1. CallBacked'
    BY <1>17, Zenon DEF OrphanPass, OrphanPassEnds, OrphanSkip, OrphanWaits, CallBacked
  <2> QED
    BY <1>0, <1>17, <2>1, QuietStep, Zenon
    DEF OrphanPass, OrphanPassEnds, OrphanSkip, OrphanWaits, mem, disk
<1>18. CASE OrphanTaken
  <2>0. work \in Seq(Block) /\ work # <<>>
    BY <1>18, Zenon DEF OrphanTaken, Inv, TypeOK
  <2>1. Head(work) \in Block
    BY <2>0
  <2>2. CallBacked'
    BY <1>18, <2>1, BlockAssumption, Zenon DEF OrphanTaken, CallBacked, mem, Known
  <2> QED
    BY <1>0, <1>18, <2>2, QuietStep, Zenon DEF OrphanTaken, mem, disk
<1>19. CASE Crash
  <2>1. Saved'
    BY <1>19, Zenon DEF Crash, Inv, Saved, Recoverable, Sound, Loadable, Known, Closure
  <2> QED
    BY <1>0, <1>19, <2>1, DownStep DEF Crash
<1>20. CASE Shutdown
  <2>1. Saved'
    BY <1>20, Zenon DEF Shutdown, Inv, Saved, Recoverable, Sound, Loadable, Known, Closure
  <2> QED
    BY <1>0, <1>20, <2>1, DownStep, Zenon DEF Shutdown, Inv, Saved
<1>21. CASE Restart
  BY <1>0, <1>21, RestartStep
<1>22. CASE OrphanLookupFails
  <2>1. CallBacked'
    BY <1>22 DEF OrphanLookupFails, CallBacked
  <2> QED
    BY <1>0, <1>22, <2>1, QuietStep DEF OrphanLookupFails, mem, disk
<1>23. CASE UNCHANGED vars
  <2>1. Saved' /\ DiskDescribesView'
    BY <1>23, Zenon DEF vars, Inv, Saved, Recoverable, Sound, Loadable, Known, Closure,
                 DiskDescribesView
  <2>2. WriteAhead'
    BY <1>23, Zenon DEF vars, Inv, WriteAhead, IndexBacked, CallBacked, Known
  <2>3. Grows
    BY <1>23 DEF vars, Grows
  <2> QED
    BY <1>0, <2>1, <2>2, <2>3 DEF Inv
<1> QED
  BY <1>1, <1>2, <1>3, <1>4, <1>5, <1>6, <1>7, <1>8, <1>9, <1>10, <1>11, <1>12,
     <1>13, <1>14, <1>15, <1>16, <1>17, <1>18, <1>19, <1>20, <1>21, <1>22, <1>23
  DEF Next, Accept, ProcessOrphans

\* A database that holds genesis only, and a memory that does, satisfy it.
LEMMA InvInit ==
    ASSUME Init
    PROVE  Inv
<1>1. TypeOK
  BY TypeInit
<1>2. /\ db.tips = {Genesis} /\ db.blocks = {Genesis} /\ db.heights = {Genesis}
      /\ db.rows = GenesisStatus /\ durable = db
  BY DEF Init, GenesisDatabase
<1>3. Known(GenesisStatus) = {Genesis}
  <2>1. \A b \in Block : GenesisStatus[b] # {} <=> b = Genesis
    BY DEF GenesisStatus
  <2>2. Genesis \in Block
    BY BlockAssumption
  <2>3. \A b : b \in Known(GenesisStatus) <=> b = Genesis
    BY <2>1, <2>2 DEF Known
  <2> QED
    BY <2>3
<1>4. Parents[Genesis] = {}
  BY BlockAssumption
<1>5. AncestorClosed({Genesis})
  BY <1>4 DEF AncestorClosed
<1>6. Closure({Genesis}) = {Genesis}
  <2>1. Closure({Genesis}) \subseteq {Genesis}
    BY <1>5, ClosureLeast, BlockAssumption
  <2>2. Genesis \in Closure({Genesis})
    BY AncestryClosed, BlockAssumption DEF Closure
  <2> QED
    BY <2>1, <2>2
<1>7. Saved
  BY <1>2, <1>3, <1>4, <1>6, Zenon DEF Saved, Recoverable, Sound, Loadable
<1>8. DiskDescribesView
  BY <1>2, <1>6, Zenon DEF Init, DiskDescribesView
<1>9. WriteAhead
  <2>1. IndexBacked
    BY <1>2, <1>3, <1>5, Zenon DEF Init, IndexBacked
  <2>2. CallBacked
    BY Zenon DEF Init, CallBacked
  <2> QED
    BY <2>1, <2>2 DEF WriteAhead
<1> QED
  BY <1>1, <1>7, <1>8, <1>9 DEF Inv

\* The invariant holds in every state of every behaviour.
THEOREM Invariance == Spec => []Inv
<1>1. Init => Inv
  BY InvInit
<1>2. Inv /\ [Next]_vars => Inv'
  BY InvStep
<1> QED
  BY <1>1, <1>2, PTL DEF Spec

\* Whatever transaction failed and wherever the node stopped, the database it
\* left can be loaded by initChainState and no row in it lacks its block.
THEOREM AlwaysRecoverable == Spec => []Recoverable
<1>1. Inv => Recoverable
  BY DEF Inv, Saved
<1> QED
  BY <1>1, Invariance, PTL

\* The tips connectBlock stores describe the view it keeps in memory.
THEOREM ViewOnDisk == Spec => []DiskDescribesView
<1>1. Inv => DiskDescribesView
  BY DEF Inv
<1> QED
  BY <1>1, Invariance, PTL

\* maybeAcceptBlock's transactions come in the order its next steps rely on.
THEOREM WritesComeFirst == Spec => []WriteAhead
<1>1. Inv => WriteAhead
  BY DEF Inv
<1> QED
  BY <1>1, Invariance, PTL

\* A connected block is never disconnected, and a saved one never lost.
THEOREM NothingDisconnected == Spec => ConnectedForever
<1>1. Inv /\ [Next]_vars => [Grows]_vars
  BY InvStep
<1>2. Spec => [][Grows]_vars
  BY <1>1, Invariance, PTL DEF Spec
<1> QED
  BY <1>2 DEF ConnectedForever, Grows

-----------------------------------------------------------------------------
\* The orphan pool.

Elems(s) == {s[i] : i \in DOMAIN s}

Distinct(s) == \A i, j \in DOMAIN s : s[i] = s[j] => i = j

\* Removing an orphan removes it and nothing else.
LEMMA RemoveOrphan ==
    ASSUME NEW s \in Seq(Block), Distinct(s), NEW o
    PROVE  /\ removeOrphanBlock(s, o) \in Seq(Block)
           /\ Distinct(removeOrphanBlock(s, o))
           /\ Elems(removeOrphanBlock(s, o)) = Elems(s) \ {o}
           /\ Len(removeOrphanBlock(s, o)) =
                IF o \in Elems(s) THEN Len(s) - 1 ELSE Len(s)
<1>1. CASE \E i \in DOMAIN s : s[i] = o
  <2> DEFINE k == CHOOSE i \in DOMAIN s : s[i] = o
             A == SubSeq(s, 1, k - 1)
             B == SubSeq(s, k + 1, Len(s))
             r == A \o B
  <2>1. k \in 1..Len(s) /\ s[k] = o
    BY <1>1
  <2>2. removeOrphanBlock(s, o) = r
    BY <1>1, Zenon DEF removeOrphanBlock
  <2> HIDE DEF k
  <2>3. /\ A \in Seq(Block) /\ Len(A) = k - 1
        /\ \A i \in 1..(k - 1) : A[i] = s[i]
    BY <2>1
  <2>4. /\ B \in Seq(Block) /\ Len(B) = Len(s) - k
        /\ \A i \in 1..(Len(s) - k) : B[i] = s[k + i]
    BY <2>1
  <2> HIDE DEF A, B
  <2>5. /\ r \in Seq(Block) /\ Len(r) = Len(s) - 1
        /\ \A i \in 1..Len(r) : r[i] = IF i < k THEN s[i] ELSE s[i + 1]
    <3>0. r \in Seq(Block) /\ Len(r) = Len(A) + Len(B)
      <4>1. A \in Seq(Block) /\ B \in Seq(Block)
        BY <2>3, <2>4, Zenon
      <4>2. QED
        BY <4>1, SMTT(30)
    <3>1. r \in Seq(Block) /\ Len(r) = Len(s) - 1
      BY <2>1, <2>3, <2>4, <3>0
    <3>2. \A i \in 1..Len(r) : r[i] = IF i < k THEN A[i] ELSE B[i - (k - 1)]
      BY <2>1, <2>3, <2>4, <3>1, SMTT(60)
    <3>3. ASSUME NEW i \in 1..Len(r) PROVE r[i] = IF i < k THEN s[i] ELSE s[i + 1]
      <4>1. CASE i < k
        BY <2>1, <2>3, <3>2, <4>1
      <4>2. CASE ~(i < k)
        <5>1. i - (k - 1) \in 1..(Len(s) - k) /\ k + (i - (k - 1)) = i + 1
          BY <2>1, <3>1, <4>2
        <5>2. B[i - (k - 1)] = s[k + (i - (k - 1))]
          BY <2>4, <5>1
        <5>3. QED
          BY <3>2, <4>2, <5>1, <5>2
      <4>3. QED
        BY <4>1, <4>2
    <3>4. QED
      BY <3>1, <3>3
  <2> HIDE DEF r
  <2>6. Distinct(r)
    BY <2>1, <2>5, SMTT(60) DEF Distinct
  <2>7. Elems(r) \subseteq Elems(s) \ {o}
    <3> SUFFICES ASSUME NEW i \in 1..Len(r) PROVE r[i] \in Elems(s) /\ r[i] # o
      BY <2>5 DEF Elems
    <3>1. PICK j \in 1..Len(s) : r[i] = s[j] /\ j # k
      BY <2>1, <2>5, SMTT(30)
    <3>2. QED
      BY <2>1, <3>1 DEF Elems, Distinct
  <2>8. ASSUME NEW x \in Elems(s) \ {o} PROVE x \in Elems(r)
    <3>1. PICK j \in 1..Len(s) : x = s[j] /\ j # k
      BY <2>1 DEF Elems
    <3>2. CASE j < k
      BY <2>1, <2>5, <3>1, <3>2, SMTT(60) DEF Elems
    <3>3. CASE j > k
      <4>1. j - 1 \in 1..Len(r) /\ r[j - 1] = s[j]
        BY <2>1, <2>5, <3>1, <3>3
      <4>2. QED
        BY <3>1, <4>1, <2>5, SMTT(30) DEF Elems
    <3>4. QED
      BY <2>1, <3>1, <3>2, <3>3
  <2>9. o \in Elems(s)
    BY <1>1 DEF Elems
  <2>10. Elems(r) = Elems(s) \ {o}
    BY <2>7, <2>8, Zenon
  <2>11. QED
    BY <2>2, <2>5, <2>6, <2>9, <2>10, Zenon
<1>2. CASE ~(\E i \in DOMAIN s : s[i] = o)
  BY <1>2 DEF removeOrphanBlock, Elems
<1>3. QED
  BY <1>1, <1>2

\* Dropping the first n orphans, as the expiry does, adds none.
LEMMA DropOrphans ==
    ASSUME NEW s \in Seq(Block), Distinct(s), NEW n \in 0..Len(s)
    PROVE  LET live == SubSeq(s, n + 1, Len(s))
           IN  /\ live \in Seq(Block) /\ Distinct(live)
               /\ Elems(live) \subseteq Elems(s) /\ Len(live) = Len(s) - n
<1> DEFINE live == SubSeq(s, n + 1, Len(s))
<1>1. /\ live \in Seq(Block) /\ Len(live) = Len(s) - n
      /\ \A i \in 1..Len(live) : live[i] = s[n + i]
  BY SMTT(30)
<1> HIDE DEF live
<1>2. Distinct(live)
  <2> SUFFICES ASSUME NEW i \in 1..Len(live), NEW j \in 1..Len(live), live[i] = live[j]
               PROVE  i = j
    BY <1>1 DEF Distinct
  <2>1. n + i \in 1..Len(s) /\ n + j \in 1..Len(s) /\ s[n + i] = s[n + j]
    BY <1>1
  <2>2. n + i = n + j
    BY <2>1 DEF Distinct
  <2>3. QED
    BY <2>2
<1>3. Elems(live) \subseteq Elems(s)
  BY <1>1 DEF Elems
<1>4. QED
  BY <1>1, <1>2, <1>3, Zenon DEF live

\* Adding a block that is not in a pool to it.
LEMMA AppendOrphan ==
    ASSUME NEW s \in Seq(Block), Distinct(s), NEW b \in Block, b \notin Elems(s)
    PROVE  /\ Append(s, b) \in Seq(Block) /\ Distinct(Append(s, b))
           /\ Elems(Append(s, b)) = Elems(s) \cup {b}
           /\ Len(Append(s, b)) = Len(s) + 1
<1> DEFINE r == Append(s, b)
<1>1. /\ r \in Seq(Block) /\ Len(r) = Len(s) + 1
      /\ \A i \in 1..Len(s) : r[i] = s[i]
      /\ r[Len(s) + 1] = b
  OBVIOUS
<1> HIDE DEF r
<1>2. Distinct(r)
  BY <1>1, SMTT(30) DEF Distinct, Elems
<1>3. Elems(r) \subseteq Elems(s) \cup {b}
  BY <1>1 DEF Elems
<1>4. Elems(s) \subseteq Elems(r) /\ b \in Elems(r)
  BY <1>1 DEF Elems
<1>5. QED
  BY <1>1, <1>2, <1>3, <1>4 DEF r

\* No orphan is in the pool twice, or known to the index; the block in progress
\* is not in the pool; a pool over its limit has no oldest orphan on record.
PoolInv ==
    /\ Distinct(orphans)
    /\ \A o \in Pooled : index[o] = {}
    /\ pc \in {"store", "index"} => cur \notin Pooled
    /\ pc = "down" => orphans = <<>>
    /\ Len(orphans) <= MaxOrphans + 1
    /\ Len(orphans) = MaxOrphans + 1 => oldestOrphan = NoBlock

\* A new orphan.
LEMMA ProcessOrphanPool ==
    ASSUME Inv, PoolInv, NEW b \in Block, ProcessOrphan(b)
    PROVE  PoolInv' /\ Pooled' \subseteq Pooled \cup {b}
<1>1. PICK n \in 0..Len(orphans) : AddOrphan(b, n)
  BY DEF ProcessOrphan
<1> DEFINE live   == SubSeq(orphans, n + 1, Len(orphans))
           oldest == IF oldestOrphan = NoBlock /\ live # <<>>
                     THEN Head(live) ELSE oldestOrphan
           full   == Len(live) + 1 > MaxOrphans
           kept   == IF full THEN removeOrphanBlock(live, oldest) ELSE live
<1>2. orphans' = Append(kept, b) /\ oldestOrphan' = IF full THEN NoBlock ELSE oldest
  BY <1>1, Zenon DEF AddOrphan
<1>3. orphans \in Seq(Block) /\ Distinct(orphans) /\ b \notin Elems(orphans)
  BY Zenon DEF Inv, TypeOK, PoolInv, ProcessOrphan, Pooled, Elems
<1>4. /\ live \in Seq(Block) /\ Distinct(live)
      /\ Elems(live) \subseteq Elems(orphans) /\ Len(live) = Len(orphans) - n
  BY <1>3, DropOrphans
<1> HIDE DEF live
<1>5. live # <<>> => Head(live) \in Elems(live)
  BY <1>4 DEF Elems
<1>6. oldestOrphan = NoBlock /\ live # <<>> => oldest \in Elems(live)
  BY <1>5
<1> HIDE DEF oldest
<1>7. /\ removeOrphanBlock(live, oldest) \in Seq(Block)
      /\ Distinct(removeOrphanBlock(live, oldest))
      /\ Elems(removeOrphanBlock(live, oldest)) = Elems(live) \ {oldest}
      /\ Len(removeOrphanBlock(live, oldest)) =
           IF oldest \in Elems(live) THEN Len(live) - 1 ELSE Len(live)
  BY <1>4, RemoveOrphan, Zenon
<1>8. /\ kept \in Seq(Block) /\ Distinct(kept) /\ Elems(kept) \subseteq Elems(orphans)
      /\ Len(kept) = IF full /\ oldest \in Elems(live) THEN Len(live) - 1 ELSE Len(live)
  BY <1>4, <1>7, Zenon
<1> HIDE DEF kept
<1>9. /\ orphans' \in Seq(Block) /\ Distinct(orphans')
      /\ Elems(orphans') = Elems(kept) \cup {b} /\ Len(orphans') = Len(kept) + 1
  BY <1>2, <1>3, <1>8, AppendOrphan
<1>10. /\ Len(orphans') <= MaxOrphans + 1
       /\ Len(orphans') = MaxOrphans + 1 => oldestOrphan' = NoBlock
  <2>1. /\ Len(orphans) <= MaxOrphans + 1 /\ Len(orphans) \in Nat /\ MaxOrphans \in Nat
        /\ Len(orphans) = MaxOrphans + 1 => oldestOrphan = NoBlock
        /\ n \in Nat /\ MaxOrphans > 0 /\ Len(live) \in Nat
    BY <1>3, <1>4, BoundAssumption, SMTT(30) DEF PoolInv
  <2>2. CASE full
    <3>1. CASE Len(live) = MaxOrphans + 1
      <4>1. oldestOrphan = NoBlock /\ live # <<>>
        BY <1>4, <2>1, <3>1
      <4>2. Len(orphans') = Len(live)
        BY <1>6, <1>8, <1>9, <2>1, <2>2, <4>1
      <4>3. QED
        BY <1>2, <2>1, <2>2, <3>1, <4>2
    <3>2. CASE Len(live) # MaxOrphans + 1
      <4>1. Len(live) <= MaxOrphans
        BY <1>4, <2>1, <3>2
      <4>2. Len(orphans') <= Len(live) + 1
        BY <1>8, <1>9, <2>1
      <4>3. QED
        BY <1>2, <1>9, <2>1, <2>2, <4>1, <4>2
    <3>3. QED
      BY <3>1, <3>2
  <2>3. CASE ~full
    BY <1>8, <1>9, <2>1, <2>3
  <2>4. QED
    BY <2>2, <2>3
<1>11. /\ pc' = "idle" /\ index' = index /\ index[b] = {}
  BY DEF ProcessOrphan, mem, blockExists
<1>12. \A o \in Pooled' : index'[o] = {}
  <2>1. \A o \in Elems(orphans) : index[o] = {}
    BY DEF PoolInv, Pooled, Elems
  <2>2. \A o \in Elems(orphans') : index[o] = {}
    BY <1>8, <1>9, <1>11, <2>1
  <2>3. QED
    BY <1>11, <2>2 DEF Pooled, Elems
<1>13. Pooled' \subseteq Pooled \cup {b}
  <2>1. Elems(orphans') \subseteq Elems(orphans) \cup {b}
    BY <1>8, <1>9
  <2>2. QED
    BY <2>1, Zenon DEF Pooled, Elems
<1>14. PoolInv'
  BY <1>9, <1>10, <1>11, <1>12 DEF PoolInv
<1>15. QED
  BY <1>13, <1>14

\* An orphan leaves the pool to be accepted or refused.
LEMMA OrphanTakenPool ==
    ASSUME Inv, PoolInv, OrphanTaken
    PROVE  PoolInv' /\ Pooled' = Pooled \ {Head(work)}
<1>1. /\ orphans' = removeOrphanBlock(orphans, Head(work)) /\ pc = "orphans"
      /\ \/ pc' = "store" /\ cur' = Head(work)
         \/ pc' = pc
      /\ Head(work) \in Pooled /\ oldestOrphan' = oldestOrphan /\ index' = index
  BY Zenon DEF OrphanTaken, mem
<1>2. orphans \in Seq(Block) /\ Distinct(orphans) /\ Pooled = Elems(orphans)
  BY DEF Inv, TypeOK, PoolInv, Pooled, Elems
<1>3. /\ orphans' \in Seq(Block) /\ Distinct(orphans')
      /\ Elems(orphans') = Elems(orphans) \ {Head(work)}
      /\ Len(orphans') = Len(orphans) - 1
  BY <1>1, <1>2, RemoveOrphan
<1>4. Pooled' = Pooled \ {Head(work)}
  BY <1>2, <1>3, Zenon DEF Pooled, Elems
<1>5. \A o \in Pooled' : index'[o] = {}
  BY <1>1, <1>4, Zenon DEF PoolInv
<1>6. /\ Len(orphans') <= MaxOrphans + 1
      /\ Len(orphans') = MaxOrphans + 1 => oldestOrphan' = NoBlock
  BY <1>2, <1>3, BoundAssumption DEF PoolInv
<1>7. /\ pc' \in {"store", "index"} => cur' \notin Pooled'
      /\ pc' # "down"
  BY <1>1, <1>4
<1>8. QED
  BY <1>3, <1>4, <1>5, <1>6, <1>7, Zenon DEF PoolInv

\* While the node runs a step changes the index for the block in progress only.
LEMMA IndexMoves ==
    ASSUME TypeOK, [Next]_vars, pc # "down", pc' # "down"
    PROVE  /\ \A b \in Block : b # cur => index'[b] = index[b]
           /\ pc \notin {"index", "check", "connected"} => index' = index
           /\ Known(index) \subseteq Known(index')
<1>1. \/ index' = index
      \/ pc = "index" /\ index' = [index EXCEPT ![cur] = {"stored"}]
      \/ /\ pc \in {"check", "connected"}
         /\ \E flag \in Flag : index' = [index EXCEPT ![cur] = @ \cup {flag}]
  <2>1. CASE IndexBlock \/ IndexFails
    BY <2>1, Zenon DEF IndexBlock, IndexFails
  <2>2. CASE CheckPasses \/ CheckRejects
    BY <2>2, Zenon DEF CheckPasses, CheckRejects, Verdict, Flag
  <2>3. CASE ConnectReturns
    BY <2>3 DEF ConnectReturns, Verdict, Flag, mem
  <2>4. CASE Accept
    <3>1. CASE StoreBlock \/ StoreFails \/ CheckSkipped \/ CheckFails
      BY <3>1, Zenon DEF StoreBlock, StoreFails, CheckSkipped, CheckFails, mem
    <3>2. CASE ConnectFlush \/ ConnectFlushFails \/ Connect \/ ConnectFails \/ AcceptReturns
      BY <3>2, Zenon
      DEF ConnectFlush, ConnectFlushFails, Connect, ConnectFails, AcceptReturns, mem
    <3>3. QED
      BY <2>1, <2>2, <2>3, <2>4, <3>1, <3>2, Zenon DEF Accept
  <2>5. CASE ProcessOrphans
    BY <2>5, Zenon DEF ProcessOrphans, OrphanPass, OrphanPassEnds, OrphanSkip, OrphanWaits,
       OrphanTaken, OrphanLookupFails, mem
  <2>6. CASE \/ ProcessRefused \/ UNCHANGED vars
             \/ \E b \in Block : ProcessOrphan(b)
             \/ \E b \in Block, flag \in BOOLEAN : ProcessBlock(b, flag)
    BY <2>6, Zenon DEF ProcessRefused, ProcessOrphan, ProcessBlock, mem, vars
  <2>7. ~Crash /\ ~Shutdown /\ ~Restart
    BY DEF Crash, Shutdown, GoDown, Restart
  <2>8. QED
    BY <2>4, <2>5, <2>6, <2>7 DEF Next
<1>2. /\ \A b \in Block : b # cur => index'[b] = index[b]
      /\ pc \notin {"index", "check", "connected"} => index' = index
  BY <1>1 DEF TypeOK
<1>3. index[cur] # {} => index'[cur] # {}
  BY <1>1, Zenon DEF TypeOK
<1>4. QED
  BY <1>2, <1>3, Zenon DEF Known

\* Every other step leaves the pool alone.
LEMMA PoolMoves ==
    ASSUME [Next]_vars, pc # "down", pc' # "down", ~OrphanTaken,
           ~(\E b \in Block : ProcessOrphan(b))
    PROVE  UNCHANGED <<orphans, oldestOrphan>>
<1>1. CASE Accept
  <2>1. CASE CheckPasses \/ CheckRejects \/ ConnectReturns
    BY <2>1, Zenon DEF CheckPasses, CheckRejects, ConnectReturns, Verdict, pool
  <2>2. CASE \/ StoreBlock \/ StoreFails \/ IndexBlock \/ IndexFails
             \/ CheckSkipped \/ CheckFails
    BY <2>2, Zenon
    DEF StoreBlock, StoreFails, IndexBlock, IndexFails, CheckSkipped, CheckFails, pool
  <2>3. CASE ConnectFlush \/ ConnectFlushFails \/ Connect \/ ConnectFails \/ AcceptReturns
    BY <2>3, Zenon
    DEF ConnectFlush, ConnectFlushFails, Connect, ConnectFails, AcceptReturns, pool
  <2>4. QED
    BY <1>1, <2>1, <2>2, <2>3, Zenon DEF Accept
<1>2. CASE ProcessOrphans
  BY <1>2, Zenon DEF ProcessOrphans, OrphanPass, OrphanPassEnds, OrphanSkip, OrphanWaits,
     OrphanLookupFails, pool
<1>3. CASE \/ ProcessRefused \/ UNCHANGED vars
           \/ \E b \in Block, flag \in BOOLEAN : ProcessBlock(b, flag)
  BY <1>3, Zenon DEF ProcessRefused, ProcessBlock, pool, vars
<1>4. ~Crash /\ ~Shutdown /\ ~Restart
  BY DEF Crash, Shutdown, GoDown, Restart
<1>5. QED
  BY <1>1, <1>2, <1>3, <1>4 DEF Next

\* How a step of a running node gets to, and through, the steps of an acceptance.
LEMMA CallMoves ==
    ASSUME [Next]_vars, pc # "down", pc' # "down"
    PROVE  /\ pc' = "store" =>
                \/ pc = "store" /\ UNCHANGED vars
                \/ OrphanTaken
                \/ \E b \in Block, flag \in BOOLEAN : ProcessBlock(b, flag)
           /\ pc' = "index" => StoreBlock \/ (pc = "index" /\ UNCHANGED vars)
           /\ pc' = "check" => IndexBlock \/ (pc = "check" /\ UNCHANGED vars)
           /\ pc' = "connect" => \/ CheckPasses \/ CheckSkipped \/ ConnectFlush
                                 \/ pc = "connect" /\ UNCHANGED vars
<1>1. CASE Accept
  <2>1. CASE CheckPasses \/ CheckRejects \/ ConnectReturns
    BY <2>1 DEF CheckPasses, CheckRejects, ConnectReturns, Return
  <2>2. CASE \/ StoreBlock \/ StoreFails \/ IndexBlock \/ IndexFails
             \/ CheckSkipped \/ CheckFails
    BY <2>2
    DEF StoreBlock, StoreFails, IndexBlock, IndexFails, CheckSkipped, CheckFails, Return
  <2>3. CASE ConnectFlush \/ ConnectFlushFails \/ Connect \/ ConnectFails \/ AcceptReturns
    BY <2>3
    DEF ConnectFlush, ConnectFlushFails, Connect, ConnectFails, AcceptReturns, Return
  <2>4. QED
    BY <1>1, <2>1, <2>2, <2>3, Zenon DEF Accept
<1>2. CASE ProcessOrphans
  BY <1>2, Zenon DEF ProcessOrphans, OrphanPass, OrphanPassEnds, OrphanSkip, OrphanWaits,
     OrphanLookupFails, OrphanTaken
<1>3. CASE \/ ProcessRefused \/ UNCHANGED vars
           \/ \E b \in Block : ProcessOrphan(b)
           \/ \E b \in Block, flag \in BOOLEAN : ProcessBlock(b, flag)
  BY <1>3, Zenon DEF ProcessRefused, ProcessOrphan, ProcessBlock, vars
<1>4. ~Crash /\ ~Shutdown /\ ~Restart
  BY DEF Crash, Shutdown, GoDown, Restart
<1>5. QED
  BY <1>1, <1>2, <1>3, <1>4 DEF Next

\* The node goes down, and starts again, by steps of their own.
LEMMA DownMoves ==
    ASSUME [Next]_vars, pc = "down" \/ pc' = "down"
    PROVE  Crash \/ Shutdown \/ Restart \/ UNCHANGED vars
<1>1. ~Accept
  BY DEF Accept, StoreBlock, StoreFails, IndexBlock, IndexFails, CheckPasses,
     CheckSkipped, CheckRejects, CheckFails, ConnectFlush, ConnectFlushFails, Connect,
     ConnectFails, ConnectReturns, AcceptReturns, Return
<1>2. ~ProcessOrphans
  BY Zenon DEF ProcessOrphans, OrphanPass, OrphanPassEnds, OrphanSkip, OrphanWaits,
     OrphanLookupFails, OrphanTaken
<1>3. /\ ~ProcessRefused /\ ~(\E b \in Block : ProcessOrphan(b))
      /\ ~(\E b \in Block, flag \in BOOLEAN : ProcessBlock(b, flag))
  BY Zenon DEF ProcessRefused, ProcessOrphan, ProcessBlock, vars
<1>4. QED
  BY <1>1, <1>2, <1>3, Zenon DEF Next

\* Every step keeps the pool in order.
LEMMA PoolStep ==
    ASSUME Inv, PoolInv, [Next]_vars
    PROVE  PoolInv'
<1>1. CASE pc = "down" \/ pc' = "down"
  <2>1. CASE UNCHANGED vars
    BY <2>1, Zenon DEF vars, PoolInv, Pooled
  <2>2. CASE Crash \/ Shutdown \/ Restart
    <3>1. orphans' = <<>> /\ pc' \in {"down", "idle"}
      BY <2>2 DEF Crash, Shutdown, GoDown, Restart, pool, PoolInv
    <3>2. QED
      BY <3>1, BoundAssumption, SMTT(30) DEF PoolInv, Distinct, Pooled
  <2>3. QED
    BY <1>1, <2>1, <2>2, DownMoves
<1>2. CASE OrphanTaken \/ \E b \in Block : ProcessOrphan(b)
  BY <1>2, OrphanTakenPool, ProcessOrphanPool
<1>3. CASE /\ pc # "down" /\ pc' # "down"
           /\ ~OrphanTaken /\ ~(\E b \in Block : ProcessOrphan(b))
  <2>1. UNCHANGED <<orphans, oldestOrphan>>
    BY <1>3, PoolMoves
  <2>2. Pooled' = Pooled /\ Pooled \subseteq Block
    BY <2>1, PooledFinite, Zenon DEF Pooled, Inv, TypeOK
  <2>3. \A b \in Block : b # cur => index'[b] = index[b]
    BY <1>3, IndexMoves DEF Inv
  <2>4. pc \in {"index", "check", "connected"} => cur \notin Pooled
    <3>1. pc \in {"check", "connected"} => index[cur] # {}
      BY Zenon DEF Inv, WriteAhead, IndexBacked, CallBacked, Known
    <3>2. QED
      BY <3>1 DEF PoolInv
  <2>5. pc \notin {"index", "check", "connected"} => index' = index
    BY <1>3, IndexMoves DEF Inv
  <2>6. \A o \in Pooled : index'[o] = {}
    BY <2>2, <2>3, <2>4, <2>5, Zenon DEF PoolInv
  <2>7. pc' = "store" => cur' \notin Pooled
    <3>1. ASSUME pc = "store", UNCHANGED vars PROVE cur' \notin Pooled
      BY <3>1, Zenon DEF PoolInv, vars
    <3>2. ASSUME NEW b \in Block, NEW flag \in BOOLEAN, ProcessBlock(b, flag)
          PROVE  cur' \notin Pooled
      BY <3>2, Zenon DEF ProcessBlock
    <3>3. QED
      BY <1>3, <3>1, <3>2, CallMoves
  <2>8. pc' = "index" => cur' \notin Pooled
    <3>1. ASSUME StoreBlock \/ (pc = "index" /\ UNCHANGED vars)
          PROVE cur' \notin Pooled
      BY <3>1 DEF StoreBlock, call, PoolInv, vars
    <3>2. QED
      BY <1>3, <3>1, CallMoves
  <2>9. QED
    BY <1>3, <2>1, <2>2, <2>6, <2>7, <2>8 DEF PoolInv
<1>4. QED
  BY <1>1, <1>2, <1>3

\* The pool is in order in every state of every behaviour.
THEOREM PoolInvariance == Spec => []PoolInv
<1>1. Init => PoolInv
  BY BoundAssumption, SMTT(30) DEF Init, PoolInv, Distinct, Pooled
<1>2. QED
  BY <1>1, Invariance, PoolStep, PTL DEF Spec

\* A block is never an orphan and in the index at once.
THEOREM OrphansAlwaysUnknown == Spec => []OrphansAreUnknown
<1>1. PoolInv => OrphansAreUnknown
  BY Zenon DEF PoolInv, OrphansAreUnknown
<1>2. QED
  BY <1>1, PoolInvariance, PTL

\* The pool is never more than one block over maxOrphanBlocks.
THEOREM OrphansAlwaysBounded == Spec => []OrphanBound
<1>1. PoolInv => OrphanBound
  BY Zenon DEF PoolInv, OrphanBound
<1>2. QED
  BY <1>1, PoolInvariance, PTL

-----------------------------------------------------------------------------
\* The connected view and the phantom graph.

InCall == pc \in {"store", "index", "check", "connect"}

\* The graph holds known blocks; the block in progress is new to the index, to
\* the view and to the graph, and all its parents are known and not invalid;
\* the replay finds every block of the graph unless the node was restarted.
ViewInv ==
    /\ graph \subseteq Known(index)
    /\ pc \in {"store", "index"} => cur \notin Known(index)
    /\ InCall => cur \notin nodes /\ cur \notin graph
    /\ InCall => \A p \in Parents[cur] : p \in Known(index) /\ ~KnownInvalid(p)
    /\ restarts = 0 => graph \subseteq nodes
    /\ pc = "down" => restarts # 0

\* The closure of a set of blocks is closed.
LEMMA ClosureClosed ==
    ASSUME NEW S \in SUBSET Block
    PROVE  AncestorClosed(Closure(S))
BY AncestryClosed, Zenon DEF Closure, AncestorClosed

\* The view holds known blocks, and their parents.
LEMMA NodesKnown ==
    ASSUME Inv, pc # "down"
    PROVE  nodes \subseteq Known(index) /\ AncestorClosed(nodes)
<1>1. /\ nodes = Closure(db.tips) /\ db.tips \in SUBSET Block
      /\ db.tips \subseteq Known(db.rows) /\ AncestorClosed(Known(db.rows))
      /\ Known(db.rows) \subseteq Known(index) /\ Known(db.rows) \in SUBSET Block
  BY Zenon DEF Inv, TypeOK, Database, DiskDescribesView, Saved, Recoverable, Sound, Loadable,
     AncestorClosed, WriteAhead, IndexBacked, Known
<1>2. nodes \subseteq Known(db.rows)
  BY <1>1, ClosureLeast
<1>3. QED
  BY <1>1, <1>2, ClosureClosed

\* While the node runs the view moves by connectBlock only.
LEMMA ViewMoves ==
    ASSUME [Next]_vars, pc # "down", pc' # "down"
    PROVE  /\ restarts' = restarts
           /\ \/ Connect
              \/ /\ UNCHANGED <<nodes, tips, snapshot>>
                 /\ ConnectFails \/ UNCHANGED <<graph, nodeOrder>>
<1>1. CASE Accept
  <2>1. CASE CheckPasses \/ CheckRejects \/ ConnectReturns
    BY <2>1, Zenon DEF CheckPasses, CheckRejects, ConnectReturns, Verdict, mem, bound, Fault
  <2>2. CASE \/ StoreBlock \/ StoreFails \/ IndexBlock \/ IndexFails
             \/ CheckSkipped \/ CheckFails
    BY <2>2, Zenon
    DEF StoreBlock, StoreFails, IndexBlock, IndexFails, CheckSkipped, CheckFails, mem,
        bound, Fault
  <2>3. CASE ConnectFlush \/ ConnectFlushFails \/ Connect \/ ConnectFails \/ AcceptReturns
    BY <2>3, Zenon
    DEF ConnectFlush, ConnectFlushFails, Connect, ConnectFails, AcceptReturns, mem,
        bound, Fault
  <2>4. QED
    BY <1>1, <2>1, <2>2, <2>3, Zenon DEF Accept
<1>2. CASE ProcessOrphans
  BY <1>2, Zenon DEF ProcessOrphans, OrphanPass, OrphanPassEnds, OrphanSkip, OrphanWaits,
     OrphanTaken, OrphanLookupFails, mem, bound, Fault
<1>3. CASE \/ ProcessRefused \/ UNCHANGED vars
           \/ \E b \in Block : ProcessOrphan(b)
           \/ \E b \in Block, flag \in BOOLEAN : ProcessBlock(b, flag)
  BY <1>3, Zenon DEF ProcessRefused, ProcessOrphan, ProcessBlock, mem, bound, vars
<1>4. ~Crash /\ ~Shutdown /\ ~Restart
  BY DEF Crash, Shutdown, GoDown, Restart
<1>5. QED
  BY <1>1, <1>2, <1>3, <1>4, Zenon DEF Next

\* A block that starts to be accepted is unknown, and its parents are good.
LEMMA CallStarts ==
    ASSUME Inv, PoolInv, pc' = "store",
           \/ OrphanTaken
           \/ \E b \in Block, flag \in BOOLEAN : ProcessBlock(b, flag)
    PROVE  /\ cur' \in Block /\ cur' \notin Known(index) /\ index' = index
           /\ \A p \in Parents[cur'] : p \in Known(index) /\ ~KnownInvalid(p)
<1>1. CASE OrphanTaken
  <2>1. /\ pc = "orphans" /\ Head(work) \in Pooled /\ index' = index
        /\ \/ /\ \A p \in Parents[Head(work)] : index[p] # {} /\ ~KnownInvalid(p)
              /\ cur' = Head(work)
           \/ pc' = pc
    BY <1>1, Zenon DEF OrphanTaken, mem
  <2>2. /\ cur' = Head(work) /\ cur' \in Block /\ index[cur'] = {}
        /\ \A p \in Parents[cur'] : index[p] # {} /\ ~KnownInvalid(p)
    BY <2>1, PooledFinite, Zenon DEF PoolInv, Inv, TypeOK
  <2>3. QED
    BY <2>1, <2>2, BlockAssumption, Zenon DEF Known
<1>2. ASSUME NEW b \in Block, NEW flag \in BOOLEAN, ProcessBlock(b, flag)
      PROVE  /\ cur' \in Block /\ cur' \notin Known(index) /\ index' = index
             /\ \A p \in Parents[cur'] : p \in Known(index) /\ ~KnownInvalid(p)
  BY <1>2, BlockAssumption, Zenon DEF ProcessBlock, Known, blockExists, mem
<1>3. QED
  BY <1>1, <1>2, Zenon

\* Every step keeps the view and the graph in order.
LEMMA ViewStep ==
    ASSUME Inv, PoolInv, ViewInv, [Next]_vars
    PROVE  ViewInv'
<1>1. CASE pc = "down" \/ pc' = "down"
  <2>1. CASE UNCHANGED vars
    BY <2>1, Zenon DEF vars, ViewInv, Known, InCall, KnownInvalid
  <2>2. CASE Crash \/ Shutdown
    <3>1. graph' = {} /\ pc' = "down" /\ restarts' # 0
      <4>1. graph' = {} /\ pc' = "down" /\ restarts' = restarts + 1
        BY <2>2, Zenon DEF Crash, Shutdown, GoDown
      <4>2. restarts \in Nat
        BY Zenon DEF Inv, TypeOK
      <4>3. QED
        BY <4>1, <4>2
    <3>2. QED
      BY <3>1, Zenon DEF ViewInv, InCall
  <2>3. CASE Restart
    <3>1. pc' = "idle" /\ graph' = Known(db.rows) /\ restarts' = restarts
      BY <2>3 DEF Restart, bound
    <3>2. graph' \subseteq Known(index')
      BY <2>3, <3>1 DEF Restart, Known
    <3>3. restarts # 0
      BY <2>3 DEF ViewInv, Restart
    <3>4. QED
      BY <3>1, <3>2, <3>3, Zenon DEF ViewInv, InCall
  <2>4. QED
    BY <1>1, <2>1, <2>2, <2>3, DownMoves
<1>2. CASE pc # "down" /\ pc' # "down"
  <2>1. /\ \A b \in Block : b # cur => index'[b] = index[b]
        /\ Known(index) \subseteq Known(index')
    BY <1>2, IndexMoves DEF Inv
  <2>2. nodes \subseteq Known(index) /\ graph \subseteq Known(index) /\ cur \in Block
    BY <1>2, NodesKnown, Zenon DEF ViewInv, Inv, TypeOK
  <2>3. /\ restarts' = restarts
        /\ \/ Connect
           \/ nodes' = nodes /\ (ConnectFails \/ graph' = graph)
    BY <1>2, ViewMoves
  <2>4. Connect => /\ nodes' = nodes \cup Closure({cur}) /\ graph' = graph \cup {cur}
                   /\ cur \in Known(index) /\ ~InCall'
    BY DEF Connect, Inv, WriteAhead, IndexBacked, CallBacked, InCall
  <2>5. ConnectFails => graph' = graph \ {cur} /\ ~InCall'
    BY DEF ConnectFails, Return, InCall
  <2>6. graph' \subseteq Known(index')
    BY <2>1, <2>2, <2>3, <2>4, <2>5
  <2>7. restarts' = 0 => graph' \subseteq nodes'
    <3>1. cur \in Closure({cur})
      BY <2>2, ClosureType
    <3>2. QED
      BY <2>3, <2>4, <2>5, <3>1 DEF ViewInv
  <2>8. InCall' => nodes' = nodes /\ graph' = graph
    BY <2>3, <2>4, <2>5
  <2>9. CASE /\ pc' = "store"
             /\ \/ OrphanTaken
                \/ \E b \in Block, flag \in BOOLEAN : ProcessBlock(b, flag)
    <3>1. /\ cur' \in Block /\ cur' \notin Known(index) /\ index' = index
          /\ \A p \in Parents[cur'] : p \in Known(index) /\ ~KnownInvalid(p)
      BY <2>9, CallStarts, Zenon
    <3>2. Known(index') = Known(index) /\ \A p : KnownInvalid(p)' <=> KnownInvalid(p)
      BY <3>1 DEF KnownInvalid
    <3>3. InCall'
      BY <2>9 DEF InCall
    <3>4. QED
      BY <1>2, <2>2, <2>6, <2>7, <2>8, <3>1, <3>2, <3>3, Zenon DEF ViewInv, KnownInvalid, Known
  <2>10. CASE InCall' /\ InCall /\ cur' = cur /\ (pc' \in {"store", "index"} => index' = index)
                /\ (pc' \in {"store", "index"} => pc \in {"store", "index"})
    <3>1. cur' \notin nodes' /\ cur' \notin graph'
      BY <2>8, <2>10 DEF ViewInv
    <3>2. pc' \in {"store", "index"} => cur' \notin Known(index')
      BY <2>10 DEF ViewInv
    <3>3. \A p \in Parents[cur] : p \in Known(index') /\ "failed" \notin index'[p]
      <4>1. \A p \in Parents[cur] : /\ p \in Known(index) /\ "failed" \notin index[p]
                                    /\ p \in Block /\ p # cur
        BY <2>2, <2>10, NotOwnParent, BlockAssumption, Zenon DEF ViewInv, KnownInvalid
      <4>2. QED
        BY <2>1, <4>1, Zenon
    <3>4. QED
      BY <1>2, <2>6, <2>7, <2>10, <3>1, <3>2, <3>3, Zenon DEF ViewInv, KnownInvalid
  <2>11. CASE ~InCall'
    BY <1>2, <2>6, <2>7, <2>11, Zenon DEF ViewInv, InCall
  <2>12. InCall' /\ ~(/\ pc' = "store"
                      /\ \/ OrphanTaken
                         \/ \E b \in Block, flag \in BOOLEAN : ProcessBlock(b, flag))
         => /\ InCall /\ cur' = cur
            /\ pc' \in {"store", "index"} => index' = index /\ pc \in {"store", "index"}
    <3>1. CASE UNCHANGED vars
      BY <3>1 DEF vars, InCall
    <3>2. CASE StoreBlock
      BY <3>2 DEF StoreBlock, InCall, call, mem
    <3>3. CASE IndexBlock \/ CheckSkipped
      BY <3>3 DEF IndexBlock, CheckSkipped, InCall, call
    <3>4. CASE CheckPasses \/ ConnectFlush
      BY <3>4 DEF CheckPasses, ConnectFlush, InCall, call
    <3>5. QED
      BY <1>2, <3>1, <3>2, <3>3, <3>4, CallMoves, Zenon DEF InCall
  <2>13. QED
    BY <2>9, <2>10, <2>11, <2>12, Zenon
<1>3. QED
  BY <1>1, <1>2

\* The view and the graph are in order in every state of every behaviour.
THEOREM ViewInvariance == Spec => []ViewInv
<1>1. Init => ViewInv
  <2> SUFFICES ASSUME Init PROVE ViewInv
    OBVIOUS
  <2>1. graph = {Genesis} /\ nodes = {Genesis} /\ index = GenesisStatus /\ pc = "idle"
    BY DEF Init
  <2>2. Genesis \in Known(index)
    BY <2>1, BlockAssumption DEF Known, GenesisStatus
  <2>3. QED
    BY <2>1, <2>2, Zenon DEF ViewInv, InCall
<1>2. QED
  BY <1>1, Invariance, PoolInvariance, ViewStep, PTL DEF Spec

\* A node that may not restart does not.
LEMMA NeverRestarted ==
    ASSUME MaxRestarts = 0, restarts = 0, [Next]_vars
    PROVE  restarts' = 0
<1>1. ~Crash /\ ~Shutdown
  BY SMTT(30) DEF Crash, Shutdown, GoDown
<1>2. CASE pc = "down" \/ pc' = "down"
  BY <1>1, <1>2, DownMoves DEF Restart, bound, vars
<1>3. CASE pc # "down" /\ pc' # "down"
  BY <1>3, ViewMoves
<1>4. QED
  BY <1>2, <1>3

\* Unless the node was ever restarted, a block that passes its checks is
\* connected by the same call, or the database failed in between.
THEOREM ValidBlockAlwaysConnects == MaxRestarts = 0 => (Spec => ValidBlockConnects)
<1> DEFINE NoRestart == MaxRestarts = 0 /\ restarts = 0
           Connects ==
             (pc = "connect" /\ pc' \notin {"connect", "down"} /\ faults' = faults)
                 => cur \in nodes'
<1>1. MaxRestarts = 0 /\ Init => NoRestart
  BY DEF Init
<1>2. NoRestart /\ [Next]_vars => NoRestart'
  BY NeverRestarted
<1>3. NoRestart /\ Inv /\ ViewInv /\ [Next]_vars => [Connects]_vars
  <2> SUFFICES ASSUME NoRestart, Inv, ViewInv, [Next]_vars, pc = "connect",
                      pc' \notin {"connect", "down"}, faults' = faults
               PROVE  cur \in nodes'
    OBVIOUS
  <2>1. ~Fault
    BY DEF Fault, Inv, TypeOK
  <2>2. \A O \in Orders(graph \cup {cur}) : ReplayFinds(O)
    BY OrdersWithin DEF ReplayFinds, ViewInv
  <2>3. Connect
    <3>1. /\ ~ProcessRefused /\ ~(\E b \in Block : ProcessOrphan(b))
          /\ ~(\E b \in Block, flag \in BOOLEAN : ProcessBlock(b, flag))
          /\ ~Crash /\ ~Shutdown /\ ~Restart /\ ~UNCHANGED vars
      BY DEF ProcessRefused, ProcessOrphan, ProcessBlock, vars, Crash, Shutdown, GoDown,
         Restart
    <3>2. ~ProcessOrphans
      BY Zenon DEF ProcessOrphans, OrphanPass, OrphanPassEnds, OrphanSkip, OrphanWaits,
         OrphanLookupFails, OrphanTaken
    <3>3. /\ ~StoreBlock /\ ~StoreFails /\ ~IndexBlock /\ ~IndexFails /\ ~CheckPasses
          /\ ~CheckSkipped /\ ~CheckRejects /\ ~CheckFails /\ ~ConnectReturns
          /\ ~AcceptReturns
      BY DEF StoreBlock, StoreFails, IndexBlock, IndexFails, CheckPasses, CheckSkipped,
         CheckRejects, CheckFails, ConnectReturns, AcceptReturns
    <3>4. ~ConnectFlush /\ ~ConnectFlushFails /\ ~ConnectFails
      BY <2>1, <2>2, Zenon DEF ConnectFlush, ConnectFlushFails, ConnectFails
    <3>5. QED
      BY <3>1, <3>2, <3>3, <3>4, Zenon DEF Next, Accept
  <2>4. cur \in Closure({cur})
    BY ClosureType DEF Inv, TypeOK
  <2>5. QED
    BY <2>3, <2>4 DEF Connect
<1>4. MaxRestarts = 0 => (Spec => [][Connects]_vars)
  BY <1>1, <1>2, <1>3, Invariance, ViewInvariance, PTL DEF Spec
<1>5. QED
  BY <1>4 DEF ValidBlockConnects

-----------------------------------------------------------------------------
\* What holds as long as the database does not fail, and OrderDAG lists every
\* block or the node was not restarted: then connectBlock replays the whole
\* graph.
Whole == CompleteOrder \/ restarts = 0

\* The rows are the index ...
IndexSaved == dirty = {} /\ (pc # "down" => index = db.rows)

\* ... the block in progress was not refused ...
NotRefused ==
    /\ pc = "check" => index[cur] = {"stored"}
    /\ pc = "connect" => ~KnownInvalid(cur) /\ (fast \/ "valid" \in index[cur])

\* ... if the replay finds every block of the graph, every known block is
\* invalid, connected, or in progress ...
NothingLeftOut ==
    graph \subseteq nodes =>
        \A b \in Known(index) : \/ KnownInvalid(b) \/ b \in nodes
                                \/ b = cur /\ pc \in {"check", "connect"}

\* ... connected blocks are valid ...
NodesValid ==
    \A b \in nodes : /\ ~KnownInvalid(b)
                     /\ "valid" \in index[b] \/ (b = cur /\ fast /\ pc = "connected")

\* ... and a database agrees with itself: the blocks its tips reach are counted,
\* have their heights, have no other tips, and none of them is invalid.
Agrees(d) ==
    /\ IsFiniteSet(Closure(d.tips))
    /\ d.blkCount = Cardinality(Closure(d.tips))
    /\ d.heights = Closure(d.tips)
    /\ d.tips = {b \in Closure(d.tips) : \A c \in Closure(d.tips) : b \notin Parents[c]}
    /\ \A b \in Closure(d.tips) : "failed" \notin d.rows[b]

Published ==
    /\ Agrees(db) /\ Agrees(durable)
    /\ pc # "down" => snapshot = [tips |-> db.tips, blkCount |-> db.blkCount]

CleanInv ==
    faults = 0 /\ Whole =>
        IndexSaved /\ NotRefused /\ NothingLeftOut /\ NodesValid /\ Published

\* Without errors their number stays as it is.
LEMMA FaultFree ==
    ASSUME [Next]_vars, ~Fault
    PROVE  faults' = faults
<1>1. CASE Accept
  <2>1. CASE CheckPasses \/ CheckRejects \/ ConnectReturns
    BY <2>1, Zenon DEF CheckPasses, CheckRejects, ConnectReturns, Verdict, bound
  <2>2. CASE \/ StoreBlock \/ StoreFails \/ IndexBlock \/ IndexFails
             \/ CheckSkipped \/ CheckFails
    BY <2>2, Zenon
    DEF StoreBlock, StoreFails, IndexBlock, IndexFails, CheckSkipped, CheckFails, bound
  <2>3. CASE ConnectFlush \/ ConnectFlushFails \/ Connect \/ ConnectFails \/ AcceptReturns
    BY <2>3, Zenon
    DEF ConnectFlush, ConnectFlushFails, Connect, ConnectFails, AcceptReturns, bound
  <2>4. QED
    BY <1>1, <2>1, <2>2, <2>3, Zenon DEF Accept
<1>2. CASE ProcessOrphans
  BY <1>2, Zenon DEF ProcessOrphans, OrphanPass, OrphanPassEnds, OrphanSkip,
     OrphanWaits, OrphanTaken, OrphanLookupFails, bound
<1>3. CASE \/ ProcessRefused \/ UNCHANGED vars \/ Crash \/ Shutdown \/ Restart
           \/ \E b \in Block : ProcessOrphan(b)
           \/ \E b \in Block, flag \in BOOLEAN : ProcessBlock(b, flag)
  BY <1>3, Zenon DEF ProcessRefused, ProcessOrphan, ProcessBlock, Crash, Shutdown,
     GoDown, Restart, bound, vars
<1>4. QED
  BY <1>1, <1>2, <1>3, Zenon DEF Next

\* Errors are counted.
LEMMA FaultMoves ==
    ASSUME TypeOK, [Next]_vars, faults' = 0
    PROVE  faults = 0 /\ ~Fault
<1>1. ~Fault
  BY DEF Fault, TypeOK
<1>2. QED
  BY <1>1, FaultFree

\* A flush after a change to one node brings its row up to the index, and leaves
\* the rest of the database as it is.
LEMMA FlushExact ==
    ASSUME Inv, dirty = {}, index = db.rows, NEW v,
           index' = [index EXCEPT ![cur] = v],
           Commit(Flushed(index', dirty \cup {cur}))
    PROVE  /\ index' = db'.rows /\ db'.tips = db.tips /\ db'.heights = db.heights
           /\ db'.blkCount = db.blkCount /\ durable' \in {durable, db'}
<1>1. db' = Flushed(index', {cur}) /\ durable' \in {durable, db'}
  BY Zenon DEF Commit
<1>2. db \in Database /\ cur \in Block /\ index \in [Block -> SUBSET Flag]
  BY Zenon DEF Inv, TypeOK
<1>3. /\ db'.rows = [b \in Block |-> IF b \in {cur} THEN index'[b] ELSE db.rows[b]]
      /\ db'.tips = db.tips /\ db'.heights = db.heights /\ db'.blkCount = db.blkCount
  BY <1>1, <1>2 DEF Flushed, Database
<1>4. \A b \in Block : db'.rows[b] = index'[b]
  BY <1>2, <1>3, Zenon
<1>5. index' = db'.rows
  BY <1>2, <1>3, <1>4, Zenon
<1>6. QED
  BY <1>1, <1>3, <1>5, Zenon

\* connectBlock adds the block and no other: its parents are connected.
LEMMA ConnectAdds ==
    ASSUME Inv, ViewInv, Whole, NothingLeftOut, Connect
    PROVE  /\ cur \notin nodes /\ Parents[cur] \subseteq nodes
           /\ nodes' = nodes \cup {cur} /\ graph \subseteq nodes
           /\ Closure({cur}) \subseteq nodes \cup {cur}
<1>1. /\ cur \notin nodes /\ cur \notin graph /\ pc = "connect"
      /\ \A p \in Parents[cur] : p \in Known(index) /\ ~KnownInvalid(p)
      /\ nodes' = nodes \cup Closure({cur}) /\ cur \in Block /\ nodes \subseteq Block
  BY DEF Connect, ViewInv, InCall, Inv, TypeOK
<1>2. graph \subseteq nodes
  <2>1. CASE CompleteOrder
    BY <1>1, <2>1, OrdersWithin DEF Connect, ReplayFinds
  <2>2. CASE restarts = 0
    BY <2>2 DEF ViewInv
  <2>3. QED
    BY <2>1, <2>2 DEF Whole
<1>3. Parents[cur] \subseteq nodes
  BY <1>1, <1>2, NotOwnParent, Zenon DEF NothingLeftOut
<1>4. AncestorClosed(nodes \cup {cur})
  BY <1>1, <1>3, NodesKnown, Zenon DEF AncestorClosed
<1>5. Closure({cur}) \subseteq nodes \cup {cur} /\ cur \in Closure({cur})
  BY <1>1, <1>4, ClosureLeast, ClosureType, Zenon
<1>6. QED
  BY <1>1, <1>2, <1>3, <1>5, Zenon

\* Without errors the index changes with its rows.
LEMMA IndexSavedStep ==
    ASSUME Inv, IndexSaved, [Next]_vars, ~Fault
    PROVE  /\ IndexSaved'
           /\ pc # "down" /\ pc' # "down" =>
                \/ Connect
                \/ /\ db'.tips = db.tips /\ db'.heights = db.heights
                   /\ db'.blkCount = db.blkCount /\ durable' \in {durable, db'}
<1>1. CASE pc = "down" \/ pc' = "down"
  <2>1. CASE UNCHANGED vars
    BY <2>1 DEF vars, IndexSaved
  <2>2. CASE Crash \/ Shutdown
    BY <2>2, Zenon DEF Crash, Shutdown, GoDown, IndexSaved
  <2>3. CASE Restart
    <3>1. db' = [db EXCEPT !.rows = index'] /\ dirty' = {} /\ pc = "down"
      BY <2>3 DEF Restart, Commit
    <3>2. db'.rows = index'
      BY <3>1 DEF Inv, TypeOK, Database
    <3>3. QED
      BY <3>1, <3>2 DEF IndexSaved
  <2>4. QED
    BY <1>1, <2>1, <2>2, <2>3, DownMoves, Zenon
<1>2. CASE pc # "down" /\ pc' # "down"
  <2>0. dirty = {} /\ index = db.rows
    BY <1>2 DEF IndexSaved
  <2>1. CASE IndexBlock
    <3>1. /\ index' = [index EXCEPT ![cur] = {"stored"}] /\ dirty' = {}
          /\ Commit(Flushed(index', dirty \cup {cur}))
      BY <2>1 DEF IndexBlock
    <3>2. QED
      BY <2>0, <3>1, FlushExact, Zenon DEF IndexSaved
  <2>2. ASSUME NEW flag, Verdict(flag)
        PROVE  /\ IndexSaved' /\ db'.tips = db.tips /\ db'.heights = db.heights
               /\ db'.blkCount = db.blkCount /\ durable' \in {durable, db'}
    <3>1. /\ index' = [index EXCEPT ![cur] = @ \cup {flag}] /\ dirty' = {}
          /\ Commit(Flushed(index', dirty \cup {cur}))
      BY <2>2 DEF Verdict
    <3>2. index' = [index EXCEPT ![cur] = index[cur] \cup {flag}]
      BY <3>1
    <3>3. QED
      BY <2>0, <3>1, <3>2, FlushExact, Zenon DEF IndexSaved
  <2>3. CASE CheckPasses \/ CheckRejects
    BY <2>2, <2>3, Zenon DEF CheckPasses, CheckRejects
  <2>4. CASE StoreBlock
    <3>1. db' = [db EXCEPT !.blocks = @ \cup {cur}] /\ durable' \in {durable, db'}
      BY <2>4 DEF StoreBlock, Commit
    <3>2. /\ db'.rows = db.rows /\ db'.tips = db.tips /\ db'.heights = db.heights
          /\ db'.blkCount = db.blkCount
      BY <3>1 DEF Inv, TypeOK, Database
    <3>3. QED
      BY <2>0, <2>4, <3>1, <3>2 DEF StoreBlock, IndexSaved, mem
  <2>5. CASE Connect
    <3>1. db'.rows = db.rows
      BY <2>5 DEF Connect, Commit, Inv, TypeOK, Database
    <3>2. QED
      BY <2>0, <2>5, <3>1 DEF Connect, IndexSaved
  <2>6. ASSUME UNCHANGED <<index, dirty, db, durable>>
        PROVE  /\ IndexSaved' /\ db'.tips = db.tips /\ db'.heights = db.heights
               /\ db'.blkCount = db.blkCount /\ durable' \in {durable, db'}
    BY <2>0, <2>6 DEF IndexSaved
  <2>7. CASE ConnectReturns
    BY <2>2, <2>6, <2>7, Zenon DEF ConnectReturns, mem, disk
  <2>8. CASE CheckSkipped \/ ConnectFails \/ AcceptReturns
    BY <2>6, <2>8, Zenon DEF CheckSkipped, ConnectFails, AcceptReturns, mem, disk
  <2>9. ~ConnectFlush /\ ~ConnectFlushFails /\ ~StoreFails /\ ~IndexFails /\ ~CheckFails
    BY <2>0, Zenon DEF ConnectFlush, ConnectFlushFails, StoreFails, IndexFails, CheckFails
  <2>10. CASE ProcessOrphans
    BY <2>6, <2>10, Zenon DEF ProcessOrphans, OrphanPass, OrphanPassEnds, OrphanSkip,
       OrphanWaits, OrphanTaken, OrphanLookupFails, mem, disk
  <2>11. CASE \/ ProcessRefused \/ UNCHANGED vars
              \/ \E b \in Block : ProcessOrphan(b)
              \/ \E b \in Block, flag \in BOOLEAN : ProcessBlock(b, flag)
    BY <2>6, <2>11, Zenon DEF ProcessRefused, ProcessOrphan, ProcessBlock, mem, disk, vars
  <2>12. ~Crash /\ ~Shutdown /\ ~Restart
    BY <1>2 DEF Crash, Shutdown, GoDown, Restart
  <2>13. QED
    BY <2>1, <2>3, <2>4, <2>5, <2>7, <2>8, <2>9, <2>10, <2>11, <2>12, Zenon DEF Next, Accept
<1>3. QED
  BY <1>1, <1>2, Zenon

\* The steps that may come next once a block is stored.
LEMMA InProgress ==
    ASSUME [Next]_vars, pc \in {"index", "check", "connect", "connected"}, pc' # "down"
    PROVE  \/ UNCHANGED vars
           \/ pc = "index" /\ (IndexBlock \/ IndexFails)
           \/ pc = "check" /\ (CheckPasses \/ CheckSkipped \/ CheckRejects \/ CheckFails)
           \/ pc = "connect" /\ (ConnectFlush \/ ConnectFlushFails \/ Connect \/ ConnectFails)
           \/ pc = "connected" /\ ConnectReturns
<1>1. /\ ~ProcessRefused /\ ~(\E b \in Block : ProcessOrphan(b))
      /\ ~(\E b \in Block, flag \in BOOLEAN : ProcessBlock(b, flag))
      /\ ~Crash /\ ~Shutdown /\ ~Restart
  BY DEF ProcessRefused, ProcessOrphan, ProcessBlock, vars, Crash, Shutdown, GoDown,
     Restart
<1>2. ~ProcessOrphans
  BY Zenon DEF ProcessOrphans, OrphanPass, OrphanPassEnds, OrphanSkip, OrphanWaits,
     OrphanLookupFails, OrphanTaken
<1>3. /\ ~StoreBlock /\ ~StoreFails /\ ~AcceptReturns
      /\ IndexBlock \/ IndexFails => pc = "index"
      /\ CheckPasses \/ CheckSkipped \/ CheckRejects \/ CheckFails => pc = "check"
      /\ ConnectReturns => pc = "connected"
  BY Zenon DEF StoreBlock, StoreFails, IndexBlock, IndexFails, CheckPasses, CheckSkipped,
     CheckRejects, CheckFails, ConnectReturns, AcceptReturns
<1>4. ConnectFlush \/ ConnectFlushFails \/ Connect \/ ConnectFails => pc = "connect"
  BY Zenon DEF ConnectFlush, ConnectFlushFails, Connect, ConnectFails
<1>5. QED
  BY <1>1, <1>2, <1>3, <1>4, Zenon DEF Next, Accept

\* What the index says of the block in progress, and of the others, as it moves.
LEMMA RefusalMoves ==
    ASSUME Inv, ViewInv, NotRefused, [Next]_vars, pc # "down", pc' # "down", ~Fault
    PROVE  /\ NotRefused'
           /\ \A b \in Known(index') : \/ b \in Known(index)
                                       \/ b = cur /\ cur' = cur /\ pc' = "check"
           /\ \A b \in Known(index) : KnownInvalid(b) => KnownInvalid(b)'
           /\ \A b \in nodes : /\ KnownInvalid(b)' => KnownInvalid(b)
                               /\ "valid" \in index[b] => "valid" \in index'[b]
           /\ pc \in {"check", "connect"} =>
                \/ cur' = cur /\ pc' \in {"check", "connect"}
                \/ "failed" \in index'[cur] \/ Connect \/ ConnectFails
           /\ pc = "connected" /\ fast /\ pc' # "connected" => "valid" \in index'[cur]
           /\ pc = "connected" /\ pc' = "connected" => cur' = cur /\ fast' = fast
<1> USE DEF KnownInvalid
<1>0. /\ index \in [Block -> SUBSET Flag] /\ cur \in Block /\ nodes \subseteq Known(index)
      /\ Known(index) \subseteq Block
  BY NodesKnown, Zenon DEF Inv, TypeOK, Known
<1>1. CASE IndexBlock
  <2>1. /\ index' = [index EXCEPT ![cur] = {"stored"}] /\ pc = "index" /\ pc' = "check"
        /\ cur' = cur /\ fast' = fast
    BY <1>1 DEF IndexBlock, call
  <2>2. cur \notin Known(index)
    BY <2>1, Zenon DEF ViewInv
  <2>3. index'[cur] = {"stored"} /\ \A b \in Block : b # cur => index'[b] = index[b]
    BY <1>0, <2>1
  <2>4. QED
    BY <1>0, <2>1, <2>2, <2>3 DEF NotRefused, Known
<1>2. CASE CheckPasses \/ CheckRejects
  <2>1. PICK flag \in {"valid", "failed"} :
          /\ index' = [index EXCEPT ![cur] = @ \cup {flag}] /\ pc = "check" /\ cur' = cur
          /\ flag = "valid" => pc' = "connect"
          /\ flag = "failed" => pc' \in {"orphans", "pass", "idle"}
    BY <1>2, Zenon DEF CheckPasses, CheckRejects, Verdict, Return, call
  <2>2. index[cur] = {"stored"} /\ cur \notin nodes
    BY <2>1, Zenon DEF NotRefused, ViewInv, InCall
  <2>3. index'[cur] = {"stored", flag} /\ \A b \in Block : b # cur => index'[b] = index[b]
    BY <1>0, <2>1, <2>2
  <2>4. QED
    BY <1>0, <2>1, <2>2, <2>3, Zenon DEF NotRefused, Known
<1>3. CASE ConnectReturns /\ fast
  <2>1. /\ index' = [index EXCEPT ![cur] = @ \cup {"valid"}] /\ pc = "connected"
        /\ cur' = cur /\ pc' = "accepted"
    BY <1>3, Zenon DEF ConnectReturns, Verdict, call
  <2>2. /\ index'[cur] = index[cur] \cup {"valid"}
        /\ \A b \in Block : b # cur => index'[b] = index[b]
    BY <1>0, <2>1
  <2>3. cur \in Known(index)
    BY <2>1, Zenon DEF Inv, WriteAhead, IndexBacked, CallBacked
  <2>4. QED
    BY <1>0, <2>1, <2>2, <2>3, Zenon DEF NotRefused, Known
<1>4. CASE ~IndexBlock /\ ~CheckPasses /\ ~CheckRejects /\ ~(ConnectReturns /\ fast)
  <2>1. \/ pc \notin {"index", "check", "connect", "connected"}
        \/ UNCHANGED vars
        \/ pc = "check" /\ CheckSkipped
        \/ pc = "connect" /\ (ConnectFlush \/ Connect \/ ConnectFails)
        \/ pc = "connected" /\ ~fast /\ ConnectReturns
    <3>1. ~IndexFails /\ ~CheckFails /\ ~ConnectFlushFails
      BY Zenon DEF IndexFails, CheckFails, ConnectFlushFails
    <3>2. QED
      BY <1>4, <3>1, InProgress, Zenon
  <2>2. index' = index
    <3>1. pc \notin {"index", "check", "connected"} => index' = index
      BY IndexMoves DEF Inv
    <3>2. CASE UNCHANGED vars \/ CheckSkipped
      BY <3>2, Zenon DEF vars, CheckSkipped, mem
    <3>3. CASE ~fast /\ ConnectReturns
      BY <3>3 DEF ConnectReturns, mem
    <3>4. QED
      BY <2>1, <3>1, <3>2, <3>3
  <2>3. NotRefused'
    <3>1. pc' = "check" => pc = "check" /\ UNCHANGED vars
      BY <1>4, CallMoves
    <3>2. CASE UNCHANGED vars
      BY <3>2, Zenon DEF vars, NotRefused
    <3>3. CASE CheckSkipped
      BY <2>2, <3>3, Zenon DEF CheckSkipped, call, NotRefused
    <3>4. CASE ConnectFlush
      BY <2>2, <3>4, Zenon DEF ConnectFlush, call, NotRefused
    <3>5. CASE pc' \notin {"check", "connect"}
      BY <3>5, Zenon DEF NotRefused
    <3>6. QED
      BY <1>4, <3>1, <3>2, <3>3, <3>4, <3>5, CallMoves
  <2>4. pc \in {"check", "connect"} =>
          \/ cur' = cur /\ pc' \in {"check", "connect"}
          \/ Connect \/ ConnectFails
    BY <2>1, Zenon DEF vars, CheckSkipped, ConnectFlush, call
  <2>5. /\ pc = "connected" /\ fast /\ pc' # "connected" => "valid" \in index'[cur]
        /\ pc = "connected" /\ pc' = "connected" => cur' = cur /\ fast' = fast
    BY <2>1, Zenon DEF vars, ConnectReturns
  <2>6. QED
    BY <2>2, <2>3, <2>4, <2>5, Zenon
<1>5. QED
  BY <1>1, <1>2, <1>3, <1>4, Zenon

\* A database with the same tips, count and heights agrees with itself as well.
LEMMA AgreesSame ==
    ASSUME NEW d, NEW e, Agrees(d), e.tips = d.tips, e.blkCount = d.blkCount,
           e.heights = d.heights, \A b \in Closure(d.tips) : "failed" \notin e.rows[b]
    PROVE  Agrees(e)
BY Zenon DEF Agrees

\* connectBlock leaves a database that agrees with itself, and a snapshot of it.
LEMMA ConnectPublished ==
    ASSUME Inv, ViewInv, Whole, IndexSaved, NotRefused, NothingLeftOut, NodesValid,
           Published, Connect
    PROVE  Published'
<1> DEFINE T == (tips \cup {cur}) \ Parents[cur]
           N == nodes \cup {cur}
<1>1. /\ cur \notin nodes /\ Parents[cur] \subseteq nodes /\ nodes' = N
  BY ConnectAdds
<1>2. /\ nodes = Closure(db.tips) /\ tips = db.tips /\ AncestorClosed(nodes)
      /\ cur \in Block /\ nodes \subseteq Block /\ tips \in SUBSET Block
  BY NodesKnown DEF Inv, TypeOK, DiskDescribesView, Connect
<1>3. /\ IsFiniteSet(nodes) /\ db.blkCount = Cardinality(nodes) /\ db.heights = nodes
      /\ tips = {b \in nodes : \A c \in nodes : b \notin Parents[c]}
      /\ snapshot.blkCount = db.blkCount /\ Agrees(durable)
  BY <1>2 DEF Published, Agrees, Connect
<1>4. /\ db' = [db EXCEPT !.tips = T, !.blkCount = snapshot.blkCount + 1,
                            !.heights = @ \cup {cur}]
      /\ durable' \in {durable, db'} /\ pc' = "connected"
      /\ snapshot' = [tips |-> T, blkCount |-> snapshot.blkCount + 1]
  BY DEF Connect, NewTips, Commit
<1>5. /\ db'.tips = T /\ db'.blkCount = snapshot.blkCount + 1 /\ db'.rows = db.rows
      /\ db'.heights = db.heights \cup {cur}
  BY <1>4 DEF Inv, TypeOK, Database
<1>6. Closure(T) = N
  <2>1. Closure(T) = Closure(tips) \cup Closure({cur})
    BY <1>2, ClosureOfNewTips, Zenon
  <2>2. nodes' = nodes \cup Closure({cur})
    BY DEF Connect
  <2>3. QED
    BY <1>1, <1>2, <2>1, <2>2, Zenon
<1>7. IsFiniteSet(N) /\ Cardinality(N) = Cardinality(nodes) + 1
  BY <1>1, <1>3, FS_AddElement, Zenon
<1>8. T = {b \in N : \A c \in N : b \notin Parents[c]}
  <2>1. \A c \in nodes : cur \notin Parents[c]
    BY <1>1, <1>2, Zenon DEF AncestorClosed
  <2>2. cur \notin Parents[cur]
    BY <1>2, NotOwnParent, Zenon
  <2>3. QED
    BY <1>3, <2>1, <2>2, SMTT(30)
<1>9. \A b \in N : "failed" \notin db'.rows[b]
  <2>1. \A b \in N : "failed" \notin index[b]
    BY DEF NodesValid, NotRefused, KnownInvalid, Connect
  <2>2. QED
    BY <1>5, <2>1 DEF IndexSaved, Connect
<1> HIDE DEF T, N
<1>10. Agrees(db')
  BY <1>3, <1>5, <1>6, <1>7, <1>8, <1>9, Zenon DEF Agrees, N
<1>11. Agrees(durable')
  BY <1>3, <1>4, <1>10
<1>12. QED
  BY <1>4, <1>5, <1>10, <1>11 DEF Published

\* Every step of a running node keeps what holds without errors.
LEMMA CleanRunning ==
    ASSUME Inv, ViewInv, Whole, IndexSaved, NotRefused, NothingLeftOut, NodesValid,
           Published, [Next]_vars, ~Fault, pc # "down", pc' # "down"
    PROVE  IndexSaved' /\ NotRefused' /\ NothingLeftOut' /\ NodesValid' /\ Published'
<1>1. IndexSaved'
  BY IndexSavedStep, Zenon
<1>2. /\ NotRefused'
      /\ \A b \in Known(index') : \/ b \in Known(index)
                                  \/ b = cur /\ cur' = cur /\ pc' = "check"
      /\ \A b \in Known(index) : KnownInvalid(b) => KnownInvalid(b)'
      /\ \A b \in nodes : /\ KnownInvalid(b)' => KnownInvalid(b)
                          /\ "valid" \in index[b] => "valid" \in index'[b]
      /\ pc \in {"check", "connect"} =>
           \/ cur' = cur /\ pc' \in {"check", "connect"}
           \/ "failed" \in index'[cur] \/ Connect \/ ConnectFails
      /\ pc = "connected" /\ fast /\ pc' # "connected" => "valid" \in index'[cur]
      /\ pc = "connected" /\ pc' = "connected" => cur' = cur /\ fast' = fast
  BY RefusalMoves, Zenon
<1>3. CASE Connect
  <2>1. /\ nodes' = nodes \cup {cur} /\ graph \subseteq nodes
    BY <1>3, ConnectAdds, Zenon
  <2>2. /\ index' = index /\ cur' = cur /\ fast' = fast /\ pc = "connect"
        /\ pc' = "connected"
    BY <1>3 DEF Connect, call
  <2>3. NothingLeftOut'
    BY <2>1, <2>2, Zenon DEF NothingLeftOut, KnownInvalid, Known
  <2>4. NodesValid'
    BY <2>1, <2>2, Zenon DEF NodesValid, NotRefused, KnownInvalid
  <2>5. QED
    BY <1>1, <1>2, <1>3, <2>3, <2>4, ConnectPublished, Zenon
<1>4. CASE ~Connect
  <2>1. /\ nodes' = nodes /\ snapshot' = snapshot
        /\ ConnectFails \/ graph' = graph
    BY <1>4, ViewMoves
  <2>2. /\ db'.tips = db.tips /\ db'.heights = db.heights
        /\ db'.blkCount = db.blkCount /\ durable' \in {durable, db'}
    BY <1>4, IndexSavedStep, Zenon
  <2>3. ConnectFails => ~(graph' \subseteq nodes')
    <3> SUFFICES ASSUME ConnectFails PROVE ~(graph' \subseteq nodes')
      OBVIOUS
    <3>1. PICK O \in Orders(graph \cup {cur}) : ~ReplayFinds(O)
      BY Zenon DEF ConnectFails
    <3>2. O \subseteq graph \cup {cur} /\ graph' = graph \ {cur}
      BY OrdersWithin, Zenon DEF ConnectFails
    <3>3. QED
      BY <2>1, <3>1, <3>2 DEF ReplayFinds
  <2>4. NothingLeftOut'
    <3> SUFFICES ASSUME graph' \subseteq nodes', NEW b \in Known(index')
                 PROVE  \/ "failed" \in index'[b] \/ b \in nodes'
                        \/ b = cur' /\ pc' \in {"check", "connect"}
      BY DEF NothingLeftOut, KnownInvalid
    <3>1. graph \subseteq nodes /\ ~ConnectFails
      BY <2>1, <2>3
    <3>2. CASE b \notin Known(index)
      BY <1>2, <3>2, Zenon
    <3>3. CASE b \in Known(index)
      <4>1. KnownInvalid(b) \/ b \in nodes \/ (b = cur /\ pc \in {"check", "connect"})
        BY <3>1, <3>3, Zenon DEF NothingLeftOut
      <4>2. KnownInvalid(b) => "failed" \in index'[b]
        BY <1>2, <3>3, Zenon DEF KnownInvalid
      <4>3. CASE b = cur /\ pc \in {"check", "connect"}
        <5>1. (cur' = cur /\ pc' \in {"check", "connect"}) \/ "failed" \in index'[cur]
          BY <1>2, <1>4, <3>1, <4>3, Zenon
        <5>2. QED
          BY <4>3, <5>1 DEF KnownInvalid
      <4>4. QED
        BY <2>1, <4>1, <4>2, <4>3, Zenon
    <3>4. QED
      BY <3>2, <3>3, Zenon
  <2>5. NodesValid'
    <3> SUFFICES ASSUME NEW b \in nodes
                 PROVE  /\ "failed" \notin index'[b]
                        /\ "valid" \in index'[b] \/ (b = cur' /\ fast' /\ pc' = "connected")
      BY <2>1, Zenon DEF NodesValid, KnownInvalid
    <3>1. /\ "failed" \notin index[b]
          /\ "valid" \in index[b] \/ (b = cur /\ fast /\ pc = "connected")
      BY DEF NodesValid, KnownInvalid
    <3>2. QED
      BY <1>2, <3>1, Zenon DEF KnownInvalid
  <2>6. nodes = Closure(db.tips)
    BY DEF Inv, DiskDescribesView
  <2>7. \A b \in Closure(db.tips) : "failed" \notin db'.rows[b]
    BY <1>1, <2>1, <2>5, <2>6, Zenon DEF IndexSaved, NodesValid, KnownInvalid
  <2>8. Agrees(db')
    BY <2>2, <2>7, AgreesSame, Zenon DEF Published
  <2>9. Agrees(durable')
    BY <2>2, <2>8 DEF Published
  <2>10. Published'
    BY <2>1, <2>2, <2>8, <2>9 DEF Published
  <2>11. QED
    BY <1>1, <1>2, <2>4, <2>5, <2>10, Zenon
<1>5. QED
  BY <1>3, <1>4

\* Going down and starting again keep it.
LEMMA CleanDown ==
    ASSUME Inv, IndexSaved, Published, NotRefused, NothingLeftOut, NodesValid,
           [Next]_vars, ~Fault, pc = "down" \/ pc' = "down"
    PROVE  IndexSaved' /\ NotRefused' /\ NothingLeftOut' /\ NodesValid' /\ Published'
<1>1. IndexSaved'
  BY IndexSavedStep
<1>2. CASE UNCHANGED vars
  <2>1. /\ index' = index /\ nodes' = nodes /\ graph' = graph /\ pc' = pc /\ cur' = cur
        /\ fast' = fast /\ db' = db /\ durable' = durable /\ snapshot' = snapshot
    BY <1>2, Zenon DEF vars
  <2>2. NotRefused' /\ NothingLeftOut' /\ NodesValid'
    BY <2>1, Zenon DEF NotRefused, NothingLeftOut, NodesValid, KnownInvalid, Known
  <2>3. QED
    BY <1>1, <2>1, <2>2, Zenon DEF Published
<1>3. CASE Crash \/ Shutdown
  <2>1. /\ index' = [b \in Block |-> {}] /\ nodes' = {} /\ pc' = "down"
        /\ db' \in {db, durable} /\ durable' \in {db, durable}
    BY <1>3, Zenon DEF Crash, Shutdown, GoDown
  <2>2. Known(index') = {}
    BY <2>1 DEF Known
  <2>3. NotRefused' /\ NothingLeftOut' /\ NodesValid'
    BY <2>1, <2>2, Zenon DEF NotRefused, NothingLeftOut, NodesValid
  <2>4. Agrees(db') /\ Agrees(durable')
    BY <2>1, Zenon DEF Published
  <2>5. QED
    BY <1>1, <2>1, <2>3, <2>4, Zenon DEF Published
<1>4. CASE Restart
  <2>1. /\ nodes' = Closure(db.tips) /\ graph' = Known(db.rows) /\ pc' = "idle"
        /\ index' = [b \in Block |->
             IF b \in nodes' THEN db.rows[b] \cup {"valid"} ELSE db.rows[b]]
        /\ snapshot' = [tips |-> db.tips, blkCount |-> db.blkCount]
        /\ db' = [db EXCEPT !.rows = index'] /\ durable' \in {durable, db'}
    BY <1>4 DEF Restart, Commit
  <2>2. nodes' \subseteq Block /\ db \in Database
    BY <2>1, ClosureType DEF Inv, TypeOK, Database
  <2>3. \A b \in nodes' : index'[b] = db.rows[b] \cup {"valid"}
    BY <2>1, <2>2
  <2>4. \A b \in nodes' : "failed" \notin db.rows[b]
    BY <2>1 DEF Published, Agrees
  <2>5. NodesValid'
    BY <2>3, <2>4 DEF NodesValid, KnownInvalid
  <2>6. \A b \in Known(index') : b \in nodes' \/ b \in graph'
    BY <2>1 DEF Known
  <2>7. NotRefused' /\ NothingLeftOut'
    BY <2>1, <2>6 DEF NotRefused, NothingLeftOut
  <2>8. /\ db'.tips = db.tips /\ db'.blkCount = db.blkCount /\ db'.heights = db.heights
        /\ db'.rows = index'
    BY <2>1, <2>2 DEF Database
  <2>9. \A b \in Closure(db.tips) : "failed" \notin db'.rows[b]
    BY <2>1, <2>3, <2>4, <2>8
  <2>10. Agrees(db')
    BY <2>8, <2>9, AgreesSame, Zenon DEF Published
  <2>11. Agrees(durable')
    BY <2>1, <2>10, Zenon DEF Published
  <2>12. QED
    BY <1>1, <2>1, <2>5, <2>7, <2>8, <2>10, <2>11 DEF Published
<1>5. QED
  BY <1>2, <1>3, <1>4, DownMoves

\* Restarts are counted.
LEMMA WholeBefore ==
    ASSUME TypeOK, [Next]_vars, Whole'
    PROVE  Whole
<1>1. CASE CompleteOrder
  BY <1>1 DEF Whole
<1>2. CASE restarts' = 0
  <2>1. restarts \in Nat
    BY Zenon DEF TypeOK
  <2>2. restarts' \in {restarts, restarts + 1}
    <3>1. CASE pc = "down" \/ pc' = "down"
      BY <3>1, DownMoves, Zenon DEF Crash, Shutdown, GoDown, Restart, bound, vars
    <3>2. CASE pc # "down" /\ pc' # "down"
      BY <3>2, ViewMoves
    <3>3. QED
      BY <3>1, <3>2
  <2>3. QED
    BY <1>2, <2>1, <2>2 DEF Whole
<1>3. QED
  BY <1>1, <1>2 DEF Whole

\* Every step keeps what holds without errors.
LEMMA CleanStep ==
    ASSUME Inv, ViewInv, CleanInv, [Next]_vars
    PROVE  CleanInv'
<1> SUFFICES ASSUME faults' = 0, Whole'
             PROVE  IndexSaved' /\ NotRefused' /\ NothingLeftOut' /\ NodesValid' /\ Published'
  BY DEF CleanInv
<1>1. faults = 0 /\ ~Fault /\ Whole
  BY FaultMoves, WholeBefore DEF Inv
<1>2. IndexSaved /\ NotRefused /\ NothingLeftOut /\ NodesValid /\ Published
  BY <1>1 DEF CleanInv
<1>3. CASE pc = "down" \/ pc' = "down"
  BY <1>1, <1>2, <1>3, CleanDown
<1>4. CASE pc # "down" /\ pc' # "down"
  BY <1>1, <1>2, <1>4, CleanRunning
<1>5. QED
  BY <1>3, <1>4

\* A node that holds genesis only satisfies it.
LEMMA CleanInit == Init => CleanInv
<1> SUFFICES ASSUME Init
             PROVE  IndexSaved /\ NotRefused /\ NothingLeftOut /\ NodesValid /\ Published
  BY DEF CleanInv
<1>1. /\ index = GenesisStatus /\ nodes = {Genesis} /\ pc = "idle" /\ dirty = {}
      /\ db.rows = GenesisStatus /\ db.tips = {Genesis} /\ db.blkCount = 1
      /\ db.heights = {Genesis} /\ durable = db
      /\ snapshot = [tips |-> {Genesis}, blkCount |-> 1]
  BY Zenon DEF Init, GenesisDatabase
<1>2. /\ GenesisStatus[Genesis] = {"stored", "valid"} /\ Parents[Genesis] = {}
      /\ Genesis \in Block
      /\ \A b \in Known(GenesisStatus) : b = Genesis
  BY BlockAssumption, Zenon DEF GenesisStatus, Known
<1>3. Closure({Genesis}) = {Genesis}
  <2>1. nodes = Closure(db.tips)
    BY <1>1, InvInit, Zenon DEF Inv, DiskDescribesView
  <2>2. QED
    BY <1>1, <2>1, Zenon
<1>4. IsFiniteSet({Genesis}) /\ Cardinality({Genesis}) = 1
  BY FS_Singleton, Zenon
<1>5. Agrees(db)
  <2>1. /\ db.tips = {Genesis} /\ db.heights = {Genesis} /\ db.blkCount = 1
        /\ db.rows = GenesisStatus
    BY <1>1, Zenon
  <2>2. Genesis \notin Parents[Genesis] /\ "failed" \notin GenesisStatus[Genesis]
    BY <1>2, Zenon
  <2>3. {Genesis} = {b \in {Genesis} : \A c \in {Genesis} : b \notin Parents[c]}
    BY <2>2, Zenon
  <2>4. QED
    BY <1>3, <1>4, <2>1, <2>2, <2>3, Zenon DEF Agrees
<1>6. Published
  BY <1>1, <1>5, Zenon DEF Published
<1>7. QED
  BY <1>1, <1>2, <1>6, SMTT(30)
  DEF IndexSaved, NotRefused, NothingLeftOut, NodesValid, KnownInvalid

\* Whatever blocks arrive, and however often the node goes down.
THEOREM CleanInvariance == Spec => []CleanInv
BY Invariance, ViewInvariance, CleanInit, CleanStep, PTL DEF Spec

\* As long as the database has not failed, readers see a view, a snapshot and a
\* database that agree: on a node that was never restarted whatever blocks
\* OrderDAG leaves out, and over crashes and restarts too if it leaves out none.
THEOREM PublishedStateAlwaysAgrees ==
    Spec => [](CompleteOrder \/ restarts = 0 => PublishedStateAgrees)
<1>1. Inv /\ CleanInv => (CompleteOrder \/ restarts = 0 => PublishedStateAgrees)
  <2> SUFFICES ASSUME Inv, CleanInv, Whole, faults = 0, pc # "down"
               PROVE  /\ tips = {b \in nodes : \A c \in nodes : b \notin Parents[c]}
                      /\ snapshot = [tips |-> tips, blkCount |-> Cardinality(nodes)]
                      /\ snapshot = [tips |-> db.tips, blkCount |-> db.blkCount]
                      /\ db.heights = nodes
    BY Zenon DEF PublishedStateAgrees, Unlocked, Whole
  <2>1. nodes = Closure(db.tips) /\ tips = db.tips
    BY DEF Inv, DiskDescribesView
  <2>2. QED
    BY <2>1, Zenon DEF CleanInv, Published, Agrees
<1>2. QED
  BY <1>1, Invariance, CleanInvariance, PTL

\* As long as the database has not failed, and OrderDAG lists every block or
\* the node was not restarted, every connected block passed its checks or is
\* being added fast.
THEOREM ConnectedBlocksAlwaysValid ==
    Spec => [](CompleteOrder \/ restarts = 0 => ConnectedBlocksValid)
<1>1. CleanInv => (CompleteOrder \/ restarts = 0 => ConnectedBlocksValid)
  BY Zenon DEF CleanInv, Whole, NodesValid, ConnectedBlocksValid
<1>2. QED
  BY <1>1, CleanInvariance, PTL

-----------------------------------------------------------------------------
\* The graph and the order, on a node that neither failed nor was restarted.
GraphInv ==
    restarts = 0 /\ faults = 0 => graph = nodes /\ nodeOrder \subseteq nodes

\* Every step keeps it.
LEMMA GraphStep ==
    ASSUME Inv, ViewInv, CleanInv, GraphInv, [Next]_vars
    PROVE  GraphInv'
<1> SUFFICES ASSUME restarts' = 0, faults' = 0
             PROVE  graph' = nodes' /\ nodeOrder' \subseteq nodes'
  BY DEF GraphInv
<1>1. faults = 0 /\ ~Fault
  BY FaultMoves DEF Inv
<1>2. CASE pc = "down" \/ pc' = "down"
  <2>1. UNCHANGED vars
    <3>1. ~Crash /\ ~Shutdown
      <4>1. Crash \/ Shutdown => restarts' = restarts + 1
        BY Zenon DEF Crash, Shutdown, GoDown
      <4>2. restarts \in Nat
        BY Zenon DEF Inv, TypeOK
      <4>3. QED
        BY <4>1, <4>2
    <3>2. ~Restart
      BY DEF Restart, bound, ViewInv
    <3>3. QED
      BY <1>2, <3>1, <3>2, DownMoves
  <2>2. QED
    BY <1>1, <2>1, Zenon DEF vars, GraphInv
<1>3. CASE pc # "down" /\ pc' # "down"
  <2>1. restarts = 0
    BY <1>3, ViewMoves
  <2>2. graph = nodes /\ nodeOrder \subseteq nodes
    BY <1>1, <2>1 DEF GraphInv
  <2>3. CASE Connect
    <3>1. nodes' = nodes \cup {cur}
      BY <1>1, <2>1, <2>3, ConnectAdds, Zenon DEF CleanInv, Whole
    <3>2. graph' = graph \cup {cur} /\ nodeOrder' \in Orders(graph \cup {cur})
      BY <2>3, Zenon DEF Connect
    <3>3. QED
      BY <2>2, <3>1, <3>2, OrdersWithin
  <2>4. CASE ~Connect
    <3>1. ~ConnectFails
      <4>1. \A O \in Orders(graph \cup {cur}) : ReplayFinds(O)
        BY <2>2, OrdersWithin DEF ReplayFinds
      <4>2. QED
        BY <1>1, <4>1, Zenon DEF ConnectFails
    <3>2. nodes' = nodes /\ graph' = graph /\ nodeOrder' = nodeOrder
      BY <1>3, <2>4, <3>1, ViewMoves
    <3>3. QED
      BY <2>2, <3>2
  <2>5. QED
    BY <2>3, <2>4
<1>4. QED
  BY <1>2, <1>3

\* Whatever blocks OrderDAG leaves out, the phantom graph holds the connected
\* blocks and no others, and the order none that is not connected, on a node
\* that neither failed nor was restarted.
THEOREM GraphAlwaysIsView ==
    Spec => [](restarts = 0 /\ faults = 0 => GraphIsView)
<1>1. Init => GraphInv
  BY Zenon DEF Init, GraphInv
<1>2. GraphInv => (restarts = 0 /\ faults = 0 => GraphIsView)
  BY DEF GraphInv, GraphIsView
<1>3. QED
  BY <1>1, <1>2, Invariance, ViewInvariance, CleanInvariance, GraphStep, PTL DEF Spec

-----------------------------------------------------------------------------
\* The passes over the orphan pool.

Connectable == {o \in Pooled : Parents[o] \subseteq nodes}

\* No orphan is connectable between calls, and while a new block is on its way;
\* in a pass that has accepted nothing so far, all that are, are still to come.
SweepInv ==
    faults = 0 =>
        /\ pc = "idle" \/ (InCall /\ ~fromPool) => Connectable = {}
        /\ (pc = "orphans" \/ (InCall /\ fromPool)) /\ ~accepted =>
              Connectable \subseteq Elems(work) \ checked

\* Of a work list, what is not at the head is in the tail.
LEMMA HeadOrTail ==
    ASSUME NEW s \in Seq(Block), s # <<>>
    PROVE  Tail(s) \in Seq(Block) /\ Elems(s) \subseteq {Head(s)} \cup Elems(Tail(s))
<1>1. /\ Len(s) \in Nat \ {0} /\ Tail(s) \in Seq(Block) /\ Len(Tail(s)) = Len(s) - 1
      /\ \A i \in 1..(Len(s) - 1) : Tail(s)[i] = s[i + 1]
  OBVIOUS
<1> SUFFICES ASSUME NEW i \in 1..Len(s), s[i] # Head(s) PROVE s[i] \in Elems(Tail(s))
  BY <1>1 DEF Elems
<1>2. i - 1 \in 1..Len(Tail(s)) /\ Tail(s)[i - 1] = s[i]
  BY <1>1
<1>3. QED
  <2> DEFINE t == Tail(s)
  <2>1. t \in Seq(Block) /\ i - 1 \in 1..Len(t) /\ t[i - 1] = s[i]
    BY <1>1, <1>2
  <2> HIDE DEF t
  <2>2. s[i] \in Elems(t)
    BY <2>1 DEF Elems
  <2>3. QED
    BY <2>2 DEF t

\* A concatenation holds what its second part does.
LEMMA ElemsOfConcat ==
    ASSUME NEW s \in Seq(Block), NEW t \in Seq(Block)
    PROVE  Elems(t) \subseteq Elems(s \o t)
<1> DEFINE r == s \o t
<1>1. /\ Len(r) = Len(s) + Len(t) /\ r \in Seq(Block)
      /\ \A i \in 1..Len(t) : r[Len(s) + i] = t[i]
  OBVIOUS
<1> HIDE DEF r
<1>2. ASSUME NEW i \in 1..Len(t) PROVE t[i] \in Elems(r)
  <2>1. Len(s) + i \in 1..Len(r) /\ r[Len(s) + i] = t[i]
    BY <1>1
  <2>2. DOMAIN r = 1..Len(r)
    BY <1>1
  <2>3. QED
    BY <2>1, <2>2, Zenon DEF Elems
<1>3. Elems(t) \subseteq Elems(r)
  BY <1>2 DEF Elems
<1>4. QED
  BY <1>3 DEF r

\* A listing of a finite set holds its members.
LEMMA ElemsOfListing ==
    ASSUME NEW S, IsFiniteSet(S), NEW s \in Bijection(1..Cardinality(S), S)
    PROVE  Elems(s) = S
BY DEF Bijection, Injection, Surjection, Elems

\* Each step of a pass keeps it.
LEMMA PassSweep ==
    ASSUME Inv, PoolInv, SweepInv, ProcessOrphans, ~Fault, faults = 0
    PROVE  SweepInv'
<1>1. /\ nodes' = nodes /\ Pooled \subseteq Block /\ IsFiniteSet(Pooled)
      /\ work \in Seq(Block)
  BY PooledFinite, Zenon DEF Inv, TypeOK, ProcessOrphans, OrphanPass, OrphanPassEnds,
     OrphanSkip, OrphanWaits, OrphanTaken, OrphanLookupFails, mem
<1>2. CASE OrphanPass
  <2>1. work' \in Bijection(1..Cardinality(Pooled), Pooled) /\ checked' = {}
        /\ pc' = "orphans" /\ orphans' = orphans
    BY <1>2, Zenon DEF OrphanPass, OrphanOrders, pool
  <2>2. Elems(work') = Pooled
    BY <1>1, <2>1, ElemsOfListing
  <2>3. Connectable' \subseteq Pooled
    BY <2>1, Zenon DEF Connectable, Pooled
  <2>4. QED
    BY <2>1, <2>2, <2>3, Zenon DEF SweepInv, InCall
<1>3. CASE OrphanPassEnds
  <2>1. /\ pc = "orphans" /\ work = <<>> /\ orphans' = orphans
        /\ pc' = IF accepted THEN "pass" ELSE "idle"
    BY <1>3 DEF OrphanPassEnds, pool
  <2>2. Connectable' = Connectable
    BY <1>1, <2>1 DEF Connectable, Pooled
  <2>3. Elems(work) = {}
    BY <2>1 DEF Elems
  <2>4. QED
    BY <2>1, <2>2, <2>3, SMTT(30) DEF SweepInv, InCall
<1>4. CASE OrphanSkip
  <2>1. /\ pc = "orphans" /\ work # <<>> /\ orphans' = orphans /\ pc' = pc
        /\ Head(work) \in checked \/ Head(work) \notin Pooled
        /\ work' = Tail(work) /\ checked' = checked \cup {Head(work)}
        /\ accepted' = accepted
    BY <1>4 DEF OrphanSkip, pool
  <2>2. Connectable' = Connectable /\ Connectable \subseteq Pooled
    BY <1>1, <2>1, Zenon DEF Connectable, Pooled
  <2>3. Elems(work) \subseteq {Head(work)} \cup Elems(work')
    BY <1>1, <2>1, HeadOrTail
  <2>4. QED
    BY <2>1, <2>2, <2>3, Zenon DEF SweepInv, InCall
<1>5. CASE OrphanWaits
  <2>1. /\ pc = "orphans" /\ work # <<>> /\ orphans' = orphans /\ pc' = pc
        /\ Head(work) \in Pooled /\ MissingParents(Head(work)) # {}
        /\ checked' = checked \cup {Head(work)} /\ accepted' = accepted
    BY <1>5, Zenon DEF OrphanWaits, pool
  <2>2. Connectable' = Connectable
    BY <1>1, <2>1, Zenon DEF Connectable, Pooled
  <2>3. Head(work) \notin Connectable
    <3>1. \A p \in nodes : blockExists(p)
      BY <2>1, NodesKnown, Zenon DEF blockExists, Known
    <3>2. QED
      BY <2>1, <3>1, Zenon DEF MissingParents, Connectable
  <2> DEFINE M == MissingParents(Head(work)) \cap Pooled
  <2>4. PICK front \in Bijection(1..Cardinality(M), M) : work' = front \o Tail(work)
    BY <1>5, Zenon DEF OrphanWaits
  <2>5. front \in Seq(Block) /\ Tail(work) \in Seq(Block)
        /\ Elems(work) \subseteq {Head(work)} \cup Elems(Tail(work))
    <3>1. M \in SUBSET Block /\ IsFiniteSet(M)
      BY <1>1, FS_Subset
    <3>2. QED
      BY <1>1, <2>1, <2>4, <3>1, ListingType, HeadOrTail, Zenon
  <2>6. Elems(Tail(work)) \subseteq Elems(work')
    BY <2>4, <2>5, ElemsOfConcat, Zenon
  <2>7. QED
    BY <2>1, <2>2, <2>3, <2>5, <2>6, SMTT(30) DEF SweepInv, InCall
<1>6. CASE OrphanTaken
  <2>1. /\ pc = "orphans" /\ work # <<>> /\ work' = Tail(work)
        /\ checked' = checked \cup {Head(work)} /\ accepted' = accepted
        /\ (pc' = "store" /\ fromPool') \/ pc' = pc
    BY <1>6, Zenon DEF OrphanTaken
  <2>2. Pooled' = Pooled \ {Head(work)}
    BY <1>6, OrphanTakenPool
  <2>3. Connectable' = Connectable \ {Head(work)}
    BY <1>1, <2>2, Zenon DEF Connectable
  <2>4. Elems(work) \subseteq {Head(work)} \cup Elems(work')
    BY <1>1, <2>1, HeadOrTail
  <2>5. QED
    BY <2>1, <2>3, <2>4, Zenon DEF SweepInv, InCall
<1>7. ~OrphanLookupFails
  BY DEF OrphanLookupFails
<1>8. QED
  BY <1>2, <1>3, <1>4, <1>5, <1>6, <1>7 DEF ProcessOrphans

\* maybeAcceptBlock keeps it: it leaves the pool alone, and a block it connects
\* is followed by a pass.
LEMMA AcceptSweep ==
    ASSUME Inv, SweepInv, Accept, faults = 0
    PROVE  SweepInv'
<1> DEFINE Same == UNCHANGED <<orphans, nodes, work, checked, fromPool>>
<1>1. Same => Connectable' = Connectable
  BY Zenon DEF Connectable, Pooled
<1>2. CASE StoreBlock \/ IndexBlock \/ CheckSkipped \/ ConnectFlush \/ CheckPasses
  <2>1. Same /\ InCall /\ InCall' /\ accepted' = accepted
    <3>1. CASE StoreBlock \/ IndexBlock
      BY <3>1 DEF StoreBlock, IndexBlock, InCall, mem, pool, call
    <3>2. CASE CheckSkipped \/ ConnectFlush
      BY <3>2, Zenon DEF CheckSkipped, ConnectFlush, InCall, mem, pool, call
    <3>3. CASE CheckPasses
      BY <3>3, Zenon DEF CheckPasses, Verdict, InCall, pool, call
    <3>4. QED
      BY <1>2, <3>1, <3>2, <3>3
  <2>2. QED
    BY <1>1, <2>1, Zenon DEF SweepInv, InCall
<1>3. CASE \/ StoreFails \/ IndexFails \/ CheckRejects \/ CheckFails
           \/ ConnectFlushFails \/ ConnectFails
  <2>1. Same /\ Return(FALSE) /\ InCall
    <3>1. CASE StoreFails \/ IndexFails
      BY <3>1, Zenon DEF StoreFails, IndexFails, Return, InCall, mem, pool
    <3>2. CASE CheckRejects \/ CheckFails
      BY <3>2, Zenon DEF CheckRejects, CheckFails, Verdict, Return, InCall, mem, pool
    <3>3. CASE ConnectFlushFails \/ ConnectFails
      BY <3>3, Zenon DEF ConnectFlushFails, ConnectFails, Return, InCall, pool
    <3>4. QED
      BY <1>3, <3>1, <3>2, <3>3, Zenon
  <2>2. /\ pc' = IF fromPool THEN "orphans" ELSE "idle"
        /\ accepted' <=> accepted
    BY <2>1, Zenon DEF Return
  <2>3. QED
    BY <1>1, <2>1, <2>2, Zenon DEF SweepInv, InCall
<1>4. CASE Connect \/ ConnectReturns
  <2>1. pc' \in {"connected", "accepted"}
    BY <1>4 DEF Connect, ConnectReturns
  <2>2. QED
    BY <2>1, Zenon DEF SweepInv, InCall
<1>5. CASE AcceptReturns
  <2>1. pc' = "pass" \/ (pc' = "orphans" /\ accepted')
    BY <1>5, Zenon DEF AcceptReturns, Return
  <2>2. QED
    BY <2>1 DEF SweepInv, InCall
<1>6. QED
  BY <1>2, <1>3, <1>4, <1>5 DEF Accept

\* Every step keeps it.
LEMMA SweepStep ==
    ASSUME Inv, PoolInv, SweepInv, [Next]_vars
    PROVE  SweepInv'
<1> SUFFICES ASSUME faults' = 0 PROVE SweepInv'
  BY Zenon DEF SweepInv
<1>1. faults = 0 /\ ~Fault
  BY FaultMoves DEF Inv
<1>2. CASE Accept
  BY <1>1, <1>2, AcceptSweep
<1>3. CASE ProcessOrphans
  BY <1>1, <1>3, PassSweep
<1>4. ASSUME NEW b \in Block, ProcessOrphan(b) PROVE SweepInv'
  <2>1. /\ pc = "idle" /\ pc' = "idle" /\ nodes' = nodes
        /\ \E p \in Parents[b] : ~blockExists(p)
    BY <1>4, Zenon DEF ProcessOrphan, mem
  <2>2. Pooled' \subseteq Pooled \cup {b}
    BY <1>4, ProcessOrphanPool
  <2>3. ~(Parents[b] \subseteq nodes)
    BY <2>1, NodesKnown, Zenon DEF blockExists, Known
  <2>4. Connectable = {}
    BY <1>1, <2>1, Zenon DEF SweepInv
  <2>5. Connectable' = {}
    BY <2>1, <2>2, <2>3, <2>4, Zenon DEF Connectable
  <2>6. QED
    BY <2>1, <2>5, Zenon DEF SweepInv, InCall
<1>5. ASSUME NEW b \in Block, NEW flag \in BOOLEAN, ProcessBlock(b, flag) PROVE SweepInv'
  <2>1. pc = "idle" /\ pc' = "store" /\ fromPool' = FALSE /\ UNCHANGED <<nodes, orphans>>
    BY <1>5, Zenon DEF ProcessBlock, mem, pool
  <2>2. Connectable' = Connectable
    BY <2>1 DEF Connectable, Pooled
  <2>3. QED
    BY <1>1, <2>1, <2>2, Zenon DEF SweepInv, InCall
<1>6. CASE ProcessRefused \/ UNCHANGED vars
  <2>1. UNCHANGED <<orphans, nodes, pc, work, checked, fromPool, accepted>>
    BY <1>6, Zenon DEF ProcessRefused, vars
  <2>2. Connectable' = Connectable
    BY <2>1, Zenon DEF Connectable, Pooled
  <2>3. QED
    BY <1>1, <2>1, <2>2, Zenon DEF SweepInv, InCall
<1>7. CASE Crash \/ Shutdown \/ Restart
  <2>1. orphans' = <<>> /\ pc' \in {"down", "idle"}
    BY <1>7 DEF Crash, Shutdown, GoDown, Restart, pool, PoolInv
  <2>2. Connectable' = {}
    BY <2>1 DEF Connectable, Pooled
  <2>3. QED
    BY <2>1, <2>2, Zenon DEF SweepInv, InCall
<1>8. QED
  BY <1>2, <1>3, <1>4, <1>5, <1>6, <1>7 DEF Next

\* As long as the database has not failed, no orphan whose parents are all
\* connected is left in the pool between calls.
THEOREM NeverConnectableOrphan == Spec => [](faults = 0 => NoConnectableOrphan)
<1>1. Init => SweepInv
  BY SMTT(30) DEF Init, SweepInv, InCall, Connectable, Pooled
<1>2. SweepInv => (faults = 0 => NoConnectableOrphan)
  BY Zenon DEF SweepInv, NoConnectableOrphan, Connectable
<1>3. QED
  BY <1>1, <1>2, Invariance, PoolInvariance, SweepStep, PTL DEF Spec

-----------------------------------------------------------------------------
\* The ledger.

\* A step without errors extends the ledger by one block, saves it, loses what
\* was not saved, or leaves it alone.
LEMMA LedgerStep ==
    ASSUME Inv, ViewInv, CleanInv, Whole, [Next]_vars, faults' = 0
    PROVE  [Ledger!Next]_(Ledger!vars)
<1>1. faults = 0 /\ ~Fault
  BY FaultMoves DEF Inv
<1>2. ASSUME db'.tips = db.tips, durable' \in {durable, db'}
      PROVE  [Ledger!Next]_(Ledger!vars)
  <2>1. CASE durable' = durable
    BY <1>2, <2>1, Zenon DEF Ledger!vars, Closure
  <2>2. CASE durable' = db'
    <3>1. Ledger!Save
      BY <1>2, <2>2 DEF Ledger!Save, Closure
    <3>2. QED
      BY <3>1 DEF Ledger!Next
  <2>3. QED
    BY <1>2, <2>1, <2>2
<1>3. CASE pc = "down" \/ pc' = "down"
  <2>1. CASE UNCHANGED vars
    BY <2>1, Zenon DEF vars, Ledger!vars, Closure
  <2>2. CASE Crash
    <3>1. Ledger!Lose
      BY <2>2, Zenon DEF Crash, Ledger!Lose, Closure
    <3>2. QED
      BY <3>1 DEF Ledger!Next
  <2>3. CASE Shutdown
    <3>1. Ledger!Save
      BY <2>3, Zenon DEF Shutdown, Ledger!Save, Closure
    <3>2. QED
      BY <3>1 DEF Ledger!Next
  <2>4. CASE Restart
    <3>1. db' = [db EXCEPT !.rows = index'] /\ durable' \in {durable, db'}
      BY <2>4 DEF Restart, Commit
    <3>2. db'.tips = db.tips
      BY <3>1 DEF Inv, TypeOK, Database
    <3>3. QED
      BY <1>2, <3>1, <3>2
  <2>5. QED
    BY <1>3, <2>1, <2>2, <2>3, <2>4, DownMoves
<1>4. CASE pc # "down" /\ pc' # "down" /\ ~Connect
  BY <1>1, <1>2, <1>4, IndexSavedStep, Zenon DEF CleanInv
<1>5. CASE Connect
  <2>1. /\ cur \notin nodes /\ Parents[cur] \subseteq nodes /\ nodes' = nodes \cup {cur}
    BY <1>1, <1>5, ConnectAdds DEF CleanInv
  <2>2. nodes = Closure(db.tips) /\ nodes' = Closure(db'.tips) /\ cur \in Block
    <3>1. Inv'
      BY InvStep
    <3>2. nodes' = Closure(db.tips)'
      BY <1>5, <3>1 DEF Inv, DiskDescribesView, Connect
    <3>3. QED
      BY <1>5, <3>2 DEF Inv, TypeOK, DiskDescribesView, Connect, Closure
  <2>3. durable' \in {durable, db'}
    BY <1>5 DEF Connect, Commit
  <2>4. Closure(durable'.tips) \in {Closure(durable.tips), Closure(db'.tips)}
    BY <2>3 DEF Closure
  <2>5. Ledger!Extend(cur)
    BY <2>1, <2>2, <2>4, Zenon DEF Ledger!Extend
  <2>6. QED
    BY <2>2, <2>5, Zenon DEF Ledger!Next
<1>6. QED
  BY <1>3, <1>4, <1>5

\* If OrderDAG lists every block, or the node is never restarted, then as long
\* as the database does not fail block acceptance implements the ledger, over
\* crashes and restarts.
THEOREM LedgerImplemented ==
    CompleteOrder \/ MaxRestarts = 0 => (Spec => ImplementsLedger)
<1> DEFINE Replayed == CompleteOrder \/ (MaxRestarts = 0 /\ restarts = 0)
           Step0 == faults' = 0 => Ledger!Next
<1>1. (CompleteOrder \/ MaxRestarts = 0) /\ Init => Replayed
  BY DEF Init
<1>2. Inv /\ ViewInv /\ Replayed /\ [Next]_vars => Replayed'
  BY NeverRestarted
<1>3. Init => Ledger!Init
  <2> SUFFICES ASSUME Init PROVE Ledger!Init
    OBVIOUS
  <2>1. nodes = Closure(db.tips) /\ nodes = {Genesis} /\ durable = db
    BY InvInit, Zenon DEF Inv, DiskDescribesView, Init
  <2>2. QED
    BY <2>1, Zenon DEF Ledger!Init
<1>4. Replayed /\ Inv /\ ViewInv /\ CleanInv /\ [Next]_vars => [Step0]_(Ledger!vars)
  BY LedgerStep DEF Whole
<1>5. CompleteOrder \/ MaxRestarts = 0 => (Spec => Ledger!Init /\ [][Step0]_(Ledger!vars))
  BY <1>1, <1>2, <1>3, <1>4, Invariance, ViewInvariance, CleanInvariance, PTL DEF Spec
<1>6. QED
  BY <1>5 DEF ImplementsLedger

-----------------------------------------------------------------------------
\* A call comes to its end.  Counted first: the orphans in the pool, and one
\* more as long as another pass over it may follow.
Rounds == Len(orphans) + (IF pc = "orphans" /\ ~accepted THEN 0 ELSE 1)

\* ... then the orphans that the pass has not looked at,
Unseen == Cardinality(Pooled \ checked)

\* ... its work list, and last the steps left of maybeAcceptBlock.
Left ==
    CASE pc = "store" -> 8 [] pc = "index" -> 7 [] pc = "check" -> 6
      [] pc = "connect" -> (IF dirty = {} THEN 4 ELSE 5)
      [] pc = "connected" -> 3 [] pc = "accepted" -> 2 [] pc = "orphans" -> 1
      [] OTHER -> 0

Calling == pc \notin {"idle", "down"}

Counted ==
    Rounds \in Nat /\ Unseen \in Nat /\ Len(work) \in Nat /\ Left \in Nat

\* The first of the four that changes gets smaller.
Shorter ==
    \/ Rounds' < Rounds
    \/ Rounds' = Rounds /\ Unseen' < Unseen
    \/ Rounds' = Rounds /\ Unseen' = Unseen /\ Len(work') < Len(work)
    \/ Rounds' = Rounds /\ Unseen' = Unseen /\ Len(work') = Len(work) /\ Left' < Left

\* The four are numbers.
LEMMA CallCounted ==
    ASSUME TypeOK
    PROVE  Counted /\ IsFiniteSet(Pooled \ checked)
<1>1. orphans \in Seq(Block) /\ work \in Seq(Block)
  BY Zenon DEF TypeOK
<1>2. Len(orphans) \in Nat /\ Len(work) \in Nat
  BY <1>1
<1>3. Rounds \in Nat
  BY <1>2 DEF Rounds
<1>4. IsFiniteSet(Pooled \ checked)
  <2>1. IsFiniteSet(Pooled)
    BY <1>1, PooledFinite, Zenon
  <2>2. QED
    BY <2>1, FS_Difference, Zenon
<1>5. Unseen \in Nat
  BY <1>4, FS_CardinalityType DEF Unseen
<1>6. Left \in Nat
  BY DEF Left
<1>7. QED
  BY <1>2, <1>3, <1>4, <1>5, <1>6 DEF Counted

\* A step that looks at an orphan of the pool for the first time in a pass.
LEMMA LooksAt ==
    ASSUME TypeOK, NEW o \in Pooled, o \notin checked,
           Pooled' \ checked' = (Pooled \ checked) \ {o}
    PROVE  Unseen' < Unseen
<1>1. IsFiniteSet(Pooled \ checked) /\ o \in Pooled \ checked
  BY CallCounted
<1>2. /\ Cardinality((Pooled \ checked) \ {o}) = Cardinality(Pooled \ checked) - 1
      /\ Cardinality(Pooled \ checked) \in Nat
  BY <1>1, FS_RemoveElement, FS_CardinalityType, Zenon
<1>3. QED
  BY <1>2 DEF Unseen

\* A step of maybeAcceptBlock after which the call goes on.
LEMMA AcceptShorter ==
    ASSUME Inv, Accept, pc' \notin {"idle", "down"}
    PROVE  Shorter
<1>1. /\ pc \in {"store", "index", "check", "connect", "connected", "accepted"}
      /\ UNCHANGED <<work, checked>>
      /\ \/ pc' \in {"orphans", "pass"}
         \/ pc = "store" /\ pc' = "index"
         \/ pc = "index" /\ pc' = "check"
         \/ pc = "check" /\ pc' = "connect"
         \/ pc = "connect" /\ pc' = "connect" /\ dirty # {} /\ dirty' = {}
         \/ pc = "connect" /\ pc' = "connected"
         \/ pc = "connected" /\ pc' = "accepted"
  <2>1. ASSUME NEW ok, Return(ok)
        PROVE  UNCHANGED <<work, checked>> /\ pc' \in {"orphans", "pass"}
    BY <2>1 DEF Return
  <2>2. CASE StoreBlock \/ IndexBlock \/ CheckPasses \/ CheckSkipped
    BY <2>2, Zenon DEF StoreBlock, IndexBlock, CheckPasses, CheckSkipped, call
  <2>3. CASE ConnectFlush \/ Connect \/ ConnectReturns
    BY <2>3, Zenon DEF ConnectFlush, Connect, ConnectReturns, call
  <2>4. CASE StoreFails \/ IndexFails \/ CheckRejects \/ CheckFails
    BY <2>1, <2>4, Zenon DEF StoreFails, IndexFails, CheckRejects, CheckFails
  <2>5. CASE ConnectFlushFails \/ ConnectFails \/ AcceptReturns
    BY <2>1, <2>5, Zenon DEF ConnectFlushFails, ConnectFails, AcceptReturns
  <2>6. QED
    BY <2>2, <2>3, <2>4, <2>5, Zenon DEF Accept
<1>2. Left' < Left
  BY <1>1 DEF Left
<1>3. orphans' = orphans
  <2>1. pc # "down" /\ ~OrphanTaken /\ ~(\E b \in Block : ProcessOrphan(b))
    BY <1>1, Zenon DEF OrphanTaken, ProcessOrphan
  <2>2. QED
    BY <2>1, PoolMoves DEF Next
<1>4. Unseen' = Unseen /\ Len(work') = Len(work)
  BY <1>1, <1>3, Zenon DEF Unseen, Pooled
<1>5. Rounds' <= Rounds /\ Rounds' \in Nat /\ Rounds \in Nat
  <2>1. Len(orphans) \in Nat /\ Len(orphans') = Len(orphans)
    BY <1>3 DEF Inv, TypeOK
  <2>2. pc # "orphans"
    BY <1>1
  <2>3. QED
    BY <2>1, <2>2 DEF Rounds
<1>6. QED
  BY <1>2, <1>4, <1>5 DEF Shorter

\* A step of processOrphans after which the call goes on.
LEMMA OrphansShorter ==
    ASSUME Inv, PoolInv, ProcessOrphans, pc' \notin {"idle", "down"}
    PROVE  Shorter
<1>1. /\ TypeOK /\ orphans \in Seq(Block) /\ work \in Seq(Block) /\ Len(orphans) \in Nat
      /\ Rounds \in Nat
  BY CallCounted, SMTT(30), Z3T(60) DEF Inv, TypeOK, Counted
<1>2. CASE OrphanPass
  <2>1. pc = "pass" /\ pc' = "orphans" /\ ~accepted' /\ orphans' = orphans
    BY <1>2 DEF OrphanPass, pool
  <2>2. Len(orphans') = Len(orphans)
    BY <2>1
  <2>3. Rounds' < Rounds
    BY <1>1, <2>1, <2>2 DEF Rounds
  <2>4. QED
    BY <2>3 DEF Shorter
<1>3. CASE OrphanPassEnds
  <2>1. /\ pc = "orphans" /\ pc' = "pass" /\ accepted
        /\ UNCHANGED <<orphans, work, checked>>
    BY <1>3 DEF OrphanPassEnds, pool, call
  <2>2. Rounds' = Rounds
    BY <2>1 DEF Rounds
  <2>3. Unseen' = Unseen /\ Len(work') = Len(work)
    BY <2>1, Zenon DEF Unseen, Pooled
  <2>4. Left' < Left
    BY <2>1 DEF Left
  <2>5. QED
    BY <2>2, <2>3, <2>4 DEF Shorter
<1>4. CASE OrphanSkip
  <2>1. /\ work # <<>> /\ work' = Tail(work) /\ UNCHANGED <<pc, accepted, orphans>>
        /\ checked' = checked \cup {Head(work)}
        /\ Head(work) \in checked \/ Head(work) \notin Pooled
    BY <1>4, Zenon DEF OrphanSkip, pool
  <2>2. Rounds' = Rounds
    BY <2>1 DEF Rounds
  <2>3. Pooled' \ checked' = Pooled \ checked
    BY <2>1, Zenon DEF Pooled
  <2>4. Unseen' = Unseen
    BY <2>3, Zenon DEF Unseen
  <2>5. Len(work') < Len(work)
    BY <1>1, <2>1
  <2>6. QED
    BY <2>2, <2>4, <2>5 DEF Shorter
<1>5. CASE OrphanWaits
  <2>1. /\ Head(work) \in Pooled /\ Head(work) \notin checked
        /\ checked' = checked \cup {Head(work)} /\ UNCHANGED <<pc, accepted, orphans>>
    BY <1>5, Zenon DEF OrphanWaits, pool
  <2>2. Rounds' = Rounds
    BY <2>1 DEF Rounds
  <2>3. Pooled' \ checked' = (Pooled \ checked) \ {Head(work)}
    BY <2>1, Zenon DEF Pooled
  <2>4. Unseen' < Unseen
    BY <1>1, <2>1, <2>3, LooksAt
  <2>5. QED
    BY <2>2, <2>4 DEF Shorter
<1>6. CASE OrphanTaken
  <2>1. /\ Head(work) \in Pooled /\ Head(work) \notin checked /\ pc = "orphans"
        /\ checked' = checked \cup {Head(work)} /\ accepted' = accepted
        /\ orphans' = removeOrphanBlock(orphans, Head(work))
        /\ pc' \in {"orphans", "store"}
    BY <1>6, Zenon DEF OrphanTaken
  <2>2. Pooled' \ checked' = (Pooled \ checked) \ {Head(work)}
    BY <1>6, <2>1, OrphanTakenPool, Zenon
  <2>3. Unseen' < Unseen
    BY <1>1, <2>1, <2>2, LooksAt
  <2>4. Len(orphans') = Len(orphans) - 1
    BY <1>1, <2>1, RemoveOrphan, Zenon DEF PoolInv, Pooled, Elems
  <2>5. Rounds' <= Rounds /\ Rounds' \in Int
    BY <1>1, <2>1, <2>4 DEF Rounds
  <2>6. QED
    BY <1>1, <2>3, <2>5 DEF Shorter
<1>7. QED
  BY <1>2, <1>3, <1>4, <1>5, <1>6 DEF ProcessOrphans, OrphanLookupFails

\* A call of ProcessBlock takes finitely many steps.  Every step after which it
\* goes on makes the first of four numbers that it changes smaller: another
\* pass costs an accepted orphan, a longer work list an orphan that the pass
\* will not look at again.  So neither the passes over the pool, which are
\* repeated, nor the work list, which grows while it is walked, keep a call
\* from returning, whatever orphans came and in whatever order they are listed.
THEOREM CallsEnd ==
    Spec => []Counted /\ [][Calling /\ Calling' => Shorter]_vars
<1>1. TypeOK => Counted
  BY CallCounted
<1>2. ASSUME Inv, PoolInv, Next, Calling, Calling'
      PROVE  Shorter
  <2>1. pc \notin {"idle", "down"} /\ pc' \notin {"idle", "down"}
    BY <1>2 DEF Calling
  <2>2. Accept \/ ProcessOrphans
    BY <1>2, <2>1, Zenon DEF Next, ProcessRefused, ProcessOrphan, ProcessBlock, Crash,
       Shutdown, GoDown, Restart
  <2>3. QED
    BY <1>2, <2>1, <2>2, AcceptShorter, OrphansShorter
<1>3. Inv /\ PoolInv /\ [Next]_vars => [Calling /\ Calling' => Shorter]_vars
  BY <1>2
<1>4. QED
  BY <1>1, <1>3, TypeCorrect, Invariance, PoolInvariance, PTL DEF Spec

\* s lists the blocks of T, each after its children.
ChildrenFirst(s, T) ==
    /\ s \in Bijection(1..Cardinality(T), T)
    /\ \A i, j \in DOMAIN s : s[i] \in Parents[s[j]] => j < i

\* Such a list gets longer by a block that has no parent in it.
LEMMA ListedLast ==
    ASSUME NEW T \in SUBSET Block, IsFiniteSet(T), NEW b \in T, Parents[b] \cap T = {},
           NEW s, ChildrenFirst(s, T \ {b})
    PROVE  \E r : ChildrenFirst(r, T)
<1> DEFINE n == Cardinality(T)
           r == [i \in 1..n |-> IF i = n THEN b ELSE s[i]]
<1>1. n \in Nat /\ n > 0 /\ Cardinality(T \ {b}) = n - 1
  <2>1. n \in Nat /\ n # 0
    BY FS_CardinalityType, FS_EmptySet, Zenon
  <2>2. Cardinality(T \ {b}) = n - 1
    BY FS_RemoveElement, Zenon
  <2> HIDE DEF n
  <2>3. QED
    BY <2>1, <2>2
<1> HIDE DEF n
<1>2. /\ s \in [1..(n - 1) -> T \ {b}]
      /\ \A i, j \in 1..(n - 1) : s[i] = s[j] => i = j
      /\ \A x \in T \ {b} : \E i \in 1..(n - 1) : s[i] = x
      /\ \A i, j \in 1..(n - 1) : s[i] \in Parents[s[j]] => j < i
  <2>1. s \in Bijection(1..(n - 1), T \ {b})
    BY <1>1, Zenon DEF ChildrenFirst
  <2>2. s \in [1..(n - 1) -> T \ {b}]
    BY <2>1, Zenon DEF Bijection, Surjection
  <2>3. \A i, j \in 1..(n - 1) : s[i] = s[j] => i = j
    BY <2>1, <2>2, Zenon DEF Bijection, Injection, IsInjective
  <2>4. \A x \in T \ {b} : \E i \in 1..(n - 1) : s[i] = x
    BY <2>1, Zenon DEF Bijection, Surjection
  <2>5. \A i, j \in 1..(n - 1) : s[i] \in Parents[s[j]] => j < i
    BY <2>2, Zenon DEF ChildrenFirst
  <2>6. QED
    BY <2>2, <2>3, <2>4, <2>5, Zenon
<1>3. /\ \A i \in 1..n : i # n => i \in 1..(n - 1)
      /\ \A i \in 1..(n - 1) : i \in 1..n /\ i # n /\ i < n
      /\ n \in 1..n
  BY <1>1
<1>4. r \in [1..n -> T] /\ r[n] = b /\ \A i \in 1..(n - 1) : r[i] = s[i] /\ r[i] # b
  BY <1>2, <1>3, Zenon
<1>5. DOMAIN r = 1..n
  BY Zenon
<1> HIDE DEF r
<1>6. \A i, j \in 1..n : r[i] = r[j] => i = j
  BY <1>2, <1>3, <1>4, Zenon
<1>7. \A x \in T : \E i \in 1..n : r[i] = x
  BY <1>2, <1>3, <1>4, Zenon
<1>8. r \in Bijection(1..n, T)
  BY <1>4, <1>5, <1>6, <1>7, Zenon DEF Bijection, Injection, Surjection, IsInjective
<1>9. ASSUME NEW i \in 1..n, NEW j \in 1..n, r[i] \in Parents[r[j]] PROVE j < i
  <2>1. j # n
    BY <1>4, <1>9, Zenon
  <2>2. CASE i = n
    BY <1>3, <2>1, <2>2, Zenon
  <2>3. CASE i # n
    BY <1>2, <1>3, <1>4, <1>9, <2>1, <2>3, Zenon
  <2>4. QED
    BY <2>2, <2>3
<1>10. ChildrenFirst(r, T)
  BY <1>5, <1>8, <1>9, Zenon DEF ChildrenFirst, n
<1>11. QED
  BY <1>10, Zenon

\* Any finite set of blocks can be listed like that.
LEMMA ChildrenFirstExists ==
    ASSUME NEW T \in SUBSET Block, IsFiniteSet(T)
    PROVE  \E s : ChildrenFirst(s, T)
<1> DEFINE R == StrictSubsetOrdering(T)
           Bad == {U \in SUBSET T : ~\E s : ChildrenFirst(s, U)}
<1> SUFFICES ASSUME Bad # {} PROVE FALSE
  OBVIOUS
<1>1. IsWellFoundedOn(R, SUBSET T)
  BY FS_StrictSubsetOrderingWellFounded, FS_FiniteSubsetsOfFinite, Zenon
<1>2. PICK U \in Bad : \A V \in Bad : ~(<<V, U>> \in R)
  <2>1. Bad \subseteq SUBSET T
    OBVIOUS
  <2> HIDE DEF R, Bad
  <2>2. QED
    BY <1>1, <2>1, WFMin, Zenon
<1>3. U \in SUBSET T /\ U \in SUBSET Block /\ IsFiniteSet(U)
  BY FS_Subset
<1>4. U # {}
  <2> DEFINE s == [i \in 1..0 |-> i]
  <2>1. 1..0 = {} /\ Cardinality({}) = 0
    BY FS_EmptySet
  <2>2. DOMAIN s = {} /\ s \in [1..0 -> {}]
    BY <2>1
  <2> HIDE DEF s
  <2>3. s \in Bijection(1..0, {})
    BY <2>1, <2>2 DEF Bijection, Injection, Surjection, IsInjective
  <2>4. ChildrenFirst(s, {})
    BY <2>1, <2>2, <2>3, Zenon DEF ChildrenFirst
  <2>5. QED
    BY <2>4
<1>5. PICK b \in U : Parents[b] \cap U = {}
  BY <1>3, <1>4, BlockAssumption
<1>6. U \ {b} \in SUBSET T /\ <<U \ {b}, U>> \in R
  BY <1>3 DEF StrictSubsetOrdering
<1> HIDE DEF R
<1>7. PICK s : ChildrenFirst(s, U \ {b})
  BY <1>2, <1>6
<1>8. \E r : ChildrenFirst(r, U)
  BY <1>3, <1>5, <1>7, ListedLast, Zenon
<1>9. QED
  BY <1>8

\* A pass over the pool always has an order to go by: orphans name their parents
\* by hash, so they form no cycle, and any pool can be listed children first, as
\* GetOrphanOrder does.
THEOREM PassHasOrder == Spec => [](OrphanOrders # {})
<1>1. ASSUME TypeOK PROVE OrphanOrders # {}
  <2>1. Pooled \in SUBSET Block /\ IsFiniteSet(Pooled)
    BY <1>1, PooledFinite DEF TypeOK
  <2>2. PICK s : ChildrenFirst(s, Pooled)
    BY <2>1, ChildrenFirstExists
  <2>3. QED
    BY <2>2, Zenon DEF ChildrenFirst, OrphanOrders
<1>2. QED
  BY <1>1, TypeCorrect, PTL

=============================================================================
