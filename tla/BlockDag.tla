------------------------------ MODULE BlockDag ------------------------------
(***************************************************************************)
(* Block acceptance in package blockdag: ProcessBlock, the orphan pool,    *)
(* the block index, the connected view, the phantom graph, what each step  *)
(* writes to the database, and what a restart rebuilds from it.            *)
(*                                                                         *)
(* One goroutine (netsync's blockHandler) calls ProcessBlock, under        *)
(* chainLock.  Its call is split at the points where a database            *)
(* transaction commits or the lock is released: those are the points a     *)
(* crash or a reader can tell apart.  pc says which step comes next.       *)
(***************************************************************************)
EXTENDS Naturals, Sequences, FiniteSets, Functions

CONSTANTS
    Block,        \* block hashes
    Genesis,      \* chainParams.GenesisBlock
    Parents,      \* Parents[b]: the parent hashes in b's parent sub-header
    MaxOrphans,   \* maxOrphanBlocks
    NoBlock,      \* the nil pointer
    CompleteOrder, \* whether OrderDAG lists every block (see Orders)
    MaxRestarts,  \* bound: how often the node goes down
    MaxFaults     \* bound: how many database or assertion errors occur

\* A parent hash is part of what a block's hash commits to, so the parent
\* relation has no cycle: every nonempty set of blocks has a member with no
\* parent in the set.  Genesis is the one block without parents.
ASSUME BlockAssumption ==
    /\ Genesis \in Block
    /\ NoBlock \notin Block
    /\ Parents \in [Block -> SUBSET Block]
    /\ \A b \in Block : Parents[b] = {} <=> b = Genesis
    /\ \A S \in SUBSET Block :
         S # {} => \E b \in S : Parents[b] \cap S = {}

ASSUME BoundAssumption ==
    /\ MaxOrphans \in Nat \ {0} /\ MaxRestarts \in Nat /\ MaxFaults \in Nat
    /\ CompleteOrder \in BOOLEAN

-----------------------------------------------------------------------------
VARIABLES
    index,        \* BlockIndex: status flags of every known block, {} if unknown
    dirty,        \* BlockIndex.dirty: nodes whose status is not yet written
    nodes,        \* dagView.nodes
    tips,         \* dagView.dagTips
    graph,        \* the nodes of the phantom graph
    nodeOrder,    \* the blocks of BlockDAG.nodeOrder
    snapshot,     \* BlockDAG.dagSnapshot
    orphans,      \* BlockDAG.orphans, in order of expiration
    oldestOrphan, \* BlockDAG.oldestOrphan
    db,           \* the database, as transactions see it
    durable,      \* the part of it that survives a crash
    pc,           \* next step of the ProcessBlock call
    cur,          \* the block maybeAcceptBlock is working on
    fast,         \* the call's BFFastAdd flag
    work,         \* processOrphans: orphans still to be looked at
    checked,      \* processOrphans: orphans already looked at
    accepted,     \* processOrphans: something was accepted in this pass
    fromPool,     \* cur comes from the orphan pool
    restarts,     \* times the node has gone down
    faults        \* database and assertion errors so far

mem   == <<index, dirty, nodes, tips, graph, nodeOrder, snapshot>>
pool  == <<orphans, oldestOrphan>>
disk  == <<db, durable>>
call  == <<cur, fast, work, checked, accepted, fromPool>>
bound == <<restarts, faults>>
vars  == <<index, dirty, nodes, tips, graph, nodeOrder, snapshot, orphans,
           oldestOrphan, db, durable, pc, cur, fast, work, checked, accepted,
           fromPool, restarts, faults>>

Flag == {"stored", "valid", "failed"}

Step == {"idle", "store", "index", "check", "connect", "connected",
         "accepted", "pass", "orphans", "down"}

Snapshot == [tips : SUBSET Block, blkCount : Nat]

Database == [blocks   : SUBSET Block,              \* ffldb block files
             rows     : [Block -> SUBSET Flag],    \* blockheaderidx bucket
             heights  : SUBSET Block,              \* hashidx bucket
             tips     : SUBSET Block,              \* dagstate key
             blkCount : Nat]

Known(status) == {b \in Block : status[b] # {}}

\* Mutant: the status of a parent is not looked at.
KnownInvalid_Never(b) == FALSE

KnownInvalid(b) == "failed" \in index[b]

AncestorClosed(C) == \A c \in C : Parents[c] \subseteq C

\* A block and all its ancestors: the least closed set that holds the block.
Ancestry ==
    [b \in Block |-> {x \in Block : \A C \in SUBSET Block :
                        b \in C /\ AncestorClosed(C) => x \in C}]

\* What checkAndAddNode's recursion adds to the view, from the blocks S.
Closure(S) == UNION {Ancestry[b] : b \in S}

Pooled == {orphans[i] : i \in DOMAIN orphans}

blockExists(b) == index[b] # {} \/ (b \in db.blocks /\ b \in db.heights)

TypeOK ==
    /\ index \in [Block -> SUBSET Flag]
    /\ dirty \in SUBSET Block
    /\ nodes \in SUBSET Block
    /\ tips \in SUBSET Block
    /\ graph \in SUBSET Block
    /\ nodeOrder \in SUBSET Block
    /\ snapshot \in Snapshot
    /\ orphans \in Seq(Block)
    /\ oldestOrphan \in Block \cup {NoBlock}
    /\ db \in Database
    /\ durable \in Database
    /\ pc \in Step
    /\ cur \in Block
    /\ fast \in BOOLEAN
    /\ work \in Seq(Block)
    /\ checked \in SUBSET Block
    /\ accepted \in BOOLEAN
    /\ fromPool \in BOOLEAN
    /\ restarts \in Nat
    /\ faults \in Nat

-----------------------------------------------------------------------------
\* createChainState: a database and a memory that hold genesis only.  Nothing
\* is ordered before the first block is connected.  A crash before the new
\* database reaches the disk leads to a node like this again.
GenesisStatus ==
    [b \in Block |-> IF b = Genesis THEN {"stored", "valid"} ELSE {}]

GenesisDatabase ==
    [blocks |-> {Genesis}, rows |-> GenesisStatus, heights |-> {Genesis},
     tips |-> {Genesis}, blkCount |-> 1]

Init ==
    /\ index = GenesisStatus
    /\ dirty = {}
    /\ nodes = {Genesis}
    /\ tips = {Genesis}
    /\ graph = {Genesis}
    /\ nodeOrder = {}
    /\ snapshot = [tips |-> {Genesis}, blkCount |-> 1]
    /\ orphans = <<>>
    /\ oldestOrphan = NoBlock
    /\ db = GenesisDatabase
    /\ durable = GenesisDatabase
    /\ pc = "idle"
    /\ cur = Genesis
    /\ fast = FALSE
    /\ work = <<>>
    /\ checked = {}
    /\ accepted = FALSE
    /\ fromPool = FALSE
    /\ restarts = 0
    /\ faults = 0

\* A transaction commits to ffldb's cache; the cache, with this transaction,
\* is written out when the flush interval or its size demands it.
Commit(d) == db' = d /\ durable' \in {durable, d}

\* Mutant: the flush leaves the dirty nodes' rows only.
Flushed_OnlyDirty(status, unwritten) ==
    [db EXCEPT !.rows = [b \in unwritten |-> status[b]]]

\* flushToDB: all dirty nodes are written in one transaction.
Flushed(status, unwritten) ==
    [db EXCEPT !.rows = [b \in Block |->
        IF b \in unwritten THEN status[b] ELSE db.rows[b]]]

\* A database error or a failed assertion, at a step that can meet one.
Fault == faults < MaxFaults /\ faults' = faults + 1 /\ UNCHANGED restarts

\* maybeAcceptBlock returns, to ProcessBlock or to processOrphans.  For a new
\* block an error ends the call before any orphan is looked at.
Return(ok) ==
    /\ pc' = IF fromPool THEN "orphans" ELSE IF ok THEN "pass" ELSE "idle"
    /\ accepted' = (accepted \/ (fromPool /\ ok))
    /\ UNCHANGED <<cur, fast, work, checked, fromPool>>

-----------------------------------------------------------------------------
\* Mutant: the orphan stays in the pool.
removeOrphanBlock_Keeps(s, o) == s

\* removeOrphanBlock: by hash, so nothing happens if the block has left the
\* pool.  prevOrphans is the pool seen from the parents and changes with it.
removeOrphanBlock(s, o) ==
    IF \E i \in DOMAIN s : s[i] = o
    THEN LET i == CHOOSE i \in DOMAIN s : s[i] = o
         IN  SubSeq(s, 1, i - 1) \o SubSeq(s, i + 1, Len(s))
    ELSE s

\* Mutant: the pointer is kept when the orphan it names is evicted.
AddOrphan_NoReset(b, n) ==
    LET live   == SubSeq(orphans, n + 1, Len(orphans))
        oldest == IF oldestOrphan = NoBlock /\ live # <<>>
                  THEN Head(live) ELSE oldestOrphan
        full   == Len(live) + 1 > MaxOrphans
    IN  /\ orphans' = Append(IF full THEN removeOrphanBlock(live, oldest)
                                     ELSE live, b)
        /\ oldestOrphan' = oldest

\* addOrphanBlock.  Orphans expire an hour after they arrive, so the expired
\* ones are the first n of the pool.  oldestOrphan is only looked up again
\* when it is nil: it has the earliest expiration of all that arrived since.
AddOrphan(b, n) ==
    LET live   == SubSeq(orphans, n + 1, Len(orphans))
        oldest == IF oldestOrphan = NoBlock /\ live # <<>>
                  THEN Head(live) ELSE oldestOrphan
        full   == Len(live) + 1 > MaxOrphans
    IN  /\ orphans' = Append(IF full THEN removeOrphanBlock(live, oldest)
                                     ELSE live, b)
        /\ oldestOrphan' = IF full THEN NoBlock ELSE oldest

\* ProcessBlock returns before it changes anything: the block is a duplicate,
\* is not sane, has an invalid parent, or is refused by checkBlockContext.
ProcessRefused == pc = "idle" /\ UNCHANGED vars

\* ProcessBlock, for a new and sane block, when some parent is missing.
ProcessOrphan(b) ==
    /\ pc = "idle"
    /\ ~blockExists(b) /\ b \notin Pooled
    /\ \E p \in Parents[b] : ~blockExists(p)
    /\ \E n \in 0..Len(orphans) : AddOrphan(b, n)
    /\ UNCHANGED <<mem, disk, pc, call, bound>>

\* ProcessBlock, all parents present: maybeAcceptBlock's checks on the parents
\* and its checkBlockContext pass.
ProcessBlock(b, flag) ==
    /\ pc = "idle"
    /\ ~blockExists(b) /\ b \notin Pooled
    /\ \A p \in Parents[b] : blockExists(p)
    /\ \A p \in Parents[b] : index[p] # {} /\ ~KnownInvalid(p)
    /\ pc' = "store" /\ cur' = b /\ fast' = flag /\ fromPool' = FALSE
    /\ accepted' = FALSE
    /\ UNCHANGED <<mem, pool, disk, work, checked, bound>>

\* Mutant: the block data is left to a later transaction.
StoreBlock_Later ==
    /\ pc = "store"
    /\ pc' = "index"
    /\ UNCHANGED <<mem, disk, pool, call, bound>>

\* maybeAcceptBlock: dbStoreBlock, a transaction of its own.
StoreBlock ==
    /\ pc = "store"
    /\ Commit([db EXCEPT !.blocks = @ \cup {cur}])
    /\ pc' = "index"
    /\ UNCHANGED <<mem, pool, call, bound>>

StoreFails ==
    /\ pc = "store" /\ Fault
    /\ Return(FALSE)
    /\ UNCHANGED <<mem, pool, disk>>

\* Mutant: the block joins the phantom graph with the index.
IndexBlock_Graph ==
    /\ pc = "index"
    /\ index' = [index EXCEPT ![cur] = {"stored"}]
    /\ dirty' = {}
    /\ graph' = graph \cup {cur}
    /\ Commit(Flushed(index', dirty \cup {cur}))
    /\ pc' = "check"
    /\ UNCHANGED <<nodes, tips, nodeOrder, snapshot, pool, call, bound>>

\* maybeAcceptBlock: newBlockNode, index.AddNode, index.flushToDB.
IndexBlock ==
    /\ pc = "index"
    /\ index' = [index EXCEPT ![cur] = {"stored"}]
    /\ dirty' = {}
    /\ Commit(Flushed(index', dirty \cup {cur}))
    /\ pc' = "check"
    /\ UNCHANGED <<nodes, tips, graph, nodeOrder, snapshot, pool, call, bound>>

\* Mutant: AddNode does not mark the node dirty.
IndexFails_Clean ==
    /\ pc = "index" /\ Fault
    /\ index' = [index EXCEPT ![cur] = {"stored"}]
    /\ Return(FALSE)
    /\ UNCHANGED <<dirty, nodes, tips, graph, nodeOrder, snapshot, pool, disk>>

IndexFails ==
    /\ pc = "index" /\ Fault
    /\ index' = [index EXCEPT ![cur] = {"stored"}]
    /\ dirty' = dirty \cup {cur}
    /\ Return(FALSE)
    /\ UNCHANGED <<nodes, tips, graph, nodeOrder, snapshot, pool, disk>>

\* connectBestChain: record the verdict of checkConnectBlock and flush it.
\* An error of the flush is ignored and leaves the node dirty.
Verdict(flag) ==
    /\ index' = [index EXCEPT ![cur] = @ \cup {flag}]
    /\ \/ /\ dirty' = {}
          /\ Commit(Flushed(index', dirty \cup {cur}))
          /\ UNCHANGED bound
       \/ /\ Fault
          /\ dirty' = dirty \cup {cur}
          /\ UNCHANGED disk
    /\ UNCHANGED <<nodes, tips, graph, nodeOrder, snapshot, pool>>

CheckPasses ==
    /\ pc = "check" /\ ~fast
    /\ Verdict("valid")
    /\ pc' = "connect"
    /\ UNCHANGED call

CheckSkipped ==
    /\ pc = "check" /\ fast
    /\ pc' = "connect"
    /\ UNCHANGED <<mem, pool, disk, call, bound>>

\* checkConnectBlock returns a RuleError.
CheckRejects ==
    /\ pc = "check" /\ ~fast
    /\ Verdict("failed")
    /\ Return(FALSE)

\* checkConnectBlock returns any other error: nothing is recorded.
CheckFails ==
    /\ pc = "check" /\ ~fast /\ Fault
    /\ Return(FALSE)
    /\ UNCHANGED <<mem, pool, disk>>

-----------------------------------------------------------------------------
\* connectBlock: its first flushToDB, when an earlier flush failed.
ConnectFlush ==
    /\ pc = "connect" /\ dirty # {}
    /\ dirty' = {}
    /\ Commit(Flushed(index, dirty))
    /\ UNCHANGED <<index, nodes, tips, graph, nodeOrder, snapshot, pool, pc,
                   call, bound>>

\* ... which may fail again: connectBestChain flushes once more, ignoring an
\* error, and returns.
ConnectFlushFails ==
    /\ pc = "connect" /\ dirty # {} /\ Fault
    /\ \/ dirty' = {} /\ Commit(Flushed(index, dirty))
       \/ UNCHANGED <<dirty, disk>>
    /\ Return(FALSE)
    /\ UNCHANGED <<index, nodes, tips, graph, nodeOrder, snapshot, pool>>

\* The sets of blocks that OrderDAG may list for the graph G.  It lists all of
\* them below the heights of the order cache if no block of G names a block and
\* an ancestor of it as parents (OrderComplete of module Phantom); otherwise
\* its traversal, which begins at genesis, can end before it reached some.
Orders(G) == IF CompleteOrder THEN {G} ELSE {O \in SUBSET G : Genesis \in O}

\* Mutant: the replay asks for the new block too.
ReplayFinds_NewBlock(O) == O \subseteq nodes

\* The replay of the order O asks BlockByHash for every block of it but cur.
ReplayFinds(O) == O \ {cur} \subseteq nodes

\* Mutant: the new block is the only tip.
NewTips_Single == {cur}

\* connectBlock: the tips once the block is connected.
NewTips == (tips \cup {cur}) \ Parents[cur]

\* connectBlock: the transaction commits, then the view and the snapshot move.
Connect ==
    /\ pc = "connect" /\ dirty = {}
    /\ nodeOrder' \in Orders(graph \cup {cur}) /\ ReplayFinds(nodeOrder')
    /\ LET count == snapshot.blkCount + 1
       IN  /\ Commit([db EXCEPT !.tips = NewTips, !.blkCount = count,
                                !.heights = @ \cup {cur}])
           /\ snapshot' = [tips |-> NewTips, blkCount |-> count]
    /\ nodes' = nodes \cup Closure({cur})
    /\ tips' = NewTips
    /\ graph' = graph \cup {cur}
    /\ pc' = "connected"
    /\ UNCHANGED <<index, dirty, pool, call, bound>>

\* Mutant: the view has moved by the time the transaction fails.
ConnectFails_ViewMoved ==
    /\ pc = "connect" /\ dirty = {}
    /\ \E O \in Orders(graph \cup {cur}) :
         \/ ~ReplayFinds(O) /\ UNCHANGED bound
         \/ ReplayFinds(O) /\ Fault
    /\ graph' = graph \ {cur}
    /\ nodes' = nodes \cup Closure({cur}) /\ tips' = NewTips
    /\ Return(FALSE)
    /\ UNCHANGED <<index, dirty, nodeOrder, snapshot, pool, disk>>

\* connectBlock: the replay meets a block that is not in the view, or the
\* transaction fails, before or after nodeOrder is assigned: on a database
\* error, or because an input of the block is from a block the order lacks.
\* Only the graph is rolled back; connectBestChain flushes and returns the
\* error.
ConnectFails ==
    /\ pc = "connect" /\ dirty = {}
    /\ \E O \in Orders(graph \cup {cur}) :
         \/ ~ReplayFinds(O) /\ UNCHANGED <<nodeOrder, bound>>
         \/ ReplayFinds(O) /\ Fault /\ nodeOrder' \in {nodeOrder, O}
    /\ graph' = graph \ {cur}
    /\ Return(FALSE)
    /\ UNCHANGED <<index, dirty, nodes, tips, snapshot, pool, disk>>

\* connectBlock returns after NTBlockConnected; connectBestChain marks a fast
\* added block valid.
ConnectReturns ==
    /\ pc = "connected"
    /\ IF fast THEN Verdict("valid") ELSE UNCHANGED <<mem, pool, disk, bound>>
    /\ pc' = "accepted"
    /\ UNCHANGED call

\* maybeAcceptBlock returns after NTBlockAccepted.
AcceptReturns ==
    /\ pc = "accepted"
    /\ Return(TRUE)
    /\ UNCHANGED <<mem, pool, disk, bound>>

-----------------------------------------------------------------------------
\* GetOrphanOrder: visitOrphan walks prevOrphans, which leads from a block to
\* its orphaned children, and lists a block after them; the map it starts
\* from is iterated in any order.
OrphanOrders ==
    {s \in Bijection(1..Cardinality(Pooled), Pooled) :
        \A i, j \in DOMAIN s : s[i] \in Parents[s[j]] => j < i}

\* ProcessBlock's loop calls processOrphans.
OrphanPass ==
    /\ pc = "pass"
    /\ work' \in OrphanOrders
    /\ checked' = {}
    /\ accepted' = FALSE
    /\ pc' = "orphans"
    /\ UNCHANGED <<mem, pool, disk, cur, fast, fromPool, bound>>

\* Mutant: one pass only.
OrphanPassEnds_Once ==
    /\ pc = "orphans" /\ work = <<>>
    /\ pc' = "idle"
    /\ UNCHANGED <<mem, pool, disk, call, bound>>

\* ... and calls it again as long as it accepted something.
OrphanPassEnds ==
    /\ pc = "orphans" /\ work = <<>>
    /\ pc' = IF accepted THEN "pass" ELSE "idle"
    /\ UNCHANGED <<mem, pool, disk, call, bound>>

\* processOrphans: an orphan seen in this pass or no longer in the pool.
OrphanSkip ==
    /\ pc = "orphans" /\ work # <<>>
    /\ Head(work) \in checked \/ Head(work) \notin Pooled
    /\ work' = Tail(work)
    /\ checked' = checked \cup {Head(work)}
    /\ UNCHANGED <<mem, pool, disk, pc, cur, fast, accepted, fromPool, bound>>

MissingParents(o) == {p \in Parents[o] : ~blockExists(p)}

\* processOrphans: a parent is missing; parents that are orphans come next.
OrphanWaits ==
    /\ pc = "orphans" /\ work # <<>>
    /\ LET o == Head(work) IN
         /\ o \notin checked /\ o \in Pooled
         /\ MissingParents(o) # {}
         /\ LET next == MissingParents(o) \cap Pooled IN
            \E front \in Bijection(1..Cardinality(next), next) :
              work' = front \o Tail(work)
         /\ checked' = checked \cup {o}
    /\ UNCHANGED <<mem, pool, disk, pc, cur, fast, accepted, fromPool, bound>>

\* processOrphans: no parent is missing, so the orphan leaves the pool and is
\* handed to maybeAcceptBlock, which refuses it if a parent is invalid or
\* checkBlockContext fails.
OrphanTaken ==
    /\ pc = "orphans" /\ work # <<>>
    /\ LET o == Head(work) IN
         /\ o \notin checked /\ o \in Pooled
         /\ MissingParents(o) = {}
         /\ orphans' = removeOrphanBlock(orphans, o)
         /\ checked' = checked \cup {o}
         /\ work' = Tail(work)
         /\ \/ /\ \A p \in Parents[o] : index[p] # {} /\ ~KnownInvalid(p)
               /\ pc' = "store" /\ cur' = o /\ fromPool' = TRUE
            \/ UNCHANGED <<pc, cur, fromPool>>
    /\ UNCHANGED <<mem, oldestOrphan, disk, fast, accepted, bound>>

\* processOrphans: blockExists returns an error, which ends the call.
OrphanLookupFails ==
    /\ pc = "orphans" /\ work # <<>> /\ Fault
    /\ Head(work) \notin checked /\ Head(work) \in Pooled
    /\ pc' = "idle"
    /\ UNCHANGED <<mem, pool, disk, call>>

-----------------------------------------------------------------------------
\* The process ends: everything but the durable database is gone.
GoDown ==
    /\ pc # "down" /\ restarts < MaxRestarts
    /\ restarts' = restarts + 1
    /\ pc' = "down"
    /\ index' = [b \in Block |-> {}]
    /\ dirty' = {} /\ nodes' = {} /\ tips' = {} /\ graph' = {}
    /\ nodeOrder' = {}
    /\ snapshot' = [tips |-> {}, blkCount |-> 0]
    /\ orphans' = <<>> /\ oldestOrphan' = NoBlock
    /\ cur' = Genesis /\ fast' = FALSE /\ work' = <<>> /\ checked' = {}
    /\ accepted' = FALSE /\ fromPool' = FALSE
    /\ UNCHANGED faults

Crash == GoDown /\ db' = durable /\ UNCHANGED durable

\* A clean stop, between two calls: closing the database writes its cache out.
Shutdown == pc = "idle" /\ GoDown /\ durable' = db /\ UNCHANGED db

\* Mutant: stored block data without a row is an error.
Loadable_Exact(d) ==
    /\ AncestorClosed(Known(d.rows))
    /\ d.tips \subseteq Known(d.rows)
    /\ d.blocks = Known(d.rows)

\* initChainState finds the parents of every row, a row for every tip and the
\* data of the best block, which is one of the tips; otherwise it returns an
\* error.
Loadable(d) ==
    /\ \A b \in Known(d.rows) : Parents[b] \subseteq Known(d.rows)
    /\ d.tips \subseteq Known(d.rows)
    /\ d.tips \subseteq d.blocks

\* Mutant: the view is rebuilt from the rows, not from the tips.
Restart_Rows ==
    /\ pc = "down" /\ Loadable(db)
    /\ nodes' = Known(db.rows)
    /\ index' = [b \in Block |->
         IF b \in nodes' THEN db.rows[b] \cup {"valid"} ELSE db.rows[b]]
    /\ dirty' = {}
    /\ tips' = db.tips
    /\ graph' = Known(db.rows)
    /\ nodeOrder' \in Orders(graph')
    /\ snapshot' = [tips |-> db.tips, blkCount |-> db.blkCount]
    /\ Commit([db EXCEPT !.rows = index'])
    /\ pc' = "idle"
    /\ UNCHANGED <<pool, call, bound>>

\* initChainState: every row goes into the index and into the graph, the view
\* is what the stored tips reach, and it is marked valid.
Restart ==
    /\ pc = "down" /\ Loadable(db)
    /\ nodes' = Closure(db.tips)
    /\ index' = [b \in Block |->
         IF b \in nodes' THEN db.rows[b] \cup {"valid"} ELSE db.rows[b]]
    /\ dirty' = {}
    /\ tips' = db.tips
    /\ graph' = Known(db.rows)
    /\ nodeOrder' \in Orders(graph')
    /\ snapshot' = [tips |-> db.tips, blkCount |-> db.blkCount]
    /\ Commit([db EXCEPT !.rows = index'])
    /\ pc' = "idle"
    /\ UNCHANGED <<pool, call, bound>>

-----------------------------------------------------------------------------
Accept ==
    \/ StoreBlock \/ StoreFails \/ IndexBlock \/ IndexFails
    \/ CheckPasses \/ CheckSkipped \/ CheckRejects \/ CheckFails
    \/ ConnectFlush \/ ConnectFlushFails \/ Connect \/ ConnectFails
    \/ ConnectReturns \/ AcceptReturns

ProcessOrphans ==
    \/ OrphanPass \/ OrphanPassEnds \/ OrphanSkip \/ OrphanWaits \/ OrphanTaken
    \/ OrphanLookupFails

Next ==
    \/ ProcessRefused
    \/ \E b \in Block : ProcessOrphan(b)
    \/ \E b \in Block, flag \in BOOLEAN : ProcessBlock(b, flag)
    \/ Accept
    \/ ProcessOrphans
    \/ Crash
    \/ Shutdown
    \/ Restart

Spec == Init /\ [][Next]_vars

\* The goroutine that runs ProcessBlock is never blocked inside the call, and
\* a node that went down is started again.  Nothing says a block arrives.
Fairness ==
    WF_vars(Accept \/ ProcessOrphans \/ Restart)

FairSpec == Spec /\ Fairness

-----------------------------------------------------------------------------
\* chainLock is free: between calls, and while notifications are sent.
Unlocked == pc \in {"idle", "connected", "accepted"}

\* Between calls no orphan is left in the pool whose parents are all connected,
\* unless looking one up in the database failed: processOrphans is repeated
\* until it accepts nothing, which its children-first order makes necessary.
NoConnectableOrphan ==
    pc = "idle" => \A o \in Pooled : ~(Parents[o] \subseteq nodes)

\* A block is in one place: never in the orphan pool and in the index, whatever
\* sequence of expiry, eviction and acceptance it went through.
OrphansAreUnknown ==
    pc # "down" => \A o \in Pooled : index[o] = {}

\* A database that initChainState can load, and in which every row has its
\* block data and every connected block its row.
Sound(d) ==
    /\ Loadable(d)
    /\ Known(d.rows) \subseteq d.blocks
    /\ d.heights \subseteq Known(d.rows)

\* Whatever was interrupted or failed, the database a crash would leave can be
\* loaded: block data is written before the index row, a parent's row no later
\* than its child's, and rows before the tips that name them.
Recoverable == Sound(db) /\ Sound(durable)

\* The index in memory is at most its dirty nodes ahead of the rows on disk,
\* and holds no block whose data or whose parents it does not have.
IndexBacked ==
    pc # "down" =>
        /\ Known(index) = Known(db.rows) \cup dirty
        /\ Known(index) \subseteq db.blocks
        /\ AncestorClosed(Known(index))

\* The block in progress is written as far as the next step relies on.
CallBacked ==
    /\ pc \in {"store", "index"} => Parents[cur] \subseteq Known(index)
    /\ pc = "index" => cur \in db.blocks
    /\ pc \in {"check", "connect", "connected"} => cur \in Known(db.rows)

\* At every step of an acceptance the database is ready for the next one: the
\* order of maybeAcceptBlock's transactions, and the early returns after a
\* failed one, never let memory rely on something that was not written.
WriteAhead == IndexBacked /\ CallBacked

\* The tips in the database describe exactly the connected view in memory, so
\* a restart rebuilds the view it had: connectBlock's transaction and its
\* updates of dView agree, also when ancestors are pulled in by AddTip.
DiskDescribesView ==
    pc # "down" => tips = db.tips /\ nodes = Closure(db.tips)

\* As long as the database has not failed, readers that take chainLock see a
\* view, a snapshot and a database that agree: the tips are the connected
\* blocks without a connected child, and BlkCount counts the connected blocks.
PublishedStateAgrees ==
    faults = 0 /\ Unlocked =>
        /\ tips = {b \in nodes : \A c \in nodes : b \notin Parents[c]}
        /\ snapshot = [tips |-> tips, blkCount |-> Cardinality(nodes)]
        /\ snapshot = [tips |-> db.tips, blkCount |-> db.blkCount]
        /\ db.heights = nodes

\* Until the first restart the phantom graph, which connectBlock extends before
\* its transaction commits, holds the connected blocks and nothing else, also
\* after blocks were rejected, and the order served to callers names connected
\* blocks only.
GraphIsView == Unlocked => graph = nodes /\ nodeOrder \subseteq nodes

\* As long as the database has not failed, every connected block passed
\* checkConnectBlock, or was added fast; what initChainState assumes of the
\* ancestors of the tips.
ConnectedBlocksValid ==
    faults = 0 =>
        \A b \in nodes : \/ "valid" \in index[b] /\ ~KnownInvalid(b)
                         \/ b = cur /\ fast /\ pc = "connected"

\* A block that passed its checks is connected by the same call, unless the
\* database or an assertion fails or the node goes down meanwhile.
ValidBlockConnects ==
    [][(pc = "connect" /\ pc' \notin {"connect", "down"} /\ faults' = faults)
           => cur \in nodes']_vars

\* Connected blocks stay connected for as long as the node runs, and what
\* reached the disk stays connected over every crash and restart.
ConnectedForever ==
    [][/\ Closure(durable.tips) \subseteq Closure(durable'.tips)
       /\ (pc # "down" /\ pc' # "down") => nodes \subseteq nodes']_vars

\* As long as the database does not fail, acceptance takes the steps of the
\* ledger of DagLedger and no others, over crashes and restarts too: one block
\* at a time becomes connected, after its parents, and a crash falls back to
\* what was saved.
Ledger == INSTANCE DagLedger WITH ledger <- Closure(db.tips),
                                  saved <- Closure(durable.tips)

ImplementsLedger ==
    Ledger!Init /\ [][faults' = 0 => Ledger!Next]_(Ledger!vars)

\* oldestOrphan may name an orphan that was accepted or has expired, and the
\* eviction of addOrphanBlock then removes nothing.  That happens once: the
\* pool never holds more than one block over maxOrphanBlocks, because the
\* pointer is reset and the next orphan that arrives finds a real oldest one.
OrphanBound == Len(orphans) <= MaxOrphans + 1

\* Every call returns, and a node that went down comes back: the work list of
\* processOrphans, which grows while it is walked, runs empty, and the passes
\* over the pool end.
CallReturns == pc # "idle" ~> pc = "idle"

=============================================================================
