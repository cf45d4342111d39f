# A verification project for soterd

soterd is a full node for a block DAG: a block names one or more parents, every
valid block is kept, and the blocks are put into one order by colouring the
graph (PHANTOM). This directory models the parts of the node that have state
and concurrency - accepting blocks, ordering them, storing them, replaying
their transactions, the transaction pool, downloading blocks, peers and
connections - checks them with TLC on small instances and proves their safety
properties with TLAPS.

## The system

| Part | State | What makes it hard | Module |
|---|---|---|---|
| Block acceptance, orphan pool, index, view (`blockdag/process.go`, `accept.go`, `dag.go`, `blockindex.go`, `dagview.go`, `dagio.go`) | call in progress, pool, status flags, dirty set, tips, snapshots | three transactions per block, early returns between them, `chainLock` released for notifications, rebuilding memory after a crash | `BlockDag` |
| Colouring and order (`blockdag/phantom`) | graph, blue set cache, order cache | caches that must not show in the result | `Phantom` |
| Block database (`database/ffldb`) | block files, write cursor, metadata cache, leveldb | commits that are visible but not durable, rollback, reconciliation, snapshots without a lock | `FFLDB` |
| Utxo view and its rows (`utxoviewpoint.go`, `dagio.go`) | unspent, spent and ignored outputs | double spends across branches, decided by an order that changes | `TxPool` |
| Transaction pool (`mempool`) | pool, outpoints, orphans, orphans by outpoint | orphans, double spends, limits, blocks connected meanwhile | `TxPool` |
| Sync manager (`netsync`) | sync peer, requests with expiry, beliefs about peers | late, lost and repeated answers, stalls | `NetSync` |
| Peer (`peer/peer.go`) | four goroutines, five channels | blocking sends, disconnects at any point | `PeerIO` |
| Connection manager and the server's peer lists (`connmgr`, `server.go`) | requests, connections, lists, group counts | goroutines and timers racing messages, duplicates, refused peers | `ConnMgr` |
| Rules, miner, indexes, RPC, wire, scripts, address manager | | see *Not modelled* | |

The parts interact as follows. The connection manager makes connections and the
server turns them into peers. A peer's handlers hand messages to the sync
manager, whose one goroutine calls `ProcessBlock` under `chainLock`.
`connectBlock` runs the phantom order over the whole graph and replays every block
in that order inside the same transaction that stores the new tips; then it
moves the view and the snapshots and tells subscribers, among them the sync
manager, which updates the transaction pool. The transactions go through ffldb's
cache to leveldb and the block files. A restart rebuilds index, graph, view and
order from the database alone.

The composition is by interface. `BlockDag` uses the database through the
promise that `FFLDB` is shown to keep (`TxStore`: transactions take effect and
survive as a whole). `NetSync` and `TxPool` use acceptance through what `BlockDag`
is shown to keep: a block is connected once its parents are, with the orphans
that waited for it (`NoConnectableOrphan`). `BlockDag` takes from `Phantom` what the
order lists (`Orders`): some of the blocks of the graph, or all of them where
`OrderComplete` of `Phantom` says so. `TxPool` takes any permutation of the
connected blocks for the order. `NetSync` contains both ends of a
connection: the sync manager and the request handlers that answer it.

## Modules

| Module | Role |
|---|---|
| `BlockDag` | block acceptance, orphan pool, index, view, graph membership, database, crash and restart |
| `DagLedger` | abstract: what acceptance promises its callers |
| `Phantom` | colouring and ordering, with both caches |
| `FFLDB` | block files, metadata cache, leveldb, crash and reconciliation |
| `TxStore` | abstract: what the database promises its callers |
| `TxPool` | transaction pool, utxo replay and rows, work on a connected block |
| `NetSync` | block download: the sync manager and the peers that answer it |
| `PeerIO` | the goroutines of one peer |
| `ConnMgr` | connection requests, connections, peer lists |
| `MCBlockDag`, `MCTxPool`, `MCNetSync`, `MCConnMgr` | small instances for TLC |
| `BlockDag_proofs`, `TxPool_proofs`, `ConnMgr_proofs`, `PeerIO_proofs`, `FFLDB_proofs`, `NetSync_proofs`, `Phantom_proofs` | theorems |
| `Induction` | induction over the naturals and along sequences, for the proofs |

Definitions named `Name_Variant` right above `Name` are faulty variants of it, each
with a comment saying what is wrong. They are used nowhere; putting one in the
place of the original makes TLC report the property `PROJECT.json` names with it.

### BlockDag

`ProcessBlock` is split where a transaction commits or the lock is released,
since only there can a crash or a reader tell the steps apart. `pc` is the
position of the call:

    idle -> store -> index -> check -> connect -> connected -> accepted -> pass -> orphans -> idle

with an action for every early return. A step of the code that may fail in the
database or in an assertion has an action of its own that consumes `Fault`. The
variables are the fields of `BlockDAG` that survive a step, named as in the code,
plus `db` (what a transaction reads) and `durable` (what a crash leaves). ffldb
commits atomically to a cache that is written out now and then: `Commit` makes
the new contents visible and lets them be durable at once or not, and `Crash`
falls back to `durable`. Flushing before a commit, which `commitTx` also does,
leaves the contents the previous commit could have left.

What a block contains is abstracted to its parents. Whether it is sane, passes
`checkBlockContext` and passes `checkConnectBlock` is a choice made when the code
asks, so every combination of good and bad blocks is covered, as is `BFFastAdd`.
Orphans expire in the order they arrived, so the pool is a sequence and expiry
drops a prefix of any length. `GetOrphanOrder` iterates over a map, so `OrphanOrders`
is the set of all the orders it can return. `Ancestry` is the closure that
`checkAndAddNode` computes by recursion, stated without recursion because the
proofs need it.

The order is represented by the set of blocks it lists (`nodeOrder`). A new
node serves an empty order until its first block is connected. With
`CompleteOrder` it lists every block of the graph, which `Phantom` shows below the
heights of the order cache if no block names a block and an ancestor of it as
parents; without, it may list any blocks of the graph, genesis among them. A
restart also puts blocks into the graph that a crash kept from being connected.
A replay that lists such a block fails; one that leaves it out lets a child of it be
connected, and the view takes the parent along, unchecked. `restart` and the
theorems over restarts therefore have `CompleteOrder`; `accept` and the theorems until
the first restart do not need it.

`connectBlock` cannot return a `RuleError` (its errors come from the database,
from `BlockByHash` and from assertions), so the branch of `connectBestChain` that
would mark the block failed has no action.

`DagLedger` is a set of connected blocks that grows by one block whose parents
are in it, and the part of it that is saved. `BlockDag` implements it with
`ledger <- Closure(db.tips)` and `saved <- Closure(durable.tips)`, as long as the
database has not failed: `ImplementsLedger` asks for a step of `DagLedger` where
`faults' = 0`. After a database error one step can connect two blocks (see
*Observations*).

### Phantom

Ids are numbers, compared as the code compares hash strings. A block's parents
are any blocks: `miningdag` names tips, but `accept.go` and `validate.go` also accept a
block that names a block and an ancestor of it. `Reduced` says that there is no such
block; only the completeness of the order depends on it. `StartOrder` is `OrderDAG` up to
its loop and colours the graph through the blue set cache, `Visit` is one pass
through the loop, `Finish` stores the cache entry and hands the order to the
caller. `Restart` is `initChainState`'s use of the same code, with empty caches and
the tips in the order in which the rows are read.

`calculateBlueSet` calls itself on the past of each tip; `StoredBlue` is the same
recursion as a function over the graph's nodes. `SortNodes` compares elements of
its unsorted argument. `getPastWithHorizon` has sorted the tips by then, so up to
twelve of them stay as they are and `Largest` takes the smallest id on a tie. With
more, the library's sort may move them, in a way that depends on their number only.

### FFLDB

One read-write transaction at a time stores blocks and metadata. Its commit is
split at every write a crash can separate from the next: each block written to
the current file (or a part of it), the write cursor row, the merge into the
cache or the flush (sync of the current file, leveldb batch, emptying of the
cache), and the commit straight to leveldb. `handleRollback` has the early
returns of the code, whose errors are only logged. A reader takes its leveldb
snapshot and its cache snapshot in two steps, as `Snapshot` does. `Crash` can
happen at any step; `OpenDB` and `Reconcile` are what `openDB` does next.
`Close` flushes and stops.

A block is one unit of a file, so a file has `maxBlockFileSize` units and a write
that fails leaves a torn unit. The treaps are functions. Data that was written
before a crash is still there after it; what had been *synced* is tracked
separately and is what `CurrentFileSynced` is about.

`FFLDB` implements `TxStore` with `state <- Abstract(Latest)` (leveldb under the
cache) and `saved <- Abstract(ldb)`.

### TxPool

A transaction has one output, which has its name. Scripts, fees, amounts, locks
and policy are one verdict that is always possible. `connectTransactionForSorting`
sorts the inputs of a transaction into unspent, spent and ignored as the code
does, `Replay` folds it over all blocks in the order, and `dbPutUtxoView` changes
the rows as the code does. A new block may come with any permutation of
the connected blocks that are there: an over-approximation of what
PHANTOM can do.

`processOrphans` holds the pool's lock over several steps, during which blocks
may be connected, since that takes another lock. What `handleBlockchainNotification`
does for each transaction of a connected block is four calls with the lock free
between them (`stage`).

### NetSync

One action per message the sync manager's goroutine takes, and one per request
that a peer answers (`OnGetBlocks`, `OnGetData`). Connections are ordered queues
in both directions. What a handler sends and tracks is computed as a record
(`Effects`) that the code's helpers, kept under their names, transform.
`Tick` is `stallSampleInterval`: requests age, and the stall check runs.
`UpdatePeerHeights` runs in a goroutine of its own, so its calls are a set that
is worked off in any order. Blocks are abstracted to parents and heights;
`Recent` are those younger than 24 hours.

Not included: requests for transactions (an inventory without blocks stands for
one of transactions), invalid blocks, peers that are no full nodes, a full or
expiring orphan pool, header download (`headersFirstMode` is never set), two
connections to one remote node at a time, our own relaying, shutdown. A peer's
`NewPeer` message comes before its `DonePeer` message.

### PeerIO

The state of each goroutine is its position in its loop and what it has in hand;
a step ends where it may block or where another goroutine sees a difference.
`Disconnect` is three steps (flag, connection, quit channel), which any of the
goroutines or an outsider can begin. `outputBufferSize` is 1 instead of 50, so that
full channels are common. `ext` is a goroutine of the server inside
`QueueMessage`; `in = "wait"` is a listener that waits for its `doneChan`, as
`OnGetData` does. `writeMessage` does nothing once `Disconnect` was called (`OutSkips`),
which `outHandler` takes for a message that was sent; otherwise the write begins
(`OutBegins`) and takes as long as the connection does. `pingHandler`, the handshake and message contents are left out.

### ConnMgr

A request's goroutine is its position in `NewConnReq` and `Connect` (`work`);
`connHandler` reads an unbuffered channel, so sending a message and handling it
are one step. `newPeers` and `donePeers` are sets, because `select` takes them in any
order. `handleDonePeerMsg` reports to the connection manager in a step of its own
(`reporting`), because it waits for `connHandler` there. The RPC commands are the
messages of `handleQuery`.

Every address is its own group. The address manager gives any address whose
group is not counted, or none. Back-off times are a timer that fires some time.
Bans, `Stop` and the shutdown of the server are not included, nor is a connection
manager without `GetNewAddress`.

## Runs

| Run | Instance | States | Shows |
|---|---|---|---|
| `accept` | 6 blocks (fork, merge, block on top), 2 orphans, no crash, no error | 1,176,038 | orphans are taken as soon as their parents are there; the pool never exceeds its limit by more than one; the graph is that of the view, whatever the order leaves out; valid blocks are connected |
| `restart` | 5 blocks (two siblings, merge, block on top), 2 orphans, 2 errors, 1 crash or stop | 542,998 | memory and disk stay in step over every early return; the node comes back and every call ends; until the database fails, it agrees with itself and implements `DagLedger` |
| `order` | every way a graph of 5 blocks can grow, with any parents, K = 1, 1 restart | 481,255 | the order lists no block twice, and every block of a `Reduced` graph; neither cache contents nor a restart show in it |
| `ffldb` | 2 blocks over files of one block, 3 transactions, a reader, 1 I/O error, 1 crash or close | 326,000 | rows never name missing data; a crash can always be reconciled; transactions are atomic (`TxStore`) |
| `peerio` | 2 messages, channels of capacity 1 | 384,867 | one message in flight, in order; a listener that queued in time is answered if writes return; after a disconnect the handlers end, but for the two places `Stopped` names |
| `mempool` | 5 transactions with double spends and descendants, 4 blocks, 2 orphans | 125,511 | both indexes exact, no conflicting orphans, replay and rows follow the order |
| `sync` | 3 blocks, 2 peers, 2 connections each, 2 faults, requests limited to 2 | 369,456 | needed answers are accepted, requests are backed by a peer, sync ends only when caught up and never hangs |
| `conns` | one `--addpeer`, 2 outbound slots, 3 requests, 2 connections, 1 command or inbound connection | 2,325,685 | permanent requests and slots are kept unless a request is removed as a duplicate, ends reported once, counts those of the lists |
| `stuck` | as `restart`, a chain of 3 and a sibling, no errors | | finding |
| `ordercache` | 4 blocks, K = 3, entries from height 1 on | | finding |
| `snapshot` | as `ffldb` | | finding |
| `lateanswer` | as `peerio`, 1 message | | finding |

Bounds. `MaxOrphans` is below the number of blocks that can be orphans at once,
so that expiry and eviction happen, and large enough for an orphan whose parent
is an orphan too, which needs more than one pass. One restart meets what any step
before it wrote; the theorems have any number of them. One error leaves a block behind at any of the
steps, for a restart, an orphan or a child to act on; the second one makes a
flush fail after an earlier flush failed. With K = 1 and fewer than four blocks no
graph has an anticone in which colouring makes a choice; five give every such
choice a successor, and four are enough for an order that leaves a block out (see
*Observations*). In `ffldb` two blocks in one transaction roll over to the next
file, and the third transaction acts on what a failed and a successful one
left. In `peerio` the second message must wait for the first. In
`mempool` the two sides of a double spend are confirmed in either order, with a
child alone and with a transaction confirmed twice. In `sync` a full inventory
(2 blocks) needs a second request, `MaxRequested` overflows, and
`MaxEvents` allows for a late answer and a lost or hung peer in one behaviour. In
`conns` two requests compete for an address and a replaced request is dialled.
No symmetry is used: parents, inputs and ids fix the roles of the values.
`order`, `peerio` and `conns` stop when their blocks, messages or requests are used
up, so they do not check for deadlock.

Fairness. `BlockDag`: weak fairness of the steps of a call and of `Restart`: the
goroutine that runs `ProcessBlock` waits for nothing but locks whose holders do
not wait, and an operator starts a stopped node. `PeerIO`: every goroutine that
can take a step does; a read and a write return once the connection is closed. On
an open connection a write may never return, since the code sets no write
deadline; `WaiterAnswered` is therefore conditional on writes that return, while
`HandlersStop` needs no such condition, because `Disconnect` closes the connection.
`NetSync`: time passes while nobody is answering, the sync manager takes
every message and every report of a closed connection, and a peer that has not
hung answers; fairness is stated on what these steps do to one variable, which
spares TLC the evaluation of whole handlers. No fairness says that a block or
a message arrives, that a connection is made, that a node stops or that an error
happens.

## Findings

* `stuck`: `initChainState` adds every indexed block to the graph, also rejected
  ones. The first connection after that replays a block that is not in the view,
  fails, and so does every later one. The comment in `connectBestChain` says
  that revalidation is the worst that can happen.
* `ordercache`: an entry made when the first block of a generation arrives is used
  after its siblings came, and the order then differs from the one computed
  without it: siblings 1 and 3 of genesis 2 and a block on both are served as
  2, 3, 1, 4 and after a restart as 2, 1, 3, 4. A comment in
  `ordercachefull_test.go` says that order is the same for every use of the caches.
  `CachesKeepOrder` asks it of `Reduced` graphs only, like the one in the test.
* `snapshot`: `Snapshot` takes the leveldb snapshot before it takes `cacheLock`. A
  flush that ends in between has moved the cached rows to leveldb, so that
  neither half of the snapshot has them. The comment promises "a particular
  point in time".
* `lateanswer`: `QueueMessageWithEncoding` looks whether the peer is connected and
  then sends. `queueHandler` can see the disconnect, empty its channels and end in
  between; the message then lies in a queue nobody reads, and a listener that
  waits for its `doneChan` waits for ever, and `inHandler` with it. The comment says
  that the check avoids this, because the reader "hangs around until it knows for
  a fact that it is marked as disconnected"; the sender may have looked earlier.

## Observations

Behaviour that the models reach and that a reader of the code may not expect. No
run is about these, either because no document promises otherwise or because a
weaker property that does hold is checked instead.

* Orphan pool (`dag.go:551`): `oldestOrphan` may name an orphan that has left the
  pool, and the next eviction then removes nothing. The comment at `dag.go:530`
  promises the limit; `OrphanBound` shows that it is exceeded by one at most.
* View (`dagview.go:233`): a block left in the index by a database error is brought
  into the view by its child without having been checked. `ConnectedBlocksValid`
  is therefore about a database that has not failed.
* Order (`coloring.go:287`): a block that names a block and an ancestor of it as
  parents is a child of both. With genesis g, a on g, b on a, and n on g and b, where
  n has a smaller id than a, the loop reaches n from g ahead of a and queues VIRTUAL
  ahead of b, so it stops before b is listed, and the utxo view lacks b's
  transactions. In such graphs a block can also be listed before its parent.
  `OrderComplete` says what holds for every graph (no block twice, none
  from outside) and for those without such a block (every block).
* Order (`coloring.go:306`): the anticone is queued by id, so a blue block can be
  listed before a block of its past. After a transaction of `connectBlock` that
  fails, `nodeOrder` names a block that is not connected (`dag.go:1018`) until the
  next one is.
* Rows (`dagio.go:791`): rows of spent outputs stay, and the pool accepts a
  transaction that spends what the DAG has spent; it is then ignored in the
  replay. Rows of transactions that an incomplete order passes over stay too:
  `RowsFollowOrder` is about the outputs the current order makes or ignores.
* Block files (`blockio.go:431`): the file left at a roll-over is closed without a
  sync, and the flush syncs the current file only. The comments at
  `blockio.go:595` and `reconcile.go:99` say that block data is fully written before the
  metadata. `CurrentFileSynced` is about the current file; a crash in the model
  keeps what was written.
* Sync manager: an inventory of transactions ends the sync when the node is as
  high as the sync peer, although another peer may be higher
  (`manager.go:1297`). A block asked for again after its request expired, or twice
  as the parent of two orphans, is sent twice, and the peer is
  disconnected for the second copy (`manager.go:741`); `NeededAnswerAccepted` says
  that this never refuses a block the node still lacks.
* Pool: an orphan that fails while its parents arrive ends the round for its
  outpoint (`mempool.go:986`), and dependants of a transaction whose confirmation
  the replay ignores stay in the pool (`manager.go:1671`).
* Peer: `stallHandler` may exit before `inHandler` and `outHandler`, contrary to the
  comment at `peer.go:1376`, because it counts the same closed channel twice; a
  note to it can then block its sender for good (`Unheard`, one of the two
  exceptions of `HandlersStop`; the other is the one of `lateanswer`).
* Connections: two requests for one address can pass the duplicate check together
  (`connmanager.go:513`). A request removed as a duplicate gives up its slot, and
  a permanent one is given up. A persistent peer removed by RPC is connected
  again, because its request stays permanent. A failed request that is replaced
  stays in `pending`. A peer whose done message is taken before its add message
  stays in the lists, and is counted there: `GroupCounts` compares the counts with
  the lists, not with the connections.

## Proofs

The theorems hold for every value of the constants that satisfies the named
assumptions of the module, in particular for any number of blocks,
transactions, peers, requests, files, restarts and errors. Where a hypothesis is
added it is one the code needs: without it TLC has a counterexample.

| Module | Theorem | Statement |
|---|---|---|
| `BlockDag_proofs` | `TypeCorrect` | `Spec => []TypeOK` |
| | `Invariance` | `Spec => []Inv`, the inductive invariant |
| | `AlwaysRecoverable` | `Spec => []Recoverable` |
| | `ViewOnDisk` | `Spec => []DiskDescribesView` |
| | `WritesComeFirst` | `Spec => []WriteAhead` |
| | `NothingDisconnected` | `Spec => ConnectedForever` |
| | `OrphansAlwaysUnknown` | `Spec => []OrphansAreUnknown` |
| | `OrphansAlwaysBounded` | `Spec => []OrphanBound` |
| | `ValidBlockAlwaysConnects` | `MaxRestarts = 0 => (Spec => ValidBlockConnects)` |
| | `PublishedStateAlwaysAgrees` | `Spec => [](CompleteOrder \/ restarts = 0 => PublishedStateAgrees)` |
| | `ConnectedBlocksAlwaysValid` | `Spec => [](CompleteOrder \/ restarts = 0 => ConnectedBlocksValid)` |
| | `GraphAlwaysIsView` | `Spec => [](restarts = 0 /\ faults = 0 => GraphIsView)` |
| | `NeverConnectableOrphan` | `Spec => [](faults = 0 => NoConnectableOrphan)` |
| | `LedgerImplemented` | `CompleteOrder \/ MaxRestarts = 0 => (Spec => ImplementsLedger)` |
| | `CallsEnd` | `Spec => []Counted /\ [][Calling /\ Calling' => Shorter]_vars`: a call takes finitely many steps |
| | `PassHasOrder` | `Spec => [](OrphanOrders # {})` |
| `TxPool_proofs` | `PoolAlwaysIndexed` | `Spec => []PoolIndexed` |
| | `OrphansAlwaysIndexed` | `Spec => []OrphansIndexed` |
| | `OrphansAlwaysCompatible` | `Spec => []OrphansCompatible` |
| | `OrphansAlwaysLimited` | `Spec => []OrphanTxLimit` |
| | `ReplayAlwaysSound` | `Spec => []ReplaySound` |
| | `RowsAlwaysFollowOrder` | `Spec => []RowsFollowOrder` |
| `Phantom_proofs` | `PhantomInvariance` | `Spec => []Inv`, the inductive invariant |
| | `CachedBlueSetsAlwaysExact` | `Spec => []CachedBlueSetsExact` |
| | `OrderAlwaysComplete` | `Spec => [](DOMAIN orderCache = {} => OrderComplete)` |
| | `OrderSurvivesRestart` | `~UseOrderCache => (Spec => SameOrderAfterRestart)` |
| | `OnePassPerBlock` | until the order cache has an entry, every pass of `OrderDAG`'s loop orders one block that was not ordered |
| | `SameBlocksSameOrder` | `~UseOrderCache => (Spec => [](... nodeOrder = OrderOf(genesis, parents)))`: the order depends on the graph alone |
| `ConnMgr_proofs` | `Invariance` | `Spec => []IInv`, the inductive invariant |
| | `PermanentAlwaysKept` | `Spec => []PermanentKept` |
| | `EndsAlwaysReportedOnce` | `Spec => []EndsReportedOnce` |
| | `GroupsAlwaysCounted` | `Spec => []GroupCounts` |
| | `SlotsAlwaysKept` | `Spec => []SlotsKept` |
| `PeerIO_proofs` | `OneAlwaysInFlight` | `Spec => []OneInFlight` |
| | `WrittenInOrder` | `Spec => WireOrder` |
| | `AnswerInvariant` | `Spec => []AnswerInv`, the inductive invariant about waiting listeners |
| | `WaitersSignalledOnce` | `Spec => []WaitsForOne` |
| | `NoneLostInHandlers` | once both handlers have ended, a listener that waits has its answer or queued too late |
| | `EndInvariant` | `Spec => []EndInv`, the positions of the goroutines and of `Disconnect` |
| | `DisconnectEnds` | `Spec => [][disconnect => Work \in Nat /\ Work' \in Nat /\ Work' < Work]_vars` |
| | `NeverAllWait` | `Spec => [](disconnect => Stopped \/ GoesAhead)` |
| `FFLDB_proofs` | `RowsAlwaysReadable` | `Spec => []RowsReadable` |
| | `AlwaysReconcilable` | `Spec => []CrashReconcilable` |
| | `CurrentFileAlwaysSynced` | `Spec => []CurrentFileSynced` |
| | `StoreImplemented` | `Spec => ImplementsTxStore` |
| `NetSync_proofs` | `SyncInvariance` | `Spec => []SyncInv`, the inductive invariant |
| | `SyncTypeCorrect` | `Spec => []TypeOK` |
| | `RequestsAlwaysBacked` | `Spec => []RequestsBacked` |
| | `NeededAnswerAlwaysAccepted` | `Spec => []NeededAnswerAccepted` |
| | `SyncAlwaysLeftCaughtUp` | `Spec => SyncLeftCaughtUp` |
| | `SyncPeerTimed` | a connected sync peer that is higher than the node gets fewer than `StallTicks` samples between two new blocks |

### Induction over data

The provers cannot instantiate an induction theorem that takes a predicate as a
parameter. `Induction` therefore states induction over sets: a set of numbers that
holds 0 and with n also n + 1 holds every number (`UpTo`), a non-empty one has a
least element (`LeastNumber`). `AlongSequence` says that a function defined by
recursion over the positions of a sequence exists, so that the recursive
functions of the models (`Replay`, `AskFor`, `Tracked`, `Pushed`, `Joined`, `EnqueueAll`) may be unfolded. A
proof by induction then names the set of the positions at which its claim holds.
The module also keeps the facts about sequences that `NetSync_proofs` and
`TxPool_proofs` need (what `Append`, `Tail`, `SubSeq` and `\o` return).

### BlockDag

Assumes `BlockAssumption` (genesis is the one block without parents, and
the relation is well founded) and `BoundAssumption`. `Recoverable` alone is not
inductive: that a crash leaves a loadable database depends on what the call in
progress will write next. `WriteAhead` supplies it. The index in memory is exactly
the rows on disk plus the dirty nodes, its blocks have their data stored and
their parents indexed (`IndexBacked`), and the block in progress is written as far
as the next step needs (`CallBacked`). So a flush of all dirty nodes keeps the
rows closed under parents (`FlushSound`), and a connection stores tips whose rows
exist (`ConnectStep`). `DiskDescribesView` is needed for `Connect`: the view gets the
ancestors of the new block, the disk gets the new tips, and both describe the
same set because dropping a block's parents from the tips loses nothing
(`ClosureOfNewTips`, which rests on the lemmas on `Ancestry`; well-foundedness
enters there, since a block must not be its own parent, `NotOwnParent`). `Saved`
adds that what is durable is part of what is visible, which makes `Crash` safe for
`ConnectedForever`. `InvStep` has one case per action.

The other invariants are layers on top of `Inv`. `PoolInv`: the pool holds no orphan
twice and none that is indexed, and a pool over its limit has no `oldestOrphan` on
record, which is why it is not exceeded a second time. `ViewInv`: the block in
progress is new to index, view and graph. `CleanInv` is what holds until the
database fails: no node is dirty between steps, every known block is invalid,
connected or in progress, and database and snapshot agree, as does what a crash
would leave. A failed transaction breaks it (see *Observations*), so the properties
that rest on it are about `faults = 0`. It needs that a connected block's parents are
connected, which holds after a restart only if the replay has asked for them
(`CompleteOrder`). `OrderInv` also needs `restarts = 0`, and `ValidBlockAlwaysConnects` `MaxRestarts = 0`: the
run `stuck` is the counterexample with a restart. `SweepInv` is about the passes over
the pool: in a pass that has accepted nothing yet, every connectable orphan is
still to come. The step that ends the sweep uses that `GetOrphanOrder` lists every
orphan, in whatever order. For `LedgerImplemented` each step of a call maps to a step
of `DagLedger` that adds one block, saves, falls back to what is saved, or changes
nothing (`CleanInv` shows that `checkAndAddNode` finds one new block).

`CallsEnd` is what `CallReturns` rests on besides fairness: four numbers, of which every
step of a call makes the first that it changes smaller. `Rounds` counts the orphans and
one more while another pass may follow, `Unseen` the orphans this pass has not looked
at, then come the length of the work list and the steps left of `maybeAcceptBlock`. A
new pass needs an orphan accepted in the last one, which left the pool for good; the
work list grows only by looking at an orphan for the first time. `PassHasOrder` shows that
every pool can be listed children first (in a smallest pool that cannot, take a block
whose parents are elsewhere and list it last), so a pass never fails to start, and `Loadable` follows from `AlwaysRecoverable`, so neither does a
restart.

### Phantom

Assumes `PhantomAssumption`: ids are positive numbers, which stand for their order
as strings. Blue sets come from a recursion over the graph, and tlapm does not know
that such a function exists. `StoredIs` and `FreshIs` show it, by induction over the
height of a block (`ByHeight`), which the graph has because a block is higher than
its parents (`Graph`, kept by `GraphGrows`). The colouring of a past mentions
nothing outside it (`BlueSetSame`), so a block added later changes no earlier
colouring (`FreshGrows`), and a cached set may stand for the recursion it replaces.

That an order is complete needs an invariant of the queue, `LoopOK`. In a graph
without a block that has a block and an ancestor of it as parents (`Antichains`, what
`Reduced` says), whatever is queued has all of its past queued with it (`Queued`): a blue child is queued
behind the part of its past that lies in its parent's anticone, and the rest is in
the past of the parent. VIRTUAL, which is blue and whose past is everything, is
therefore only queued behind every block not ordered yet, and the loop that stops
at it has listed them all. The loop does not run dry before that: the blue set
contains a way from a tip back to genesis, parent by parent (`BlueWay`, from the
recursion of the colouring), and the loop, which queues genesis first and then the
blue children of what it orders, walks that way up to VIRTUAL (`EndOK`).

An order that begins from an entry of the order cache has no such invariant: the
entry may lack siblings of its blocks. The hypotheses exclude it and nothing else;
the run `ordercache` is the counterexample. A node has no entry before the lowest
of its tips is `minOrderCacheDistance` generations high. For `OrderSurvivesRestart`,
`Reached` says that the loop is on its way from genesis, and `SameInv` that the order
a node serves is where that way ends on the same graph. The way is a function of
graph, tips and blue set (`RunsAgree`), and a restart changes none of them but the
sequence of the tips. `SameBlocksSameOrder` states the same without a restart: pasts
are a function of the parents (`PastIsOf`), the tips are the blocks nobody has as a
parent (`AllTips`), and so two nodes with the same blocks serve the same order, in
whatever order the blocks came and whatever their caches held. `Apart`, a part of
`Queued`, says that the queue holds no block twice and none that is ordered; from it
`OnePassPerBlock` follows, that the loop ends after at most as many passes as the graph has
blocks, and that its test for a block already ordered never succeeds.

### TxPool

Assumes `TxAssumption`: the types of the constants, every transaction has an input
(the code's sanity check refuses others) and the outputs of transactions are
not among the coins that exist at first. `OrphansCompatible` is not inductive
alone: double spends are found through
`outpoints` and `orphansByPrev`, so both indexes must be exact, and inside
`processOrphans` the conflicts that are still to be removed are those of
`accepted` (`Locked` says when that set is empty). One lemma per helper says what
it does to its index; one lemma per kind of step says that it keeps the invariant.
`OrphansAlwaysLimited` counts the orphans that `addOrphan` finds, evicts and adds.

`ReplayAlwaysSound` is an induction along the order, block by block and transaction
by transaction: `Sound` says of a view that no two accepted transactions share an
input, that their inputs were made, that the unspent outputs are those made and
not spent, and that none of them is ignored. `RowsAlwaysFollowOrder` needs the
first and the last part of it.

### ConnMgr

Assumes `ConstantsAssumption`. `IInv` says where a request is registered
for each position of its goroutine (`ReqInv`), which connection belongs to which
request (`ConnInv`), that a request with a connection has an address (`AddrInv`), and
`GroupCounts` itself. The counts need that an address of a made connection never
changes (`MadeStays`) and that lists and counts change together, by one peer added
or a set of peers dropped (`ListsStep`); the rest is counting (`GroupStep`).
`SlotInv` adds that the requests with an id are as many as `connReqCount` says,
because `Start` computes from it how many requests it makes.

### PeerIO

`OneInFlight` needs `Idle`: when `queueHandler` does not wait for `outHandler`, nothing is
on its way and nothing waits for its turn. `WireOrder` needs `Lined`: what is not
written yet is the message on its way followed by `pendingMsgs`, until a write
fails or the queues are emptied. Nothing is assumed of the number of messages or
of the capacity of the channels.

`AnswerInv` follows one message from the listener that waits for it. It is in one place
(`OnePlace`), of the five it may be in, until its doneChan is signalled, and in none
after that. To be inductive it needs that message numbers are used once (`Numbered`),
that a handler's hands are empty between two messages and its queues once it has ended
(`Hands`), and that the number of the waited message is not among the inventory
(`Waits`). `Moved` is what a step may do to messages on their way; the lemmas named
after the steps show it for each and `MovedKeeps` that it preserves the rest. What is left
over when both handlers have ended is what was queued after `queueHandler` had emptied
`outputQueue` (`NoneLostInHandlers`), the exception `HandlersStop` makes for inHandler.

`DisconnectEnds` and `NeverAllWait` are what `HandlersStop` rests on besides fairness. `Work`
weighs where the goroutines are and what the channels hold, so that every
step after Disconnect lowers it: a message costs 9 in `outputQueue`, 8 in
`pendingMsgs`, 7 in `sendQueue`, and what a goroutine hands over is paid for by its own
position. `GoesAhead` is the disjunction of the guards of the handlers' next statements.
When none holds, `OneInFlight` leaves `queueHandler` and `outHandler` nothing to block
on but `stallControl`, and that is empty, or read, or `stallHandler` is gone: `Stopped`. A
read or a write counts as able to go ahead only once the connection is closed. That a
listener left behind is one whose message lies in `outputQueue` or finds no room there
comes from `AnswerInv` and from the bound of that channel (`RoomStep`); that `stallHandler` is gone
only after another handler is a part of `Places`.

### FFLDB

Assumes `ConstantsAssumption`: `None` is none of the values it stands in for, and a file
holds at least one block. `MaxFile` is a bound of the model: a
transaction is begun only if the files it may roll over to are numbered up to
`MaxFile`, and `Pending` carries `cursor.file + Len(tx.todo) <= MaxFile` so that no step is
cut off by it. `RowsReadable` and `CrashReconcilable` are two views of one argument:
there are three write positions, that of leveldb, that of the cache over it and
that of the files, never in another order than this, except inside a rollback
(`CursorsOrdered`), and the rows of each table lie before its position
(`RowsPlaced`). Writing changes only data behind all committed positions
(`Keeps`), cutting files back stops at them. `SyncInv`, for
`CurrentFileSynced`, follows which rows are synced through the three steps of a flush
and through reconciliation. For `StoreImplemented` every step is a step of `TxStore` on
`Abstract(Latest)` and `Abstract(ldb)`, or changes neither; what `Flushed` says about the
cache while it is written out makes emptying it a stutter.

### NetSync

Assumes `DagAssumption` (finitely many blocks, heights as the code computes them,
peers that start with a closed set of blocks), `NoAssumption` (the two null values
are not peers or blocks) and `LimitAssumption` (the limits are positive numbers).
`NeededAnswerAccepted` is not inductive: a `getdata` becomes blocks only when the peer
answers, and what the peer was asked for must stay tracked until then. `SyncInv`
says of both queues of an open connection that they name blocks that are tracked
for this peer, connected or orphans (`AnswersWanted`), and that the queues of a
peer the manager does not know are empty (`QuietOutside`), since a new connection
begins with them. What a handler computes is shown once for its record: `Good(M, O)`
are the records whose messages ask only for blocks that the peer's own map
holds, whose own map still holds M and whose global map is covered by the own map
and by those of the other peers, O. `trackReqBlock`,
`reqBlocks`, `reqOrphanParents`, `reqOrphanChildren` and `PushGetBlocksMsg` each keep it, by
induction along the inventory or the list of orphans; `ApplyStep` turns a good
record into a step that keeps `SyncInv`. That `limitTrackedReqs` may empty the global map
is harmless because acceptance looks at the peer's own map, which nothing but the
answer or the end of the connection shrinks. `startSync`, `updateSyncPeer` and the stall
check ask for no block and only drop global requests (`Chosen`).

`SyncLeftCaughtUp` needs in addition that the sync peer is a sync candidate
(`SyncIsCandidate`): a stalled sync is left without a successor only if every
candidate, among them the stalled peer, is below our height.

`SyncPeerTimed` is what `SyncMovesOn` rests on besides fairness. With a sync peer the idle
time stays below the limit (`ClockInv`), because `startSync` resets it for the peer it
chooses and gives the time back to nobody else. As long as that peer is connected and
higher than the node, no step lowers the idle time but one that connects a new block,
and there are finitely many blocks. At the limit the peer is dropped:
`shouldDCStalledSyncPeer` looks at the block connected last, which may be lower than the
node's highest block but never higher (`BestBelow`), so it errs on the side of dropping. A
dropped peer that `startSync` chose again is left when `handleDonePeerMsg` comes, since
the sync peer is always a known one.

### Only model-checked

Liveness under fairness (`CallReturns`, `WaiterAnswered`, `HandlersStop`, `SyncMovesOn`) is out
of the prover's reach, and so is ENABLED. For `CallReturns` and `HandlersStop` the measures
are proved for all constants (`CallsEnd`, `DisconnectEnds`), and what the last step of a
stuck execution would look like (`PassHasOrder`, `NeverAllWait`, with the guards written
out); that a fair scheduler turns this into an end is left to TLC. `WaiterAnswered` has
its safety part in `WaitersSignalledOnce` and `NoneLostInHandlers`, and `SyncMovesOn` in
`SyncPeerTimed`; that time passes and that a closed connection is reported are the
fairness TLC adds. Nothing is proved about orders made with the order cache in use;
the run `ordercache` shows that they can differ from those made without it.

## Not modelled

* Block and transaction rules, deployments, difficulty, median time, scripts,
  signatures: verdicts in the models. They are sequential computations over
  block contents, arithmetic and byte strings; most of the source lines of
  the node are of this kind.
* Serialisation and wire messages, RPC and its websockets, command line tools and
  the RPC client: conversions, and clients of what is modelled. The one-byte tip
  count in the DAG state is listed as a hazard.
* Optional indexes: their failure is one of `connectBlock`'s. Their rows and their
  catch-up are off by default.
* The miner: template building is a greedy selection; the CPU miner's worker
  protocol stands apart from everything here.
* The address manager and the ban score: data structures under one lock. Bans,
  address exchange, filters and rebroadcasts of the server.
* Shutdown of the sync manager, the connection manager and the server. After
  `quit` nobody answers the sync manager's callers (`manager.go:1616`).
* In `Phantom`: the horizon of 200 generations, expiry of the caches, `RemoveTip`.
* In `FFLDB`: the pool of files open for reading, checksums, buckets and iterators.
* `blockchain` and `mining`: single-chain packages the node does not run.
