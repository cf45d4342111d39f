------------------------------- MODULE NetSync -------------------------------
(***************************************************************************)
(* How a node downloads blocks from its peers: the sync manager's          *)
(* goroutine (netsync/manager.go), which handles one message at a time,    *)
(* and the peers it talks to, which run the request handlers of server.go. *)
(* Messages of one connection arrive in order; connections interleave.     *)
(*                                                                         *)
(* Time advances in steps of stallSampleInterval: a request lives          *)
(* RequestLife steps before it is expired, a sync without progress lives   *)
(* StallTicks steps before it is stalled.                                  *)
(***************************************************************************)
EXTENDS Naturals, Sequences, FiniteSets, FiniteSetsExt

CONSTANTS
    Peer,             \* remote nodes
    Block,            \* blocks other than genesis
    Genesis,
    parents,          \* [Block -> SUBSET (Block \cup {Genesis})]
    height,           \* [Block \cup {Genesis} -> Nat]
    Recent,           \* blocks younger than 24 hours
    Owned,            \* [Peer -> SUBSET Block]: what a peer has at first
    Growth,           \* [Peer -> SUBSET Block]: what it may get later
    MaxBlocksPerMsg,  \* wire.MaxBlocksPerMsg
    MaxRequested,     \* maxRequestedBlocks
    RequestLife,
    StallTicks,
    NoPeer, NoBlock,
    MaxConnects,      \* bound: connections made to one peer
    MaxEvents         \* bound: ticks that pass while an answer is on its way,
                      \* connections lost, peers that hang and invs of
                      \* transactions, together

ASSUME DagAssumption ==
    /\ IsFiniteSet(Block) /\ Genesis \notin Block
    /\ height \in [Block \cup {Genesis} -> Nat] /\ height[Genesis] = 0
    /\ \A b \in Block :
         /\ parents[b] # {} /\ parents[b] \subseteq Block \cup {Genesis}
         /\ height[b] = 1 + Max({height[q] : q \in parents[b]})
    /\ Owned \in [Peer -> SUBSET Block] /\ Growth \in [Peer -> SUBSET Block]
    /\ \A p \in Peer : \A b \in Owned[p] :
         parents[b] \subseteq Owned[p] \cup {Genesis}

ASSUME NoAssumption == NoPeer \notin Peer /\ NoBlock \notin Block

ASSUME LimitAssumption ==
    /\ StallTicks \in Nat \ {0, 1} /\ RequestLife \in Nat
    /\ MaxBlocksPerMsg \in Nat \ {0}

VARIABLES
    have,             \* blocks connected to our DAG
    orphans,          \* blocks in our orphan pool
    best,             \* the block connected last: BestSnapshot
    peerStates,       \* peers the sync manager knows
    syncCandidate,    \* [Peer -> BOOLEAN]
    peerReqs,         \* [Peer -> requestedBlocks of its peerSyncState]
    requestedBlocks,  \* block -> steps left to live, over all peers
    syncPeer,
    idle,             \* steps since lastProgressTime
    maxBlockHeight,   \* [Peer -> Nat]: what we believe of a peer
    startingHeight,   \* [Peer -> Nat]: what it said when it connected
    lastAnnounced,    \* [Peer -> last block it announced]
    prevGetBlocks,    \* [Peer -> the getblocks sent last, height and stop]
    updates,          \* UpdatePeerHeights calls under way
    connected,        \* peers with an open connection
    toPeer, fromPeer, \* [Peer -> messages on their way]
    peerHas,          \* [Peer -> blocks of its DAG]
    hung,             \* peers that accept messages and answer none
    continueHash,     \* [Peer -> its serverPeer's continueHash for us]
    connects, events

chain == <<have, orphans, best>>
requests == <<peerReqs, requestedBlocks>>
sync == <<syncPeer, idle, syncCandidate>>
belief == <<maxBlockHeight, lastAnnounced, updates>>
remote == <<peerHas, continueHash, hung>>
bounds == <<connects, events>>
vars == <<chain, peerStates, requests, sync, belief, startingHeight,
          prevGetBlocks, connected, toPeer, fromPeer, remote, bounds>>

Event == events < MaxEvents /\ events' = events + 1

Empty == [b \in {} |-> 0]
NoRequest == <<NoBlock, 0>>

\* The elements of a finite set, one after the other in some order.
Listings(S) == Bijection(1..Cardinality(S), S)

Highest(B) == Max({height[b] : b \in B \cup {Genesis}})

MaxHeight == Highest(have)

\* HaveBlock: connected or in the orphan pool.
HaveBlock(b) == b \in have \cup orphans \cup {Genesis}

Init ==
    /\ have = {} /\ orphans = {} /\ best = Genesis
    /\ peerStates = {} /\ syncCandidate = [p \in Peer |-> FALSE]
    /\ peerReqs = [p \in Peer |-> Empty] /\ requestedBlocks = Empty
    /\ syncPeer = NoPeer /\ idle = 0
    /\ maxBlockHeight = [p \in Peer |-> 0]
    /\ startingHeight = [p \in Peer |-> 0]
    /\ lastAnnounced = [p \in Peer |-> NoBlock]
    /\ prevGetBlocks = [p \in Peer |-> NoRequest]
    /\ updates = {}
    /\ connected = {}
    /\ toPeer = [p \in Peer |-> <<>>] /\ fromPeer = [p \in Peer |-> <<>>]
    /\ peerHas = Owned /\ continueHash = [p \in Peer |-> NoBlock] /\ hung = {}
    /\ connects = [p \in Peer |-> 0] /\ events = 0

-----------------------------------------------------------------------------
(* Requests and what is sent.  What a handler has done so far for its peer  *)
(* is a record: the request maps, the messages to send, the last getblocks. *)

Effects(p) == [mine |-> peerReqs[p], all |-> requestedBlocks, out |-> <<>>,
               prev |-> prevGetBlocks[p]]

\* QueueMessage drops what is sent on a closed connection.
Sent(q, p, msgs) ==
    IF p \in connected' \ hung THEN [q EXCEPT ![p] = @ \o msgs] ELSE q

Apply(p, e) ==
    /\ peerReqs' = [peerReqs EXCEPT ![p] = e.mine]
    /\ requestedBlocks' = e.all
    /\ prevGetBlocks' = [prevGetBlocks EXCEPT ![p] = e.prev]
    /\ toPeer' = Sent(toPeer, p, e.out)

Pending(reqs, b) == b \in DOMAIN reqs /\ reqs[b] > 0

canReqBlock(e, b) == ~Pending(e.mine, b) /\ ~Pending(e.all, b)

Forget(reqs, B) == [b \in DOMAIN reqs \ B |-> reqs[b]]

\* Expired requests go first; when that is not enough, all requests go.
limitTrackedReqs(reqs) ==
    LET live == {b \in DOMAIN reqs : reqs[b] > 0}
    IN  IF Cardinality(live) + 1 > MaxRequested THEN Empty
        ELSE [b \in live |-> reqs[b]]

With(reqs, b) ==
    [x \in DOMAIN reqs \cup {b} |-> IF x \in DOMAIN reqs THEN reqs[x]
                                    ELSE RequestLife]

\* Mutant: a block another peer was asked for is not noted for this peer.
trackReqBlock_Global(e, b) ==
    IF b \in DOMAIN e.all THEN e
    ELSE [e EXCEPT !.all = limitTrackedReqs(With(e.all, b)),
                   !.mine = With(e.mine, b)]

\* A request that is tracked already keeps the time of its first attempt.
trackReqBlock(e, b) ==
    [e EXCEPT !.all = IF b \in DOMAIN @ THEN @
                      ELSE limitTrackedReqs(With(@, b)),
              !.mine = With(@, b)]

GetData(e, bs) ==
    IF bs = <<>> THEN e
    ELSE [e EXCEPT !.out = Append(@, [type |-> "getdata", blocks |-> bs])]

\* A block we do not have is asked for unless a request for it is pending.
Ask(a, b) ==
    IF ~HaveBlock(b) /\ canReqBlock(a.e, b)
    THEN [e |-> trackReqBlock(a.e, b), blocks |-> Append(a.blocks, b)]
    ELSE a

AskFor(e, inv) ==
    LET after[n \in 0..Len(inv)] ==
          IF n = 0 THEN [e |-> e, blocks |-> <<>>] ELSE Ask(after[n - 1], inv[n])
    IN  after[Len(inv)]

PushGetBlocksMsg(e, from, stop) ==
    IF stop # NoBlock /\ e.prev = <<stop, from>> THEN e
    ELSE [e EXCEPT !.prev = <<stop, from>>,
                   !.out = Append(@, [type |-> "getblocks", from |-> from,
                                      stop |-> stop])]

hasPendingBlocks(e) == \E b \in DOMAIN e.mine : e.mine[b] > 0

\* The peer is asked for the blocks of its inventory that we do not have, or,
\* when there are none and nothing is pending, for more inventory.
\* "news": the inventory holds a transaction that we do not have.
reqBlocks(e, inv, news, syncing) ==
    IF /\ \A b \in Range(inv) : HaveBlock(b)
       /\ ~news /\ ~hasPendingBlocks(e) /\ syncing
    THEN PushGetBlocksMsg(e, MaxHeight, NoBlock)
    ELSE LET a == AskFor(e, inv) IN GetData(a.e, a.blocks)

\* The parents to ask for, once for every orphan that lacks them, with the
\* orphan pool and the DAG as ProcessBlock left them.
MissingParents(e, pool, dag) ==
    {x \in pool \X Block :
        /\ x[2] \in parents[x[1]] /\ x[2] \notin dag \cup pool
        /\ canReqBlock(e, x[2])}

Tracked(e, bs) ==
    LET after[n \in 0..Len(bs)] ==
          IF n = 0 THEN e ELSE trackReqBlock(after[n - 1], bs[n])
    IN  after[Len(bs)]

reqOrphanParents(e, pool, dag) ==
    {LET bs == [i \in 1..Len(s) |-> s[i][2]] IN GetData(Tracked(e, bs), bs) :
        s \in Listings(MissingParents(e, pool, dag))}

\* getblocks from the parent's height to each of its children in the pool.
reqOrphanChildren(e, b, pool) ==
    {LET after[n \in 0..Len(s)] ==
           IF n = 0 THEN e ELSE PushGetBlocksMsg(after[n - 1], height[b], s[n])
     IN  after[Len(s)] :
        s \in Listings({c \in pool : b \in parents[c]})}

-----------------------------------------------------------------------------
(* Choosing the peer to sync with.                                          *)

\* startSync, when syncPeer is nil: candidates that are behind us are none any
\* more, and a higher one is preferred to one at our height.  S, heights, all,
\* prev and queue are the values the caller has computed so far.
startSync(S, cand, heights, all, prev, queue, idled) ==
    LET stay == {p \in S : cand[p] /\ heights[p] >= MaxHeight}
        higher == {p \in stay : heights[p] > MaxHeight}
    IN  /\ syncCandidate' = [p \in Peer |-> p \in stay]
        /\ \/ /\ stay = {}
              /\ syncPeer' = NoPeer /\ idle' = idled
              /\ requestedBlocks' = all
              /\ prevGetBlocks' = prev /\ toPeer' = queue
           \/ \E p \in IF higher # {} THEN higher ELSE stay :
              /\ syncPeer' = p /\ idle' = 0
              /\ requestedBlocks' = Empty
              /\ prevGetBlocks' = [prev EXCEPT ![p] = <<NoBlock, MaxHeight>>]
              /\ toPeer' = Sent(queue, p,
                   <<[type |-> "getblocks", from |-> MaxHeight,
                      stop |-> NoBlock]>>)

clearRequestedState(all, p) == Forget(all, DOMAIN peerReqs[p])

\* The sync peer is disconnected if asked, and another one chosen.
updateSyncPeer(dc, S, all, queue, idled) ==
    /\ connected' = IF dc THEN connected \ {syncPeer} ELSE connected
    /\ startSync(S, syncCandidate, maxBlockHeight, all, prevGetBlocks, queue,
                 idled)

\* A connection is made, versions are exchanged and OnVersion tells the sync
\* manager; the remote node reports the height of its DAG.
handleNewPeerMsg(p) ==
    /\ p \notin connected \cup peerStates /\ connects[p] < MaxConnects
    /\ connects' = [connects EXCEPT ![p] = @ + 1]
    /\ connected' = connected \cup {p}
    /\ peerStates' = peerStates \cup {p}
    /\ LET h == Highest(peerHas[p])
           heights == [maxBlockHeight EXCEPT ![p] = h]
           cand == [syncCandidate EXCEPT ![p] = TRUE]
           prev == [prevGetBlocks EXCEPT ![p] = NoRequest]
       IN  /\ maxBlockHeight' = heights
           /\ startingHeight' = [startingHeight EXCEPT ![p] = h]
           /\ \/ /\ syncPeer = NoPeer
                 /\ startSync(peerStates', cand, heights, requestedBlocks,
                              prev, toPeer, idle)
              \/ /\ syncPeer # NoPeer
                 /\ syncCandidate' = cand /\ prevGetBlocks' = prev
                 /\ UNCHANGED <<syncPeer, idle, requestedBlocks, toPeer>>
    /\ lastAnnounced' = [lastAnnounced EXCEPT ![p] = NoBlock]
    /\ continueHash' = [continueHash EXCEPT ![p] = NoBlock]
    /\ UNCHANGED <<chain, peerReqs, updates, fromPeer, peerHas, hung, events>>

\* Mutant: the requests of the lost peer stay in the global map.
handleDonePeerMsg_Keeps(p) ==
    /\ p \in peerStates \ connected
    /\ peerStates' = peerStates \ {p}
    /\ peerReqs' = [peerReqs EXCEPT ![p] = Empty]
    /\ fromPeer' = [fromPeer EXCEPT ![p] = <<>>]
    /\ LET queue == [toPeer EXCEPT ![p] = <<>>]
       IN  \/ /\ p = syncPeer
              /\ updateSyncPeer(FALSE, peerStates', requestedBlocks, queue, idle)
           \/ /\ p # syncPeer
              /\ toPeer' = queue
              /\ UNCHANGED <<sync, prevGetBlocks, requestedBlocks, connected>>
    /\ UNCHANGED <<chain, belief, startingHeight, remote, bounds>>

\* Mutant: the lost peer may still be the sync peer.
handleDonePeerMsg_Stays(p) ==
    /\ p \in peerStates \ connected
    /\ peerStates' = peerStates \ {p}
    /\ peerReqs' = [peerReqs EXCEPT ![p] = Empty]
    /\ fromPeer' = [fromPeer EXCEPT ![p] = <<>>]
    /\ requestedBlocks' = clearRequestedState(requestedBlocks, p)
    /\ toPeer' = [toPeer EXCEPT ![p] = <<>>]
    /\ UNCHANGED <<sync, prevGetBlocks, connected>>
    /\ UNCHANGED <<chain, belief, startingHeight, remote, bounds>>

\* The peer is gone.  Its messages that were not handled yet come from an
\* unknown peer from now on and are ignored.
handleDonePeerMsg(p) ==
    /\ p \in peerStates \ connected
    /\ peerStates' = peerStates \ {p}
    /\ peerReqs' = [peerReqs EXCEPT ![p] = Empty]
    /\ fromPeer' = [fromPeer EXCEPT ![p] = <<>>]
    /\ LET all == clearRequestedState(requestedBlocks, p)
           queue == [toPeer EXCEPT ![p] = <<>>]
       IN  \/ /\ p = syncPeer
              /\ updateSyncPeer(FALSE, peerStates', all, queue, idle)
           \/ /\ p # syncPeer
              /\ requestedBlocks' = all /\ toPeer' = queue
              /\ UNCHANGED <<sync, prevGetBlocks, connected>>
    /\ UNCHANGED <<chain, belief, startingHeight, remote, bounds>>

\* Mutant: a stalled sync peer is never disconnected.
shouldDCStalledSyncPeer_Never == FALSE

\* The sync peer reports more than the height of the block connected last.
shouldDCStalledSyncPeer ==
    Max({maxBlockHeight[syncPeer], startingHeight[syncPeer]}) > height[best]

\* An answer is on its way from a peer that does answer.
Busy == \E p \in connected \ hung : toPeer[p] # <<>> \/ fromPeer[p] # <<>>

Aged(reqs) == [b \in DOMAIN reqs |-> IF reqs[b] > 0 THEN reqs[b] - 1 ELSE 0]

\* stallSampleInterval passes and handleStallSample runs.
Tick ==
    /\ \/ ~Busy /\ UNCHANGED events
       \/ Busy /\ Event
    /\ peerReqs' = [p \in Peer |-> Aged(peerReqs[p])]
    /\ LET idled == Min({idle + 1, StallTicks})
           stalled == syncPeer # NoPeer /\ idled = StallTicks
       IN  \/ /\ ~stalled
              /\ idle' = idled /\ requestedBlocks' = Aged(requestedBlocks)
              /\ UNCHANGED <<syncPeer, syncCandidate, connected, toPeer,
                             prevGetBlocks>>
           \/ /\ stalled
              /\ updateSyncPeer(shouldDCStalledSyncPeer, peerStates,
                      clearRequestedState(Aged(requestedBlocks), syncPeer),
                      toPeer, idled)
    /\ UNCHANGED <<chain, peerStates, belief, startingHeight, fromPeer,
                   remote, connects>>

-----------------------------------------------------------------------------
(* Messages from peers.                                                     *)

Receive(p, type) ==
    /\ p \in peerStates /\ fromPeer[p] # <<>> /\ Head(fromPeer[p]).type = type
    /\ fromPeer' = [fromPeer EXCEPT ![p] = Tail(@)]

\* An inventory of the zero hash alone: the peer has more for us.
handleMoreInv(p) ==
    /\ Receive(p, "more")
    /\ UNCHANGED connected
    /\ Apply(p, PushGetBlocksMsg(Effects(p), MaxHeight, NoBlock))
    /\ UNCHANGED <<chain, peerStates, sync, belief, startingHeight, remote,
                   bounds>>

\* handleInvMsg on any other inventory; one without blocks holds transactions.
handleInvMsg(p) ==
    /\ Receive(p, "inv")
    /\ UNCHANGED connected
    /\ LET inv == Head(fromPeer[p]).blocks
           heights == [maxBlockHeight EXCEPT
                         ![p] = Max({@, Highest(Range(inv))})]
           target == IF syncPeer # NoPeer /\ MaxHeight >= heights[syncPeer]
                     THEN NoPeer ELSE syncPeer
       IN  /\ maxBlockHeight' = heights
           /\ lastAnnounced' = [lastAnnounced EXCEPT
                                  ![p] = IF inv = <<>> THEN @ ELSE inv[Len(inv)]]
           /\ syncPeer' = target
           /\ \/ /\ target \notin {NoPeer, p}
                 /\ UNCHANGED <<requests, prevGetBlocks, toPeer>>
              \/ /\ target \in {NoPeer, p}
                 /\ \E news \in {FALSE, inv = <<>>} :
                    \E e \in reqOrphanParents(
                              reqBlocks(Effects(p), inv, news, target = p),
                              orphans, have) : Apply(p, e)
    /\ UNCHANGED <<chain, peerStates, idle, syncCandidate, updates,
                   startingHeight, remote, bounds>>

Tips(dag) == {b \in dag : \A c \in dag : b \notin parents[c]}

\* Mutant: only the age of our tips is looked at.
current_Age(dag, heights) == Tips(dag) \cap Recent # {}

\* Our tips are young and no peer is higher than we are.
current(dag, heights) ==
    /\ Tips(dag) \cap Recent # {}
    /\ \A p \in peerStates : Highest(dag) >= heights[p]

\* What handleBlockMsg does with the heights of peers once the block is
\* processed: the sender's is raised, others that announced it are looked up
\* by a goroutine of its own, and the sync ends when nobody is higher.
UpdateHeights(p, dag, update, always) ==
    LET heights == [maxBlockHeight EXCEPT ![p] = Max({@, update.height})]
    IN  /\ maxBlockHeight' = heights
        /\ updates' = IF always \/ current(dag, heights)
                      THEN updates \cup {update} ELSE updates
        /\ syncPeer' = IF current(dag, heights) THEN NoPeer ELSE syncPeer
        /\ UNCHANGED lastAnnounced

\* A block we did not ask this peer for, or whose answer came already.
BlockUnrequested(p) ==
    /\ Receive(p, "block")
    /\ Head(fromPeer[p]).block \notin DOMAIN peerReqs[p]
    /\ connected' = connected \ {p}
    /\ UNCHANGED <<chain, peerStates, requests, sync, belief, startingHeight,
                   prevGetBlocks, toPeer, remote, bounds>>

\* An answer to a request: it leaves the request maps before anything else.
Answer(p, b) ==
    /\ Receive(p, "block") /\ Head(fromPeer[p]).block = b
    /\ b \in DOMAIN peerReqs[p]
    /\ UNCHANGED <<connected, peerStates, syncCandidate, startingHeight, remote,
                   bounds>>

Answered(p, b) ==
    [Effects(p) EXCEPT !.mine = Forget(@, {b}), !.all = Forget(@, {b})]

\* ProcessBlock refuses a block we have.
BlockKnown(p, b) ==
    /\ Answer(p, b) /\ HaveBlock(b)
    /\ Apply(p, Answered(p, b))
    /\ UNCHANGED <<chain, syncPeer, idle, belief>>

BlockOrphaned(p, b) ==
    /\ Answer(p, b) /\ ~HaveBlock(b)
    /\ ~(parents[b] \subseteq have \cup {Genesis})
    /\ orphans' = orphans \cup {b}
    /\ \E e \in reqOrphanParents(Answered(p, b), orphans', have) : Apply(p, e)
    /\ UpdateHeights(p, have, [block |-> b, height |-> height[b], origin |-> p],
                     TRUE)
    /\ UNCHANGED <<have, best, idle>>

\* The orphans that are connected once b is.
Adopted(b) ==
    UNION {S \in SUBSET orphans :
             \A o \in S : parents[o] \subseteq have \cup {Genesis, b} \cup S}

BlockConnected(p, b) ==
    /\ Answer(p, b) /\ ~HaveBlock(b) /\ parents[b] \subseteq have \cup {Genesis}
    /\ LET new == {b} \cup Adopted(b)
       IN  /\ have' = have \cup new /\ orphans' = orphans \ new
           /\ best' \in Tips(new)
    /\ idle' = IF p = syncPeer THEN 0 ELSE idle
    /\ UpdateHeights(p, have', [block |-> best', height |-> Highest(have'),
                                origin |-> p], FALSE)
    /\ \E e \in reqOrphanChildren(Answered(p, b), b, orphans') :
         Apply(p, IF height[b] = maxBlockHeight'[p]
                  THEN PushGetBlocksMsg(e, height[b], NoBlock) ELSE e)

\* peerHandler takes an UpdatePeerHeights call.
handleUpdatePeerHeights(u) ==
    LET raised == {p \in connected \ {u.origin} : lastAnnounced[p] = u.block}
    IN  /\ u \in updates /\ updates' = updates \ {u}
        /\ maxBlockHeight' = [p \in Peer |->
              IF p \in raised THEN Max({maxBlockHeight[p], u.height})
              ELSE maxBlockHeight[p]]
        /\ lastAnnounced' = [p \in Peer |->
              IF p \in raised THEN NoBlock ELSE lastAnnounced[p]]
        /\ UNCHANGED <<chain, peerStates, requests, sync, startingHeight,
                       prevGetBlocks, connected, toPeer, fromPeer, remote,
                       bounds>>

-----------------------------------------------------------------------------
(* The peers: the same program at the other end of a connection.            *)

Reads(p, type) ==
    /\ p \in connected \ hung /\ toPeer[p] # <<>>
    /\ Head(toPeer[p]).type = type
    /\ toPeer' = [toPeer EXCEPT ![p] = Tail(@)]
    /\ UNCHANGED <<chain, peerStates, requests, sync, belief, startingHeight,
                   prevGetBlocks, connected, peerHas, hung, bounds>>

\* The blocks above a height, up to the highest or to the height of the stop
\* block, lowest first, as many as fit a message; blocks of one height come in
\* an order of the peer's.
locateInventory(p, from, stop) ==
    LET top == IF stop = NoBlock THEN Highest(peerHas[p]) ELSE height[stop]
        all == {b \in peerHas[p] : from < height[b] /\ height[b] <= top}
        s == CHOOSE t \in Listings(all) :
               \A i, j \in 1..Len(t) : i < j => height[t[i]] <= height[t[j]]
    IN  IF stop # NoBlock /\ stop \notin peerHas[p] THEN <<>>
        ELSE SubSeq(s, 1, Min({Len(s), MaxBlocksPerMsg}))

\* An empty inventory is sent too, but our OnInv drops it.
OnGetBlocks(p) ==
    /\ Reads(p, "getblocks")
    /\ LET m == Head(toPeer[p])
           inv == locateInventory(p, m.from, m.stop)
       IN  /\ continueHash' = [continueHash EXCEPT ![p] =
                 IF Len(inv) = MaxBlocksPerMsg THEN inv[Len(inv)] ELSE @]
           /\ fromPeer' = IF inv = <<>> THEN fromPeer
                 ELSE [fromPeer EXCEPT ![p] =
                         Append(@, [type |-> "inv", blocks |-> inv])]

\* One block of a getdata: the block if the peer has it, and after the last
\* block of a full inventory the prompt to ask for more.
pushBlockMsg(p, a, b) ==
    IF b \notin peerHas[p] THEN a
    ELSE IF a.continue = b
    THEN [out |-> a.out \o <<[type |-> "block", block |-> b],
                             [type |-> "more"]>>,
          continue |-> NoBlock]
    ELSE [a EXCEPT !.out = Append(@, [type |-> "block", block |-> b])]

\* The answer to a getdata.
Pushed(p, bs) ==
    LET after[n \in 0..Len(bs)] ==
          IF n = 0 THEN [out |-> <<>>, continue |-> continueHash[p]]
          ELSE pushBlockMsg(p, after[n - 1], bs[n])
    IN  after[Len(bs)]

OnGetData(p) ==
    /\ Reads(p, "getdata")
    /\ LET a == Pushed(p, Head(toPeer[p]).blocks)
       IN  /\ fromPeer' = [fromPeer EXCEPT ![p] = @ \o a.out]
           /\ continueHash' = [continueHash EXCEPT ![p] = a.continue]

\* A peer gets a block of its own or from elsewhere and relays it.
Relay(p) ==
    /\ \E b \in Growth[p] \ peerHas[p] :
         /\ parents[b] \subseteq peerHas[p] \cup {Genesis}
         /\ peerHas' = [peerHas EXCEPT ![p] = @ \cup {b}]
         /\ fromPeer' = IF p \notin connected THEN fromPeer
              ELSE [fromPeer EXCEPT ![p] =
                      Append(@, [type |-> "inv", blocks |-> <<b>>])]
    /\ UNCHANGED <<chain, peerStates, requests, sync, belief, startingHeight,
                   prevGetBlocks, connected, toPeer, continueHash, hung,
                   bounds>>

\* A peer relays transactions.
RelayTx(p) ==
    /\ p \in connected \ hung /\ Event
    /\ fromPeer' = [fromPeer EXCEPT ![p] =
                      Append(@, [type |-> "inv", blocks |-> <<>>])]
    /\ UNCHANGED <<chain, peerStates, requests, sync, belief, startingHeight,
                   prevGetBlocks, connected, toPeer, remote, connects>>

\* A peer stops answering; what it sent is still on its way.
Hang(p) ==
    /\ p \in connected \ hung /\ Event
    /\ hung' = hung \cup {p}
    /\ toPeer' = [toPeer EXCEPT ![p] = <<>>]
    /\ UNCHANGED <<chain, peerStates, requests, sync, belief, startingHeight,
                   prevGetBlocks, connected, fromPeer, peerHas, continueHash,
                   connects>>

\* The connection is lost.
Drop(p) ==
    /\ p \in connected /\ Event
    /\ connected' = connected \ {p}
    /\ UNCHANGED <<chain, peerStates, requests, sync, belief, startingHeight,
                   prevGetBlocks, toPeer, fromPeer, remote, connects>>

-----------------------------------------------------------------------------
handleBlockMsg(p) ==
    \/ BlockUnrequested(p)
    \/ \E b \in Block : BlockKnown(p, b) \/ BlockOrphaned(p, b)
                         \/ BlockConnected(p, b)

\* The sync manager's goroutine takes the next message of a connection.
Handle(p) == handleMoreInv(p) \/ handleInvMsg(p) \/ handleBlockMsg(p)

Serve(p) == OnGetBlocks(p) \/ OnGetData(p)

Next ==
    \/ Tick
    \/ \E u \in updates : handleUpdatePeerHeights(u)
    \/ \E p \in Peer :
        \/ handleNewPeerMsg(p) \/ handleDonePeerMsg(p)
        \/ Handle(p) \/ Serve(p)
        \/ Relay(p) \/ RelayTx(p) \/ Hang(p) \/ Drop(p)

Spec == Init /\ [][Next]_vars

\* What steps of Handle, Serve and handleDonePeerMsg do to the queues.
Takes(p) ==
    /\ p \in peerStates /\ fromPeer[p] # <<>>
    /\ fromPeer' = [fromPeer EXCEPT ![p] = Tail(@)]

Answers(p) ==
    /\ p \in connected \ hung /\ toPeer[p] # <<>>
    /\ toPeer' = [toPeer EXCEPT ![p] = Tail(@)]

Leaves(p) == p \in peerStates \ connected /\ peerStates' = peerStates \ {p}

\* What a Tick does to idle when no answer is on its way.
Passes == ~Busy /\ idle < StallTicks /\ idle' \in 0..StallTicks

\* Time passes, the sync manager takes every message and every report of a
\* closed connection, and peers that answer do so.  Nothing says that a
\* connection is made, that a peer gets a block or that it relays one.
Fairness ==
    /\ WF_idle(Passes)
    /\ \A p \in Peer : /\ WF_fromPeer(Takes(p))
                       /\ WF_toPeer(Answers(p))
                       /\ WF_peerStates(Leaves(p))

FairSpec == Spec /\ Fairness

-----------------------------------------------------------------------------
\* The sync peer is a peer that is still there, and what the manager tracks
\* are blocks.
TypeOK ==
    /\ have \subseteq Block /\ orphans \subseteq Block
    /\ best \in have \cup {Genesis}
    /\ syncPeer \in peerStates \cup {NoPeer}
    /\ connected \subseteq peerStates
    /\ \A p \in Peer : peerReqs[p] \in UNION {[B -> 0..RequestLife] :
                                              B \in SUBSET Block}
    /\ requestedBlocks \in UNION {[B -> 0..RequestLife] : B \in SUBSET Block}

\* The blocks on their way from a peer, asked for or sent.
Coming(p) ==
    (UNION {Range(toPeer[p][i].blocks) : i \in
              {j \in DOMAIN toPeer[p] : toPeer[p][j].type = "getdata"}})
    \cup {fromPeer[p][i].block : i \in
             {j \in DOMAIN fromPeer[p] : fromPeer[p][j].type = "block"}}

\* A request in the global map keeps the block from being asked for again; it
\* is always the request of a peer that is still there, so it ends with the
\* answer or with that peer.
RequestsBacked ==
    DOMAIN requestedBlocks
        \subseteq UNION {DOMAIN peerReqs[p] : p \in peerStates}

\* A block that was asked of a peer and that we still lack is accepted from it
\* when it comes: handleBlockMsg does not take it for an unrequested one,
\* whatever expired, was cleared or was asked of somebody else meanwhile.
NeededAnswerAccepted ==
    \A p \in connected : \A b \in Coming(p) :
        b \in DOMAIN peerReqs[p] \/ HaveBlock(b)

\* Sync mode is left only when we are as high as the peer we synced with, or
\* it is gone.
SyncLeftCaughtUp ==
    [][\A p \in Peer :
         (syncPeer = p /\ syncPeer' = NoPeer /\ p \in peerStates')
             => Highest(have') >= maxBlockHeight'[p]]_vars

\* No peer holds up the node: a sync reaches the height of its peer, or goes
\* on with another one or with none, also when the peer never answers or has
\* been credited with blocks it does not have.
SyncMovesOn ==
    \A p \in Peer :
        syncPeer = p ~> (syncPeer # p \/ MaxHeight >= maxBlockHeight[p])

=============================================================================
