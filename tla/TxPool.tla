------------------------------- MODULE TxPool -------------------------------
(***************************************************************************)
(* The transaction pool (mempool/mempool.go), the unspent outputs the DAG  *)
(* keeps in its database (blockdag/utxoviewpoint.go, dagio.go) and the     *)
(* sync manager's work when a block is connected (netsync/manager.go).     *)
(*                                                                         *)
(* A transaction has one output, which is named like the transaction.      *)
(* Amounts, scripts, fees and locks are left out: a check of theirs is an  *)
(* outcome that is always possible.  The pool's lock is held over several  *)
(* steps; meanwhile blocks may be connected, which takes another lock.     *)
(***************************************************************************)
EXTENDS Naturals, Sequences, FiniteSets, Functions

CONSTANTS
    Tx,
    Coin,          \* outputs of blocks that nobody disputes
    inputs,        \* the outputs that a transaction spends
    Block,
    txns,          \* the transactions of a block, coinbase excepted
    Tag,           \* the peers that orphans are tagged with
    NoTx, NoTag,
    MaxOrphanTxs

OutPoint == Tx \cup Coin

ASSUME TxAssumption ==
    /\ Tx \cap Coin = {}
    /\ inputs \in [Tx -> (SUBSET OutPoint) \ {{}}]
    /\ txns \in [Block -> Seq(Tx)]
    /\ NoTx \notin Tx /\ NoTag \notin Tag
    /\ MaxOrphanTxs \in Nat

VARIABLES
    pool,          \* transactions in the pool
    outpoints,     \* for an output: the pool's transaction that spends it
    orphans,       \* for a transaction: its tag, when it is an orphan
    orphansByPrev, \* for an output: the orphans that spend it
    rows,          \* outputs with a row in the utxo bucket
    order,         \* the connected blocks, in the DAG's order
    lock,          \* who holds mp.mtx in processOrphans: "tx" or "block"
    processList,   \* processOrphans: transactions whose redeemers are due
    tried,         \* ... orphans tried for the first of them
    accepted,      \* ... the passed transaction and the accepted ones
    toClean,       \* transactions of the block that is being announced
    stage          \* ... and the call that is due for the first of them

index   == <<pool, outpoints>>
oindex  == <<orphans, orphansByPrev>>
dag     == <<rows, order>>
process == <<lock, processList, tried, accepted>>
clean   == <<toClean, stage>>
vars    == <<index, oindex, dag, process, clean>>

Orphans == {t \in Tx : orphans[t] # NoTag}

Init ==
    /\ pool = {} /\ outpoints = [o \in OutPoint |-> NoTx]
    /\ orphans = [t \in Tx |-> NoTag]
    /\ orphansByPrev = [o \in OutPoint |-> {}]
    /\ rows = Coin /\ order = <<>>
    /\ lock = "free" /\ processList = <<>> /\ tried = {} /\ accepted = {}
    /\ toClean = <<>> /\ stage = "remove"

-----------------------------------------------------------------------------
\* The utxo set.

\* Mutant: an output that is already spent does not count.
connectTransactionForSorting_Respends(view, t) ==
    LET known == view.unspent \cup view.spent \cup view.ignored IN
    CASE ~(inputs[t] \subseteq known) -> view
      [] inputs[t] \cap view.ignored # {} ->
           [view EXCEPT !.ignored = @ \cup ({t} \ known)]
      [] OTHER -> [view EXCEPT !.unspent = (@ \ inputs[t]) \cup {t},
                               !.spent = (@ \cup inputs[t]) \ {t},
                               !.ignored = @ \ {t},
                               !.accepted = @ \cup {t}]

\* One transaction of the replay: it is passed over when an input is unknown
\* (CheckTransactionInputs), and its output is ignored, unless the view has it,
\* when an input is spent or ignored.
connectTransactionForSorting(view, t) ==
    LET known == view.unspent \cup view.spent \cup view.ignored IN
    CASE ~(inputs[t] \subseteq known) -> view
      [] inputs[t] \subseteq known /\ ~(inputs[t] \subseteq view.unspent) ->
           [view EXCEPT !.ignored = @ \cup ({t} \ known)]
      [] inputs[t] \subseteq view.unspent ->
           [view EXCEPT !.unspent = (@ \ inputs[t]) \cup {t},
                        !.spent = (@ \cup inputs[t]) \ {t},
                        !.ignored = @ \ {t},
                        !.accepted = @ \cup {t}]

connectTransactionsForSorting(view, b) ==
    LET after[n \in 0..Len(txns[b])] ==
            IF n = 0 THEN view
            ELSE connectTransactionForSorting(after[n - 1], txns[b][n])
    IN  after[Len(txns[b])]

\* The view of the whole order, from the coins on; "accepted" is what spent its
\* inputs in it.
Coins == [unspent |-> Coin, spent |-> {}, ignored |-> {}, accepted |-> {}]

Replay(blocks) ==
    LET after[n \in 0..Len(blocks)] ==
            IF n = 0 THEN Coins
            ELSE connectTransactionsForSorting(after[n - 1], blocks[n])
    IN  after[Len(blocks)]

\* Mutant: rows of ignored outputs stay.
dbPutUtxoView_KeepsIgnored(view) == rows' = rows \cup view.unspent

\* Rows of spent outputs stay, rows of ignored ones go.
dbPutUtxoView(view) == rows' = (rows \ view.ignored) \cup view.unspent

\* checkConnectBlock: every input has a row, or is made earlier in the block.
InputsExist(b) ==
    \A i \in DOMAIN txns[b] :
        inputs[txns[b][i]] \subseteq rows \cup {txns[b][j] : j \in 1 .. i - 1}

\* The journal lists what the block spends, from the view: each input is known
\* to it, or the block is not connected.
getAllInputTxos(view, b) ==
    \A i \in DOMAIN txns[b] :
        inputs[txns[b][i]] \subseteq view.unspent \cup view.spent \cup view.ignored

\* A block is connected: PHANTOM may put the blocks in another order, and the
\* utxo set is computed anew.  The next block waits until this one has been
\* announced to the pool, since one goroutine does both.
connectBlock ==
    /\ toClean = <<>>
    /\ \E b \in Block \ Range(order) :
         /\ InputsExist(b)
         /\ order' \in Bijection(1..Len(order) + 1, Range(order) \cup {b})
         /\ getAllInputTxos(Replay(order'), b)
         /\ toClean' = txns[b]
    /\ dbPutUtxoView(Replay(order'))
    /\ stage' = "remove"
    /\ UNCHANGED <<index, oindex, process>>

-----------------------------------------------------------------------------
\* What follows from S along next, S included, in the set P.
Reach(S, next, P) ==
    {t \in P : \A T \in SUBSET P :
        (S \cap P \subseteq T /\ \A u \in T : next[u] \cap P \subseteq T)
            => t \in T}

\* Mutant: the index keeps them.
removeOrphans_KeepsPrev(S) ==
    /\ orphans' = [t \in Tx |-> IF t \in S THEN NoTag ELSE orphans[t]]
    /\ UNCHANGED orphansByPrev

\* removeOrphan for all of S; with redeemers: the orphans that spend their
\* outputs too, and so on.
removeOrphans(S) ==
    /\ orphans' = [t \in Tx |-> IF t \in S THEN NoTag ELSE orphans[t]]
    /\ orphansByPrev' = [o \in OutPoint |-> orphansByPrev[o] \ S]

OrphanRedeemers(S) == Reach(S, orphansByPrev, Orphans)

\* removeOrphanDoubleSpends for all of S.
OrphanDoubleSpends(S) ==
    OrphanRedeemers(UNION {orphansByPrev[o] : o \in UNION {inputs[t] : t \in S}})

\* Mutant: the outputs it spent stay taken.
removeTransactions_KeepsOutpoints(S) ==
    pool' = pool \ S /\ UNCHANGED outpoints

\* removeTransaction for all of S ...
removeTransactions(S) ==
    /\ pool' = pool \ S
    /\ outpoints' = [o \in OutPoint |->
          IF \E t \in S \cap pool : o \in inputs[t] THEN NoTx ELSE outpoints[o]]

\* ... with the redeemers the index knows of, and theirs.
Redeemers(S) == Reach(S, [t \in Tx |-> {outpoints[t]} \ {NoTx}], Tx)

addTransaction(t) ==
    /\ pool' = pool \cup {t}
    /\ outpoints' = [o \in OutPoint |-> IF o \in inputs[t] THEN t ELSE outpoints[o]]

checkPoolDoubleSpend(t) == \A o \in inputs[t] : outpoints[o] = NoTx

\* maybeAcceptTransaction: what it may come to.  An input is looked up among
\* the rows and then in the pool.
maybeAcceptTransaction(t, rejectDupOrphans) ==
    {"error"} \cup
    IF \/ t \in pool \/ (rejectDupOrphans /\ t \in Orphans)
       \/ ~checkPoolDoubleSpend(t) \/ t \in rows
    THEN {}
    ELSE IF inputs[t] \subseteq rows \cup pool THEN {"accept"} ELSE {"missing"}
-----------------------------------------------------------------------------
\* ProcessTransaction takes the lock; an accepted transaction leads to
\* processOrphans, still under the lock.
AcceptTransaction ==
    /\ lock = "free"
    /\ \E t \in Tx :
         /\ "accept" \in maybeAcceptTransaction(t, TRUE)
         /\ addTransaction(t)
         /\ processList' = <<t>> /\ accepted' = {t}
    /\ lock' = "tx"
    /\ UNCHANGED <<oindex, dag, tried, clean>>

\* Mutant: the new orphan is not counted.
limitNumOrphans_Late(left) == IF Cardinality(left) <= MaxOrphanTxs
                              THEN {{}} ELSE {{t} : t \in left}

\* limitNumOrphans: which of the orphans left may be evicted for a new one.
limitNumOrphans(left) == IF Cardinality(left) + 1 <= MaxOrphanTxs
                         THEN {{}} ELSE {{t} : t \in left}

\* ... and one with missing parents may become an orphan: orphans that have
\* expired go with their redeemers, then, if there is no room, any one goes
\* without.
addOrphan ==
    /\ lock = "free" /\ MaxOrphanTxs > 0
    /\ \E t \in Tx, tag \in Tag, expired \in SUBSET Orphans :
         /\ "missing" \in maybeAcceptTransaction(t, TRUE)
         /\ \E out \in limitNumOrphans(Orphans \ OrphanRedeemers(expired)) :
              LET gone == OrphanRedeemers(expired) \cup out IN
              /\ orphans' = [u \in Tx |-> IF u = t THEN tag
                                ELSE IF u \in gone THEN NoTag ELSE orphans[u]]
              /\ orphansByPrev' = [o \in OutPoint |->
                    (orphansByPrev[o] \ gone) \cup
                    (IF o \in inputs[t] THEN {t} ELSE {})]
    /\ UNCHANGED <<index, dag, process, clean>>

\* A peer has gone, and its orphans with it.
RemoveOrphansByTag ==
    /\ lock = "free"
    /\ \E tag \in Tag :
         removeOrphans(OrphanRedeemers({t \in Tx : orphans[t] = tag}))
    /\ UNCHANGED <<index, dag, process, clean>>

-----------------------------------------------------------------------------
\* processOrphans: an orphan that spends the first output of the list is tried.
\* When it is invalid or accepted the other ones are not.
TryOrphan ==
    /\ lock # "free" /\ processList # <<>>
    /\ \E t \in orphansByPrev[Head(processList)] \ tried :
         \/ /\ "error" \in maybeAcceptTransaction(t, FALSE)
            /\ removeOrphans(OrphanRedeemers({t}))
            /\ processList' = Tail(processList) /\ tried' = {}
            /\ UNCHANGED <<index, accepted>>
         \/ /\ "missing" \in maybeAcceptTransaction(t, FALSE)
            /\ tried' = tried \cup {t}
            /\ UNCHANGED <<index, oindex, processList, accepted>>
         \/ /\ "accept" \in maybeAcceptTransaction(t, FALSE)
            /\ addTransaction(t)
            /\ removeOrphans({t})
            /\ processList' = Append(Tail(processList), t) /\ tried' = {}
            /\ accepted' = accepted \cup {t}
    /\ UNCHANGED <<dag, lock, clean>>

NextOutput ==
    /\ lock # "free" /\ processList # <<>>
    /\ orphansByPrev[Head(processList)] \subseteq tried
    /\ processList' = Tail(processList) /\ tried' = {}
    /\ UNCHANGED <<index, oindex, dag, lock, accepted, clean>>

\* Mutant: orphans that spend what the accepted ones spend stay.
OrphansProcessed_Keeps ==
    /\ lock # "free" /\ processList = <<>>
    /\ lock' = "free" /\ accepted' = {}
    /\ IF lock = "block" THEN toClean' = Tail(toClean) /\ stage' = "remove"
                         ELSE UNCHANGED clean
    /\ UNCHANGED <<index, oindex, dag, processList, tried>>

\* The list is empty: double spends of what was accepted are removed.
OrphansProcessed ==
    /\ lock # "free" /\ processList = <<>>
    /\ removeOrphans(OrphanDoubleSpends(accepted))
    /\ lock' = "free" /\ accepted' = {}
    /\ IF lock = "block" THEN toClean' = Tail(toClean) /\ stage' = "remove"
                         ELSE UNCHANGED clean
    /\ UNCHANGED <<index, dag, processList, tried>>

-----------------------------------------------------------------------------
\* NTBlockConnected: four calls for each transaction of the block, each of
\* which takes the lock.
BlockRemoveTransaction ==
    /\ toClean # <<>> /\ stage = "remove" /\ lock = "free"
    /\ removeTransactions({Head(toClean)})
    /\ stage' = "double"
    /\ UNCHANGED <<oindex, dag, process, toClean>>

BlockRemoveDoubleSpends ==
    /\ toClean # <<>> /\ stage = "double" /\ lock = "free"
    /\ LET t == Head(toClean) IN
       removeTransactions(
           Redeemers({outpoints[o] : o \in inputs[t]} \ {NoTx, t}))
    /\ stage' = "orphan"
    /\ UNCHANGED <<oindex, dag, process, toClean>>

BlockRemoveOrphan ==
    /\ toClean # <<>> /\ stage = "orphan" /\ lock = "free"
    /\ removeOrphans({Head(toClean)})
    /\ stage' = "process"
    /\ UNCHANGED <<index, dag, process, toClean>>

BlockProcessOrphans ==
    /\ toClean # <<>> /\ stage = "process" /\ lock = "free"
    /\ lock' = "block"
    /\ processList' = <<Head(toClean)>> /\ accepted' = {Head(toClean)}
    /\ UNCHANGED <<index, oindex, dag, tried, clean>>

Next ==
    \/ connectBlock \/ AcceptTransaction \/ addOrphan \/ RemoveOrphansByTag
    \/ TryOrphan \/ NextOutput \/ OrphansProcessed
    \/ BlockRemoveTransaction \/ BlockRemoveDoubleSpends
    \/ BlockRemoveOrphan \/ BlockProcessOrphans

Spec == Init /\ [][Next]_vars

-----------------------------------------------------------------------------
\* outpoints is what checkPoolDoubleSpend and the removal of redeemers go by:
\* it names exactly the spender of every output the pool spends.  So no two
\* transactions of the pool spend the same output.
PoolIndexed ==
    \A o \in OutPoint, t \in Tx : outpoints[o] = t <=> t \in pool /\ o \in inputs[t]

\* orphansByPrev names exactly the orphans that spend an output, of whichever
\* limit, expiry, peer or block made the others go.
OrphansIndexed ==
    \A o \in OutPoint : orphansByPrev[o] = {t \in Orphans : o \in inputs[t]}

\* Between calls no orphan spends what a transaction of the pool spends, so an
\* orphan whose parents arrive is not a double spend; within processOrphans
\* only the transactions accepted there have such orphans.
OrphansCompatible ==
    \A t \in Orphans, u \in pool :
        inputs[t] \cap inputs[u] # {} => u \in accepted

\* The orphan pool keeps to its limit.
OrphanTxLimit == Cardinality(Orphans) <= MaxOrphanTxs

\* Whatever the order of the blocks, the replay spends no output twice, and
\* spends only outputs that it made.
ReplaySound ==
    LET view == Replay(order) IN
    /\ \A t, u \in view.accepted : inputs[t] \cap inputs[u] # {} => t = u
    /\ \A t \in view.accepted : inputs[t] \subseteq Coin \cup view.accepted
    /\ view.unspent = (Coin \cup view.accepted)
                          \ UNION {inputs[t] : t \in view.accepted}

\* The utxo bucket follows the order, also when blocks change places: it has
\* every output that is unspent, and none that is ignored.
RowsFollowOrder ==
    LET view == Replay(order) IN
    view.unspent \subseteq rows /\ view.ignored \cap rows = {}
=============================================================================
