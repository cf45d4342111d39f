--------------------------- MODULE TxPool_proofs ---------------------------
(***************************************************************************)
(* Proofs about the pool's indexes and about orphans that double spend,    *)
(* for any transactions, blocks and order of the blocks.                   *)
(***************************************************************************)
EXTENDS TxPool, FiniteSetTheorems, Induction, TLAPS

Types ==
    /\ pool \in SUBSET Tx
    /\ outpoints \in [OutPoint -> Tx \cup {NoTx}]
    /\ orphans \in [Tx -> Tag \cup {NoTag}]
    /\ orphansByPrev \in [OutPoint -> SUBSET Tx]
    /\ processList \in Seq(Tx)
    /\ accepted \in SUBSET Tx
    /\ toClean \in Seq(Tx)

\* Outside processOrphans nothing is waiting for its double spends to be
\* removed; inside it, a block that is being announced has transactions left.
Locked ==
    /\ lock = "free" => accepted = {}
    /\ lock = "block" => toClean # <<>>

\* The inductive invariant: OrphansCompatible needs both indexes, since a double
\* spend is found and removed through them.
PoolInv ==
    /\ Types /\ Locked
    /\ PoolIndexed /\ OrphansIndexed /\ OrphansCompatible

-----------------------------------------------------------------------------
\* Removing orphans with their redeemers removes orphans only, and all those
\* it was asked to remove.
LEMMA OrphanRedeemersBounds ==
    ASSUME NEW S
    PROVE  /\ OrphanRedeemers(S) \subseteq Orphans
           /\ S \cap Orphans \subseteq OrphanRedeemers(S)
BY DEF OrphanRedeemers, Reach

\* removeTransaction keeps outpoints the index of the pool: an output is freed
\* only when its one spender goes.
LEMMA removeTransactionsIndexed ==
    ASSUME Types, PoolIndexed, NEW S, removeTransactions(S)
    PROVE  /\ pool' \in SUBSET Tx /\ pool' \subseteq pool
           /\ outpoints' \in [OutPoint -> Tx \cup {NoTx}]
           /\ PoolIndexed'
<1>1. pool' \in SUBSET Tx /\ pool' \subseteq pool
  BY DEF Types, removeTransactions
<1>2. outpoints' \in [OutPoint -> Tx \cup {NoTx}]
  BY DEF Types, removeTransactions
<1>3. ASSUME NEW o \in OutPoint, NEW t \in Tx
      PROVE  outpoints'[o] = t <=> t \in pool' /\ o \in inputs[t]
  <2>1. outpoints'[o] = IF \E u \in S \cap pool : o \in inputs[u]
                        THEN NoTx ELSE outpoints[o]
    BY DEF removeTransactions
  <2>2. outpoints[o] = t <=> t \in pool /\ o \in inputs[t]
    BY DEF PoolIndexed
  <2>3. \A u \in pool : u \in Tx
    BY DEF Types
  <2>4. CASE \E u \in S \cap pool : o \in inputs[u]
    <3>1. PICK u \in S \cap pool : o \in inputs[u]
      BY <2>4
    <3>2. outpoints[o] = u
      BY <3>1, <2>3 DEF PoolIndexed
    <3>3. NoTx # t
      BY TxAssumption
    <3>4. QED BY <2>1, <2>2, <2>4, <3>1, <3>2, <3>3 DEF removeTransactions
  <2>5. CASE ~\E u \in S \cap pool : o \in inputs[u]
    BY <2>1, <2>2, <2>5 DEF removeTransactions
  <2>6. QED BY <2>4, <2>5
<1>4. QED BY <1>1, <1>2, <1>3 DEF PoolIndexed

\* addTransaction keeps it the index when checkPoolDoubleSpend has passed.
LEMMA addTransactionIndexed ==
    ASSUME Types, PoolIndexed, NEW t \in Tx, checkPoolDoubleSpend(t),
           addTransaction(t)
    PROVE  /\ pool' \in SUBSET Tx
           /\ outpoints' \in [OutPoint -> Tx \cup {NoTx}]
           /\ PoolIndexed'
<1>1. pool' \in SUBSET Tx /\ outpoints' \in [OutPoint -> Tx \cup {NoTx}]
  BY DEF Types, addTransaction
<1>2. ASSUME NEW o \in OutPoint, NEW u \in Tx
      PROVE  outpoints'[o] = u <=> u \in pool' /\ o \in inputs[u]
  <2>1. outpoints'[o] = IF o \in inputs[t] THEN t ELSE outpoints[o]
    BY DEF addTransaction
  <2>2. outpoints[o] = u <=> u \in pool /\ o \in inputs[u]
    BY DEF PoolIndexed
  <2>3. o \in inputs[t] => outpoints[o] = NoTx /\ NoTx # u
    BY TxAssumption DEF checkPoolDoubleSpend
  <2>4. QED BY <2>1, <2>2, <2>3 DEF addTransaction
<1>3. QED BY <1>1, <1>2 DEF PoolIndexed

\* removeOrphan keeps orphansByPrev the index of the orphans.
LEMMA removeOrphansIndexed ==
    ASSUME Types, OrphansIndexed, NEW S, removeOrphans(S)
    PROVE  /\ orphans' \in [Tx -> Tag \cup {NoTag}]
           /\ orphansByPrev' \in [OutPoint -> SUBSET Tx]
           /\ OrphansIndexed'
           /\ Orphans' = Orphans \ S
<1>1. orphans' \in [Tx -> Tag \cup {NoTag}] /\ orphansByPrev' \in [OutPoint -> SUBSET Tx]
  BY DEF Types, removeOrphans
<1>2. Orphans' = Orphans \ S
  BY DEF Orphans, removeOrphans, Types
<1>3. OrphansIndexed'
  BY <1>2 DEF OrphansIndexed, removeOrphans
<1>4. QED BY <1>1, <1>2, <1>3

\* When only orphans go, or transactions leave the pool, no double spend
\* appears.
LEMMA FewerCompatible ==
    ASSUME OrphansCompatible, Orphans' \subseteq Orphans, pool' \subseteq pool,
           accepted' = accepted
    PROVE  OrphansCompatible'
BY DEF OrphansCompatible

\* maybeAcceptTransaction lets no transaction pass that spends what the pool
\* spends.
LEMMA PassedCheck ==
    ASSUME NEW t \in Tx, NEW r \in BOOLEAN,
           \/ "accept" \in maybeAcceptTransaction(t, r)
           \/ "missing" \in maybeAcceptTransaction(t, r)
    PROVE  checkPoolDoubleSpend(t)
BY DEF maybeAcceptTransaction

-----------------------------------------------------------------------------
\* Both indexes are empty at the start.
LEMMA InitInv == Init => PoolInv
<1> SUFFICES ASSUME Init PROVE PoolInv
  OBVIOUS
<1>1. Types
  BY DEF Init, Types
<1>2. Locked
  BY DEF Init, Locked
<1>3. Orphans = {}
  BY DEF Init, Orphans
<1>4. PoolIndexed
  BY TxAssumption DEF Init, PoolIndexed
<1>5. OrphansIndexed /\ OrphansCompatible
  BY <1>3 DEF Init, OrphansIndexed, OrphansCompatible
<1>6. QED BY <1>1, <1>2, <1>4, <1>5 DEF PoolInv

\* A step that leaves the pool and the orphans alone keeps the invariant.
LEMMA FramePreserves ==
    ASSUME PoolInv, UNCHANGED <<index, oindex>>,
           processList' \in Seq(Tx), toClean' \in Seq(Tx),
           accepted' \in SUBSET Tx, accepted \subseteq accepted',
           Locked'
    PROVE  PoolInv'
<1>1. Types'
  BY DEF PoolInv, Types, index, oindex
<1>2. Orphans' = Orphans
  BY DEF oindex, Orphans
<1>3. PoolIndexed'
  BY DEF PoolInv, PoolIndexed, index
<1>4. OrphansIndexed'
  BY <1>2 DEF PoolInv, OrphansIndexed, oindex
<1>5. OrphansCompatible'
  BY <1>2 DEF PoolInv, OrphansCompatible, index
<1>6. QED BY <1>1, <1>3, <1>4, <1>5 DEF PoolInv

\* A step that removes orphans only keeps the invariant.
LEMMA RemovalPreserves ==
    ASSUME PoolInv, NEW S, removeOrphans(S), UNCHANGED index,
           processList' \in Seq(Tx), toClean' = toClean,
           accepted' = accepted, lock' = lock
    PROVE  PoolInv'
<1>1. Types /\ PoolIndexed /\ OrphansIndexed /\ OrphansCompatible /\ Locked
  BY DEF PoolInv
<1>2. /\ orphans' \in [Tx -> Tag \cup {NoTag}]
      /\ orphansByPrev' \in [OutPoint -> SUBSET Tx]
      /\ OrphansIndexed' /\ Orphans' = Orphans \ S
  BY <1>1, removeOrphansIndexed
<1>3. Types'
  BY <1>1, <1>2 DEF Types, index
<1>4. PoolIndexed'
  BY <1>1 DEF PoolIndexed, index
<1>5. OrphansCompatible'
  BY <1>1, <1>2, FewerCompatible DEF index
<1>6. Locked'
  BY <1>1 DEF Locked
<1>7. QED BY <1>2, <1>3, <1>4, <1>5, <1>6 DEF PoolInv

\* A step that removes transactions from the pool only keeps the invariant.
LEMMA PoolRemovalPreserves ==
    ASSUME PoolInv, NEW S, removeTransactions(S), UNCHANGED oindex,
           UNCHANGED process, UNCHANGED toClean
    PROVE  PoolInv'
<1>1. Types /\ PoolIndexed /\ OrphansIndexed /\ OrphansCompatible /\ Locked
  BY DEF PoolInv
<1>2. /\ pool' \in SUBSET Tx /\ pool' \subseteq pool
      /\ outpoints' \in [OutPoint -> Tx \cup {NoTx}] /\ PoolIndexed'
  BY <1>1, removeTransactionsIndexed
<1>3. Types'
  BY <1>1, <1>2 DEF Types, oindex, process
<1>4. Orphans' = Orphans
  BY DEF oindex, Orphans
<1>5. OrphansIndexed'
  BY <1>1, <1>4 DEF OrphansIndexed, oindex
<1>6. OrphansCompatible'
  BY <1>1, <1>2, <1>4, FewerCompatible DEF process
<1>7. Locked'
  BY <1>1 DEF Locked, process
<1>8. QED BY <1>2, <1>3, <1>5, <1>6, <1>7 DEF PoolInv

\* Accepting a transaction adds it to the index; the orphans that spend what it
\* spends are then due for removal.
LEMMA AcceptPreserves ==
    ASSUME PoolInv, AcceptTransaction
    PROVE  PoolInv'
<1>1. Types /\ PoolIndexed /\ OrphansIndexed /\ OrphansCompatible /\ Locked
  BY DEF PoolInv
<1>2. PICK t \in Tx : /\ "accept" \in maybeAcceptTransaction(t, TRUE)
                      /\ addTransaction(t)
                      /\ processList' = <<t>> /\ accepted' = {t}
  BY Zenon DEF AcceptTransaction
<1>3. lock = "free" /\ lock' = "tx" /\ UNCHANGED <<oindex, clean>>
  BY DEF AcceptTransaction
<1>4. checkPoolDoubleSpend(t)
  BY <1>2, PassedCheck, Zenon
<1>5. /\ pool' \in SUBSET Tx /\ PoolIndexed'
      /\ outpoints' \in [OutPoint -> Tx \cup {NoTx}]
  BY <1>1, <1>2, <1>4, addTransactionIndexed
<1>6. Types'
  BY <1>1, <1>2, <1>3, <1>5 DEF Types, oindex, clean
<1>7. Locked'
  BY <1>3 DEF Locked
<1>8. Orphans' = Orphans
  BY <1>3 DEF Orphans, oindex
<1>9. OrphansIndexed'
  BY <1>1, <1>3, <1>8 DEF OrphansIndexed, oindex
<1>10. accepted = {} /\ pool' = pool \cup {t}
  BY <1>1, <1>2, <1>3 DEF Locked, addTransaction
<1>11. OrphansCompatible'
  BY <1>1, <1>2, <1>8, <1>10 DEF OrphansCompatible
<1>12. QED BY <1>5, <1>6, <1>7, <1>9, <1>11 DEF PoolInv

\* A new orphan spends nothing the pool spends, since it passed the same check.
LEMMA addOrphanPreserves ==
    ASSUME PoolInv, addOrphan
    PROVE  PoolInv'
<1>1. Types /\ PoolIndexed /\ OrphansIndexed /\ OrphansCompatible /\ Locked
  BY DEF PoolInv
<1>2. PICK t \in Tx, tag \in Tag, expired \in SUBSET Orphans :
        /\ "missing" \in maybeAcceptTransaction(t, TRUE)
        /\ \E out \in limitNumOrphans(Orphans \ OrphanRedeemers(expired)) :
             LET gone == OrphanRedeemers(expired) \cup out IN
             /\ orphans' = [u \in Tx |-> IF u = t THEN tag
                               ELSE IF u \in gone THEN NoTag ELSE orphans[u]]
             /\ orphansByPrev' = [o \in OutPoint |->
                   (orphansByPrev[o] \ gone) \cup
                   (IF o \in inputs[t] THEN {t} ELSE {})]
  BY Zenon DEF addOrphan
<1>3. UNCHANGED <<index, process, clean>>
  BY DEF addOrphan
<1>4. PICK gone :
        /\ orphans' = [u \in Tx |-> IF u = t THEN tag
                          ELSE IF u \in gone THEN NoTag ELSE orphans[u]]
        /\ orphansByPrev' = [o \in OutPoint |->
              (orphansByPrev[o] \ gone) \cup
              (IF o \in inputs[t] THEN {t} ELSE {})]
  BY <1>2, Zenon
<1>5. Orphans' = (Orphans \ gone) \cup {t}
  BY <1>4, TxAssumption DEF Orphans
<1>6. orphans' \in [Tx -> Tag \cup {NoTag}]
  BY <1>1, <1>4 DEF Types
<1>7. orphansByPrev' \in [OutPoint -> SUBSET Tx]
  BY <1>1, <1>4 DEF Types
<1>8. Types'
  BY <1>1, <1>3, <1>6, <1>7 DEF Types, index, process, clean
<1>9. Locked' /\ PoolIndexed'
  BY <1>1, <1>3 DEF Locked, PoolIndexed, index, process, clean
<1>10. OrphansIndexed'
  <2> SUFFICES ASSUME NEW o \in OutPoint
               PROVE  orphansByPrev'[o] = {u \in Orphans' : o \in inputs[u]}
    BY DEF OrphansIndexed
  <2>1. orphansByPrev[o] = {u \in Orphans : o \in inputs[u]}
    BY <1>1 DEF OrphansIndexed
  <2>2. orphansByPrev'[o] = (orphansByPrev[o] \ gone) \cup
                            (IF o \in inputs[t] THEN {t} ELSE {})
    BY <1>4
  <2>3. QED BY <2>1, <2>2, <1>5
<1>11. OrphansCompatible'
  <2>1. ASSUME NEW u \in pool PROVE inputs[t] \cap inputs[u] = {}
    <3>1. checkPoolDoubleSpend(t)
      BY <1>2, PassedCheck, Zenon
    <3>2. u \in Tx /\ NoTx # u
      BY <1>1, TxAssumption DEF Types
    <3>3. \A o \in inputs[u] : o \in OutPoint /\ outpoints[o] = u
      BY <1>1, <3>2, TxAssumption DEF PoolIndexed
    <3>4. QED BY <3>1, <3>2, <3>3 DEF checkPoolDoubleSpend
  <2>2. pool' = pool /\ accepted' = accepted
    BY <1>3 DEF index, process
  <2>3. QED BY <1>1, <1>5, <2>1, <2>2 DEF OrphansCompatible
<1>12. QED BY <1>8, <1>9, <1>10, <1>11 DEF PoolInv

\* An orphan that is tried goes with its redeemers, stays, or moves to the
\* pool; what it spends is then due for the removal of double spends.
LEMMA TryOrphanPreserves ==
    ASSUME PoolInv, TryOrphan
    PROVE  PoolInv'
<1>1. Types /\ PoolIndexed /\ OrphansIndexed /\ OrphansCompatible /\ Locked
  BY DEF PoolInv
<1>2. lock # "free" /\ processList # <<>> /\ UNCHANGED <<lock, clean>>
  BY DEF TryOrphan
<1>3. processList \in Seq(Tx) /\ Tail(processList) \in Seq(Tx) /\ toClean' \in Seq(Tx)
  BY <1>1, <1>2 DEF Types, clean
<1>4. Head(processList) \in OutPoint
  BY <1>1, <1>2 DEF Types, OutPoint
<1>5. PICK t \in orphansByPrev[Head(processList)] \ tried :
         \/ /\ removeOrphans(OrphanRedeemers({t}))
            /\ processList' = Tail(processList)
            /\ UNCHANGED <<index, accepted>>
         \/ UNCHANGED <<index, oindex, processList, accepted>>
         \/ /\ "accept" \in maybeAcceptTransaction(t, FALSE)
            /\ addTransaction(t)
            /\ removeOrphans({t})
            /\ processList' = Append(Tail(processList), t)
            /\ accepted' = accepted \cup {t}
  BY Zenon DEF TryOrphan
<1>6. t \in Tx
  BY <1>1, <1>4, <1>5 DEF Types
<1>7. CASE /\ removeOrphans(OrphanRedeemers({t}))
           /\ processList' = Tail(processList)
           /\ UNCHANGED <<index, accepted>>
  BY <1>2, <1>3, <1>7, RemovalPreserves DEF clean
<1>8. CASE UNCHANGED <<index, oindex, processList, accepted>>
  BY <1>1, <1>2, <1>3, <1>8, FramePreserves DEF Types, Locked, clean
<1>9. CASE /\ "accept" \in maybeAcceptTransaction(t, FALSE)
           /\ addTransaction(t)
           /\ removeOrphans({t})
           /\ processList' = Append(Tail(processList), t)
           /\ accepted' = accepted \cup {t}
  <2>1. checkPoolDoubleSpend(t)
    BY <1>6, <1>9, PassedCheck, Zenon
  <2>2. /\ pool' \in SUBSET Tx /\ PoolIndexed'
        /\ outpoints' \in [OutPoint -> Tx \cup {NoTx}]
    BY <1>1, <1>6, <1>9, <2>1, addTransactionIndexed
  <2>3. /\ orphans' \in [Tx -> Tag \cup {NoTag}]
        /\ orphansByPrev' \in [OutPoint -> SUBSET Tx]
        /\ OrphansIndexed' /\ Orphans' = Orphans \ {t}
    BY <1>1, <1>9, removeOrphansIndexed
  <2>4. Types'
    BY <1>1, <1>3, <1>6, <1>9, <2>2, <2>3 DEF Types
  <2>5. Locked'
    BY <1>1, <1>2 DEF Locked, clean
  <2>6. pool' = pool \cup {t}
    BY <1>9 DEF addTransaction
  <2>7. OrphansCompatible'
    BY <1>1, <1>9, <2>3, <2>6 DEF OrphansCompatible
  <2>8. QED BY <2>2, <2>3, <2>4, <2>5, <2>7 DEF PoolInv
<1>10. QED BY <1>5, <1>7, <1>8, <1>9, Zenon

\* At the end of processOrphans the orphans that double spend are found through
\* orphansByPrev, so none is left.
LEMMA OrphansProcessedPreserves ==
    ASSUME PoolInv, OrphansProcessed
    PROVE  PoolInv'
<1>1. Types /\ PoolIndexed /\ OrphansIndexed /\ OrphansCompatible /\ Locked
  BY DEF PoolInv
<1>2. /\ removeOrphans(OrphanDoubleSpends(accepted))
      /\ accepted' = {} /\ UNCHANGED <<index, processList>>
  BY DEF OrphansProcessed
<1>3. toClean' \in Seq(Tx)
  BY <1>1, SMTT(20) DEF OrphansProcessed, Types, Locked, clean
<1>4. /\ orphans' \in [Tx -> Tag \cup {NoTag}]
      /\ orphansByPrev' \in [OutPoint -> SUBSET Tx]
      /\ OrphansIndexed' /\ Orphans' = Orphans \ OrphanDoubleSpends(accepted)
  BY <1>1, <1>2, removeOrphansIndexed
<1>5. Types'
  BY <1>1, <1>2, <1>3, <1>4 DEF Types, index
<1>6. Locked'
  BY <1>2 DEF Locked, OrphansProcessed
<1>7. PoolIndexed'
  BY <1>1, <1>2 DEF PoolIndexed, index
<1>8. OrphansCompatible'
  <2> SUFFICES ASSUME NEW t \in Orphans', NEW u \in pool,
                      NEW o \in inputs[t] \cap inputs[u]
               PROVE  FALSE
    BY <1>2 DEF OrphansCompatible, index
  <2>1. t \in Orphans /\ t \notin OrphanDoubleSpends(accepted)
    BY <1>4
  <2>2. u \in accepted
    BY <1>1, <2>1 DEF OrphansCompatible
  <2>3. o \in OutPoint
    BY <2>1, TxAssumption DEF Orphans
  <2>4. t \in orphansByPrev[o]
    BY <1>1, <2>1, <2>3 DEF OrphansIndexed
  <2>5. t \in UNION {orphansByPrev[p] : p \in UNION {inputs[v] : v \in accepted}}
    BY <2>2, <2>4
  <2>6. t \in OrphanDoubleSpends(accepted)
    BY <2>1, <2>5, OrphanRedeemersBounds DEF OrphanDoubleSpends
  <2>7. QED BY <2>1, <2>6
<1>9. QED BY <1>4, <1>5, <1>6, <1>7, <1>8 DEF PoolInv

\* Every step keeps the invariant.
LEMMA NextInv == PoolInv /\ [Next]_vars => PoolInv'
<1> SUFFICES ASSUME PoolInv, [Next]_vars PROVE PoolInv'
  OBVIOUS
<1>1. Types /\ Locked
  BY DEF PoolInv
<1>2. CASE connectBlock
  <2>1. toClean' \in Seq(Tx)
    BY <1>2, TxAssumption DEF connectBlock
  <2>2. UNCHANGED <<index, oindex, process>>
    BY <1>2 DEF connectBlock
  <2>3. Locked'
    BY <1>1, <1>2, <2>2 DEF Locked, connectBlock, process
  <2>4. QED BY <1>1, <2>1, <2>2, <2>3, FramePreserves DEF Types, process
<1>3. CASE AcceptTransaction
  BY <1>3, AcceptPreserves
<1>4. CASE addOrphan
  BY <1>4, addOrphanPreserves
<1>5. CASE RemoveOrphansByTag
  <2>1. PICK tag \in Tag :
          removeOrphans(OrphanRedeemers({t \in Tx : orphans[t] = tag}))
    BY <1>5, Zenon DEF RemoveOrphansByTag
  <2>2. UNCHANGED <<index, process, clean>>
    BY <1>5 DEF RemoveOrphansByTag
  <2>3. QED BY <1>1, <2>1, <2>2, RemovalPreserves DEF Types, process, clean
<1>6. CASE TryOrphan
  BY <1>6, TryOrphanPreserves
<1>7. CASE NextOutput
  <2>1. UNCHANGED <<index, oindex, lock, accepted, clean>> /\ processList # <<>>
        /\ processList' = Tail(processList)
    BY <1>7 DEF NextOutput
  <2>2. processList' \in Seq(Tx)
    BY <1>1, <2>1 DEF Types
  <2>3. QED BY <1>1, <2>1, <2>2, FramePreserves DEF Types, Locked, clean
<1>8. CASE OrphansProcessed
  BY <1>8, OrphansProcessedPreserves
<1>9. CASE BlockRemoveTransaction
  BY <1>9, PoolRemovalPreserves DEF BlockRemoveTransaction
<1>10. CASE BlockRemoveDoubleSpends
  <2>1. \E S : removeTransactions(S)
    BY <1>10 DEF BlockRemoveDoubleSpends
  <2>2. UNCHANGED <<oindex, process, toClean>>
    BY <1>10 DEF BlockRemoveDoubleSpends
  <2>3. QED BY <2>1, <2>2, PoolRemovalPreserves
<1>11. CASE BlockRemoveOrphan
  <2>1. removeOrphans({Head(toClean)}) /\ UNCHANGED <<index, process, toClean>>
    BY <1>11 DEF BlockRemoveOrphan
  <2>2. QED BY <1>1, <2>1, RemovalPreserves DEF Types, process
<1>12. CASE BlockProcessOrphans
  <2>1. /\ toClean # <<>> /\ lock = "free" /\ lock' = "block"
        /\ processList' = <<Head(toClean)>> /\ accepted' = {Head(toClean)}
        /\ UNCHANGED <<index, oindex, clean>>
    BY <1>12 DEF BlockProcessOrphans
  <2>2. Head(toClean) \in Tx
    BY <1>1, <2>1 DEF Types
  <2>3. QED BY <1>1, <2>1, <2>2, FramePreserves DEF Types, Locked, clean
<1>13. CASE UNCHANGED vars
  BY <1>1, <1>13, FramePreserves
     DEF vars, index, oindex, process, clean, Types, Locked
<1>14. QED
  BY <1>2, <1>3, <1>4, <1>5, <1>6, <1>7, <1>8, <1>9, <1>10, <1>11, <1>12,
     <1>13 DEF Next

\* The pool never holds two transactions that spend the same output, and knows
\* the spender of each: for any transactions and any order of the blocks.
THEOREM PoolAlwaysIndexed == Spec => []PoolIndexed
<1>1. PoolInv => PoolIndexed
  BY DEF PoolInv
<1>2. QED BY <1>1, InitInv, NextInv, PTL DEF Spec

\* orphansByPrev never loses an orphan and never names one that has gone.
THEOREM OrphansAlwaysIndexed == Spec => []OrphansIndexed
<1>1. PoolInv => OrphansIndexed
  BY DEF PoolInv
<1>2. QED BY <1>1, InitInv, NextInv, PTL DEF Spec

\* Between calls no orphan spends what the pool spends.
THEOREM OrphansAlwaysCompatible == Spec => []OrphansCompatible
<1>1. PoolInv => OrphansCompatible
  BY DEF PoolInv
<1>2. QED BY <1>1, InitInv, NextInv, PTL DEF Spec
-----------------------------------------------------------------------------
\* What is true of every view of the replay.
Sound(v) ==
    /\ \A t, u \in v.accepted : inputs[t] \cap inputs[u] # {} => t = u
    /\ \A t \in v.accepted : inputs[t] \subseteq Coin \cup v.accepted
    /\ v.unspent = (Coin \cup v.accepted) \ UNION {inputs[t] : t \in v.accepted}
    /\ v.unspent \cap v.ignored = {}

View ==
    {v \in [unspent : SUBSET OutPoint, spent : SUBSET OutPoint,
            ignored : SUBSET OutPoint, accepted : SUBSET Tx] : Sound(v)}

\* A transaction keeps the view sound, also when it comes for the second time:
\* its inputs are spent then.
LEMMA TransactionKeepsView ==
    ASSUME NEW v \in View, NEW t \in Tx
    PROVE  connectTransactionForSorting(v, t) \in View
<1> DEFINE known == v.unspent \cup v.spent \cup v.ignored
           spends == UNION {inputs[u] : u \in v.accepted}
           w == connectTransactionForSorting(v, t)
<1>1. /\ v \in [unspent : SUBSET OutPoint, spent : SUBSET OutPoint,
                ignored : SUBSET OutPoint, accepted : SUBSET Tx]
      /\ Sound(v) /\ t \in OutPoint /\ t \notin Coin
      /\ inputs[t] \in SUBSET OutPoint /\ inputs[t] # {}
  BY TxAssumption DEF View, OutPoint
<1>2. CASE ~(inputs[t] \subseteq known)
  <2>1. w = v
    BY <1>2 DEF connectTransactionForSorting
  <2>2. QED
    BY <2>1
<1>3. CASE inputs[t] \subseteq known /\ ~(inputs[t] \subseteq v.unspent)
  <2>1. w = [v EXCEPT !.ignored = @ \cup ({t} \ known)]
    BY <1>3 DEF connectTransactionForSorting
  <2>2. /\ w \in [unspent : SUBSET OutPoint, spent : SUBSET OutPoint,
                  ignored : SUBSET OutPoint, accepted : SUBSET Tx]
        /\ w.unspent = v.unspent /\ w.accepted = v.accepted
        /\ w.ignored = v.ignored \cup ({t} \ known)
    BY <1>1, <2>1
  <2>3. QED
    BY <1>1, <2>2 DEF View, Sound
<1>4. CASE inputs[t] \subseteq known /\ inputs[t] \subseteq v.unspent
  <2>1. w = [v EXCEPT !.unspent = (@ \ inputs[t]) \cup {t},
                      !.spent = (@ \cup inputs[t]) \ {t},
                      !.ignored = @ \ {t},
                      !.accepted = @ \cup {t}]
    BY <1>4 DEF connectTransactionForSorting
  <2>2. /\ w \in [unspent : SUBSET OutPoint, spent : SUBSET OutPoint,
                  ignored : SUBSET OutPoint, accepted : SUBSET Tx]
        /\ w.unspent = (v.unspent \ inputs[t]) \cup {t}
        /\ w.ignored = v.ignored \ {t}
        /\ w.accepted = v.accepted \cup {t}
    <3> HIDE DEF w, known, spends
    <3>1. w = [unspent |-> (v.unspent \ inputs[t]) \cup {t},
               spent |-> (v.spent \cup inputs[t]) \ {t},
               ignored |-> v.ignored \ {t},
               accepted |-> v.accepted \cup {t}]
      BY <1>1, <2>1, Zenon
    <3>2. QED
      BY <1>1, <3>1
  <2>3. /\ \A x \in inputs[t] : x \in Coin \cup v.accepted /\ x \notin spends
        /\ \A x \in spends : x \in Coin \cup v.accepted
    BY <1>1, <1>4 DEF Sound
  <2>4. t \notin v.accepted
    <3>1. PICK x \in inputs[t] : TRUE
      BY <1>1
    <3>2. x \notin spends
      BY <2>3
    <3>3. QED
      BY <3>2
  <2>5. t \notin inputs[t] /\ t \notin spends
    BY <1>1, <2>3, <2>4
  <2>6. UNION {inputs[u] : u \in w.accepted} = spends \cup inputs[t]
    BY <2>2
  <2>7. w.unspent = (Coin \cup w.accepted) \ UNION {inputs[u] : u \in w.accepted}
    <3>1. v.unspent = (Coin \cup v.accepted) \ spends
      BY <1>1 DEF Sound
    <3> HIDE DEF spends, w
    <3>2. QED
      BY <2>2, <2>5, <2>6, <3>1
  <2>8. \A u \in v.accepted : inputs[u] \cap inputs[t] = {}
    BY <2>3
  <2>9. \A u1, u2 \in w.accepted : inputs[u1] \cap inputs[u2] # {} => u1 = u2
    BY <1>1, <2>2, <2>8 DEF Sound
  <2>10. \A u \in w.accepted : inputs[u] \subseteq Coin \cup w.accepted
    BY <1>1, <2>2, <2>3 DEF Sound
  <2>11. w.unspent \cap w.ignored = {}
    BY <1>1, <2>2 DEF Sound
  <2> HIDE DEF w
  <2>12. w \in View
    BY <2>2, <2>7, <2>9, <2>10, <2>11 DEF View, Sound
  <2>13. QED
    BY <2>12 DEF w
<1>5. QED
  BY <1>2, <1>3, <1>4

\* So do the transactions of a block, in their order.
LEMMA BlockKeepsView ==
    ASSUME NEW v \in View, NEW b \in Block
    PROVE  connectTransactionsForSorting(v, b) \in View
<1> DEFINE s == txns[b]
           L == Len(s)
           Def(f) == f = [n \in 0..L |-> IF n = 0 THEN v
                                ELSE connectTransactionForSorting(f[n - 1], s[n])]
           after == CHOOSE f : Def(f)
           g == [p \in View \X Tx |-> connectTransactionForSorting(p[1], p[2])]
<1>1. s \in Seq(Tx) /\ L \in Nat /\ \A n \in 1..L : s[n] \in Tx
  BY TxAssumption, SeqLen, SeqElement
<1>2. connectTransactionsForSorting(v, b) = after[L]
  BY DEF connectTransactionsForSorting
<1>3. \E f : Def(f)
  <2>1. g \in [View \X Tx -> View]
    BY TransactionKeepsView
  <2>2. PICK f \in [0..L -> View] :
          \A n \in 0..L : f[n] = IF n = 0 THEN v ELSE g[<<f[n - 1], s[n]>>]
    <3> HIDE DEF g
    <3>1. PICK f : Follows(f, View, v, g, s)
      BY <1>1, <2>1, AlongSequence, Zenon
    <3>2. QED
      BY <3>1, Zenon DEF Follows
  <2>3. ASSUME NEW n \in 0..L
        PROVE  f[n] = IF n = 0 THEN v ELSE connectTransactionForSorting(f[n - 1], s[n])
    <3>1. CASE n = 0
      BY <2>2, <3>1, Zenon
    <3>2. CASE n # 0
      <4>1. n \in 1..L /\ n - 1 \in 0..L
        BY <1>1, <3>2
      <4>2. <<f[n - 1], s[n]>> \in View \X Tx
        BY <1>1, <2>2, <4>1
      <4>3. g[<<f[n - 1], s[n]>>] = connectTransactionForSorting(f[n - 1], s[n])
        BY <4>2
      <4>4. QED
        BY <2>2, <3>2, <4>3, Zenon
    <3>3. QED
      BY <3>1, <3>2
  <2>4. Def(f)
    BY <2>2, <2>3
  <2>5. QED
    BY <2>4
<1>4. Def(after)
  BY <1>3, Zenon
<1> HIDE DEF after
<1>5. \A n \in 0..L : after[n] = IF n = 0 THEN v
                       ELSE connectTransactionForSorting(after[n - 1], s[n])
  BY <1>4, Zenon
<1> DEFINE S == {n \in 0..L : after[n] \in View}
<1>6. 0 \in S
  BY <1>1, <1>5
<1>7. ASSUME NEW n \in 1..L, n - 1 \in S PROVE n \in S
  <2>1. n \in 0..L /\ n # 0 /\ after[n - 1] \in View /\ s[n] \in Tx
    BY <1>1, <1>7
  <2>2. after[n] = connectTransactionForSorting(after[n - 1], s[n])
    BY <1>5, <2>1
  <2>3. QED
    BY <2>1, <2>2, TransactionKeepsView
<1>8. \A n \in 0..L : n \in S
  <2>1. \A n \in 1..L : n - 1 \in S => n \in S
    BY <1>7
  <2> HIDE DEF S
  <2>2. QED
    BY <1>1, <1>6, <2>1, UpTo, Zenon
<1>9. QED
  BY <1>1, <1>2, <1>8

\* So does the whole order.
LEMMA ReplayView ==
    ASSUME NEW s \in Seq(Block)
    PROVE  Replay(s) \in View
<1> DEFINE L == Len(s)
           Def(f) == f = [n \in 0..L |-> IF n = 0 THEN Coins
                                ELSE connectTransactionsForSorting(f[n - 1], s[n])]
           after == CHOOSE f : Def(f)
           g == [p \in View \X Block |-> connectTransactionsForSorting(p[1], p[2])]
<1>1. L \in Nat /\ \A n \in 1..L : s[n] \in Block
  BY SeqLen, SeqElement
<1>2. Replay(s) = after[L]
  BY DEF Replay
<1>3. Coins \in View
  BY DEF Coins, View, Sound, OutPoint
<1>4. \E f : Def(f)
  <2>1. g \in [View \X Block -> View]
    BY BlockKeepsView
  <2>2. PICK f \in [0..L -> View] :
          \A n \in 0..L : f[n] = IF n = 0 THEN Coins ELSE g[<<f[n - 1], s[n]>>]
    <3> HIDE DEF g
    <3>1. PICK f : Follows(f, View, Coins, g, s)
      BY <1>3, <2>1, AlongSequence, Zenon
    <3>2. QED
      BY <3>1, Zenon DEF Follows
  <2>3. ASSUME NEW n \in 0..L
        PROVE  f[n] = IF n = 0 THEN Coins
                      ELSE connectTransactionsForSorting(f[n - 1], s[n])
    <3>1. CASE n = 0
      BY <2>2, <3>1, Zenon
    <3>2. CASE n # 0
      <4>1. n \in 1..L /\ n - 1 \in 0..L
        BY <1>1, <3>2
      <4>2. <<f[n - 1], s[n]>> \in View \X Block
        BY <1>1, <2>2, <4>1, Zenon
      <4>3. g[<<f[n - 1], s[n]>>] = connectTransactionsForSorting(f[n - 1], s[n])
        BY <4>2
      <4>4. QED
        BY <2>2, <3>2, <4>3, Zenon
    <3>3. QED
      BY <3>1, <3>2
  <2>4. Def(f)
    BY <2>2, <2>3
  <2>5. QED
    BY <2>4
<1>5. Def(after)
  BY <1>4, Zenon
<1> HIDE DEF after
<1>6. \A n \in 0..L : after[n] = IF n = 0 THEN Coins
                       ELSE connectTransactionsForSorting(after[n - 1], s[n])
  BY <1>5
<1> DEFINE S == {n \in 0..L : after[n] \in View}
<1>7. 0 \in S
  BY <1>1, <1>3, <1>6
<1>8. ASSUME NEW n \in 1..L, n - 1 \in S PROVE n \in S
  <2>1. n \in 0..L /\ n # 0 /\ after[n - 1] \in View /\ s[n] \in Block
    BY <1>1, <1>8
  <2>2. after[n] = connectTransactionsForSorting(after[n - 1], s[n])
    BY <1>6, <2>1
  <2>3. QED
    BY <2>1, <2>2, BlockKeepsView
<1>9. \A n \in 0..L : n \in S
  <2>1. \A n \in 1..L : n - 1 \in S => n \in S
    BY <1>8
  <2> HIDE DEF S
  <2>2. QED
    BY <1>1, <1>7, <2>1, UpTo, Zenon
<1>10. QED
  BY <1>1, <1>2, <1>9

\* The bucket and the order, in which no block is missing from its place.
RowsInv == order \in Seq(Block) /\ RowsFollowOrder

\* A block changes both; nothing else does.
LEMMA RowsStep ==
    ASSUME RowsInv, [Next]_vars
    PROVE  RowsInv'
<1>1. CASE connectBlock
  <2>1. PICK b \in Block : order' \in Bijection(1..Len(order) + 1, Range(order) \cup {b})
    BY <1>1, Zenon DEF connectBlock
  <2>2. Len(order) + 1 \in Nat /\ Range(order) \in SUBSET Block
    <3>1. order \in [1..Len(order) -> Block] /\ Len(order) \in Nat
      BY SeqLen DEF RowsInv
    <3>2. QED
      BY <3>1 DEF Range
  <2>3. order' \in [1..Len(order) + 1 -> Range(order) \cup {b}]
    BY <2>1 DEF Bijection, Injection
  <2>4. order' \in [1..Len(order) + 1 -> Block]
    BY <2>2, <2>3
  <2>5. order' \in Seq(Block)
    BY <2>2, <2>4
  <2>6. Replay(order') \in View
    BY <2>5, ReplayView
  <2>7. rows' = (rows \ Replay(order').ignored) \cup Replay(order').unspent
    BY <1>1 DEF connectBlock, dbPutUtxoView
  <2>8. Replay(order').unspent \cap Replay(order').ignored = {}
    BY <2>6 DEF View, Sound
  <2>9. QED
    BY <2>5, <2>7, <2>8 DEF RowsInv, RowsFollowOrder
<1>2. CASE UNCHANGED dag
  BY <1>2 DEF dag, RowsInv, RowsFollowOrder
<1>3. connectBlock \/ UNCHANGED dag
  BY Zenon DEF Next, vars, AcceptTransaction, addOrphan, RemoveOrphansByTag, TryOrphan,
     NextOutput, OrphansProcessed, BlockRemoveTransaction, BlockRemoveDoubleSpends,
     BlockRemoveOrphan, BlockProcessOrphans
<1>4. QED
  BY <1>1, <1>2, <1>3

\* In the beginning there are only coins.
LEMMA RowsInit == Init => RowsInv
<1> SUFFICES ASSUME Init PROVE RowsInv
  OBVIOUS
<1>1. order = <<>> /\ rows = Coin
  BY DEF Init
<1>2. order \in Seq(Block) /\ Len(order) = 0
  BY <1>1, SeqEmpty
<1> DEFINE Def(f) == f = [n \in 0..0 |-> IF n = 0 THEN Coins
                               ELSE connectTransactionsForSorting(f[n - 1], order[n])]
           after == CHOOSE f : Def(f)
<1>3. Replay(order) = after[0]
  BY <1>2, Zenon DEF Replay
<1>4. Def([n \in 0..0 |-> Coins])
  OBVIOUS
<1>5. Def(after)
  BY <1>4, Zenon
<1> HIDE DEF after
<1>6. Replay(order) = Coins
  BY <1>3, <1>5
<1>7. QED
  BY <1>1, <1>2, <1>6 DEF RowsInv, RowsFollowOrder, Coins

\* The utxo bucket always follows the order.
THEOREM RowsAlwaysFollowOrder == Spec => []RowsFollowOrder
<1>1. RowsInv => RowsFollowOrder
  BY DEF RowsInv
<1>2. QED
  BY <1>1, RowsInit, RowsStep, PTL DEF Spec

\* The replay of every order that comes about spends no output twice, and only
\* outputs that it made.
THEOREM ReplayAlwaysSound == Spec => []ReplaySound
<1>1. RowsInv => ReplaySound
  <2> SUFFICES ASSUME RowsInv PROVE ReplaySound
    OBVIOUS
  <2>1. Replay(order) \in View
    BY ReplayView DEF RowsInv
  <2>2. QED
    BY <2>1, Zenon DEF View, Sound, ReplaySound
<1>2. QED
  BY <1>1, RowsInit, RowsStep, PTL DEF Spec

-----------------------------------------------------------------------------
\* The orphans are counted.
LimitInv == IsFiniteSet(Orphans) /\ OrphanTxLimit

\* An orphan is added within the limit.
LEMMA addOrphanLimit ==
    ASSUME PoolInv, LimitInv, addOrphan
    PROVE  LimitInv'
<1>1. PICK t \in Tx, tag \in Tag, expired \in SUBSET Orphans :
        /\ "missing" \in maybeAcceptTransaction(t, TRUE)
        /\ \E out \in limitNumOrphans(Orphans \ OrphanRedeemers(expired)) :
             LET gone == OrphanRedeemers(expired) \cup out IN
             /\ orphans' = [u \in Tx |-> IF u = t THEN tag
                               ELSE IF u \in gone THEN NoTag ELSE orphans[u]]
             /\ orphansByPrev' = [o \in OutPoint |->
                   (orphansByPrev[o] \ gone) \cup
                   (IF o \in inputs[t] THEN {t} ELSE {})]
  BY Zenon DEF addOrphan
<1> DEFINE left == Orphans \ OrphanRedeemers(expired)
<1>2. PICK out \in limitNumOrphans(left) :
        orphans' = [u \in Tx |-> IF u = t THEN tag
                     ELSE IF u \in OrphanRedeemers(expired) \cup out THEN NoTag
                     ELSE orphans[u]]
  BY <1>1, Zenon
<1>3. Orphans' = (left \ out) \cup {t}
  BY <1>2, TxAssumption DEF Orphans
<1>4. IsFiniteSet(left) /\ Cardinality(left) \in Nat /\ MaxOrphanTxs \in Nat \ {0}
      /\ Cardinality(left) <= MaxOrphanTxs
  <2>1. IsFiniteSet(Orphans) /\ left \subseteq Orphans
        /\ Cardinality(Orphans) <= MaxOrphanTxs
    BY DEF LimitInv, OrphanTxLimit
  <2>2. IsFiniteSet(left) /\ Cardinality(left) <= Cardinality(Orphans)
    BY <2>1, FS_Subset, Zenon
  <2>3. Cardinality(left) \in Nat /\ Cardinality(Orphans) \in Nat
    BY <2>1, <2>2, FS_CardinalityType
  <2>4. MaxOrphanTxs \in Nat \ {0}
    BY TxAssumption DEF addOrphan
  <2>5. QED
    BY <2>1, <2>2, <2>3, <2>4
<1> HIDE DEF left
<1>5. IsFiniteSet(left \ out) /\ Cardinality(left \ out) + 1 <= MaxOrphanTxs
      /\ Cardinality(left \ out) \in Nat
  <2>1. CASE Cardinality(left) + 1 <= MaxOrphanTxs
    <3>1. out = {}
      BY <1>2, <2>1 DEF limitNumOrphans
    <3>2. left \ out = left
      BY <3>1
    <3>3. QED
      BY <1>4, <2>1, <3>2
  <2>2. CASE ~(Cardinality(left) + 1 <= MaxOrphanTxs)
    <3>1. PICK u \in left : out = {u}
      BY <1>2, <2>2 DEF limitNumOrphans
    <3>2. IsFiniteSet(left \ {u}) /\ Cardinality(left \ {u}) = Cardinality(left) - 1
      BY <1>4, <3>1, FS_RemoveElement
    <3>3. Cardinality(left \ {u}) \in Nat
      BY <3>2, FS_CardinalityType
    <3>4. QED
      BY <1>4, <3>1, <3>2, <3>3
  <2>3. QED
    BY <2>1, <2>2
<1>6. IsFiniteSet(Orphans') /\ Cardinality(Orphans') <= Cardinality(left \ out) + 1
      /\ Cardinality(Orphans') \in Nat
  <2> DEFINE R == left \ out
  <2>1. IsFiniteSet(R) /\ Cardinality(R) \in Nat
    BY <1>5
  <2> HIDE DEF R
  <2>2. /\ IsFiniteSet(R \cup {t})
        /\ Cardinality(R \cup {t}) = IF t \in R THEN Cardinality(R)
                                     ELSE Cardinality(R) + 1
    BY <2>1, FS_AddElement
  <2>3. IsFiniteSet(R \cup {t}) /\ Cardinality(R \cup {t}) <= Cardinality(R) + 1
        /\ Cardinality(R \cup {t}) \in Nat
    BY <2>1, <2>2, FS_CardinalityType
  <2>4. QED
    BY <1>3, <2>3 DEF R
<1>7. QED
  BY <1>4, <1>5, <1>6 DEF LimitInv, OrphanTxLimit

\* All other steps only remove orphans.
LEMMA FewerOrphans ==
    ASSUME PoolInv, [Next]_vars, ~addOrphan
    PROVE  Orphans' \subseteq Orphans
<1>1. ASSUME NEW S, removeOrphans(S) PROVE Orphans' \subseteq Orphans
  BY <1>1, removeOrphansIndexed DEF PoolInv
<1>2. ASSUME UNCHANGED oindex PROVE Orphans' \subseteq Orphans
  BY <1>2 DEF oindex, Orphans
<1>3. UNCHANGED oindex \/ \E S : removeOrphans(S)
  BY Zenon DEF Next, vars, connectBlock, AcceptTransaction, RemoveOrphansByTag, TryOrphan,
     NextOutput, OrphansProcessed, BlockRemoveTransaction, BlockRemoveDoubleSpends,
     BlockRemoveOrphan, BlockProcessOrphans
<1>4. QED
  BY <1>1, <1>2, <1>3

\* The orphan pool always keeps to its limit.
THEOREM OrphansAlwaysLimited == Spec => []OrphanTxLimit
<1>1. Init => LimitInv
  <2> SUFFICES ASSUME Init PROVE LimitInv
    OBVIOUS
  <2>1. Orphans = {}
    BY DEF Init, Orphans
  <2>2. QED
    BY <2>1, FS_EmptySet, TxAssumption DEF LimitInv, OrphanTxLimit
<1>2. PoolInv /\ LimitInv /\ [Next]_vars => LimitInv'
  <2> SUFFICES ASSUME PoolInv, LimitInv, [Next]_vars, ~addOrphan PROVE LimitInv'
    BY addOrphanLimit
  <2>1. Orphans' \subseteq Orphans /\ IsFiniteSet(Orphans)
        /\ Cardinality(Orphans) <= MaxOrphanTxs
    BY FewerOrphans DEF LimitInv, OrphanTxLimit
  <2>2. IsFiniteSet(Orphans') /\ Cardinality(Orphans') <= Cardinality(Orphans)
    BY <2>1, FS_Subset, Zenon
  <2>3. Cardinality(Orphans') \in Nat /\ Cardinality(Orphans) \in Nat
    BY <2>1, <2>2, FS_CardinalityType
  <2>4. QED
    BY <2>1, <2>2, <2>3, TxAssumption DEF LimitInv, OrphanTxLimit
<1>3. LimitInv => OrphanTxLimit
  BY DEF LimitInv
<1>4. QED
  BY <1>1, <1>2, <1>3, InitInv, NextInv, PTL DEF Spec
=============================================================================
