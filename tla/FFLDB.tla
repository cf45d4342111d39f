------------------------------- MODULE FFLDB --------------------------------
(***************************************************************************)
(* The block database (database/ffldb): flat files of blocks, a leveldb    *)
(* store of metadata, and between a transaction and leveldb the cache of   *)
(* dbcache.go.                                                             *)
(*                                                                         *)
(* One read-write transaction runs at a time (writeLock).  Its commit is   *)
(* split at every write that a crash can separate from the next one, and   *)
(* at every point where a reader, which takes no lock but closeLock, can   *)
(* look at leveldb or at the cache.  A block is one unit of a file.        *)
(***************************************************************************)
EXTENDS Naturals, Sequences, Functions

CONSTANTS
    Block,            \* block hashes
    MetaValue,        \* values of the metadata key callers use
    None,             \* no value, no file, no transaction
    maxBlockFileSize, \* blocks in a file
    MaxFile,          \* bound: the last file number
    MaxBlocks,        \* bound: blocks stored by one transaction
    MaxTx,            \* bound: read-write transactions
    MaxFaults,        \* bound: I/O errors
    MaxCrashes        \* bound: how often the database goes down

VARIABLES
    ldb,          \* leveldb: a value for every key, None if absent
    cachedKeys,   \* dbCache.cachedKeys, None where nothing is cached
    cachedRemove, \* dbCache.cachedRemove
    files,        \* the block files
    synced,       \* how many units of each file have been synced
    cursor,       \* writeCursor.curFileNum and curOffset
    open,         \* writeCursor.curFile.file # nil
    pc,           \* next step of the read-write transaction
    tx,           \* its pending blocks, pendingKeys and pendingRemove
    reader,       \* step of a read-only transaction
    rsnap,        \* ... and what it sees
    seen,         \* the states committed while it took its snapshot
    txs, faults, crashes  \* transactions, I/O errors and crashes so far

cache  == <<cachedKeys, cachedRemove>>
store  == <<files, synced, cursor, open>>
read   == <<reader, rsnap, seen>>
vars   == <<ldb, cachedKeys, cachedRemove, files, synced, cursor, open, pc, tx,
            reader, rsnap, seen, txs, faults, crashes>>

\* blockidx rows, the write cursor row, and one key that stands for the rest.
Key == Block \cup {"writeLoc", "meta"}

FileNum == 0..MaxFile
Loc == [file : FileNum, off : 0..maxBlockFileSize]

\* A unit of a file that a failed write left behind.
Torn == "torn"

ASSUME ConstantsAssumption ==
    /\ maxBlockFileSize \in Nat \ {0} /\ MaxFile \in Nat /\ MaxBlocks \in Nat
    /\ "writeLoc" \notin Block /\ "meta" \notin Block
    /\ None \notin Loc /\ None \notin Seq(Block \cup {Torn})
    /\ None \notin [blocks : SUBSET Block, meta : MetaValue \cup {None}]

NoKeys == [k \in Key |-> None]
NoTx == [todo |-> <<>>, blocks |-> {}, keys |-> NoKeys, remove |-> {},
         old |-> [file |-> 0, off |-> 0]]

Before(a, b) == a.file < b.file \/ (a.file = b.file /\ a.off < b.off)

\* dbCacheSnapshot.Get, and fetchKey over it.
View(l, keys, remove) ==
    [k \in Key |-> IF k \in remove THEN None
                   ELSE IF keys[k] # None THEN keys[k] ELSE l[k]]

Latest == View(ldb, cachedKeys, cachedRemove)

\* Mutant: a key that is put again stays among the removed ones.
Merged_KeepsRemove ==
    /\ cachedKeys' = [k \in Key |-> IF k \in tx.remove THEN None
                                    ELSE IF tx.keys[k] # None THEN tx.keys[k]
                                    ELSE cachedKeys[k]]
    /\ cachedRemove' = cachedRemove \cup tx.remove

\* commitTx: the transaction's keys and removals join those of the cache.
Merged ==
    /\ cachedKeys' = [k \in Key |-> IF k \in tx.remove THEN None
                                    ELSE IF tx.keys[k] # None THEN tx.keys[k]
                                    ELSE cachedKeys[k]]
    /\ cachedRemove' = {k \in cachedRemove : tx.keys[k] = None} \cup tx.remove

-----------------------------------------------------------------------------
\* initDB on a new directory.
Init ==
    /\ ldb = [NoKeys EXCEPT !["writeLoc"] = [file |-> 0, off |-> 0]]
    /\ cachedKeys = NoKeys /\ cachedRemove = {}
    /\ files = [n \in FileNum |-> None]
    /\ synced = [n \in FileNum |-> 0]
    /\ cursor = [file |-> 0, off |-> 0]
    /\ open = FALSE
    /\ pc = "idle" /\ tx = NoTx
    /\ reader = "none" /\ rsnap = NoKeys /\ seen = {}
    /\ txs = 0 /\ faults = 0 /\ crashes = 0

Fault == faults < MaxFaults /\ faults' = faults + 1

\* The states a reader that is taking its snapshot may see.
Observe == seen' = IF reader = "half" THEN seen \cup {Latest'} ELSE seen

\* Update: begin(true), the caller's function, and the start of
\* writePendingAndCommit.  StoreBlock refuses a block that has a row.
Begin ==
    /\ pc = "idle" /\ txs < MaxTx
    /\ txs' = txs + 1
    /\ \E n \in 0..MaxBlocks :
       \E s \in Injection(1..n, {b \in Block : Latest[b] = None}),
          v \in MetaValue \cup {None}, touch \in BOOLEAN :
         /\ cursor.file + Len(s) <= MaxFile
         /\ touch \/ v = None
         /\ tx' = [todo   |-> s,
                   blocks |-> Range(s),
                   keys   |-> [NoKeys EXCEPT !["meta"] = v],
                   remove |-> IF touch /\ v = None THEN {"meta"} ELSE {},
                   old    |-> cursor]
    /\ pc' = "write"
    /\ UNCHANGED <<ldb, cache, store, read, faults, crashes>>

\* The caller's function returns an error: Rollback, or nothing to commit.
Rollback ==
    /\ pc = "write" /\ tx.old = cursor
    /\ pc' = "idle" /\ tx' = NoTx
    /\ UNCHANGED <<ldb, cache, store, read, faults, txs, crashes>>

\* writeBlock: the position of the next block, in a new file when this one is
\* full.
Target ==
    IF cursor.off + 1 > maxBlockFileSize
    THEN [file |-> cursor.file + 1, off |-> 0] ELSE cursor

Contents(n) == IF files[n] = None THEN <<>> ELSE files[n]

Overwrite(s, off, d) ==
    [i \in 1..(IF off < Len(s) THEN Len(s) ELSE off + 1) |->
        IF i = off + 1 THEN d ELSE s[i]]

\* writeBlock, and the row of the block in the transaction.  The file that is
\* left when a new one begins is closed, not synced.
WriteBlock ==
    /\ pc = "write" /\ tx.todo # <<>>
    /\ LET at == Target IN
         /\ files' = [files EXCEPT ![at.file] =
                        Overwrite(Contents(at.file), at.off, Head(tx.todo))]
         /\ synced' = [synced EXCEPT ![at.file] = IF @ > at.off THEN at.off ELSE @]
         /\ cursor' = [at EXCEPT !.off = @ + 1]
         /\ tx' = [tx EXCEPT !.todo = Tail(@), !.keys[Head(tx.todo)] = at]
    /\ open' = TRUE
    /\ UNCHANGED <<ldb, cache, pc, read, faults, txs, crashes>>

\* writeBlock fails: the file cannot be opened, nothing is written, or a part
\* of the block is, by which the cursor advances.
WriteFails ==
    /\ pc = "write" /\ tx.todo # <<>> /\ Fault
    /\ LET at    == Target
           stays == open /\ at.file = cursor.file
       IN  \/ /\ ~stays
              /\ cursor' = at /\ open' = FALSE
              /\ UNCHANGED <<files, synced>>
           \/ /\ cursor' = at /\ open' = TRUE
              /\ files' = [files EXCEPT ![at.file] = Contents(at.file)]
              /\ UNCHANGED synced
           \/ /\ cursor' = [at EXCEPT !.off = @ + 1] /\ open' = TRUE
              /\ files' = [files EXCEPT ![at.file] =
                             Overwrite(Contents(at.file), at.off, Torn)]
              /\ synced' = [synced EXCEPT ![at.file] =
                              IF @ > at.off THEN at.off ELSE @]
    /\ pc' = "rollback"
    /\ UNCHANGED <<ldb, cache, tx, read, txs, crashes>>

\* Mutant: the old file is emptied, not cut at the old offset.
handleRollback_Empties(old) ==
    /\ cursor' = old /\ open' = TRUE
    /\ files' = [n \in FileNum |-> IF n < old.file THEN files[n]
                                   ELSE IF n = old.file THEN <<>> ELSE None]
    /\ UNCHANGED <<synced, faults>>

\* handleRollback: delete the files after the old one, truncate and sync it.
\* An error ends it early; the cursor goes back in every case.  f is the file
\* at which the deletions stop.
handleRollback(old) ==
    LET closes == cursor.file > old.file
        Left(f) == [n \in FileNum |->
                      IF n > f /\ n <= cursor.file THEN None ELSE files[n]]
        Cut(s)  == SubSeq(s, 1, old.off)
        Lost(f) == [n \in FileNum |->
                      IF n > f /\ n <= cursor.file THEN 0 ELSE synced[n]]
    IN  /\ cursor' = old
        /\ IF cursor = old THEN UNCHANGED <<files, synced, open, faults>>
           ELSE \E f \in old.file..cursor.file :
             /\ \A n \in (f + 1)..cursor.file : files[n] # None
             /\ \/ /\ f > old.file
                   /\ \/ files[f] = None /\ UNCHANGED faults
                      \/ files[f] # None /\ Fault
                   /\ files' = Left(f) /\ synced' = Lost(f) /\ open' = FALSE
                \/ /\ f = old.file /\ Fault
                   /\ open' \in {open /\ ~closes, TRUE}
                   /\ files' = Left(f) /\ synced' = Lost(f)
                \/ /\ f = old.file
                   /\ open' = TRUE
                   /\ files' = [Left(f) EXCEPT ![f] = Cut(Contents(f))]
                   /\ \/ UNCHANGED faults
                         /\ synced' = [Lost(f) EXCEPT ![f] = old.off]
                      \/ Fault
                         /\ synced' = [Lost(f) EXCEPT ![f] =
                                         IF @ > old.off THEN old.off ELSE @]

\* writePendingAndCommit's rollback, after which it returns the error.
RollbackFiles ==
    /\ pc = "rollback"
    /\ handleRollback(tx.old)
    /\ pc' = "idle" /\ tx' = NoTx
    /\ UNCHANGED <<ldb, cache, read, txs, crashes>>

\* Mutant: the row says where the transaction began.
StoreCursor_Old ==
    /\ pc = "write" /\ tx.todo = <<>>
    /\ tx' = [tx EXCEPT !.keys["writeLoc"] = tx.old]
    /\ pc' = "commit"
    /\ UNCHANGED <<ldb, cache, store, read, faults, txs, crashes>>

\* writePendingAndCommit: the row of the write cursor.
StoreCursor ==
    /\ pc = "write" /\ tx.todo = <<>>
    /\ tx' = [tx EXCEPT !.keys["writeLoc"] = cursor]
    /\ pc' = "commit"
    /\ UNCHANGED <<ldb, cache, store, read, faults, txs, crashes>>

\* commitTx, when no flush is due.
CommitCached ==
    /\ pc = "commit"
    /\ Merged
    /\ pc' = "idle" /\ tx' = NoTx
    /\ UNCHANGED <<ldb, store, reader, rsnap, faults, txs, crashes>>
    /\ Observe

\* syncBlocks: the file of the write cursor, if it is open.
Synced ==
    IF open THEN [synced EXCEPT ![cursor.file] = Len(files[cursor.file])]
    ELSE synced

\* Mutant: the metadata is written first.
FlushSync_Skipped ==
    /\ pc = "commit"
    /\ pc' = "flush"
    /\ UNCHANGED <<ldb, cache, store, tx, read, faults, txs, crashes>>

\* commitTx, when a flush is due: flush syncs the blocks first.
FlushSync ==
    /\ pc = "commit"
    /\ synced' = Synced
    /\ pc' = "flush"
    /\ UNCHANGED <<ldb, cache, files, cursor, open, tx, read, faults, txs, crashes>>

\* flush: commitTreaps writes the cache to leveldb in one transaction ...
FlushCache ==
    /\ pc = "flush"
    /\ ldb' = Latest
    /\ pc' = "clear"
    /\ UNCHANGED <<cache, store, tx, read, faults, txs, crashes>>

\* ... and then the cache is emptied.
FlushClear ==
    /\ pc = "clear"
    /\ cachedKeys' = NoKeys /\ cachedRemove' = {}
    /\ pc' = "direct"
    /\ UNCHANGED <<ldb, store, tx, reader, rsnap, faults, txs, crashes>>
    /\ Observe

\* commitTx: after a flush the transaction itself goes to leveldb.
CommitDirect ==
    /\ pc = "direct"
    /\ ldb' = View(ldb, tx.keys, tx.remove)
    /\ pc' = "idle" /\ tx' = NoTx
    /\ UNCHANGED <<cache, store, reader, rsnap, faults, txs, crashes>>
    /\ Observe

\* An error of the sync or of either leveldb transaction ends the commit; the
\* block data stays where it is and the cursor stays behind it.
CommitFails ==
    /\ pc \in {"commit", "flush", "direct"} /\ Fault
    /\ pc' = "idle" /\ tx' = NoTx
    /\ UNCHANGED <<ldb, cache, store, read, txs, crashes>>

-----------------------------------------------------------------------------
\* View: begin(false) takes a snapshot of leveldb ...
ReaderLdb ==
    /\ pc \notin {"down", "reconcile"} /\ reader = "none"
    /\ reader' = "half" /\ rsnap' = ldb /\ seen' = {Latest}
    /\ UNCHANGED <<ldb, cache, store, pc, tx, faults, txs, crashes>>

\* ... and then the cache's trees.
ReaderCache ==
    /\ reader = "half"
    /\ reader' = "open"
    /\ rsnap' = View(rsnap, cachedKeys, cachedRemove)
    /\ UNCHANGED <<ldb, cache, store, pc, tx, seen, faults, txs, crashes>>

ReaderCloses ==
    /\ reader = "open"
    /\ reader' = "none" /\ rsnap' = NoKeys /\ seen' = {}
    /\ UNCHANGED <<ldb, cache, store, pc, tx, faults, txs, crashes>>

-----------------------------------------------------------------------------
GoDown ==
    /\ pc # "down" /\ crashes < MaxCrashes
    /\ crashes' = crashes + 1
    /\ pc' = "down" /\ tx' = NoTx
    /\ cachedKeys' = NoKeys /\ cachedRemove' = {}
    /\ cursor' = [file |-> 0, off |-> 0] /\ open' = FALSE
    /\ reader' = "none" /\ rsnap' = NoKeys /\ seen' = {}
    /\ UNCHANGED <<files, txs>>

\* The process ends; leveldb and the files stay.
Crash == GoDown /\ UNCHANGED <<ldb, synced, faults>>

\* Close: closeLock waits for every transaction, then the cache is flushed; an
\* error loses it.
Close ==
    /\ pc = "idle" /\ reader = "none"
    /\ GoDown
    /\ \/ ldb' = Latest /\ synced' = Synced /\ UNCHANGED faults
       \/ Fault /\ UNCHANGED ldb /\ synced' \in {synced, Synced}

\* scanBlockFiles: the end of the last file before the first gap.
Scanned ==
    LET found == {n \in FileNum : \A m \in 0..n : files[m] # None}
        last  == CHOOSE n \in found : \A m \in found : m <= n
    IN  IF found = {} THEN [file |-> 0, off |-> 0]
        ELSE [file |-> last, off |-> Len(files[last])]

\* reconcileDB: the files may be ahead of the metadata, never behind.
Reconcilable == ~Before(Scanned, ldb["writeLoc"])

\* openDB: newBlockStore scans the files.
OpenDB ==
    /\ pc = "down"
    /\ cursor' = Scanned
    /\ pc' = "reconcile"
    /\ UNCHANGED <<ldb, cache, files, synced, open, tx, read, faults, txs, crashes>>

\* reconcileDB: files that are ahead are rolled back.
Reconcile ==
    /\ pc = "reconcile" /\ Reconcilable
    /\ handleRollback(ldb["writeLoc"])
    /\ pc' = "idle"
    /\ UNCHANGED <<ldb, cache, tx, read, txs, crashes>>

-----------------------------------------------------------------------------
Write ==
    \/ WriteBlock \/ WriteFails \/ RollbackFiles \/ StoreCursor
    \/ CommitCached \/ FlushSync \/ FlushCache \/ FlushClear \/ CommitDirect
    \/ CommitFails

Reader == ReaderLdb \/ ReaderCache \/ ReaderCloses

Next ==
    \/ Begin \/ Rollback \/ Write \/ Reader
    \/ Crash \/ Close \/ OpenDB \/ Reconcile

Spec == Init /\ [][Next]_vars

-----------------------------------------------------------------------------
\* The data of b is where a row says.
Readable(b, at) ==
    /\ files[at.file] # None
    /\ at.off < Len(files[at.file])
    /\ files[at.file][at.off + 1] = b

RowsOf(m) == {b \in Block : m[b] # None}

\* A row that any transaction can see, of the latest state, of a snapshot taken
\* earlier or of what a crash would leave, leads to the data of its block:
\* rollbacks, failed commits and the truncation of a reconciliation never touch
\* data that a row names.
RowsReadable ==
    \A m \in {Latest, ldb, rsnap} : \A b \in RowsOf(m) : Readable(b, m[b])

\* At every moment a crash leaves files that reconcileDB can bring in line with
\* the metadata: the write cursor is committed after the data before it, and a
\* rollback never goes behind a committed cursor.
CrashReconcilable == Reconcilable

\* As long as no I/O error occurred, a row in leveldb whose block lies in the
\* file being written names synced data: syncBlocks comes before commitTreaps.
\* (Files that were left for a new one are closed without a sync.)
CurrentFileSynced ==
    (faults = 0 /\ pc \notin {"down", "reconcile"}) =>
        \A b \in RowsOf(ldb) :
            ldb[b].file = cursor.file => ldb[b].off < synced[cursor.file]

\* The database keeps the promise of TxStore: a transaction is visible, and
\* survives a crash, as a whole or not at all, whatever fails on the way.
Abstract(m) == [blocks |-> RowsOf(m), meta |-> m["meta"]]

Store == INSTANCE TxStore WITH
    state <- Abstract(Latest),
    saved <- Abstract(ldb),
    tx    <- IF pc \in {"idle", "down", "reconcile"} THEN None
             ELSE [blocks |-> tx.blocks,
                   meta   |-> View(Latest, tx.keys, tx.remove)["meta"]]

ImplementsTxStore == Store!Spec

\* Snapshot returns the database as it was at one moment, while it ran.
SnapshotIsAPoint == reader = "open" => rsnap \in seen

=============================================================================
